------------------------ MODULE ProcessSupervisorProofs ------------------------
(***************************************************************************)
(* The table of the ProcessSupervisor for any number of callers and        *)
(* processes, and for any number of calls (the bound is not used but to    *)
(* bound the counter).                                                     *)
(***************************************************************************)
EXTENDS ProcessSupervisor, TLAPS

Calls == [id : Ids, number : Nat, asked : States, writes : States]

\* A call under way is one of Calls.
CallInv ==
  /\ call \in [Threads -> Calls \cup {None}]
  /\ \A t \in Threads : pc[t] # "idle" => call[t] \in Calls
  /\ latest \in [Ids -> SUBSET [number : Nat, writes : States]]

\* The last write of an entry is never dropped from the updates that count,
\* whatever calls are under way.
LastWriteCounts ==
  \A id \in Ids : latest[id] # {} => processes[id] \in {c.writes : c \in latest[id]}

Inv == SupervisorTypeOK /\ CallInv /\ LastWriteCounts

LEMMA InvInit == SupervisorInit => Inv
BY SupervisorAssumption DEF SupervisorInit, Inv, SupervisorTypeOK, CallInv, LastWriteCounts

LEMMA NewEntryKeeps ==
  ASSUME NEW id \in Ids, Inv, Start(id) \/ CreateProcessAsync(id)
  PROVE  Inv'
<1>1. /\ processes[id] = None /\ processes' = [processes EXCEPT ![id] = "Running"]
      /\ handle' = handle \/ handle' = [handle EXCEPT ![id] = "Running"]
      /\ UNCHANGED <<pc, call, calls, preceding, latest>>
  BY DEF Start, CreateProcessAsync, NewEntry
<1>2. /\ SupervisorTypeOK /\ CallInv /\ LastWriteCounts
      /\ "Running" \in States /\ "Running" # None
  BY SupervisorAssumption DEF Inv, States
<1>3. /\ processes' \in [Ids -> States \cup {None}] /\ handle' \in [Ids -> States \cup {None}]
      /\ processes'[id] = "Running"
      /\ \A i \in Ids : i # id => processes'[i] = processes[i] /\ handle'[i] = handle[i]
      /\ \A i \in Ids : handle[i] # None => handle'[i] # None
      /\ \A i \in Ids : processes[i] # None => processes'[i] # None
  BY <1>1, <1>2 DEF SupervisorTypeOK
<1>4. SupervisorTypeOK'
  <2>1. \A t \in Threads : pc[t] # "idle" => call[t].id \in Ids
    BY <1>2 DEF SupervisorTypeOK
  <2> QED
    BY <1>1, <1>2, <1>3, <2>1 DEF SupervisorTypeOK
<1>5. CallInv'
  BY <1>1, <1>2 DEF CallInv, Calls
<1>6. LastWriteCounts'
  BY <1>1, <1>2, <1>3 DEF SupervisorTypeOK, LastWriteCounts
<1> QED
  BY <1>4, <1>5, <1>6 DEF Inv

LEMMA BeginKeeps ==
  ASSUME NEW t \in Threads, NEW id \in Ids, NEW state \in States, NEW where \in {"argument", "get"},
         Inv, BeginCall(t, id, state, where),
         \/ where = "get" /\ UNCHANGED handle
         \/ handle[id] # None /\ handle' = [handle EXCEPT ![id] = state]
  PROVE  Inv'
<1>1. /\ calls < MaxCalls /\ calls' = calls + 1 /\ pc' = [pc EXCEPT ![t] = where]
      /\ call' = [call EXCEPT ![t] = [id |-> id, number |-> calls + 1,
                                      asked |-> state, writes |-> state]]
      /\ UNCHANGED <<processes, latest>>
  BY DEF BeginCall
<1>2. /\ SupervisorTypeOK /\ CallInv /\ LastWriteCounts
      /\ calls \in Nat /\ calls' \in 0..MaxCalls /\ MaxCalls \in Nat
  BY <1>1, SupervisorAssumption DEF Inv, SupervisorTypeOK
<1>3. [id |-> id, number |-> calls + 1, asked |-> state, writes |-> state] \in Calls
  BY <1>2 DEF Calls
<1>4. /\ handle' \in [Ids -> States \cup {None}]
      /\ \A i \in Ids : handle[i] # None => handle'[i] # None
      /\ \A i \in Ids : handle[i] = None => handle'[i] = None
      /\ where = "argument" => handle'[id] # None
  BY <1>2, SupervisorAssumption DEF SupervisorTypeOK, States
<1>5. CallInv'
  <2>1. \A u \in Threads : pc'[u] # "idle" => call'[u] \in Calls
    BY <1>1, <1>2, <1>3 DEF SupervisorTypeOK, CallInv
  <2> QED
    BY <1>1, <1>2, <1>3, <2>1 DEF CallInv
<1>6. SupervisorTypeOK'
  <2>1. pc' \in [Threads -> {"idle", "argument", "get", "put"}]
    BY <1>1, <1>2 DEF SupervisorTypeOK
  <2>2. \A u \in Threads : pc'[u] # "idle" =>
          call'[u].id \in Ids /\ {call'[u].asked, call'[u].writes} \subseteq States
    BY <1>5 DEF CallInv, Calls
  <2>3. ASSUME NEW u \in Threads
        PROVE  /\ pc'[u] = "argument" => handle'[call'[u].id] # None
               /\ pc'[u] = "put" => processes'[call'[u].id] # None
    <3>1. CASE u = t
      BY <1>1, <1>2, <1>4, <3>1 DEF SupervisorTypeOK, CallInv
    <3>2. CASE u # t
      <4>1. pc'[u] = pc[u] /\ call'[u] = call[u]
        BY <1>1, <1>2, <3>2 DEF SupervisorTypeOK, CallInv
      <4>2. pc[u] # "idle" => call[u].id \in Ids
        BY <1>2 DEF SupervisorTypeOK
      <4> QED
        BY <1>1, <1>2, <1>4, <4>1, <4>2 DEF SupervisorTypeOK
    <3> QED
      BY <3>1, <3>2
  <2> QED
    BY <1>1, <1>2, <1>4, <2>1, <2>2, <2>3 DEF SupervisorTypeOK
<1>7. LastWriteCounts'
  BY <1>1, <1>2 DEF LastWriteCounts
<1> QED
  BY <1>5, <1>6, <1>7 DEF Inv

LEMMA ReadArgumentKeeps ==
  ASSUME NEW t \in Threads, Inv, ReadArgument(t)
  PROVE  Inv'
<1>1. /\ pc[t] = "argument" /\ pc' = [pc EXCEPT ![t] = "get"]
      /\ call' = [call EXCEPT ![t].writes = handle[call[t].id]]
      /\ UNCHANGED <<processes, handle, calls, preceding, latest>>
  BY DEF ReadArgument
<1>2. SupervisorTypeOK /\ CallInv /\ LastWriteCounts /\ call[t] \in Calls
  BY <1>1 DEF Inv, CallInv
<1>3. handle[call[t].id] \in States
  BY <1>1, <1>2 DEF SupervisorTypeOK, CallInv, Calls
<1>4. call'[t] \in Calls /\ call' \in [Threads -> Calls \cup {None}]
  BY <1>1, <1>2, <1>3 DEF CallInv, Calls
<1>5. CallInv'
  BY <1>1, <1>2, <1>4 DEF SupervisorTypeOK, CallInv
<1>6. SupervisorTypeOK'
  <2>1. \A u \in Threads : pc'[u] # "idle" =>
          call'[u].id \in Ids /\ {call'[u].asked, call'[u].writes} \subseteq States
    BY <1>5 DEF CallInv, Calls
  <2> QED
    BY <1>1, <1>2, <2>1 DEF SupervisorTypeOK
<1>7. LastWriteCounts'
  BY <1>1, <1>2 DEF LastWriteCounts
<1> QED
  BY <1>5, <1>6, <1>7 DEF Inv

LEMMA GetKeeps ==
  ASSUME NEW t \in Threads, Inv, Get(t)
  PROVE  Inv'
BY DEF Get, Inv, SupervisorTypeOK, CallInv, LastWriteCounts

LEMMA PutKeeps ==
  ASSUME NEW t \in Threads, Inv, Put(t)
  PROVE  Inv'
<1> DEFINE id == call[t].id
           c == [number |-> call[t].number, writes |-> call[t].writes]
<1>1. /\ pc[t] = "put" /\ pc' = [pc EXCEPT ![t] = "idle"]
      /\ processes' = [processes EXCEPT ![id] = call[t].writes]
      /\ latest' = [latest EXCEPT ![id] = (@ \ preceding[t]) \cup {c}]
      /\ UNCHANGED <<handle, call, calls, preceding>>
  BY DEF Put, Counted
<1>2. SupervisorTypeOK /\ CallInv /\ LastWriteCounts /\ call[t] \in Calls
  BY <1>1 DEF Inv, CallInv
<1>3. /\ id \in Ids /\ call[t].writes \in States /\ call[t].writes # None
      /\ c \in [number : Nat, writes : States] /\ c.writes = call[t].writes
  BY <1>2, SupervisorAssumption DEF Calls, States
<1> HIDE DEF c, id
<1>4. /\ processes'[id] = c.writes /\ latest'[id] = (latest[id] \ preceding[t]) \cup {c}
      /\ \A i \in Ids : i # id => processes'[i] = processes[i] /\ latest'[i] = latest[i]
      /\ processes' \in [Ids -> States \cup {None}]
      /\ latest' \in [Ids -> SUBSET [number : Nat, writes : States]]
  BY <1>1, <1>2, <1>3 DEF SupervisorTypeOK, CallInv
<1>5. CallInv'
  BY <1>1, <1>2, <1>4 DEF SupervisorTypeOK, CallInv
<1>6. SupervisorTypeOK'
  BY <1>1, <1>2, <1>3, <1>4 DEF SupervisorTypeOK
<1>7. LastWriteCounts'
  BY <1>2, <1>4 DEF LastWriteCounts
<1> QED
  BY <1>5, <1>6, <1>7 DEF Inv

LEMMA InvStep == Inv /\ [SupervisorNext]_supervisorVars => Inv'
<1> SUFFICES ASSUME Inv, [SupervisorNext]_supervisorVars PROVE Inv'
  OBVIOUS
<1>1. CASE UNCHANGED supervisorVars
  BY <1>1 DEF supervisorVars, Inv, SupervisorTypeOK, CallInv, LastWriteCounts
<1>2. ASSUME NEW id \in Ids, Start(id) \/ CreateProcessAsync(id) PROVE Inv'
  BY <1>2, NewEntryKeeps
<1>3. ASSUME NEW t \in Threads, NEW id \in Ids,
             \/ KillAsync(t, id) \/ RestartAsync(t, id) \/ StopAsync(t, id) \/ StartAsync(t, id)
      PROVE  Inv'
  BY <1>3, BeginKeeps DEF KillAsync, RestartAsync, StopAsync, StartAsync, SetState, States
<1>4. ASSUME NEW t \in Threads, ReadArgument(t) \/ Get(t) \/ Put(t) PROVE Inv'
  BY <1>4, ReadArgumentKeeps, GetKeeps, PutKeeps
<1> QED
  BY <1>1, <1>2, <1>3, <1>4 DEF SupervisorNext

\* For any number of callers and calls: a handle exists only for a process with
\* an entry, entries and handles are Running or Stopped, and a call under way
\* works on a process that is there: it has found the entry it is going to
\* replace, or holds the handle whose state it is going to read
\* (ProcessSupervisorProvider.cs).
THEOREM TypeCorrect == SupervisorSpec => []SupervisorTypeOK
<1>1. Inv => SupervisorTypeOK
  BY DEF Inv
<1> QED
  BY <1>1, InvInit, InvStep, PTL DEF SupervisorSpec

\* For any number of callers and calls: what the supervisor lists for a
\* process is what one of the last updates passed to it.
THEOREM LastUpdateDecidesCorrect == SupervisorSpec => []LastUpdateDecides
<1>1. Inv => LastUpdateDecides
  BY DEF Inv, LastWriteCounts, LastUpdateDecides
<1> QED
  BY <1>1, InvInit, InvStep, PTL DEF SupervisorSpec
=============================================================================
