-------------------------- MODULE ProcessSupervisor --------------------------
(***************************************************************************)
(* DefaultProcessSupervisorProvider and its StandardManagedProcess         *)
(* handles: the state of a logical process is kept twice, in the table of  *)
(* the supervisor and in the handle that CreateProcessAsync returned.      *)
(* KillAsync and RestartAsync change the table; StopAsync and StartAsync   *)
(* of a handle change the handle, read it back and then change the table.  *)
(* An update of the table is a TryGetValue followed by a separate write of *)
(* the whole entry.  ProcessSupervisorProvider is the same without the     *)
(* handles.                                                                *)
(*                                                                         *)
(* Start makes an entry without a handle.  Of an entry only the state is   *)
(* kept: the other fields never change.                                    *)
(***************************************************************************)
EXTENDS Naturals, FiniteSets

CONSTANTS Threads,    \* concurrent callers
          Ids,        \* the Guids Start can draw
          None,       \* no entry, no handle
          MaxCalls    \* bound on the calls made

ASSUME SupervisorAssumption ==
  /\ None \notin Ids \cup {"Running", "Stopped"}
  /\ MaxCalls \in Nat

VARIABLES
  processes,   \* _processes: id -> state, None = no entry
  handle,      \* id -> StandardManagedProcess.State, None = no handle
  pc,          \* thread -> "idle", "argument", "get" or "put"
  call,        \* thread -> its call: [id, asked, writes]
  \* History, read by the properties only:
  calls,       \* number of calls made
  preceding,   \* thread -> calls that had returned when its call began
  latest       \* id -> returned calls that no returned call came wholly after

supervisorVars == <<processes, handle, pc, call, calls, preceding, latest>>

States == {"Running", "Stopped"}

SupervisorInit ==
  /\ processes = [id \in Ids |-> None]
  /\ handle = [id \in Ids |-> None]
  /\ pc = [t \in Threads |-> "idle"]
  /\ call = [t \in Threads |-> None]
  /\ calls = 0
  /\ preceding = [t \in Threads |-> {}]
  /\ latest = [id \in Ids |-> {}]

InCall(id) == \E t \in Threads : pc[t] # "idle" /\ call[t].id = id

\* An entry under a new Guid, which nobody can have used.
NewEntry(id) ==
  /\ processes[id] = None /\ ~InCall(id)
  /\ processes' = [processes EXCEPT ![id] = "Running"]
  /\ UNCHANGED <<pc, call, calls, preceding, latest>>

\* Start returns the entry and no handle.
Start(id) == NewEntry(id) /\ UNCHANGED handle

\* CreateProcessAsync makes a handle of what Start returned.
CreateProcessAsync(id) ==
  /\ NewEntry(id)
  /\ handle' = [handle EXCEPT ![id] = "Running"]

BeginCall(t, id, state, where) ==
  /\ pc[t] = "idle" /\ calls < MaxCalls
  /\ calls' = calls + 1
  /\ pc' = [pc EXCEPT ![t] = where]
  /\ call' = [call EXCEPT ![t] = [id |-> id, number |-> calls + 1,
                                  asked |-> state, writes |-> state]]
  /\ preceding' = [preceding EXCEPT ![t] = latest[id]]
  /\ UNCHANGED <<processes, latest>>

\* KillAsync and RestartAsync, for any id, known or not.
KillAsync(t, id) == BeginCall(t, id, "Stopped", "get") /\ UNCHANGED handle
RestartAsync(t, id) == BeginCall(t, id, "Running", "get") /\ UNCHANGED handle

\* StopAsync and StartAsync of a handle assign State first.
SetState(t, id, state) ==
  /\ handle[id] # None
  /\ BeginCall(t, id, state, "argument")
  /\ handle' = [handle EXCEPT ![id] = state]
StopAsync(t, id) == SetState(t, id, "Stopped")
StartAsync(t, id) == SetState(t, id, "Running")

\* _update(Id, State): the argument is read from the handle, not from the call.
ReadArgument(t) ==
  /\ pc[t] = "argument"
  /\ call' = [call EXCEPT ![t].writes = handle[call[t].id]]
  /\ pc' = [pc EXCEPT ![t] = "get"]
  /\ UNCHANGED <<processes, handle, calls, preceding, latest>>

Counted(t) ==
  latest' = [latest EXCEPT ![call[t].id] =
               (@ \ preceding[t]) \cup {[number |-> call[t].number, writes |-> call[t].writes]}]

\* CoreProcessOption: TryGetValue.
Get(t) ==
  /\ pc[t] = "get"
  /\ pc' = [pc EXCEPT ![t] = IF processes[call[t].id] = None THEN "idle" ELSE "put"]
  /\ UNCHANGED <<processes, handle, call, calls, preceding, latest>>

\* A stopped process is dropped from the table.
Put_DropsStopped(t) ==
  /\ pc[t] = "put"
  /\ processes' = [processes EXCEPT ![call[t].id] =
                     IF call[t].writes = "Stopped" THEN None ELSE "Running"]
  /\ pc' = [pc EXCEPT ![t] = "idle"]
  /\ Counted(t)
  /\ UNCHANGED <<handle, call, calls, preceding>>

\* A stopped process is never written again.
Put_StoppedIsFinal(t) ==
  /\ pc[t] = "put"
  /\ processes' = [processes EXCEPT ![call[t].id] =
                     IF @ = "Stopped" THEN "Stopped" ELSE call[t].writes]
  /\ pc' = [pc EXCEPT ![t] = "idle"]
  /\ Counted(t)
  /\ UNCHANGED <<handle, call, calls, preceding>>

\* The entry is replaced by current with { State = state }.
Put(t) ==
  /\ pc[t] = "put"
  /\ processes' = [processes EXCEPT ![call[t].id] = call[t].writes]
  /\ pc' = [pc EXCEPT ![t] = "idle"]
  /\ Counted(t)
  /\ UNCHANGED <<handle, call, calls, preceding>>

SupervisorNext ==
  \/ \E id \in Ids : Start(id) \/ CreateProcessAsync(id)
  \/ \E t \in Threads, id \in Ids :
       KillAsync(t, id) \/ RestartAsync(t, id) \/ StopAsync(t, id) \/ StartAsync(t, id)
  \/ \E t \in Threads : ReadArgument(t) \/ Get(t) \/ Put(t)

SupervisorSpec == SupervisorInit /\ [][SupervisorNext]_supervisorVars

-----------------------------------------------------------------------------
(* Properties.                                                             *)

SupervisorTypeOK ==
  /\ processes \in [Ids -> States \cup {None}]
  /\ handle \in [Ids -> States \cup {None}]
  /\ pc \in [Threads -> {"idle", "argument", "get", "put"}]
  /\ \A t \in Threads : pc[t] # "idle" =>
       call[t].id \in Ids /\ {call[t].asked, call[t].writes} \subseteq States
  /\ \A t \in Threads : pc[t] = "argument" => handle[call[t].id] # None
  /\ \A t \in Threads : pc[t] = "put" => processes[call[t].id] # None
  /\ calls \in 0..MaxCalls
  /\ \A id \in Ids : processes[id] = None => handle[id] = None /\ latest[id] = {}

\* The supervisor lists for a process what one of the last updates passed to
\* it: an update that returned before another one began never has the last
\* word, although each reads the entry and writes it back in two steps
\* (UpdateCoreProcessState).  So a killed process stays killed unless a
\* restart, or a handle that showed Running, was under way or came later.
LastUpdateDecides ==
  \A id \in Ids : ~InCall(id) /\ latest[id] # {} =>
    processes[id] \in {c.writes : c \in latest[id]}

\* "Marks the process as stopped" (ProcessSupervisorProvider.cs:229) and
\* "Marks the process as running" (:222): the table never gets from a call
\* the opposite of what the call asks for.
CallsWriteWhatTheyAsk ==
  [][\A t \in Threads : pc[t] = "put" /\ pc'[t] = "idle" =>
       processes'[call[t].id] = call[t].asked]_supervisorVars
=============================================================================
