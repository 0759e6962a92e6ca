------------------------- MODULE MCStandardProviders -------------------------
(***************************************************************************)
(* The file systems and the process supervisor for TLC, as one package.    *)
(* They share nothing, so their steps commute: the supervisor is explored  *)
(* beside one state of the file systems, and they beside one state of it.  *)
(***************************************************************************)
EXTENDS MCFileSystem, ProcessSupervisor

PackageInit == Init /\ SupervisorInit

\* A host that is started anew: the supervisor persists nothing.
HostRestart ==
  /\ calls = MaxCalls /\ \A t \in Threads : pc[t] = "idle"
  /\ processes' = [id \in Ids |-> None] /\ handle' = processes'
  /\ call' = [t \in Threads |-> None] /\ calls' = 0
  /\ preceding' = [t \in Threads |-> {}] /\ latest' = [id \in Ids |-> {}]
  /\ UNCHANGED pc

PackageNext ==
  \/ SupervisorInit /\ Next /\ UNCHANGED supervisorVars
  \/ /\ Init /\ kind = "memory"
     /\ SupervisorNext \/ HostRestart
     /\ UNCHANGED vars

PackageSpec == PackageInit /\ [][PackageNext]_<<vars, supervisorVars>>

Symmetry == WriterSymmetry \cup Permutations(Threads) \cup Permutations(Ids)
=============================================================================
