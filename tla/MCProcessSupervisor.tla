------------------------- MODULE MCProcessSupervisor -------------------------
(* ProcessSupervisor for TLC. *)
EXTENDS ProcessSupervisor, TLC

Symmetry == Permutations(Threads) \cup Permutations(Ids)
=============================================================================
