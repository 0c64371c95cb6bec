------------------------ MODULE MCSingleInstanceLock ------------------------
(* Small instances of SingleInstanceLock for TLC. *)
EXTENDS SingleInstanceLock, TLC

Symmetry == Permutations(Procs) \cup Permutations(Pids)
=============================================================================
