-------------------------- MODULE MCCodexTraceTurns --------------------------
(* Small instances of CodexTraceTurns for TLC. *)
EXTENDS CodexTraceTurns, TLC

Symmetry == Permutations(Turns)
=============================================================================
