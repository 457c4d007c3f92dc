------------------------------ MODULE MCAgent ------------------------------
(* Small instances of the agent daemon for TLC. *)
EXTENDS Agent, TLC

Symmetry == Permutations(Task) \cup Permutations(Key)
=============================================================================
