------------------------------ MODULE MCVault ------------------------------
(* Small instances of Vault for TLC. *)
EXTENDS VaultInvariant, TLC

Symmetry == Permutations(Proc) \cup Permutations(Key) \cup Permutations(Entry)
              \cup Permutations(Factor)
=============================================================================
