------------------------------ MODULE MCVault ------------------------------
(* Two devices of one account, two passwords, two KDF parameter sets.      *)
EXTENDS Vault, TLC

Symmetry == Permutations(Devices) \cup Permutations(Passwords)
              \cup Permutations(KDFs)
=============================================================================
