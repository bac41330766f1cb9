----------------------------- MODULE MCAccounts -----------------------------
(* Small instances of module Accounts; each configuration picks the        *)
(* operations whose interplay it is about.                                 *)
EXTENDS Accounts, TLC

Symmetry == Permutations(Requests) \cup Permutations(SessionIds)
              \cup Permutations(Tokens) \cup Permutations(Links)
              \cup Permutations(Passwords)
              \cup Permutations(Users)
=============================================================================
