----------------------------- MODULE MCSessions -----------------------------
(* Two users, two session rows, three credentials; an idle window of three *)
(* ticks inside a lifetime of four, refreshed after one.                   *)
EXTENDS Sessions, TLC

Symmetry == Permutations(Users) \cup Permutations(SessionIds)
              \cup Permutations(Tokens)
=============================================================================
