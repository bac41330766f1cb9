----------------------------- MODULE MCBrowser -----------------------------
(* A browser signing in and out of one account; the clock stands still.    *)
EXTENDS Browser

Symmetry == Permutations(Requests) \cup Permutations(SessionIds)
              \cup Permutations(Tokens)
=============================================================================
