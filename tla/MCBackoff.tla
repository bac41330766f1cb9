----------------------------- MODULE MCBackoff -----------------------------
(* Two logins in flight on an account, from one client address; a curve    *)
(* capped after its second step.                                           *)
EXTENDS Backoff, TLC

Symmetry == Permutations(Requests) \cup Permutations(Accounts)
=============================================================================
