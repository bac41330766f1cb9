-------------------------------- MODULE MCJWT -------------------------------
(* One session, two processes in rotation, a service with a cached key set. *)
EXTENDS JWT, TLC
AskedTTLs == {-2, 0, 1, 3, 6}
Symmetry == Permutations(Instances)
=============================================================================
