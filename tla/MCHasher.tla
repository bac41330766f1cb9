----------------------------- MODULE MCHasher ------------------------------
(* Four requests contend for two slots.                                    *)
EXTENDS Hasher
=============================================================================
