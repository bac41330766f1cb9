----------------------------- MODULE Credential -----------------------------
(***************************************************************************)
(* What a session token promises, with no table, no clock and no account   *)
(* row behind it.  A token is fresh until kal mints it, valid while        *)
(* presenting it makes the caller somebody, and spent for ever after.      *)
(* Nothing brings a spent token back, and the user a token stands for is   *)
(* settled when it is minted.                                              *)
(*                                                                         *)
(* Module Sessions, the auth_sessions table and the statements that run    *)
(* against it, is shown to implement this specification.                   *)
(***************************************************************************)
CONSTANTS Users, Tokens, Nobody

VARIABLES
    phase,   \* phase[t]: where token t is in its life
    holder   \* holder[t]: the user t was minted for, Nobody while it is fresh

cvars == <<phase, holder>>

Phases == {"fresh", "valid", "spent"}

CTypeOK ==
    /\ phase \in [Tokens -> Phases]
    /\ holder \in [Tokens -> Users \cup {Nobody}]

CInit ==
    /\ phase = [t \in Tokens |-> "fresh"]
    /\ holder = [t \in Tokens |-> Nobody]

(* A sign-in: t starts to stand for u. *)
Grant(t, u) ==
    /\ phase[t] = "fresh"
    /\ phase' = [phase EXCEPT ![t] = "valid"]
    /\ holder' = [holder EXCEPT ![t] = u]

(* A rotation: new takes over from old, for the same user, in one step. *)
Swap(old, new) ==
    /\ phase[old] = "valid"
    /\ phase[new] = "fresh"
    /\ phase' = [phase EXCEPT ![old] = "spent", ![new] = "valid"]
    /\ holder' = [holder EXCEPT ![new] = holder[old]]

(* A token minted for somebody who may no longer sign in: it never works. *)
Waste(t, u) ==
    /\ phase[t] = "fresh"
    /\ phase' = [phase EXCEPT ![t] = "spent"]
    /\ holder' = [holder EXCEPT ![t] = u]

(* Logout, revocation, expiry and account closure: a set of tokens dies. *)
Retire(S) ==
    /\ \A t \in S : phase[t] = "valid"
    /\ phase' = [t \in Tokens |-> IF t \in S THEN "spent" ELSE phase[t]]
    /\ UNCHANGED holder

CNext ==
    \/ \E t \in Tokens, u \in Users : Grant(t, u) \/ Waste(t, u)
    \/ \E old, new \in Tokens : Swap(old, new)
    \/ \E S \in SUBSET Tokens : Retire(S)

CSpec == CInit /\ [][CNext]_cvars
=============================================================================
