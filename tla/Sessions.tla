------------------------------ MODULE Sessions ------------------------------
(***************************************************************************)
(* The auth_sessions table and the statements session/session.go runs      *)
(* against it.  Every method is one SQL statement, so every operation is   *)
(* one action; the arguments range over everything a caller may hold.      *)
(*                                                                         *)
(* Time is the database clock (now()), in abstract units.  now() is the    *)
(* time the surrounding transaction began.  With TxLag = 0 a statement     *)
(* reads the clock at the instant it applies, which is what autocommit on  *)
(* an uncontended row gives.  TxLag > 0 stands for a caller that hands the *)
(* method a *pg.Tx it opened earlier: the statement then sees any time up  *)
(* to TxLag units in the past.                                             *)
(***************************************************************************)
EXTENDS Integers

CONSTANTS
    Users,         \* auth_users ids
    SessionIds,    \* auth_sessions ids
    Tokens,        \* the credentials the generator can return
    Idle,          \* Options.Idle
    Absolute,      \* Options.Absolute
    RefreshAfter,  \* the 60 seconds of lookupSQL's touched CTE
    TxLag,         \* bound on how old a transaction's now() may be
    MaxClock,      \* bound on the database clock
    Nobody, NoToken

(* NewSessions refuses an absolute lifetime below the idle timeout. *)
ValidOptions == Idle <= Absolute

ASSUME SessionsAssumption ==
    /\ Idle \in Nat \ {0} /\ Absolute \in Nat \ {0} /\ ValidOptions
    /\ RefreshAfter \in Nat /\ TxLag \in Nat /\ MaxClock \in Nat
    /\ Nobody \notin Users /\ NoToken \notin Tokens

VARIABLES
    clock,    \* the database clock
    sess,     \* the auth_sessions rows, by id
    deleted,  \* users whose deleted_at is set
    minted,   \* history: the user each token was minted for
    lastUse   \* history: when each session's token last found it live

svars == <<clock, sess, deleted, minted, lastUse>>

(* mfa is 0 for a null mfa_at; the clock starts at 1. *)
Row == [status: {"unused", "open", "revoked"},
        user: Users \cup {Nobody}, token: Tokens \cup {NoToken},
        created: Nat, seen: Nat, idle: Nat, abs: Nat, mfa: Nat]

NoRow == [status |-> "unused", user |-> Nobody, token |-> NoToken,
          created |-> 0, seen |-> 0, idle |-> 0, abs |-> 0, mfa |-> 0]

STypeOK ==
    /\ clock \in Nat \ {0}
    /\ sess \in [SessionIds -> Row]
    /\ deleted \in SUBSET Users
    /\ minted \in [Tokens -> Users \cup {Nobody}]
    /\ lastUse \in [SessionIds -> Nat]

SInit ==
    /\ clock = 1
    /\ sess = [s \in SessionIds |-> NoRow]
    /\ deleted = {}
    /\ minted = [t \in Tokens |-> Nobody]
    /\ lastUse = [s \in SessionIds |-> 0]

-----------------------------------------------------------------------------
(* Operators the statements share. *)

(* The values now() can have in a statement applied at this instant. *)
TxTimes == {t \in 1 .. clock : clock - t <= TxLag}

(* The liveness predicate every statement repeats, at time t. *)
LiveAt(s, t) ==
    /\ sess[s].status = "open"
    /\ sess[s].idle > t
    /\ sess[s].abs > t

Live(s) == LiveAt(s, clock)

(* The session a lookup of token tok at time t joins to an enabled user. *)
Resolves(tok, t) ==
    \E s \in SessionIds : /\ sess[s].token = tok
                          /\ LiveAt(s, t)
                          /\ sess[s].user \notin deleted

(* 256 bits from crypto/rand: a token never minted before. *)
NewToken(tok) == minted[tok] = Nobody

-----------------------------------------------------------------------------
(* The operations, each at the time t its transaction sees. *)

Issue(s, u, tok, t) ==
    /\ sess[s].status = "unused"
    /\ NewToken(tok)
    /\ sess' = [sess EXCEPT ![s] =
          [status |-> "open", user |-> u, token |-> tok, created |-> t,
           seen |-> t, idle |-> t + Idle, abs |-> t + Absolute, mfa |-> 0]]
    /\ minted' = [minted EXCEPT ![tok] = u]
    /\ lastUse' = [lastUse EXCEPT ![s] = t]
    /\ UNCHANGED <<clock, deleted>>

(* Two defects: the idle deadline is not consulted; it is never refreshed. *)
LookupForgettingIdle(s, t) ==
    /\ sess[s].status = "open" /\ sess[s].abs > t
    /\ sess' = [sess EXCEPT ![s].seen = t, ![s].idle = t + Idle]
    /\ lastUse' = [lastUse EXCEPT ![s] = t]
    /\ UNCHANGED <<clock, deleted, minted>>
LookupWithoutRefresh(s, t) ==
    /\ LiveAt(s, t)
    /\ lastUse' = [lastUse EXCEPT ![s] = t]
    /\ UNCHANGED <<clock, sess, deleted, minted>>

(* The touched CTE is independent of the join to auth_users: a lookup that *)
(* answers nothing because the account is disabled still refreshes.        *)
Lookup(s, t) ==
    /\ LiveAt(s, t)
    /\ sess' = IF sess[s].seen < t - RefreshAfter
               THEN [sess EXCEPT ![s].seen = t, ![s].idle = t + Idle]
               ELSE sess
    /\ lastUse' = [lastUse EXCEPT ![s] = t]
    /\ UNCHANGED <<clock, deleted, minted>>

(* Three defects: rotation extends the absolute deadline; rotates a        *)
(* session that has expired; subtracts the idle interval.                  *)
RotateTo(s, tok, t, idle, abs) ==
    /\ NewToken(tok)
    /\ sess' = [sess EXCEPT ![s].token = tok, ![s].seen = t,
                            ![s].idle = idle, ![s].abs = abs]
    /\ minted' = [minted EXCEPT ![tok] = sess[s].user]
    /\ lastUse' = [lastUse EXCEPT ![s] = t]
    /\ UNCHANGED <<clock, deleted>>
RotateExtending(s, tok, t) ==
    LiveAt(s, t) /\ RotateTo(s, tok, t, t + Idle, t + Absolute)
RotateExpired(s, tok, t) ==
    sess[s].status = "open" /\ RotateTo(s, tok, t, t + Idle, sess[s].abs)
RotateBackwards(s, tok, t) ==
    LiveAt(s, t) /\ RotateTo(s, tok, t, t - Idle, sess[s].abs)

(* A session that is not live matches no row: the caller gets              *)
(* UNAUTHENTICATED and the new token is dropped.                           *)
Rotate(s, tok, t) ==
    /\ LiveAt(s, t)
    /\ NewToken(tok)
    /\ sess' = [sess EXCEPT ![s].token = tok, ![s].seen = t,
                            ![s].idle = t + Idle]
    /\ minted' = [minted EXCEPT ![tok] = sess[s].user]
    /\ lastUse' = [lastUse EXCEPT ![s] = t]
    /\ UNCHANGED <<clock, deleted>>

(* Defect: the stamp lands on a session that has expired. *)
RecordMFAUnchecked(s, u, t) ==
    /\ sess[s].status = "open" /\ sess[s].user = u
    /\ sess' = [sess EXCEPT ![s].mfa = t]
    /\ UNCHANGED <<clock, deleted, minted, lastUse>>

(* Both ids are matched: a session id alone elevates nobody else.          *)
RecordMFA(s, u, t) ==
    /\ LiveAt(s, t)
    /\ sess[s].user = u
    /\ sess' = [sess EXCEPT ![s].mfa = t]
    /\ UNCHANGED <<clock, deleted, minted, lastUse>>

Revoke(s) ==
    /\ sess[s].status = "open"
    /\ sess' = [sess EXCEPT ![s].status = "revoked"]
    /\ UNCHANGED <<clock, deleted, minted, lastUse>>

RevokeAllForUser(u) ==
    /\ sess' = [s \in SessionIds |->
                  IF sess[s].status = "open" /\ sess[s].user = u
                  THEN [sess[s] EXCEPT !.status = "revoked"]
                  ELSE sess[s]]
    /\ UNCHANGED <<clock, deleted, minted, lastUse>>

(* The application sets deleted_at; kal has no statement that does. *)
Disable(u) ==
    /\ deleted' = deleted \cup {u}
    /\ UNCHANGED <<clock, sess, minted, lastUse>>

Tick ==
    /\ clock < MaxClock
    /\ clock' = clock + 1
    /\ UNCHANGED <<sess, deleted, minted, lastUse>>

SNext ==
    \/ \E s \in SessionIds, u \in Users, tok \in Tokens, t \in TxTimes :
          Issue(s, u, tok, t)
    \/ \E s \in SessionIds, t \in TxTimes : Lookup(s, t)
    \/ \E s \in SessionIds, tok \in Tokens, t \in TxTimes : Rotate(s, tok, t)
    \/ \E s \in SessionIds, u \in Users, t \in TxTimes : RecordMFA(s, u, t)
    \/ \E s \in SessionIds : Revoke(s)
    \/ \E u \in Users : RevokeAllForUser(u) \/ Disable(u)
    \/ Tick

SSpec == SInit /\ [][SNext]_svars

-----------------------------------------------------------------------------
(* Properties. *)

(* The absolute deadline is absolute: a session that still resolves was    *)
(* authenticated less than Absolute ago, whatever mixture of lookups,      *)
(* rotations and second factors it has been through (rotateSQL leaves      *)
(* expires_at alone; lookupSQL's touched CTE extends the idle window only).*)
LifetimeBound ==
    \A s \in SessionIds : Live(s) => clock < sess[s].created + Absolute

(* The idle timeout, with its 60-second granularity: an open session is    *)
(* gone once it has not been used for Idle, and is never dropped while it  *)
(* was used less than Idle - RefreshAfter ago, unless its absolute         *)
(* deadline has passed (lookupSQL's throttled refresh).                    *)
IdleWindow ==
    \A s \in SessionIds : sess[s].status = "open" =>
        /\ clock >= lastUse[s] + Idle => ~Live(s)
        /\ /\ clock < lastUse[s] + Idle - RefreshAfter
           /\ clock < sess[s].abs
           => Live(s)

(* A second factor recorded on a session belongs to its lifetime: it was   *)
(* stamped between authentication and the absolute deadline, never after   *)
(* the idle window the stamp itself does not extend.                       *)
FactorWithinSession ==
    \A s \in SessionIds : sess[s].mfa # 0 =>
        /\ sess[s].created <= sess[s].mfa
        /\ sess[s].mfa < sess[s].abs
        /\ sess[s].mfa < sess[s].idle

(* "A revoked or expired session must not be resurrectable": once a row    *)
(* is not live no operation makes it live again or writes anything to it   *)
(* but its revocation (the repeated WHERE of rotateSQL, recordMFASQL and   *)
(* lookupSQL).                                                             *)
DeadRowFrozen(s) ==
    sess[s].status # "unused" /\ ~Live(s) =>
        /\ ~Live(s)'
        /\ sess'[s] \in {sess[s], [sess[s] EXCEPT !.status = "revoked"]}
DeadSessionsStayDead == [][\A s \in SessionIds : DeadRowFrozen(s)]_svars

(* The table implements the promise of module Credential: a token is valid *)
(* exactly while a lookup of it would answer, and every statement is a     *)
(* sign-in, a swap, a retirement, or invisible to the tokens.              *)
TokenPhase ==
    [tok \in Tokens |->
        IF minted[tok] = Nobody THEN "fresh"
        ELSE IF Resolves(tok, clock) THEN "valid" ELSE "spent"]

Cred == INSTANCE Credential WITH phase <- TokenPhase, holder <- minted

ImplementsCredential == Cred!CSpec
=============================================================================
