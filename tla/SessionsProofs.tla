--------------------------- MODULE SessionsProofs ---------------------------
(***************************************************************************)
(* What TLAPS proves of module Sessions, for every set of users, sessions  *)
(* and tokens and every choice of timeouts.                                *)
(***************************************************************************)
EXTENDS Sessions, TLAPS

(* A row that exists is whole: it belongs to a user, carries a token       *)
(* minted for that user, and its two deadlines are the ones its timestamps *)
(* give.  A row that does not exist is blank.                              *)
RowInv ==
    \A s \in SessionIds :
        /\ sess[s].status = "unused" => sess[s] = NoRow
        /\ sess[s].status # "unused" =>
              /\ sess[s].user \in Users
              /\ sess[s].token \in Tokens
              /\ minted[sess[s].token] = sess[s].user
              /\ 1 <= sess[s].created /\ sess[s].created <= clock
              /\ 1 <= sess[s].seen /\ sess[s].seen <= clock
              /\ sess[s].abs = sess[s].created + Absolute
              /\ sess[s].idle = sess[s].seen + Idle

(* No two rows carry the same token: token_sha256 is unique.               *)
TokenInv ==
    \A s1, s2 \in SessionIds :
        /\ sess[s1].status # "unused"
        /\ sess[s2].status # "unused"
        /\ sess[s1].token = sess[s2].token
        => s1 = s2

SInv == STypeOK /\ RowInv /\ TokenInv

-----------------------------------------------------------------------------
(* Type correctness. *)

LEMMA TypeInit == SInit => STypeOK
  BY SessionsAssumption DEF SInit, STypeOK, Row, NoRow

LEMMA TypeStep == STypeOK /\ [SNext]_svars => STypeOK'
<1> SUFFICES ASSUME STypeOK, [SNext]_svars PROVE STypeOK'
  OBVIOUS
<1> USE SessionsAssumption DEF STypeOK, Row
<1>0. \A t \in TxTimes : t \in Nat \ {0}
  BY DEF TxTimes
<1>1. ASSUME NEW s \in SessionIds, NEW u \in Users, NEW tok \in Tokens,
             NEW t \in TxTimes, Issue(s, u, tok, t)
      PROVE  STypeOK'
  <2>1. [status |-> "open", user |-> u, token |-> tok, created |-> t,
           seen |-> t, idle |-> t + Idle, abs |-> t + Absolute, mfa |-> 0]
           \in Row
    BY <1>0 DEF Row
  <2> QED
    BY <1>0, <1>1, <2>1 DEF Issue
<1>2. ASSUME NEW s \in SessionIds, NEW t \in TxTimes, Lookup(s, t)
      PROVE  STypeOK'
  <2>0. sess[s] \in Row /\ t \in Nat /\ t + Idle \in Nat
    BY <1>0
  <2>1. [sess[s] EXCEPT !.seen = t, !.idle = t + Idle] \in Row
    BY <2>0
  <2> QED
    BY <1>0, <1>2, <2>1 DEF Lookup
<1>3. ASSUME NEW s \in SessionIds, NEW tok \in Tokens, NEW t \in TxTimes,
             Rotate(s, tok, t)
      PROVE  STypeOK'
  <2>0. sess[s] \in Row /\ t \in Nat /\ t + Idle \in Nat
    BY <1>0
  <2>1. [sess[s] EXCEPT !.token = tok, !.seen = t, !.idle = t + Idle] \in Row
    BY <2>0
  <2> QED
    BY <1>0, <1>3, <2>1 DEF Rotate
<1>4. ASSUME NEW s \in SessionIds, NEW u \in Users, NEW t \in TxTimes,
             RecordMFA(s, u, t)
      PROVE  STypeOK'
  BY <1>0, <1>4 DEF RecordMFA
<1>5. ASSUME NEW s \in SessionIds, Revoke(s)
      PROVE  STypeOK'
  BY <1>5 DEF Revoke
<1>6. ASSUME NEW u \in Users, RevokeAllForUser(u)
      PROVE  STypeOK'
  BY <1>6 DEF RevokeAllForUser
<1>7. ASSUME NEW u \in Users, Disable(u)
      PROVE  STypeOK'
  BY <1>7 DEF Disable
<1>8. CASE Tick
  BY <1>8 DEF Tick
<1>9. CASE UNCHANGED svars
  BY <1>9 DEF svars
<1> QED
  BY <1>1, <1>2, <1>3, <1>4, <1>5, <1>6, <1>7, <1>8, <1>9 DEF SNext

(* Every variable of the session table stays in its set, whatever the      *)
(* timeouts, the clock bound and the age of the callers' transactions.     *)
THEOREM TypeCorrect == SSpec => []STypeOK
  BY TypeInit, TypeStep, PTL DEF SSpec

-----------------------------------------------------------------------------
(* The structural invariant. *)

LEMMA SInvInit == SInit => SInv
  BY TypeInit DEF SInit, SInv, RowInv, TokenInv, NoRow

LEMMA SInvStep == SInv /\ [SNext]_svars => SInv'
<1> SUFFICES ASSUME SInv, [SNext]_svars PROVE SInv'
  OBVIOUS
<1>a. STypeOK'
  BY TypeStep DEF SInv
<1>b. STypeOK /\ RowInv /\ TokenInv
  BY DEF SInv
<1>t. \A t \in TxTimes : t \in Nat /\ 1 <= t /\ t <= clock
  BY <1>b DEF TxTimes, STypeOK
<1>n. \A s \in SessionIds : sess[s].status # "unused" =>
          ~NewToken(sess[s].token)
  BY <1>b, SessionsAssumption DEF RowInv, NewToken
<1> USE SessionsAssumption
<1>1. ASSUME NEW s \in SessionIds, NEW u \in Users, NEW tok \in Tokens,
             NEW t \in TxTimes, Issue(s, u, tok, t)
      PROVE  RowInv' /\ TokenInv'
  <2>1. /\ sess'[s] = [status |-> "open", user |-> u, token |-> tok,
                       created |-> t, seen |-> t, idle |-> t + Idle,
                       abs |-> t + Absolute, mfa |-> 0]
        /\ \A x \in SessionIds \ {s} : sess'[x] = sess[x]
        /\ minted'[tok] = u
        /\ \A x \in Tokens \ {tok} : minted'[x] = minted[x]
        /\ clock' = clock
    BY <1>1, <1>b DEF Issue, STypeOK
  <2>2. \A x \in SessionIds \ {s} : sess[x].status # "unused" =>
            sess[x].token # tok
    BY <1>1, <1>n DEF Issue
  <2>3. RowInv'
    BY <1>b, <1>t, <2>1, <2>2 DEF RowInv, STypeOK
  <2>4. TokenInv'
    BY <1>b, <2>1, <2>2 DEF TokenInv
  <2> QED
    BY <2>3, <2>4
<1>2. ASSUME NEW s \in SessionIds, NEW t \in TxTimes, Lookup(s, t)
      PROVE  RowInv' /\ TokenInv'
  <2>0. sess[s] \in Row /\ sess[s].status = "open"
    BY <1>2, <1>b DEF Lookup, LiveAt, STypeOK
  <2>1. /\ sess'[s].status = sess[s].status
        /\ sess'[s].user = sess[s].user
        /\ sess'[s].token = sess[s].token
        /\ sess'[s].created = sess[s].created
        /\ sess'[s].abs = sess[s].abs
        /\ \/ sess'[s].seen = sess[s].seen /\ sess'[s].idle = sess[s].idle
           \/ sess'[s].seen = t /\ sess'[s].idle = t + Idle
    BY <1>2, <1>b, <2>0 DEF Lookup, STypeOK, Row
  <2>2. /\ \A x \in SessionIds \ {s} : sess'[x] = sess[x]
        /\ minted' = minted /\ clock' = clock
    BY <1>2, <1>b DEF Lookup, STypeOK
  <2>3. RowInv'
    BY <1>b, <1>t, <2>0, <2>1, <2>2 DEF RowInv
  <2>4. TokenInv'
    BY <1>b, <2>0, <2>1, <2>2 DEF TokenInv
  <2> QED
    BY <2>3, <2>4
<1>3. ASSUME NEW s \in SessionIds, NEW tok \in Tokens, NEW t \in TxTimes,
             Rotate(s, tok, t)
      PROVE  RowInv' /\ TokenInv'
  <2>0. sess[s] \in Row /\ sess[s].status = "open"
    BY <1>3, <1>b DEF Rotate, LiveAt, STypeOK
  <2>1. /\ sess'[s].status = "open"
        /\ sess'[s].user = sess[s].user
        /\ sess'[s].token = tok
        /\ sess'[s].created = sess[s].created
        /\ sess'[s].abs = sess[s].abs
        /\ sess'[s].seen = t
        /\ sess'[s].idle = t + Idle
    BY <1>3, <1>b, <2>0 DEF Rotate, STypeOK, Row
  <2>2. /\ \A x \in SessionIds \ {s} : sess'[x] = sess[x]
        /\ minted'[tok] = sess[s].user
        /\ \A x \in Tokens \ {tok} : minted'[x] = minted[x]
        /\ clock' = clock
    BY <1>3, <1>b DEF Rotate, STypeOK
  <2>3. \A x \in SessionIds : sess[x].status # "unused" =>
            sess[x].token # tok
    BY <1>3, <1>n DEF Rotate
  <2>4. RowInv'
    BY <1>b, <1>t, <2>0, <2>1, <2>2, <2>3 DEF RowInv
  <2>5. TokenInv'
    BY <1>b, <2>0, <2>1, <2>2, <2>3 DEF TokenInv
  <2> QED
    BY <2>4, <2>5
<1>4. ASSUME NEW s \in SessionIds, NEW u \in Users, NEW t \in TxTimes,
             RecordMFA(s, u, t)
      PROVE  RowInv' /\ TokenInv'
  <2>1. /\ sess'[s] = [sess[s] EXCEPT !.mfa = t]
        /\ \A x \in SessionIds \ {s} : sess'[x] = sess[x]
        /\ minted' = minted /\ clock' = clock
        /\ sess[s].status = "open" /\ sess[s] \in Row
    BY <1>4, <1>b DEF RecordMFA, LiveAt, STypeOK
  <2>2. RowInv'
    BY <1>b, <2>1 DEF RowInv, Row
  <2>3. TokenInv'
    BY <1>b, <2>1 DEF TokenInv, Row
  <2> QED
    BY <2>2, <2>3
<1>5. ASSUME NEW s \in SessionIds, Revoke(s)
      PROVE  RowInv' /\ TokenInv'
  <2>1. /\ sess'[s] = [sess[s] EXCEPT !.status = "revoked"]
        /\ \A x \in SessionIds \ {s} : sess'[x] = sess[x]
        /\ minted' = minted /\ clock' = clock
        /\ sess[s].status = "open" /\ sess[s] \in Row
    BY <1>5, <1>b DEF Revoke, STypeOK
  <2>2. RowInv'
    BY <1>b, <2>1 DEF RowInv, Row
  <2>3. TokenInv'
    BY <1>b, <2>1 DEF TokenInv, Row
  <2> QED
    BY <2>2, <2>3
<1>6. ASSUME NEW u \in Users, RevokeAllForUser(u)
      PROVE  RowInv' /\ TokenInv'
  <2>1. \A s \in SessionIds :
           /\ sess'[s].status = "unused" <=> sess[s].status = "unused"
           /\ sess'[s].user = sess[s].user
           /\ sess'[s].token = sess[s].token
           /\ sess'[s].created = sess[s].created
           /\ sess'[s].abs = sess[s].abs
           /\ sess'[s].seen = sess[s].seen
           /\ sess'[s].idle = sess[s].idle
    BY <1>6, <1>b DEF RevokeAllForUser, STypeOK, Row
  <2>2. \A s \in SessionIds :
           sess[s].status = "unused" => sess'[s] = sess[s]
    BY <1>6 DEF RevokeAllForUser
  <2>3. minted' = minted /\ clock' = clock
    BY <1>6 DEF RevokeAllForUser
  <2>4. RowInv'
    BY <1>b, <2>1, <2>2, <2>3 DEF RowInv
  <2>5. TokenInv'
    BY <1>b, <2>1, <2>3 DEF TokenInv
  <2> QED
    BY <2>4, <2>5
<1>7. ASSUME NEW u \in Users, Disable(u)
      PROVE  RowInv' /\ TokenInv'
  BY <1>7, <1>b DEF Disable, RowInv, TokenInv
<1>8. ASSUME Tick
      PROVE  RowInv' /\ TokenInv'
  <2>1. sess' = sess /\ minted' = minted /\ clock' = clock + 1
    BY <1>8 DEF Tick
  <2>2. clock \in Nat /\ \A s \in SessionIds : sess[s] \in Row
    BY <1>b DEF STypeOK
  <2>3. RowInv'
    BY <1>b, <2>1, <2>2 DEF RowInv, Row
  <2> QED
    BY <1>b, <2>1, <2>3 DEF TokenInv
<1>9. ASSUME UNCHANGED svars
      PROVE  RowInv' /\ TokenInv'
  BY <1>9, <1>b DEF svars, RowInv, TokenInv
<1> QED
  BY <1>a, <1>1, <1>2, <1>3, <1>4, <1>5, <1>6, <1>7, <1>8, <1>9
  DEF SNext, SInv

THEOREM Structure == SSpec => []SInv
  BY SInvInit, SInvStep, PTL DEF SSpec

(* No session outlives its absolute deadline, whatever the timeouts and    *)
(* however old the transactions that touch it: a live session was          *)
(* authenticated less than Absolute ago.                                   *)
THEOREM AbsoluteLifetime == SSpec => []LifetimeBound
<1>1. SInv => LifetimeBound
  BY SessionsAssumption
  DEF SInv, STypeOK, RowInv, LifetimeBound, Live, LiveAt, Row, NoRow
<1> QED
  BY <1>1, Structure, PTL

-----------------------------------------------------------------------------
(***************************************************************************)
(* From here on every statement reads the clock at the instant it applies  *)
(* (TxLag = 0).  A rotation in a transaction begun before the deadline     *)
(* shows that the assumption is needed: it revives the session.            *)
(***************************************************************************)

LEMMA NoLag == TxLag = 0 /\ STypeOK => \A t \in TxTimes : t = clock
  BY DEF TxTimes, STypeOK

(* The refresh is throttled, so last_seen_at may trail the last use, but   *)
(* never by more than RefreshAfter.                                        *)
UseInv ==
    \A s \in SessionIds : sess[s].status # "unused" =>
        /\ sess[s].seen <= lastUse[s]
        /\ lastUse[s] <= sess[s].seen + RefreshAfter
        /\ lastUse[s] <= clock

LEMMA UseInvStep ==
  ASSUME TxLag = 0, SInv, UseInv, [SNext]_svars
  PROVE  UseInv'
<1> USE SessionsAssumption
<1>b. STypeOK /\ RowInv
  BY DEF SInv
<1>t. \A t \in TxTimes : t = clock
  BY <1>b, NoLag
<1>c. clock \in Nat /\ \A s \in SessionIds : sess[s] \in Row /\ lastUse[s] \in Nat
  BY <1>b DEF STypeOK
<1>1. ASSUME NEW s \in SessionIds, NEW u \in Users, NEW tok \in Tokens,
             NEW t \in TxTimes, Issue(s, u, tok, t)
      PROVE  UseInv'
  <2>1. /\ sess'[s].seen = clock /\ lastUse'[s] = clock /\ clock' = clock
        /\ \A x \in SessionIds \ {s} :
              sess'[x] = sess[x] /\ lastUse'[x] = lastUse[x]
    BY <1>1, <1>b, <1>t DEF Issue, STypeOK
  <2> QED
    BY <1>c, <2>1 DEF UseInv
<1>2. ASSUME NEW s \in SessionIds, NEW t \in TxTimes, Lookup(s, t)
      PROVE  UseInv'
  <2>1. /\ lastUse'[s] = clock /\ clock' = clock
        /\ \A x \in SessionIds \ {s} :
              sess'[x] = sess[x] /\ lastUse'[x] = lastUse[x]
    BY <1>2, <1>b, <1>t DEF Lookup, STypeOK
  <2>2. \/ sess'[s].seen = clock
        \/ sess'[s].seen = sess[s].seen /\ sess[s].seen >= clock - RefreshAfter
    BY <1>2, <1>b, <1>c, <1>t DEF Lookup, STypeOK, Row
  <2>3. sess[s].seen \in Nat /\ sess[s].seen <= clock
    BY <1>2, <1>b, <1>c DEF RowInv, Row, Lookup, LiveAt
  <2> QED
    BY <1>c, <2>1, <2>2, <2>3 DEF UseInv
<1>3. ASSUME NEW s \in SessionIds, NEW tok \in Tokens, NEW t \in TxTimes,
             Rotate(s, tok, t)
      PROVE  UseInv'
  <2>1. /\ sess'[s].seen = clock /\ lastUse'[s] = clock /\ clock' = clock
        /\ \A x \in SessionIds \ {s} :
              sess'[x] = sess[x] /\ lastUse'[x] = lastUse[x]
    BY <1>3, <1>b, <1>c, <1>t DEF Rotate, STypeOK, Row
  <2> QED
    BY <1>c, <2>1 DEF UseInv
<1>4. ASSUME \/ \E s \in SessionIds, u \in Users, t \in TxTimes :
                   RecordMFA(s, u, t)
             \/ \E s \in SessionIds : Revoke(s)
             \/ \E u \in Users : RevokeAllForUser(u)
      PROVE  UseInv'
  <2>1. clock' = clock /\ lastUse' = lastUse
    BY <1>4 DEF RecordMFA, Revoke, RevokeAllForUser
  <2>2. \A s \in SessionIds :
           /\ sess'[s].seen = sess[s].seen
           /\ sess'[s].status = "unused" <=> sess[s].status = "unused"
    BY <1>4, <1>b, <1>c
    DEF RecordMFA, Revoke, RevokeAllForUser, STypeOK, Row, LiveAt
  <2> QED
    BY <2>1, <2>2 DEF UseInv
<1>5. ASSUME Tick \/ (\E u \in Users : Disable(u)) \/ UNCHANGED svars
      PROVE  UseInv'
  <2>1. /\ sess' = sess /\ lastUse' = lastUse
        /\ clock' = clock \/ clock' = clock + 1
    BY <1>5 DEF Tick, Disable, svars
  <2> QED
    BY <1>c, <2>1 DEF UseInv, Row
<1> QED
  BY <1>1, <1>2, <1>3, <1>4, <1>5 DEF SNext

(* The idle timeout holds in both directions, with the granularity of the  *)
(* throttled refresh: unused for Idle means gone, used within              *)
(* Idle - RefreshAfter means still there.                                  *)
THEOREM IdleTimeout == TxLag = 0 => (SSpec => []IdleWindow)
<1> SUFFICES ASSUME TxLag = 0 PROVE SSpec => []IdleWindow
  OBVIOUS
<1>1. SInit => UseInv
  BY DEF SInit, UseInv, NoRow
<1>2. SInv /\ UseInv /\ [SNext]_svars => UseInv'
  BY UseInvStep
<1>3. SInv /\ UseInv => IdleWindow
  <2> SUFFICES ASSUME SInv, UseInv, NEW s \in SessionIds,
                      sess[s].status = "open"
               PROVE  /\ clock >= lastUse[s] + Idle => ~Live(s)
                      /\ /\ clock < lastUse[s] + Idle - RefreshAfter
                         /\ clock < sess[s].abs
                         => Live(s)
    BY DEF IdleWindow
  <2>1. /\ clock \in Nat /\ lastUse[s] \in Nat /\ sess[s] \in Row
        /\ sess[s].idle = sess[s].seen + Idle
        /\ sess[s].seen <= lastUse[s]
        /\ lastUse[s] <= sess[s].seen + RefreshAfter
    BY DEF SInv, STypeOK, RowInv, UseInv
  <2>2. sess[s].seen \in Nat /\ sess[s].abs \in Nat
    BY <2>1 DEF Row
  <2> QED
    BY <2>1, <2>2, SessionsAssumption DEF Live, LiveAt
<1> QED
  BY <1>1, <1>2, <1>3, Structure, PTL DEF SSpec

LEMMA FactorStep ==
  ASSUME TxLag = 0, SInv, FactorWithinSession, [SNext]_svars
  PROVE  FactorWithinSession'
<1> USE SessionsAssumption
<1>b. STypeOK /\ RowInv
  BY DEF SInv
<1>t. \A t \in TxTimes : t = clock
  BY <1>b, NoLag
<1>c. clock \in Nat /\ \A s \in SessionIds : sess[s] \in Row
  BY <1>b DEF STypeOK
<1>1. ASSUME NEW s \in SessionIds, NEW u \in Users, NEW tok \in Tokens,
             NEW t \in TxTimes, Issue(s, u, tok, t)
      PROVE  FactorWithinSession'
  BY <1>1, <1>b DEF Issue, FactorWithinSession, STypeOK
<1>2. ASSUME NEW s \in SessionIds,
             \/ \E t \in TxTimes : Lookup(s, t)
             \/ \E tok \in Tokens, t \in TxTimes : Rotate(s, tok, t)
      PROVE  FactorWithinSession'
  <2>1. /\ \A x \in SessionIds \ {s} : sess'[x] = sess[x]
        /\ sess'[s].mfa = sess[s].mfa
        /\ sess'[s].created = sess[s].created
        /\ sess'[s].abs = sess[s].abs
        /\ sess'[s].idle = sess[s].idle \/ sess'[s].idle = clock + Idle
    <3>1. CASE \E t \in TxTimes : Lookup(s, t)
      BY <3>1, <1>b, <1>c, <1>t DEF Lookup, STypeOK, Row
    <3>2. CASE \E tok \in Tokens, t \in TxTimes : Rotate(s, tok, t)
      BY <3>2, <1>b, <1>c, <1>t DEF Rotate, STypeOK, Row
    <3> QED
      BY <1>2, <3>1, <3>2
  <2>2. sess[s].idle <= clock + Idle
    <3>1. sess[s].status # "unused"
      BY <1>2 DEF Lookup, Rotate, LiveAt
    <3>2. sess[s].seen <= clock /\ sess[s].idle = sess[s].seen + Idle
      BY <1>b, <3>1 DEF RowInv
    <3>3. sess[s].seen \in Nat
      BY <1>c DEF Row
    <3> QED
      BY <1>c, <3>2, <3>3
  <2> QED
    BY <1>c, <2>1, <2>2 DEF FactorWithinSession, Row
<1>3. ASSUME NEW s \in SessionIds, NEW u \in Users, NEW t \in TxTimes,
             RecordMFA(s, u, t)
      PROVE  FactorWithinSession'
  <2>1. /\ \A x \in SessionIds \ {s} : sess'[x] = sess[x]
        /\ sess'[s] = [sess[s] EXCEPT !.mfa = clock]
        /\ LiveAt(s, clock) /\ sess[s].created <= clock
    BY <1>3, <1>b, <1>t DEF RecordMFA, LiveAt, STypeOK, RowInv
  <2> QED
    BY <1>c, <2>1 DEF FactorWithinSession, LiveAt, Row
<1>4. ASSUME \/ \E s \in SessionIds : Revoke(s)
             \/ \E u \in Users : RevokeAllForUser(u)
      PROVE  FactorWithinSession'
  <2>1. \A s \in SessionIds : /\ sess'[s].mfa = sess[s].mfa
                              /\ sess'[s].created = sess[s].created
                              /\ sess'[s].abs = sess[s].abs
                              /\ sess'[s].idle = sess[s].idle
    BY <1>4, <1>b, <1>c DEF Revoke, RevokeAllForUser, STypeOK, Row
  <2> QED
    BY <2>1 DEF FactorWithinSession
<1>5. ASSUME Tick \/ (\E u \in Users : Disable(u)) \/ UNCHANGED svars
      PROVE  FactorWithinSession'
  BY <1>5 DEF Tick, Disable, svars, FactorWithinSession
<1> QED
  BY <1>1, <1>2, <1>3, <1>4, <1>5 DEF SNext

(* A recorded second factor lies inside the life of the session that       *)
(* carries it; the rotation that follows it cannot move it outside.        *)
THEOREM FactorLifetime == TxLag = 0 => (SSpec => []FactorWithinSession)
<1> SUFFICES ASSUME TxLag = 0 PROVE SSpec => []FactorWithinSession
  OBVIOUS
<1>1. SInit => FactorWithinSession
  BY DEF SInit, FactorWithinSession, NoRow
<1>2. SInv /\ FactorWithinSession /\ [SNext]_svars => FactorWithinSession'
  BY FactorStep
<1> QED
  BY <1>1, <1>2, Structure, PTL DEF SSpec

-----------------------------------------------------------------------------
(* Nothing touches a dead session. *)

(* One step leaves a row that is not live exactly as it was, but for its   *)
(* revocation.                                                             *)
LEMMA DeadStep ==
  ASSUME TxLag = 0, SInv, [SNext]_svars, NEW s \in SessionIds
  PROVE  DeadRowFrozen(s)
<1> USE SessionsAssumption
<1> SUFFICES ASSUME sess[s].status # "unused", ~Live(s)
             PROVE  /\ ~Live(s)'
                    /\ sess'[s] \in {sess[s],
                                     [sess[s] EXCEPT !.status = "revoked"]}
  BY DEF DeadRowFrozen
<1>b. STypeOK /\ RowInv
  BY DEF SInv
<1>t. \A t \in TxTimes : t = clock
  BY <1>b, NoLag
<1>c. clock \in Nat /\ sess[s] \in Row
  BY <1>b DEF STypeOK
<1>1. CASE \/ \E x \in SessionIds, u \in Users, tok \in Tokens, t \in TxTimes :
                 Issue(x, u, tok, t)
           \/ \E x \in SessionIds, t \in TxTimes : Lookup(x, t)
           \/ \E x \in SessionIds, tok \in Tokens, t \in TxTimes :
                 Rotate(x, tok, t)
           \/ \E x \in SessionIds, u \in Users, t \in TxTimes :
                 RecordMFA(x, u, t)
  <2>1. sess'[s] = sess[s] /\ clock' = clock
    BY <1>1, <1>b, <1>t
    DEF Issue, Lookup, Rotate, RecordMFA, Live, STypeOK
  <2> QED
    BY <2>1 DEF Live, LiveAt
<1>2. CASE \/ \E x \in SessionIds : Revoke(x)
           \/ \E u \in Users : RevokeAllForUser(u)
  <2>1. /\ clock' = clock
        /\ sess'[s] \in {sess[s], [sess[s] EXCEPT !.status = "revoked"]}
    BY <1>2, <1>b DEF Revoke, RevokeAllForUser, STypeOK
  <2> QED
    BY <1>c, <2>1 DEF Live, LiveAt, Row
<1>3. CASE Tick \/ (\E u \in Users : Disable(u)) \/ UNCHANGED svars
  <2>1. sess' = sess /\ (clock' = clock \/ clock' = clock + 1)
    BY <1>3 DEF Tick, Disable, svars
  <2> QED
    BY <1>c, <2>1 DEF Live, LiveAt, Row
<1> QED
  BY <1>1, <1>2, <1>3 DEF SNext

(* A revoked or expired session is never resurrected, by rotation, by a    *)
(* second factor or by a lookup that extends its idle window.              *)
THEOREM NoResurrection == TxLag = 0 => (SSpec => DeadSessionsStayDead)
<1> SUFFICES ASSUME TxLag = 0 PROVE SSpec => DeadSessionsStayDead
  OBVIOUS
<1>1. SInv /\ [SNext]_svars => [\A s \in SessionIds : DeadRowFrozen(s)]_svars
  BY DeadStep
<1> QED
  BY <1>1, Structure, PTL DEF SSpec, DeadSessionsStayDead

-----------------------------------------------------------------------------
(* The table implements module Credential. *)

(* A step that mints no token and lets no further token resolve retires    *)
(* the tokens it stops from resolving.                                     *)
LEMMA Retirement ==
  ASSUME minted' = minted,
         \A tok \in Tokens : Resolves(tok, clock)' => Resolves(tok, clock)
  PROVE  Cred!CNext
<1> DEFINE S == {tok \in Tokens : /\ minted[tok] # Nobody
                                  /\ Resolves(tok, clock)
                                  /\ ~Resolves(tok, clock)'}
<1>1. \A tok \in S : TokenPhase[tok] = "valid"
  BY DEF TokenPhase
<1>2. TokenPhase' = [tok \in Tokens |->
                        IF tok \in S THEN "spent" ELSE TokenPhase[tok]]
  BY DEF TokenPhase
<1>3. Cred!Retire(S)
  BY <1>1, <1>2 DEF Cred!Retire
<1> QED
  BY <1>3 DEF Cred!CNext

LEMMA IssueRefines ==
  ASSUME SInv, NEW s \in SessionIds, NEW u \in Users, NEW tok \in Tokens,
         Issue(s, u, tok, clock)
  PROVE  Cred!CNext
<1> USE SessionsAssumption
<1>1. /\ sess[s].status = "unused" /\ minted[tok] = Nobody /\ u # Nobody
      /\ minted' = [minted EXCEPT ![tok] = u]
      /\ minted \in [Tokens -> Users \cup {Nobody}] /\ clock \in Nat
      /\ clock' = clock /\ deleted' = deleted
      /\ sess'[s].status = "open" /\ sess'[s].token = tok
      /\ sess'[s].user = u
      /\ sess'[s].idle = clock + Idle /\ sess'[s].abs = clock + Absolute
      /\ \A x \in SessionIds \ {s} : sess'[x] = sess[x]
  BY DEF Issue, SInv, STypeOK, NewToken
<1>2. \A x \in SessionIds : LiveAt(x, clock) => sess[x].token # tok
  BY <1>1 DEF SInv, RowInv, LiveAt
<1>3. \A x \in Tokens \ {tok} :
         Resolves(x, clock)' <=> Resolves(x, clock)
  BY <1>1 DEF Resolves, LiveAt
<1>4. Resolves(tok, clock)' <=> u \notin deleted
  <2>1. LiveAt(s, clock)'
    BY <1>1 DEF LiveAt
  <2>2. \A x \in SessionIds \ {s} :
           LiveAt(x, clock)' => sess'[x].token # tok
    BY <1>1, <1>2 DEF LiveAt
  <2> QED
    BY <1>1, <2>1, <2>2 DEF Resolves
<1>5. TokenPhase[tok] = "fresh"
  BY <1>1 DEF TokenPhase
<1>6. TokenPhase' = [TokenPhase EXCEPT ![tok] =
                        IF u \notin deleted THEN "valid" ELSE "spent"]
  <2>1. \A x \in Tokens \ {tok} : TokenPhase'[x] = TokenPhase[x]
    BY <1>1, <1>3 DEF TokenPhase
  <2>2. TokenPhase'[tok] = IF u \notin deleted THEN "valid" ELSE "spent"
    BY <1>1, <1>4 DEF TokenPhase
  <2> QED
    BY <2>1, <2>2 DEF TokenPhase
<1>7. CASE u \notin deleted
  <2>1. Cred!Grant(tok, u)
    BY <1>1, <1>5, <1>6, <1>7 DEF Cred!Grant
  <2> QED
    BY <2>1 DEF Cred!CNext
<1>8. CASE u \in deleted
  <2>1. Cred!Waste(tok, u)
    BY <1>1, <1>5, <1>6, <1>8 DEF Cred!Waste
  <2> QED
    BY <2>1 DEF Cred!CNext
<1> QED
  BY <1>7, <1>8

LEMMA RotateRefines ==
  ASSUME SInv, NEW s \in SessionIds, NEW tok \in Tokens,
         Rotate(s, tok, clock)
  PROVE  Cred!CNext
<1> USE SessionsAssumption
<1>0. PICK old \in Tokens, u \in Users :
         old = sess[s].token /\ u = sess[s].user
  BY DEF Rotate, LiveAt, SInv, RowInv
<1>1. /\ LiveAt(s, clock) /\ sess[s] \in Row
      /\ old = sess[s].token /\ u = sess[s].user
      /\ minted[old] = u /\ u # Nobody
      /\ minted[tok] = Nobody /\ old # tok
      /\ minted' = [minted EXCEPT ![tok] = u]
      /\ minted \in [Tokens -> Users \cup {Nobody}] /\ clock \in Nat
      /\ clock' = clock /\ deleted' = deleted
  BY <1>0 DEF Rotate, SInv, STypeOK, RowInv, NewToken, LiveAt
<1>2. /\ sess'[s].status = "open" /\ sess'[s].token = tok
      /\ sess'[s].user = u
      /\ sess'[s].idle = clock + Idle /\ sess'[s].abs = sess[s].abs
      /\ \A x \in SessionIds \ {s} : sess'[x] = sess[x]
  BY <1>1 DEF Rotate, SInv, STypeOK, LiveAt, Row
<1>3. \A x \in SessionIds : LiveAt(x, clock) => sess[x].token # tok
  BY <1>1 DEF SInv, RowInv, LiveAt
<1>4. \A x \in SessionIds \ {s} : LiveAt(x, clock) => sess[x].token # old
  BY <1>1 DEF SInv, TokenInv, LiveAt
<1>5. LiveAt(s, clock)' /\ \A x \in SessionIds \ {s} :
         LiveAt(x, clock)' <=> LiveAt(x, clock)
  BY <1>1, <1>2 DEF LiveAt
<1>6. /\ \A x \in Tokens \ {tok, old} :
            Resolves(x, clock)' <=> Resolves(x, clock)
      /\ ~Resolves(old, clock)'
      /\ Resolves(old, clock) <=> u \notin deleted
      /\ Resolves(tok, clock)' <=> u \notin deleted
  <2>1. \A x \in Tokens \ {tok, old} :
            Resolves(x, clock)' <=> Resolves(x, clock)
    BY <1>1, <1>2, <1>5 DEF Resolves
  <2>2. ~Resolves(old, clock)'
    BY <1>1, <1>2, <1>4, <1>5 DEF Resolves
  <2>3. Resolves(old, clock) <=> u \notin deleted
    BY <1>1, <1>4 DEF Resolves
  <2>4. Resolves(tok, clock)' <=> u \notin deleted
    BY <1>1, <1>2, <1>3, <1>5 DEF Resolves
  <2> QED
    BY <2>1, <2>2, <2>3, <2>4
<1>7. /\ TokenPhase[tok] = "fresh"
      /\ TokenPhase[old] = IF u \notin deleted THEN "valid" ELSE "spent"
  BY <1>1, <1>6 DEF TokenPhase
<1>8. /\ \A x \in Tokens \ {tok, old} : TokenPhase'[x] = TokenPhase[x]
      /\ TokenPhase'[old] = "spent"
      /\ TokenPhase'[tok] = IF u \notin deleted THEN "valid" ELSE "spent"
  <2>1. \A x \in Tokens \ {tok, old} : minted'[x] = minted[x]
    BY <1>1
  <2>2. u # Nobody /\ minted'[old] = u /\ minted'[tok] = u
    BY <1>1
  <2>3. \A x \in Tokens \ {tok, old} : TokenPhase'[x] = TokenPhase[x]
    BY <1>6, <2>1 DEF TokenPhase
  <2>4. TokenPhase'[old] = "spent"
    BY <1>1, <1>6, <2>2 DEF TokenPhase
  <2>5. TokenPhase'[tok] = IF u \notin deleted THEN "valid" ELSE "spent"
    BY <1>6, <2>2 DEF TokenPhase
  <2> QED
    BY <2>3, <2>4, <2>5
<1>9. CASE u \notin deleted
  <2>1. TokenPhase' = [TokenPhase EXCEPT ![old] = "spent", ![tok] = "valid"]
    BY <1>1, <1>8, <1>9 DEF TokenPhase
  <2>2. Cred!Swap(old, tok)
    BY <1>1, <1>7, <1>9, <2>1 DEF Cred!Swap
  <2> QED
    BY <1>1, <2>2 DEF Cred!CNext
<1>10. CASE u \in deleted
  <2>1. TokenPhase' = [TokenPhase EXCEPT ![tok] = "spent"]
    BY <1>1, <1>7, <1>8, <1>10 DEF TokenPhase
  <2>2. Cred!Waste(tok, u)
    BY <1>1, <1>7, <2>1 DEF Cred!Waste
  <2> QED
    BY <1>1, <2>2 DEF Cred!CNext
<1> QED
  BY <1>9, <1>10

LEMMA StepRefines ==
  ASSUME TxLag = 0, SInv, [SNext]_svars
  PROVE  [Cred!CNext]_(Cred!cvars)
<1> USE SessionsAssumption
<1>b. STypeOK /\ RowInv /\ TokenInv
  BY DEF SInv
<1>t. \A t \in TxTimes : t = clock
  BY <1>b, NoLag
<1>c. clock \in Nat /\ \A s \in SessionIds : sess[s] \in Row
  BY <1>b DEF STypeOK
<1>1. CASE \E s \in SessionIds, u \in Users, tok \in Tokens, t \in TxTimes :
              Issue(s, u, tok, t)
  BY <1>1, <1>t, IssueRefines
<1>2. CASE \E s \in SessionIds, tok \in Tokens, t \in TxTimes :
              Rotate(s, tok, t)
  BY <1>2, <1>t, RotateRefines
<1>3. ASSUME \/ \E s \in SessionIds, t \in TxTimes : Lookup(s, t)
             \/ \E s \in SessionIds, u \in Users, t \in TxTimes :
                   RecordMFA(s, u, t)
             \/ \E s \in SessionIds : Revoke(s)
             \/ \E u \in Users : RevokeAllForUser(u)
      PROVE  Cred!CNext
  <2>1. /\ minted' = minted /\ clock' = clock /\ deleted' = deleted
        /\ \A s \in SessionIds :
              /\ sess'[s].token = sess[s].token
              /\ sess'[s].user = sess[s].user
              /\ sess'[s].abs = sess[s].abs
              /\ sess'[s].status = "open" => sess[s].status = "open"
              /\ sess'[s].idle # sess[s].idle => LiveAt(s, clock)
    <3>1. minted' = minted /\ clock' = clock /\ deleted' = deleted
      BY <1>3 DEF Lookup, RecordMFA, Revoke, RevokeAllForUser
    <3>2. CASE \E s \in SessionIds, t \in TxTimes : Lookup(s, t)
      BY <1>b, <1>c, <1>t, <3>1, <3>2 DEF Lookup, STypeOK, Row
    <3>3. CASE \E s \in SessionIds, u \in Users, t \in TxTimes :
                  RecordMFA(s, u, t)
      BY <1>b, <1>c, <3>1, <3>3 DEF RecordMFA, STypeOK, Row
    <3>4. CASE \E s \in SessionIds : Revoke(s)
      BY <1>b, <1>c, <3>1, <3>4 DEF Revoke, STypeOK, Row
    <3>5. CASE \E u \in Users : RevokeAllForUser(u)
      BY <1>b, <1>c, <3>1, <3>5 DEF RevokeAllForUser, STypeOK, Row
    <3> QED
      BY <1>3, <3>2, <3>3, <3>4, <3>5
  <2>2. \A s \in SessionIds : LiveAt(s, clock)' => LiveAt(s, clock)
    BY <1>c, <2>1 DEF LiveAt
  <2> QED
    BY <2>1, <2>2, Retirement DEF Resolves
<1>4. ASSUME Tick \/ (\E u \in Users : Disable(u))
      PROVE  Cred!CNext
  <2>1. /\ minted' = minted /\ sess' = sess /\ deleted \subseteq deleted'
        /\ clock' = clock \/ clock' = clock + 1
    BY <1>4 DEF Tick, Disable
  <2>2. \A s \in SessionIds : LiveAt(s, clock)' => LiveAt(s, clock)
    BY <1>c, <2>1 DEF LiveAt, Row
  <2> QED
    BY <2>1, <2>2, Retirement DEF Resolves
<1>5. CASE UNCHANGED svars
  BY <1>5 DEF svars, Cred!cvars, TokenPhase, Resolves, LiveAt
<1> QED
  BY <1>1, <1>2, <1>3, <1>4, <1>5 DEF SNext

(* The table and its statements implement the credential's promise: a      *)
(* token is minted once, for one user, resolves from then until it is      *)
(* rotated out, revoked, expired or its account closed, and never again.   *)
THEOREM Refinement == TxLag = 0 => (SSpec => ImplementsCredential)
<1> SUFFICES ASSUME TxLag = 0 PROVE SSpec => ImplementsCredential
  OBVIOUS
<1>1. SInit => Cred!CInit
  BY DEF SInit, Cred!CInit, TokenPhase
<1>2. SInv /\ [SNext]_svars => [Cred!CNext]_(Cred!cvars)
  BY StepRefines
<1> QED
  BY <1>1, <1>2, Structure, PTL DEF SSpec, ImplementsCredential, Cred!CSpec
=============================================================================
