--------------------------- MODULE AccountsProofs ---------------------------
(***************************************************************************)
(* What TLAPS proves of module Accounts, for every set of users, sessions, *)
(* tokens, links and requests and every choice of timeouts.                *)
(***************************************************************************)
EXTENDS Accounts, SessionsProofs, FiniteSetTheorems

(* What a request holds at each of its statements is what the statement    *)
(* needs: an operation that has the statement, a principal whose row       *)
(* exists, an account, a session, a link that was mailed.                  *)
OpsAt(pc) ==
    CASE pc \in {"insert", "find", "mint"} -> {"register", "forgot", "invite"}
      [] pc = "consume" -> {"reset", "verify", "accept"}
      [] pc = "set" -> {"reset", "accept"}
      [] pc = "revokeAll" -> {"reset"}
      [] pc = "markVerified" -> {"verify", "accept"}
      [] OTHER -> AllOps

Held(r) ==
    /\ req[r].op \in OpsAt(req[r].pc)
    /\ req[r].prior # NoSession => sess[req[r].prior].status # "unused"
    /\ req[r].cookie # NoToken => req[r].prior # NoSession
    /\ req[r].pc \in {"revoke", "read", "write", "rotate"}
          => req[r].prior # NoSession
    /\ req[r].pc \in {"rehash", "revoke", "issue", "write", "rotate",
                      "mint", "set", "revokeAll", "markVerified"}
          => req[r].user \in Users
    /\ req[r].pc = "lookup" => req[r].sid # NoSession
    /\ req[r].link # NoLink => links[req[r].link].minted
    /\ req[r].pc = "consume" => req[r].link # NoLink
HoldInv == \A r \in Requests : Held(r)

(* A link that was mailed is somebody's, and has been burned once at most. *)
LinkInv ==
    \A l \in Links :
        /\ links[l].minted => links[l].user \in Users
        /\ links[l].burns <= 1

AInv == ATypeOK /\ SInv /\ HoldInv /\ LinkInv

(* The facts about constants the proofs below use. *)
LEMMA Sets ==
    /\ NoSession \notin SessionIds /\ NoToken \notin Tokens
    /\ NoLink \notin Links /\ Nobody \notin Users
    /\ {VerifyTTL, ResetTTL, InviteTTL} \subseteq Nat
    /\ Ops \subseteq AllOps /\ Provisioned \subseteq Users
  BY AccountsAssumption, SessionsAssumption

-----------------------------------------------------------------------------
(* Every step of a request is a step of the session table, or leaves it    *)
(* alone.                                                                  *)

LEMMA Now == STypeOK => clock \in TxTimes
  BY SessionsAssumption DEF STypeOK, TxTimes

LEMMA StepOfSessions ==
  ASSUME AInv, [Next]_vars
  PROVE  [SNext]_svars
<1>a. /\ STypeOK /\ req \in [Requests -> Request] /\ HoldInv
      /\ clock \in TxTimes
  BY Now DEF AInv, ATypeOK
<1>1. CASE UNCHANGED vars
  BY <1>1 DEF vars
<1>2. CASE CloseAccount \/ TimePasses
  BY <1>2 DEF CloseAccount, TimePasses, SNext
<1>3. ASSUME NEW r \in Requests, Step(r)
      PROVE  [SNext]_svars
  <2>a. /\ req[r].prior # NoSession => req[r].prior \in SessionIds
        /\ req[r].sid # NoSession => req[r].sid \in SessionIds
    BY <1>a DEF Request
  <2>1. CASE Arrive(r)
    BY <1>a, <2>1 DEF Arrive, SNext
  <2>2. CASE \/ Abort(r) \/ LoginThrottled(r) \/ LoginUnknown(r)
             \/ LoginSelect(r) \/ LoginRehash(r) \/ ChangeRead(r)
             \/ ChangeWrite(r) \/ FindUser(r) \/ InsertUser(r)
             \/ MintLink(r) \/ Consume(r) \/ SetPassword(r)
             \/ MarkVerified(r)
    BY <2>2 DEF Abort, LoginThrottled, LoginUnknown, LoginSelect,
         LoginRehash, ChangeRead, ChangeWrite, FindUser, InsertUser,
         MintLink, Consume, SetPassword, MarkVerified
  <2>3. CASE LoginRevoke(r)
    BY <1>a, <2>a, <2>3 DEF LoginRevoke, RevokePrior, HoldInv, Held, At, SNext
  <2>4. CASE LoginIssue(r)
    BY <1>a, <2>4 DEF LoginIssue, HoldInv, Held, At, SNext
  <2>5. CASE LoginLookup(r)
    BY <1>a, <2>a, <2>5 DEF LoginLookup, HoldInv, Held, At, SNext
  <2>6. CASE Logout(r)
    BY <1>a, <2>a, <2>6 DEF Logout, RevokePrior, SNext
  <2>7. CASE ChangeRotate(r)
    BY <1>a, <2>a, <2>7 DEF ChangeRotate, HoldInv, Held, At, SNext
  <2>8. CASE ResetRevokeAll(r)
    BY <1>a, <2>8 DEF ResetRevokeAll, HoldInv, Held, At, SNext
  <2> QED
    BY <1>3, <2>1, <2>2, <2>3, <2>4, <2>5, <2>6, <2>7, <2>8 DEF Step
<1> QED
  BY <1>1, <1>2, <1>3 DEF Next

LEMMA SessionsKept ==
  ASSUME AInv, [Next]_vars
  PROVE  SInv'
  BY StepOfSessions, SInvStep DEF AInv

LEMMA RowsStay ==
  ASSUME STypeOK, [SNext]_svars, NEW s \in SessionIds,
         sess[s].status # "unused"
  PROVE  sess'[s].status # "unused"
<1> USE DEF STypeOK, Row
<1>1. ASSUME NEW x \in SessionIds, NEW u \in Users, NEW tok \in Tokens,
             NEW t \in TxTimes, Issue(x, u, tok, t)
      PROVE  sess'[s].status # "unused"
  BY <1>1 DEF Issue
<1>2. ASSUME NEW x \in SessionIds, NEW t \in TxTimes, Lookup(x, t)
      PROVE  sess'[s].status # "unused"
  BY <1>2 DEF Lookup
<1>3. ASSUME NEW x \in SessionIds, NEW tok \in Tokens, NEW t \in TxTimes,
             Rotate(x, tok, t)
      PROVE  sess'[s].status # "unused"
  BY <1>3 DEF Rotate
<1>4. ASSUME NEW x \in SessionIds, NEW u \in Users, NEW t \in TxTimes,
             RecordMFA(x, u, t)
      PROVE  sess'[s].status # "unused"
  BY <1>4 DEF RecordMFA
<1>5. ASSUME NEW x \in SessionIds, Revoke(x)
      PROVE  sess'[s].status # "unused"
  BY <1>5 DEF Revoke
<1>6. ASSUME NEW u \in Users, RevokeAllForUser(u) \/ Disable(u)
      PROVE  sess'[s].status # "unused"
  BY <1>6 DEF RevokeAllForUser, Disable
<1>7. CASE Tick \/ UNCHANGED svars
  BY <1>7 DEF Tick, svars
<1> QED
  BY <1>1, <1>2, <1>3, <1>4, <1>5, <1>6, <1>7 DEF SNext

-----------------------------------------------------------------------------
(* Type correctness, with what requests hold. *)

(* The variables of this module but req and links. *)
RestType ==
    /\ acct \in [Users -> Account]
    /\ hashes \in Nat
    /\ born \in [SessionIds -> [via: Nat, late: BOOLEAN]]
    /\ resets \in [Users -> [set: Nat, done: Nat]]
    /\ replaced \in SUBSET Tokens

ReqType == req \in [Requests -> Request]
LinkType == links \in [Links -> Link]

(* What a step of r establishes; the other requests are left alone.        *)
Kept(r) == RestType' /\ ReqType' /\ LinkType' /\ LinkInv'
             /\ Held(r)'
             /\ \A q \in Requests \ {r} : req'[q] = req[q]
             /\ \A l \in Links : links[l].minted => links'[l].minted

LEMMA FinishKeeps ==
  ASSUME ReqType, NEW r \in Requests, Finish(r)
  PROVE  ReqType' /\ Held(r)' /\ \A q \in Requests \ {r} : req'[q] = req[q]
<1>1. NoRequest \in Request
  BY DEF NoRequest, Request, PCs, AllOps, HashRecord, NoHash
<1>2. req' = [req EXCEPT ![r] = NoRequest]
  BY DEF Finish
<1>3. req'[r] = NoRequest
  BY <1>2 DEF ReqType
<1>4. Held(r)'
  BY <1>3 DEF Held, NoRequest, OpsAt, AllOps
<1> QED
  BY <1>1, <1>2, <1>4 DEF ReqType

LEMMA GoKeeps ==
  ASSUME ReqType, NEW r \in Requests, NEW pc \in PCs, Go(r, pc)
  PROVE  /\ ReqType'
         /\ req'[r] = [req[r] EXCEPT !.pc = pc]
         /\ \A q \in Requests \ {r} : req'[q] = req[q]
  BY DEF Go, ReqType, Request

LEMMA HashTyped ==
  ASSUME RestType, NEW pw \in Passwords \cup {NoPassword}
  PROVE  NewHash(pw) \in HashRecord
  BY DEF RestType, NewHash, HashRecord

(* A request that takes a step stays a request, and the others stay.      *)
LEMMA RequestStored ==
  ASSUME req \in [Requests -> Request], NEW r \in Requests,
         NEW u \in Users, NEW h \in HashRecord, NEW pc \in PCs,
         req' = [req EXCEPT ![r].user = u, ![r].hash = h, ![r].pc = pc]
  PROVE  /\ req' \in [Requests -> Request]
         /\ \A q \in Requests \ {r} : req'[q] = req[q]
<1>1. req'[r] = [req[r] EXCEPT !.user = u, !.hash = h, !.pc = pc]
  OBVIOUS
<1>2. [req[r] EXCEPT !.user = u, !.hash = h, !.pc = pc] \in Request
  BY DEF Request
<1>3. req' = [q \in Requests |-> req'[q]]
  OBVIOUS
<1>4. \A q \in Requests \ {r} : req'[q] = req[q]
  OBVIOUS
<1>5. \A q \in Requests : req'[q] \in Request
  <2>1. ASSUME NEW q \in Requests \ {r}
        PROVE  req'[q] \in Request
    BY <1>4
  <2> QED
    BY <1>1, <1>2, <2>1
<1> QED
  BY ONLY <1>3, <1>4, <1>5

LEMMA UserFound ==
  ASSUME req \in [Requests -> Request], NEW r \in Requests,
         NEW u \in Users, NEW pc \in PCs,
         req' = [req EXCEPT ![r].pc = pc, ![r].user = u]
  PROVE  /\ req' \in [Requests -> Request]
         /\ \A q \in Requests \ {r} : req'[q] = req[q]
<1>1. req'[r] = [req[r] EXCEPT !.pc = pc, !.user = u]
  OBVIOUS
<1>2. [req[r] EXCEPT !.pc = pc, !.user = u] \in Request
  BY DEF Request
<1>3. req' = [q \in Requests |-> req'[q]]
  OBVIOUS
<1>4. \A q \in Requests \ {r} : req'[q] = req[q]
  OBVIOUS
<1>5. \A q \in Requests : req'[q] \in Request
  <2>1. ASSUME NEW q \in Requests \ {r}
        PROVE  req'[q] \in Request
    BY <1>4
  <2> QED
    BY <1>1, <1>2, <2>1
<1> QED
  BY ONLY <1>3, <1>4, <1>5

LEMMA UserNamed ==
  ASSUME req \in [Requests -> Request], NEW r \in Requests,
         NEW u \in Users, NEW pc \in PCs,
         req' = [req EXCEPT ![r].user = u, ![r].pc = pc]
  PROVE  /\ req' \in [Requests -> Request]
         /\ \A q \in Requests \ {r} : req'[q] = req[q]
<1>1. req'[r] = [req[r] EXCEPT !.user = u, !.pc = pc]
  OBVIOUS
<1>2. [req[r] EXCEPT !.user = u, !.pc = pc] \in Request
  BY DEF Request
<1>3. req' = [q \in Requests |-> req'[q]]
  OBVIOUS
<1>4. \A q \in Requests \ {r} : req'[q] = req[q]
  OBVIOUS
<1>5. \A q \in Requests : req'[q] \in Request
  <2>1. ASSUME NEW q \in Requests \ {r}
        PROVE  req'[q] \in Request
    BY <1>4
  <2> QED
    BY <1>1, <1>2, <2>1
<1> QED
  BY ONLY <1>3, <1>4, <1>5

LEMMA SessionStored ==
  ASSUME req \in [Requests -> Request], NEW r \in Requests,
         NEW s \in SessionIds, NEW pc \in PCs,
         req' = [req EXCEPT ![r].pc = pc, ![r].sid = s]
  PROVE  /\ req' \in [Requests -> Request]
         /\ \A q \in Requests \ {r} : req'[q] = req[q]
<1>1. req'[r] = [req[r] EXCEPT !.sid = s, !.pc = pc]
  OBVIOUS
<1>2. [req[r] EXCEPT !.sid = s, !.pc = pc] \in Request
  BY DEF Request
<1>3. req' = [q \in Requests |-> req'[q]]
  OBVIOUS
<1>4. \A q \in Requests \ {r} : req'[q] = req[q]
  OBVIOUS
<1>5. \A q \in Requests : req'[q] \in Request
  <2>1. ASSUME NEW q \in Requests \ {r}
        PROVE  req'[q] \in Request
    BY <1>4
  <2> QED
    BY <1>1, <1>2, <2>1
<1> QED
  BY ONLY <1>3, <1>4, <1>5

LEMMA HashStored ==
  ASSUME RestType, NEW u \in Users, NEW h \in HashRecord,
         acct' = [acct EXCEPT ![u].hash = h]
  PROVE  acct' \in [Users -> Account]
  BY DEF RestType, Account

(* A new request holds a principal found live, or none, and a link that    *)
(* was mailed, or none.                                                    *)
LEMMA ArriveKeeps ==
  ASSUME AInv, [SNext]_svars, NEW r \in Requests, Arrive(r)
  PROVE  Kept(r)
<1>a. /\ RestType /\ ReqType /\ LinkType /\ LinkInv /\ STypeOK
      /\ UNCHANGED <<acct, links, hashes, born, resets, replaced>>
  BY DEF AInv, ATypeOK, RestType, ReqType, LinkType, Arrive, history
<1>b. RestType' /\ LinkType' /\ LinkInv'
  BY <1>a DEF RestType, LinkType, LinkInv
<1>1. ASSUME NEW op \in AllOps, NEW e \in Emails \cup {NoEmail},
             NEW pw \in Passwords \cup {NoPassword},
             NEW new \in Passwords \cup {NoPassword},
             NEW l \in Links \cup {NoLink},
             NEW cookie \in Tokens \cup {NoToken},
             NEW prior \in SessionIds \cup {NoSession},
             Call(r, op, e, pw, new, l, cookie, prior),
             l # NoLink => links[l].minted,
             op \in {"reset", "verify", "accept"} => l # NoLink,
             op = "change" => prior # NoSession,
             cookie # NoToken => prior # NoSession,
             prior # NoSession => sess[prior].status # "unused"
      PROVE  Kept(r)
  <2>1. /\ FirstPC(op) \in PCs
        /\ FirstPC(op) \notin {"revoke", "write", "rotate", "rehash", "issue",
              "mint", "set", "revokeAll", "markVerified", "lookup"}
        /\ FirstPC(op) = "consume" => op \in {"reset", "verify", "accept"}
        /\ FirstPC(op) = "read" => op = "change"
        /\ op \in OpsAt(FirstPC(op))
    BY DEF FirstPC, AllOps, PCs, OpsAt
  <2>2. PICK v \in Request :
           /\ req' = [req EXCEPT ![r] = v]
           /\ v.prior = prior /\ v.cookie = cookie /\ v.link = l
           /\ v.pc = FirstPC(op) /\ v.op = op
    <3>1. NoHash \in HashRecord
      BY DEF HashRecord, NoHash
    <3>2. [pc |-> FirstPC(op), op |-> op, email |-> e, pw |-> pw,
           new |-> new, link |-> l, cookie |-> cookie, prior |-> prior,
           sid |-> NoSession, user |-> Nobody, hash |-> NoHash] \in Request
      BY <2>1, <3>1 DEF Request
    <3> QED
      BY <1>1, <3>2 DEF Call
  <2>4. ReqType' /\ req'[r] = v /\ \A q \in Requests \ {r} : req'[q] = req[q]
    BY <1>a, <2>2 DEF ReqType
  <2>6. prior # NoSession => sess'[prior].status # "unused"
    BY <1>1, <1>a, RowsStay
  <2>7. Held(r)'
    BY <1>1, <1>a, <2>1, <2>2, <2>4, <2>6 DEF Held
  <2> QED
    BY <1>a, <1>b, <2>4, <2>7 DEF Kept
<1>2. ASSUME NEW cookie \in Tokens \cup {NoToken},
             NEW prior \in SessionIds \cup {NoSession},
             cookie # NoToken => prior # NoSession,
             prior # NoSession => sess[prior].status # "unused",
             Arguments(r, cookie, prior)
      PROVE  Kept(r)
  <2>n. NoEmail \in Emails \cup {NoEmail}
        /\ NoPassword \in Passwords \cup {NoPassword}
        /\ NoLink \in Links \cup {NoLink}
    OBVIOUS
  <2>1. ASSUME NEW e \in Emails, NEW pw \in Passwords,
               NEW op \in {"login", "register"},
               Call(r, op, e, pw, NoPassword, NoLink, cookie, prior)
        PROVE  Kept(r)
    <3>1. op \in AllOps /\ op \notin {"reset", "verify", "accept", "change"}
      BY DEF AllOps
    <3> QED
      BY <1>1, <1>2, <2>n, <2>1, <3>1
  <2>2. CASE Call(r, "logout", NoEmail, NoPassword, NoPassword, NoLink,
                  cookie, prior)
    <3>1. "logout" \in AllOps
      BY DEF AllOps
    <3> QED
      BY <1>1, <1>2, <2>n, <2>2, <3>1
  <2>3. ASSUME prior # NoSession, NEW pw \in Passwords, NEW new \in Passwords,
               Call(r, "change", NoEmail, pw, new, NoLink, cookie, prior)
        PROVE  Kept(r)
    <3>1. "change" \in AllOps
      BY DEF AllOps
    <3> QED
      BY <1>1, <1>2, <2>n, <2>3, <3>1
  <2>4. ASSUME NEW e \in Emails, NEW op \in {"forgot", "invite"},
               Call(r, op, e, NoPassword, NoPassword, NoLink, cookie, prior)
        PROVE  Kept(r)
    <3>1. op \in AllOps /\ op \notin {"reset", "verify", "accept", "change"}
      BY DEF AllOps
    <3> QED
      BY <1>1, <1>2, <2>n, <2>4, <3>1
  <2>5. ASSUME NEW l \in Links, NEW new \in Passwords,
               NEW op \in {"reset", "accept"}, links[l].minted,
               Call(r, op, NoEmail, NoPassword, new, l, cookie, prior)
        PROVE  Kept(r)
    <3>1. op \in AllOps /\ op # "change" /\ l # NoLink
      BY Sets DEF AllOps
    <3> QED
      BY <1>1, <1>2, <2>n, <2>5, <3>1
  <2>6. ASSUME NEW l \in Links, links[l].minted,
               Call(r, "verify", NoEmail, NoPassword, NoPassword, l,
                    cookie, prior)
        PROVE  Kept(r)
    <3>1. "verify" \in AllOps /\ l # NoLink
      BY Sets DEF AllOps
    <3> QED
      BY <1>1, <1>2, <2>n, <2>6, <3>1
  <2> QED
    BY <1>2, <2>1, <2>2, <2>3, <2>4, <2>5, <2>6 DEF Arguments
<1>3. CASE Arguments(r, NoToken, NoSession)
  BY <1>2, <1>3
<1>4. ASSUME NEW s \in SessionIds, Lookup(s, clock),
             Arguments(r, sess[s].token, s)
      PROVE  Kept(r)
  <2>1. sess[s].token \in Tokens \cup {NoToken} /\ sess[s].status # "unused"
    BY <1>4, <1>a DEF Lookup, LiveAt, STypeOK, Row
  <2> QED
    BY <1>2, <1>4, <2>1, Sets
<1> QED
  BY <1>3, <1>4 DEF Arrive

(* A step inside a request keeps its arguments, so only what its next      *)
(* statement needs is to be shown.                                         *)
LEMMA Carried ==
  ASSUME AInv, [SNext]_svars, NEW r \in Requests,
         req'[r].prior = req[r].prior, req'[r].cookie = req[r].cookie,
         req'[r].link = req[r].link, req'[r].op \in OpsAt(req'[r].pc),
         \A l \in Links : links[l].minted => links'[l].minted,
         req'[r].pc \in {"revoke", "read", "write", "rotate"}
            => req[r].prior # NoSession,
         req'[r].pc \in {"rehash", "revoke", "issue", "write", "rotate",
                         "mint", "set", "revokeAll", "markVerified"}
            => req'[r].user \in Users,
         req'[r].pc = "lookup" => req'[r].sid # NoSession,
         req'[r].pc # "consume"
  PROVE  Held(r)'
<1>1. STypeOK /\ Held(r) /\ req[r] \in Request
  BY DEF AInv, ATypeOK, HoldInv
<1>2. /\ req[r].prior \in SessionIds \cup {NoSession}
      /\ req[r].link \in Links \cup {NoLink}
  BY <1>1 DEF Request
<1>3. req[r].prior # NoSession => sess'[req[r].prior].status # "unused"
  BY <1>1, <1>2, RowsStay DEF Held
<1> QED
  BY <1>1, <1>2, <1>3 DEF Held

LEMMA StepKeeps ==
  ASSUME AInv, [SNext]_svars, NEW r \in Requests, Step(r)
  PROVE  Kept(r)
<1>a. /\ RestType /\ ReqType /\ LinkType /\ LinkInv /\ STypeOK /\ Held(r)
      /\ req[r] \in Request
  BY DEF AInv, ATypeOK, RestType, ReqType, LinkType, HoldInv
<1>b. UNCHANGED <<acct, hashes, born, resets, replaced>> => RestType'
  BY <1>a DEF RestType
<1>c. UNCHANGED links => /\ LinkType' /\ LinkInv'
                         /\ \A l \in Links : links[l].minted => links'[l].minted
  BY <1>a DEF LinkType, LinkInv
<1>d. Finish(r) => /\ ReqType' /\ Held(r)'
                   /\ \A q \in Requests \ {r} : req'[q] = req[q]
  BY <1>a, FinishKeeps
<1>o. req[r].op \in AllOps /\ req[r].op \in OpsAt(req[r].pc)
  BY <1>a DEF Request, Held
<1>1. CASE Arrive(r)
  BY <1>1, ArriveKeeps
<1>2. CASE Abort(r) \/ LoginThrottled(r) \/ LoginUnknown(r)
  BY <1>2, <1>b, <1>c, <1>d
  DEF Abort, LoginThrottled, LoginUnknown, history, Kept
<1>3. CASE LoginSelect(r)
  <2>1. UNCHANGED <<acct, links, hashes, born, resets, replaced>>
    BY <1>3 DEF LoginSelect, history
  <2>2. PICK u \in Users : LET h == acct[u].hash IN
           \/ Finish(r)
           \/ req' = [req EXCEPT ![r].user = u, ![r].hash = h,
                         ![r].pc = IF h.weak THEN "rehash" ELSE Replacing(r)]
    BY <1>3 DEF LoginSelect, Owners
  <2>3. CASE req' = [req EXCEPT ![r].user = u, ![r].hash = acct[u].hash,
                        ![r].pc = IF acct[u].hash.weak THEN "rehash"
                                  ELSE Replacing(r)]
    <3>1. acct[u].hash \in HashRecord
      BY <1>a DEF RestType, Account
    <3>2. Replacing(r) \in PCs /\ Replacing(r) \in {"issue", "revoke"}
          /\ (Replacing(r) = "revoke" => req[r].prior # NoSession)
      BY DEF Replacing, PCs
    <3>3. ReqType' /\ \A q \in Requests \ {r} : req'[q] = req[q]
      <4>1. (IF acct[u].hash.weak THEN "rehash" ELSE Replacing(r)) \in PCs
        BY <3>2 DEF PCs
      <4> QED
        BY <1>a, <2>3, <3>1, <4>1, RequestStored DEF ReqType
    <3>4. /\ req'[r].op = req[r].op /\ req'[r].prior = req[r].prior
          /\ req'[r].cookie = req[r].cookie
          /\ req'[r].link = req[r].link /\ req'[r].user = u
          /\ req'[r].pc \in {"rehash", Replacing(r)}
      BY <1>a, <2>3, <3>2 DEF ReqType, Request
    <3>5. Held(r)'
      BY <1>c, <1>o, <2>1, <3>2, <3>4, Carried DEF OpsAt
    <3> QED
      BY <1>b, <1>c, <2>1, <3>3, <3>5 DEF Kept
  <2> QED
    BY <1>b, <1>c, <1>d, <2>1, <2>2, <2>3 DEF Kept
<1>4. CASE LoginRehash(r)
  <2>1. /\ UNCHANGED <<links, born, resets, replaced>>
        /\ req[r].user \in Users
    BY <1>3, <1>4, <1>a DEF LoginRehash, history, Held, At
  <2>2. /\ Replacing(r) \in PCs /\ Replacing(r) \in {"issue", "revoke"}
        /\ Replacing(r) = "revoke" => req[r].prior # NoSession
    BY DEF Replacing, PCs
  <2>3. NewHash(req[r].pw) \in HashRecord
    BY <1>a, HashTyped DEF Request
  <2>4. RestType'
    <3>1. acct' \in [Users -> Account]
      <4>1. UNCHANGED acct \/ acct' = [acct EXCEPT ![req[r].user].hash =
                                                    NewHash(req[r].pw)]
        BY <1>4 DEF LoginRehash, updatePassword
      <4> QED
        BY <1>a, <2>1, <2>3, <4>1, HashStored DEF RestType
    <3>2. hashes' \in Nat
      BY <1>4, <1>a DEF LoginRehash, Hashing, RestType
    <3> QED
      BY <1>a, <2>1, <3>1, <3>2 DEF RestType
  <2>5. \/ req' = [req EXCEPT ![r].pc = Replacing(r),
                             ![r].hash = NewHash(req[r].pw)]
        \/ req' = [req EXCEPT ![r].pc = Replacing(r)]
    BY <1>4 DEF LoginRehash, Go
  <2>6. ReqType' /\ \A q \in Requests \ {r} : req'[q] = req[q]
    BY <1>a, <2>2, <2>3, <2>5 DEF ReqType, Request
  <2>7. /\ req'[r].op = req[r].op /\ req'[r].prior = req[r].prior
        /\ req'[r].cookie = req[r].cookie
        /\ req'[r].link = req[r].link /\ req'[r].user = req[r].user
        /\ req'[r].pc = Replacing(r)
    BY <1>a, <2>5 DEF ReqType, Request
  <2>8. Held(r)'
    BY <1>c, <1>o, <2>1, <2>2, <2>7, Carried DEF OpsAt
  <2> QED
    BY <1>c, <2>1, <2>4, <2>6, <2>8 DEF Kept
<1>5. CASE LoginRevoke(r)
  <2>1. /\ UNCHANGED <<acct, links, hashes, born, resets, replaced>>
        /\ Go(r, "issue") /\ "issue" \in PCs /\ req[r].user \in Users
    BY <1>5, <1>a DEF LoginRevoke, history, Held, At, PCs
  <2>2. /\ ReqType' /\ req'[r] = [req[r] EXCEPT !.pc = "issue"]
        /\ \A q \in Requests \ {r} : req'[q] = req[q]
    BY <1>a, <2>1, GoKeeps
  <2>3. /\ req'[r].op = req[r].op /\ req'[r].prior = req[r].prior
        /\ req'[r].cookie = req[r].cookie
        /\ req'[r].link = req[r].link /\ req'[r].user = req[r].user
        /\ req'[r].pc = "issue"
    BY <1>a, <2>2 DEF Request
  <2>4. Held(r)'
    BY <1>c, <1>o, <2>1, <2>3, Carried DEF OpsAt
  <2> QED
    BY <1>b, <1>c, <2>1, <2>2, <2>4 DEF Kept
<1>6. CASE LoginIssue(r)
  <2>1. PICK s \in SessionIds, tok \in Tokens :
           /\ req' = [req EXCEPT ![r].pc = "lookup", ![r].sid = s]
           /\ born' = [born EXCEPT ![s] =
                         [via |-> req[r].hash.id,
                          late |-> req[r].hash.id < resets[req[r].user].set]]
    BY <1>6 DEF LoginIssue
  <2>2. /\ UNCHANGED <<acct, links, hashes, resets, replaced>>
        /\ req[r].user \in Users /\ req[r].hash \in HashRecord
    BY <1>6, <1>a DEF LoginIssue, Held, At, Request
  <2>3. [via |-> req[r].hash.id,
         late |-> req[r].hash.id < resets[req[r].user].set]
           \in [via: Nat, late: BOOLEAN]
    BY <2>2 DEF HashRecord
  <2>4. RestType'
    BY <1>a, <2>1, <2>2, <2>3 DEF RestType
  <2>5. ReqType' /\ \A q \in Requests \ {r} : req'[q] = req[q]
    <3>1. "lookup" \in PCs
      BY DEF PCs
    <3> QED
      BY <1>a, <2>1, <3>1, SessionStored DEF ReqType
  <2>6. /\ req'[r].op = req[r].op /\ req'[r].prior = req[r].prior
        /\ req'[r].cookie = req[r].cookie
        /\ req'[r].link = req[r].link /\ req'[r].sid = s
        /\ req'[r].pc = "lookup"
    BY <1>a, <2>1 DEF ReqType, Request
  <2>7. Held(r)'
    BY <1>c, <1>o, <2>2, <2>6, Carried, Sets DEF OpsAt
  <2> QED
    BY <1>c, <2>2, <2>4, <2>5, <2>7 DEF Kept
<1>7. CASE LoginLookup(r) \/ Logout(r) \/ ChangeRotate(r)
  <2>1. /\ UNCHANGED <<acct, links, hashes, born, resets>>
        /\ Finish(r) /\ (Replace(r) \/ UNCHANGED replaced)
    BY <1>7 DEF LoginLookup, Logout, ChangeRotate
  <2>2. RestType'
    BY <1>a, <2>1 DEF RestType, Replace, Request
  <2> QED
    BY <1>c, <1>d, <2>1, <2>2 DEF Kept
<1>8. CASE ChangeRead(r)
  <2> DEFINE u == sess[req[r].prior].user
  <2>1. UNCHANGED <<acct, links, hashes, born, resets, replaced>>
    BY <1>8 DEF ChangeRead, history
  <2>2. req[r].prior \in SessionIds /\ req[r].prior # NoSession
    BY <1>8, <1>a DEF ChangeRead, Held, At, Request
  <2>3. u \in Users
    BY <1>a, <2>2 DEF Held, AInv, SInv, RowInv
  <2>4. CASE req' = [req EXCEPT ![r].user = u, ![r].hash = acct[u].hash,
                        ![r].pc = "write"]
    <3>1. acct[u].hash \in HashRecord /\ "write" \in PCs
      BY <1>a, <2>3 DEF RestType, Account, PCs
    <3> HIDE DEF u
    <3>2. ReqType' /\ \A q \in Requests \ {r} : req'[q] = req[q]
      BY <1>a, <2>3, <2>4, <3>1, RequestStored DEF ReqType
    <3>3. /\ req'[r].op = req[r].op /\ req'[r].prior = req[r].prior
          /\ req'[r].cookie = req[r].cookie
          /\ req'[r].link = req[r].link /\ req'[r].user = u
          /\ req'[r].pc = "write"
      BY <1>a, <2>4 DEF ReqType, Request
    <3>4. Held(r)'
      BY <1>c, <1>o, <2>1, <2>2, <2>3, <3>3, Carried DEF OpsAt
    <3> QED
      BY <1>b, <1>c, <2>1, <3>2, <3>4 DEF Kept
  <2>5. CASE Finish(r)
    BY <1>b, <1>c, <1>d, <2>1, <2>5 DEF Kept
  <2> QED
    BY <1>8, <2>4, <2>5 DEF ChangeRead
<1>9. CASE ChangeWrite(r)
  <2>1. /\ UNCHANGED <<links, born, resets, replaced>>
        /\ req[r].user \in Users /\ req[r].prior # NoSession
    BY <1>9, <1>a DEF ChangeWrite, history, Held, At
  <2>2. NewHash(req[r].new) \in HashRecord
    BY <1>a, HashTyped DEF Request
  <2>3. RestType'
    <3>1. acct' \in [Users -> Account]
      <4>1. UNCHANGED acct \/ acct' = [acct EXCEPT ![req[r].user].hash =
                                                    NewHash(req[r].new)]
        BY <1>9 DEF ChangeWrite, updatePassword
      <4> QED
        BY <1>a, <2>1, <2>2, <4>1, HashStored DEF RestType
    <3>2. hashes' \in Nat
      BY <1>9, <1>a DEF ChangeWrite, Hashing, RestType
    <3> QED
      BY <1>a, <2>1, <3>1, <3>2 DEF RestType
  <2>4. CASE Go(r, "rotate")
    <3>1. "rotate" \in PCs
      BY DEF PCs
    <3>2. /\ ReqType' /\ req'[r] = [req[r] EXCEPT !.pc = "rotate"]
          /\ \A q \in Requests \ {r} : req'[q] = req[q]
      BY <1>a, <2>4, <3>1, GoKeeps
    <3>3. /\ req'[r].op = req[r].op /\ req'[r].prior = req[r].prior
          /\ req'[r].cookie = req[r].cookie
          /\ req'[r].link = req[r].link /\ req'[r].user = req[r].user
          /\ req'[r].pc = "rotate"
      BY <1>a, <3>2 DEF Request
    <3>4. Held(r)'
      BY <1>c, <1>o, <2>1, <3>3, Carried DEF OpsAt
    <3> QED
      BY <1>c, <2>1, <2>3, <3>2, <3>4 DEF Kept
  <2>5. CASE Finish(r)
    BY <1>c, <1>d, <2>1, <2>3, <2>5 DEF Kept
  <2> QED
    BY <1>9, <2>4, <2>5 DEF ChangeWrite
<1>10. CASE FindUser(r)
  <2>1. UNCHANGED <<acct, links, hashes, born, resets, replaced>>
    BY <1>10 DEF FindUser, history
  <2>2. ASSUME NEW u \in Users,
               req' = [req EXCEPT ![r].pc = "mint", ![r].user = u]
        PROVE  Kept(r)
    <3>1. "mint" \in PCs
      BY DEF PCs
    <3>2. ReqType' /\ \A q \in Requests \ {r} : req'[q] = req[q]
      BY <1>a, <2>2, <3>1, UserFound DEF ReqType
    <3>3. /\ req'[r].op = req[r].op /\ req'[r].prior = req[r].prior
          /\ req'[r].cookie = req[r].cookie
          /\ req'[r].link = req[r].link /\ req'[r].user = u
          /\ req'[r].pc = "mint"
      BY <1>a, <2>2 DEF ReqType, Request
    <3>4. Held(r)'
      BY <1>10, <1>c, <1>o, <2>1, <3>3, Carried DEF OpsAt, FindUser, At
    <3> QED
      BY <1>b, <1>c, <2>1, <3>2, <3>4 DEF Kept
  <2>3. CASE Finish(r)
    BY <1>b, <1>c, <1>d, <2>1, <2>3 DEF Kept
  <2> QED
    BY <1>10, <2>2, <2>3 DEF FindUser, Owners
<1>11. CASE InsertUser(r)
  <2> DEFINE e == req[r].email
             h == IF req[r].op = "register" THEN NewHash(req[r].pw)
                                            ELSE NoHash
  <2>1. /\ UNCHANGED <<links, born, resets, replaced>>
        /\ hashes' \in Nat
    BY <1>11, <1>a DEF InsertUser, history, Hashing, RestType
  <2>2. ASSUME NEW u \in Users,
               acct' = [acct EXCEPT ![u] = [exists |-> TRUE, email |-> e,
                                  verified |-> FALSE, hash |-> h]],
               req' = [req EXCEPT ![r].pc = "mint", ![r].user = u]
        PROVE  Kept(r)
    <3>1. "mint" \in PCs
      BY DEF PCs
    <3>2. ReqType' /\ \A q \in Requests \ {r} : req'[q] = req[q]
      BY <1>a, <2>2, <3>1, UserFound DEF ReqType
    <3>3. /\ req'[r].op = req[r].op /\ req'[r].prior = req[r].prior
          /\ req'[r].cookie = req[r].cookie
          /\ req'[r].link = req[r].link /\ req'[r].user = u
          /\ req'[r].pc = "mint"
      BY <1>a, <2>2 DEF ReqType, Request
    <3>4. Held(r)'
      BY <1>11, <1>c, <1>o, <2>1, <3>3, Carried DEF OpsAt, InsertUser, At
    <3>5. h \in HashRecord
      BY <1>a, HashTyped DEF Request, NoHash, HashRecord
    <3>6. [exists |-> TRUE, email |-> e, verified |-> FALSE, hash |-> h]
             \in Account
      BY <1>a, <3>5 DEF Account, Request
    <3>7. RestType'
      BY <1>a, <2>1, <2>2, <3>6 DEF RestType
    <3> QED
      BY <1>c, <2>1, <3>2, <3>4, <3>7 DEF Kept
  <2>3. ASSUME UNCHANGED acct, Finish(r) \/ Go(r, "find")
        PROVE  Kept(r)
    <3>1. RestType'
      BY <1>a, <2>1, <2>3 DEF RestType
    <3>2. CASE Finish(r)
      BY <1>c, <1>d, <2>1, <3>1, <3>2 DEF Kept
    <3>3. CASE Go(r, "find")
      <4>1. "find" \in PCs
        BY DEF PCs
      <4>2. /\ ReqType' /\ req'[r] = [req[r] EXCEPT !.pc = "find"]
            /\ \A q \in Requests \ {r} : req'[q] = req[q]
        BY <1>a, <3>3, <4>1, GoKeeps
      <4>3. /\ req'[r].op = req[r].op /\ req'[r].prior = req[r].prior
            /\ req'[r].cookie = req[r].cookie
            /\ req'[r].link = req[r].link /\ req'[r].pc = "find"
        BY <1>a, <4>2 DEF Request
      <4>4. Held(r)'
        BY <1>11, <1>c, <1>o, <2>1, <4>3, Carried DEF OpsAt, InsertUser, At
      <4> QED
        BY <1>c, <2>1, <3>1, <4>2, <4>4 DEF Kept
    <3> QED
      BY <2>3, <3>2, <3>3
  <2> QED
    BY <1>11, <2>2, <2>3 DEF InsertUser
<1>12. CASE MintLink(r)
  <2>1. /\ UNCHANGED <<acct, hashes, born, resets, replaced>>
        /\ Finish(r) /\ req[r].user \in Users
    BY <1>12, <1>a DEF MintLink, history, Held, At
  <2>2. PICK l \in Links :
           /\ ~links[l].minted
           /\ links' = [links EXCEPT ![l] =
                 [minted |-> TRUE, user |-> req[r].user,
                  purpose |-> PurposeOf(req[r].op),
                  expires |-> clock + TTL(PurposeOf(req[r].op)), burns |-> 0]]
    BY <1>12 DEF MintLink
  <2>3. PurposeOf(req[r].op) \in Purposes
    BY <1>12, <1>o DEF MintLink, At, OpsAt, PurposeOf, Purposes
  <2>4. TTL(PurposeOf(req[r].op)) \in Nat
    BY <2>3, Sets DEF TTL, Purposes
  <2>5. [minted |-> TRUE, user |-> req[r].user,
         purpose |-> PurposeOf(req[r].op),
         expires |-> clock + TTL(PurposeOf(req[r].op)), burns |-> 0] \in Link
    BY <1>a, <2>1, <2>3, <2>4 DEF Link, STypeOK
  <2>6. LinkType' /\ LinkInv' /\ \A x \in Links : links[x].minted
                                                    => links'[x].minted
    BY <1>a, <2>1, <2>2, <2>5 DEF LinkType, LinkInv
  <2> QED
    BY <1>b, <1>d, <2>1, <2>6 DEF Kept
<1>13. CASE Consume(r)
  <2> DEFINE l == req[r].link
  <2>1. /\ UNCHANGED <<acct, hashes, born, resets, replaced>>
        /\ l \in Links /\ links[l].minted /\ links[l].user \in Users
    BY <1>13, <1>a DEF Consume, history, Held, At, Request, LinkInv
  <2>2. CASE /\ Consumable(l, PurposeOf(req[r].op))
             /\ links' = [links EXCEPT ![l].burns = @ + 1]
             /\ req' = [req EXCEPT ![r].user = links[l].user,
                  ![r].pc = IF req[r].op = "verify" THEN "markVerified"
                                                    ELSE "set"]
    <3> HIDE DEF l
    <3>1. LinkType' /\ LinkInv' /\ \A x \in Links : links[x].minted
                                                      => links'[x].minted
      BY <1>a, <2>1, <2>2 DEF LinkType, LinkInv, Link, Consumable
    <3>2. (IF req[r].op = "verify" THEN "markVerified" ELSE "set") \in PCs
      BY DEF PCs
    <3>3. ReqType' /\ \A q \in Requests \ {r} : req'[q] = req[q]
      <4>1. links[l].user \in Users
        BY <1>a, <2>1, <2>2 DEF LinkInv, Consumable
      <4> QED
        BY <1>a, <2>2, <3>2, <4>1, UserNamed DEF ReqType
    <3>4. /\ req'[r].op = req[r].op /\ req'[r].prior = req[r].prior
          /\ req'[r].cookie = req[r].cookie
          /\ req'[r].link = req[r].link /\ req'[r].user = links[l].user
          /\ req'[r].pc = IF req[r].op = "verify" THEN "markVerified"
                                                  ELSE "set"
      BY <1>a, <2>2 DEF ReqType, Request
    <3>5. Held(r)'
      BY <1>13, <1>o, <2>1, <3>1, <3>4, Carried DEF OpsAt, Consume, At
    <3> QED
      BY <1>b, <2>1, <3>1, <3>3, <3>5 DEF Kept
  <2>3. CASE Finish(r) /\ UNCHANGED links
    BY <1>b, <1>c, <1>d, <2>1, <2>3 DEF Kept
  <2> QED
    BY <1>13, <2>2, <2>3 DEF Consume
<1>14. CASE SetPassword(r)
  <2> DEFINE h == NewHash(req[r].new)
  <2>1. /\ UNCHANGED <<links, born, replaced>>
        /\ req[r].user \in Users
        /\ acct' = [acct EXCEPT ![req[r].user].hash = h]
        /\ hashes' = hashes + 1
        /\ resets' \in {resets, [resets EXCEPT ![req[r].user].set = h.id]}
        /\ req' = [req EXCEPT ![r].hash = h,
              ![r].pc = IF req[r].op = "reset" THEN "revokeAll"
                                               ELSE "markVerified"]
    BY <1>14, <1>a DEF SetPassword, Held, At, Hashing
  <2>2. h \in HashRecord
    BY <1>a, HashTyped DEF Request
  <2>3. h.id \in Nat
    BY <2>2 DEF HashRecord
  <2> HIDE DEF h
  <2>4. RestType'
    <3>1. acct' \in [Users -> Account]
      BY <1>a, <2>1, <2>2, HashStored
    <3>2. resets' \in [Users -> [set: Nat, done: Nat]]
      BY <1>a, <2>1, <2>3 DEF RestType
    <3> QED
      BY <1>a, <2>1, <3>1, <3>2 DEF RestType
  <2>5. (IF req[r].op = "reset" THEN "revokeAll" ELSE "markVerified") \in PCs
    BY DEF PCs
  <2>6. ReqType' /\ \A q \in Requests \ {r} : req'[q] = req[q]
    BY <1>a, <2>1, <2>2, <2>5 DEF ReqType, Request
  <2>7. /\ req'[r].op = req[r].op /\ req'[r].prior = req[r].prior
        /\ req'[r].cookie = req[r].cookie
        /\ req'[r].link = req[r].link /\ req'[r].user = req[r].user
        /\ req'[r].pc = IF req[r].op = "reset" THEN "revokeAll"
                                                ELSE "markVerified"
    BY <1>a, <2>1 DEF ReqType, Request
  <2>8. Held(r)'
    BY <1>14, <1>c, <1>o, <2>1, <2>7, Carried DEF OpsAt, SetPassword, At
  <2> QED
    BY <1>c, <2>1, <2>4, <2>6, <2>8 DEF Kept
<1>15. CASE ResetRevokeAll(r)
  <2>1. /\ UNCHANGED <<acct, links, hashes, born, replaced>>
        /\ Finish(r) /\ req[r].user \in Users /\ req[r].hash.id \in Nat
    BY <1>15, <1>a DEF ResetRevokeAll, Held, At, Request, HashRecord
  <2>2. resets' \in [Users -> [set: Nat, done: Nat]]
    BY <1>15, <1>a, <2>1 DEF ResetRevokeAll, RestType
  <2>3. RestType'
    BY <1>a, <2>1, <2>2 DEF RestType
  <2> QED
    BY <1>c, <1>d, <2>1, <2>3 DEF Kept
<1>16. CASE MarkVerified(r)
  <2>1. /\ UNCHANGED <<links, hashes, born, resets, replaced>>
        /\ Finish(r) /\ req[r].user \in Users
        /\ acct' = [acct EXCEPT ![req[r].user].verified = TRUE]
    BY <1>16, <1>a DEF MarkVerified, history, Held, At
  <2>2. RestType'
    BY <1>a, <2>1 DEF RestType, Account
  <2> QED
    BY <1>c, <1>d, <2>1, <2>2 DEF Kept
<1> QED
  BY <1>1, <1>2, <1>3, <1>4, <1>5, <1>6, <1>7, <1>8, <1>9, <1>10, <1>11,
     <1>12, <1>13, <1>14, <1>15, <1>16 DEF Step

LEMMA AInvInit == AInit => AInv
<1> SUFFICES ASSUME AInit PROVE AInv
  OBVIOUS
<1>1. SInv
  BY SInvInit DEF AInit
<1>2. PICK at \in [Provisioned -> Emails], pw \in [Provisioned -> Passwords],
           weak \in [Provisioned -> BOOLEAN] :
         /\ \A u, v \in Provisioned : at[u] = at[v] => u = v
         /\ acct = [u \in Users |->
              IF u \in Provisioned
              THEN [exists |-> TRUE, email |-> at[u], verified |-> TRUE,
                    hash |-> [pw |-> pw[u], id |-> 1, weak |-> weak[u]]]
              ELSE NoAccount]
  <2> HIDE DEF SInv
  <2> QED
    BY DEF AInit
<1>3. acct \in [Users -> Account]
  <2>1. ASSUME NEW u \in Provisioned
        PROVE  acct[u] \in Account
    <3>1. [pw |-> pw[u], id |-> 1, weak |-> weak[u]] \in HashRecord
      BY DEF HashRecord
    <3>2. acct[u] = [exists |-> TRUE, email |-> at[u], verified |-> TRUE,
                     hash |-> [pw |-> pw[u], id |-> 1, weak |-> weak[u]]]
      BY <1>2, Sets
    <3> QED
      BY <3>1, <3>2 DEF Account
  <2>2. ASSUME NEW u \in Users \ Provisioned
        PROVE  acct[u] \in Account
    <3>1. acct[u] = NoAccount
      BY <1>2
    <3> QED
      BY <3>1 DEF Account, NoAccount, HashRecord, NoHash
  <2>3. DOMAIN acct = Users /\ acct = [u \in DOMAIN acct |-> acct[u]]
    BY <1>2
  <2>4. \A u \in Users : acct[u] \in Account
    BY <2>1, <2>2
  <2> HIDE <1>2
  <2> QED
    BY ONLY <2>3, <2>4
<1>4. links \in [Links -> Link] /\ LinkInv
  BY DEF AInit, NoLinkRow, Link, Purposes, LinkInv
<1>5. req \in [Requests -> Request] /\ HoldInv
  <2>1. NoRequest \in Request
    BY DEF NoRequest, Request, PCs, AllOps, HashRecord, NoHash
  <2>2. \A r \in Requests : req[r] = NoRequest
    BY DEF AInit
  <2>3. HoldInv
    BY <2>2 DEF HoldInv, Held, NoRequest, OpsAt, AllOps
  <2> QED
    BY <2>1, <2>3 DEF AInit
<1> QED
  BY <1>1, <1>3, <1>4, <1>5 DEF AInv, ATypeOK, SInv, AInit

LEMMA AInvStep == AInv /\ [Next]_vars => AInv'
<1> SUFFICES ASSUME AInv, [Next]_vars PROVE AInv'
  OBVIOUS
<1>a. SInv' /\ [SNext]_svars
  BY SessionsKept, StepOfSessions
<1>b. ATypeOK /\ STypeOK /\ HoldInv /\ LinkInv
  BY DEF AInv, ATypeOK
<1>1. ASSUME NEW r \in Requests, Step(r)
      PROVE  AInv'
  <2>1. Kept(r)
    BY <1>1, <1>a, StepKeeps
  <2>2. ATypeOK' /\ LinkInv'
    BY <1>a, <2>1 DEF Kept, ATypeOK, RestType, ReqType, LinkType, SInv
  <2>3. ASSUME NEW q \in Requests \ {r}
        PROVE  Held(q)'
    <3>1. Held(q) /\ req'[q] = req[q] /\ req[q] \in Request
      BY <1>b, <2>1 DEF Kept, HoldInv, ATypeOK
    <3>2. req[q].prior # NoSession =>
             req[q].prior \in SessionIds /\ sess'[req[q].prior].status # "unused"
      BY <1>a, <1>b, <3>1, RowsStay DEF Held, Request
    <3>3. req[q].link # NoLink => links'[req[q].link].minted
      BY <2>1, <3>1 DEF Kept, Held, Request
    <3> QED
      BY <3>1, <3>2, <3>3 DEF Held
  <2>4. HoldInv'
    BY <2>1, <2>3 DEF Kept, HoldInv
  <2> QED
    BY <1>a, <2>2, <2>4 DEF AInv
<1>2. CASE CloseAccount \/ TimePasses \/ UNCHANGED vars
  <2>1. UNCHANGED avars
    BY <1>2 DEF CloseAccount, TimePasses, vars
  <2>2. ATypeOK' /\ LinkInv'
    BY <1>a, <1>b, <2>1 DEF ATypeOK, LinkInv, SInv, avars, history
  <2>3. ASSUME NEW q \in Requests
        PROVE  Held(q)'
    <3>1. /\ Held(q) /\ req'[q] = req[q] /\ req[q] \in Request
          /\ UNCHANGED links
      BY <1>b, <2>1 DEF HoldInv, ATypeOK, avars
    <3>2. req[q].prior # NoSession =>
             req[q].prior \in SessionIds /\ sess'[req[q].prior].status # "unused"
      BY <1>a, <1>b, <3>1, RowsStay DEF Held, Request
    <3> QED
      BY <3>1, <3>2 DEF Held
  <2> QED
    BY <1>a, <2>2, <2>3 DEF AInv, HoldInv
<1> QED
  BY <1>1, <1>2 DEF Next

LEMMA AccountsStructure == Spec => []AInv
  BY AInvInit, AInvStep, PTL DEF Spec

(* Every variable of the account flows stays in its set, whatever requests *)
(* run and wherever they stop.                                             *)
THEOREM AccountsTyped == Spec => []ATypeOK
<1>1. AInv => ATypeOK
  BY DEF AInv
<1> QED
  BY <1>1, AccountsStructure, PTL

(* However requests interleave and wherever they stop, what they do to the *)
(* session table is a behaviour of module Sessions: whatever holds of all  *)
(* of those holds of the sessions the account flows keep.                  *)
THEOREM ImplementsSessions == Spec => SSpec
<1>1. AInit => SInit
  BY DEF AInit
<1>2. AInv /\ [Next]_vars => [SNext]_svars
  BY StepOfSessions
<1> QED
  BY <1>1, <1>2, AccountsStructure, PTL DEF Spec, SSpec

(* An emailed link burns once at most, however often and however           *)
(* concurrently it is presented.                                           *)
THEOREM OneBurn == Spec => []LinksBurnOnce
<1>1. AInv => LinksBurnOnce
  BY DEF AInv, LinkInv, LinksBurnOnce
<1> QED
  BY <1>1, AccountsStructure, PTL

-----------------------------------------------------------------------------
(* Passwords are compared before they are replaced. *)

(* A request about to upgrade or change a hash has read one that its       *)
(* password opens.                                                         *)
PwInv ==
    \A r \in Requests : req[r].pc \in {"rehash", "write"}
        => req[r].hash.pw = req[r].pw

LEMMA PwStep ==
  ASSUME AInv, PwInv, [Next]_vars
  PROVE  PwInv'
<1>a. ReqType /\ [SNext]_svars
  BY StepOfSessions DEF AInv, ATypeOK, ReqType
<1>1. ASSUME NEW r \in Requests, Step(r)
      PROVE  PwInv'
  <2>1. \A q \in Requests \ {r} : req'[q] = req[q]
    BY <1>1, <1>a, StepKeeps DEF Kept
  <2> SUFFICES req'[r].pc \in {"rehash", "write"}
                  => req'[r].hash.pw = req'[r].pw
    BY <2>1 DEF PwInv
  <2>2. CASE Finish(r)
    BY <1>a, <2>2 DEF Finish, ReqType, NoRequest
  <2>3. CASE \E pc \in PCs : pc \notin {"rehash", "write"} /\ Go(r, pc)
    <3>1. PICK pc \in PCs : pc \notin {"rehash", "write"} /\ Go(r, pc)
      BY <2>3
    <3>2. req'[r] = [req[r] EXCEPT !.pc = pc] /\ req[r] \in Request
      BY <1>a, <3>1, GoKeeps DEF ReqType
    <3> QED
      BY <3>1, <3>2 DEF Request
  <2>4. CASE Arrive(r)
    <3>1. PICK op \in AllOps : req'[r].pc = FirstPC(op)
      BY <1>a, <2>4, Sets DEF Arrive, Arguments, Call, ReqType
    <3> QED
      BY <3>1 DEF FirstPC, AllOps
  <2>5. CASE LoginSelect(r)
    <3>1. CASE \E u \in Users :
                  /\ acct[u].hash.pw = req[r].pw
                  /\ req' = [req EXCEPT ![r].user = u, ![r].hash = acct[u].hash,
                       ![r].pc = IF acct[u].hash.weak THEN "rehash"
                                 ELSE Replacing(r)]
      BY <1>a, <3>1 DEF ReqType, Request
    <3> QED
      BY <2>2, <2>5, <3>1 DEF LoginSelect, Owners
  <2>6. CASE LoginRehash(r)
    BY <1>a, <2>6 DEF LoginRehash, Go, Replacing, ReqType, Request
  <2>7. CASE LoginRevoke(r)
    BY <2>3, <2>7 DEF LoginRevoke, PCs
  <2>8. CASE LoginIssue(r)
    BY <1>a, <2>8 DEF LoginIssue, ReqType, Request
  <2>9. CASE ChangeRead(r)
    <3>1. CASE LET h == acct[sess[req[r].prior].user].hash IN
                  /\ h.pw = req[r].pw
                  /\ req' = [req EXCEPT ![r].user = sess[req[r].prior].user,
                                        ![r].hash = h, ![r].pc = "write"]
      BY <1>a, <3>1 DEF ReqType, Request
    <3> QED
      BY <2>2, <2>9, <3>1 DEF ChangeRead
  <2>10. CASE ChangeWrite(r)
    BY <2>2, <2>3, <2>10 DEF ChangeWrite, PCs
  <2>11. CASE FindUser(r)
    BY <1>a, <2>2, <2>11 DEF FindUser, ReqType, Request
  <2>12. CASE InsertUser(r)
    <3>1. "find" \in PCs
      BY DEF PCs
    <3> QED
      BY <1>a, <2>2, <2>3, <2>12, <3>1 DEF InsertUser, ReqType, Request
  <2>13. CASE Consume(r)
    BY <1>a, <2>2, <2>13 DEF Consume, ReqType, Request
  <2>14. CASE SetPassword(r)
    BY <1>a, <2>14 DEF SetPassword, ReqType, Request
  <2>15. CASE \/ Abort(r) \/ LoginThrottled(r) \/ LoginUnknown(r)
              \/ LoginLookup(r) \/ Logout(r) \/ ChangeRotate(r)
              \/ MintLink(r) \/ ResetRevokeAll(r) \/ MarkVerified(r)
    BY <2>2, <2>15 DEF Abort, LoginThrottled, LoginUnknown, LoginLookup,
       Logout, ChangeRotate, MintLink, ResetRevokeAll, MarkVerified
  <2> QED
    BY <1>1, <2>4, <2>5, <2>6, <2>7, <2>8, <2>9, <2>10, <2>11, <2>12, <2>13,
       <2>14, <2>15 DEF Step
<1>2. CASE CloseAccount \/ TimePasses \/ UNCHANGED vars
  BY <1>2 DEF CloseAccount, TimePasses, vars, avars, PwInv
<1> QED
  BY <1>1, <1>2 DEF Next

LEMMA PwInvariant == Spec => []PwInv
<1>1. AInit => PwInv
  BY DEF AInit, NoRequest, PwInv
<1>2. AInv /\ PwInv /\ [Next]_vars => PwInv'
  BY PwStep
<1> QED
  BY <1>1, <1>2, AccountsStructure, PTL DEF Spec

(* At its rehash or its write a request ends, or does that statement.      *)
LEMMA AtRehash ==
  ASSUME NEW r \in Requests, Step(r), At(r, "rehash")
  PROVE  Abort(r) \/ LoginRehash(r)
  BY DEF Step, At, Arrive, Arguments, Call, LoginThrottled, LoginUnknown,
     LoginSelect, LoginRevoke, LoginIssue, LoginLookup, Logout, ChangeRead,
     ChangeWrite, ChangeRotate, FindUser, InsertUser, MintLink, Consume,
     SetPassword, ResetRevokeAll, MarkVerified

LEMMA AtWrite ==
  ASSUME NEW r \in Requests, Step(r), At(r, "write")
  PROVE  Abort(r) \/ ChangeWrite(r)
  BY DEF Step, At, Arrive, Arguments, Call, LoginThrottled, LoginUnknown,
     LoginSelect, LoginRehash, LoginRevoke, LoginIssue, LoginLookup, Logout,
     ChangeRead, ChangeRotate, FindUser, InsertUser, MintLink, Consume,
     SetPassword, ResetRevokeAll, MarkVerified

(* Upgrading a hash in passing never changes which password opens the      *)
(* account, whatever was written since the login read the hash.            *)
THEOREM RehashSafe == Spec => RehashKeepsPassword
<1>1. ASSUME AInv, PwInv, [Next]_vars, NEW r \in Requests, NEW u \in Users,
             At(r, "rehash"), req'[r] # req[r]
      PROVE  acct'[u].hash.pw = acct[u].hash.pw
  <2>a. ReqType /\ RestType /\ [SNext]_svars
    BY <1>1, StepOfSessions DEF AInv, ATypeOK, ReqType, RestType
  <2>1. PICK q \in Requests : Step(q)
    BY <1>1 DEF Next, CloseAccount, TimePasses, vars, avars
  <2>2. q = r
    BY <1>1, <2>a, <2>1, StepKeeps DEF Kept
  <2>3. CASE Abort(r)
    BY <2>3 DEF Abort
  <2>4. CASE LoginRehash(r)
    <3>1. req[r].hash.pw = req[r].pw /\ req[r].user \in Users
      BY <1>1 DEF PwInv, At, AInv, HoldInv, Held
    <3>2. \/ UNCHANGED acct
          \/ /\ acct[req[r].user].hash = req[r].hash
             /\ acct' = [acct EXCEPT ![req[r].user].hash = NewHash(req[r].pw)]
      BY <2>4 DEF LoginRehash, updatePassword
    <3> QED
      BY <2>a, <3>1, <3>2 DEF RestType, Account, NewHash
  <2> QED
    BY <1>1, <2>1, <2>2, <2>3, <2>4, AtRehash
<1>2. AInv /\ PwInv /\ [Next]_vars =>
        [\A r \in Requests, u \in Users :
            At(r, "rehash") /\ req'[r] # req[r] =>
               acct'[u].hash.pw = acct[u].hash.pw]_vars
  BY <1>1
<1> QED
  BY <1>2, AccountsStructure, PwInvariant, PTL DEF Spec, RehashKeepsPassword

(* A password change never writes over a password it did not verify.       *)
THEOREM ChangeSafe == Spec => ChangeClobbersNothing
<1>1. ASSUME AInv, PwInv, [Next]_vars, NEW r \in Requests,
             At(r, "write"), req'[r].pc = "rotate"
      PROVE  acct[req[r].user].hash.pw = req[r].pw
  <2>a. ReqType /\ [SNext]_svars
    BY <1>1, StepOfSessions DEF AInv, ATypeOK, ReqType
  <2>b. req'[r] # req[r]
    BY <1>1 DEF At
  <2>1. PICK q \in Requests : Step(q)
    BY <1>1, <2>b DEF Next, CloseAccount, TimePasses, vars, avars
  <2>2. q = r
    BY <1>1, <2>a, <2>b, <2>1, StepKeeps DEF Kept
  <2>3. ~Finish(r)
    BY <1>1, <2>a DEF Finish, NoRequest, ReqType
  <2>4. acct[req[r].user].hash = req[r].hash
    BY <1>1, <2>1, <2>2, <2>3, AtWrite DEF Abort, ChangeWrite, updatePassword
  <2> QED
    BY <1>1, <2>4 DEF PwInv, At
<1>2. AInv /\ PwInv /\ [Next]_vars =>
        [\A r \in Requests :
            At(r, "write") /\ req'[r].pc = "rotate" =>
               acct[req[r].user].hash.pw = req[r].pw]_vars
  BY <1>1
<1> QED
  BY <1>2, AccountsStructure, PwInvariant, PTL DEF Spec, ChangeClobbersNothing

-----------------------------------------------------------------------------
(* One live account per address. *)

AddressInv ==
    \A u, v \in Users :
        LiveAccount(u) /\ LiveAccount(v) /\ acct[u].email = acct[v].email
            => u = v

LEMMA AddressStep ==
  ASSUME AInv, AddressInv, [Next]_vars
  PROVE  AddressInv'
<1>a. /\ acct \in [Users -> Account] /\ req \in [Requests -> Request]
      /\ [SNext]_svars /\ HoldInv
  BY StepOfSessions DEF AInv, ATypeOK
<1>b. deleted \subseteq deleted'
  BY <1>a DEF SNext, svars, Issue, Lookup, Rotate, RecordMFA, Revoke,
     RevokeAllForUser, Disable, Tick
<1>k. ASSUME \A u \in Users : /\ acct'[u].exists => acct[u].exists
                              /\ acct'[u].email = acct[u].email
      PROVE  AddressInv'
  BY <1>b, <1>k DEF AddressInv, LiveAccount
<1>h. ASSUME NEW u \in Users, NEW h, acct' = [acct EXCEPT ![u].hash = h]
      PROVE  AddressInv'
  BY <1>a, <1>k, <1>h DEF Account
<1>1. ASSUME NEW r \in Requests, Step(r)
      PROVE  AddressInv'
  <2>1. CASE \/ Arrive(r) \/ Abort(r) \/ LoginThrottled(r) \/ LoginUnknown(r)
             \/ LoginSelect(r) \/ LoginRevoke(r) \/ LoginIssue(r)
             \/ LoginLookup(r) \/ Logout(r) \/ ChangeRead(r)
             \/ ChangeRotate(r) \/ FindUser(r) \/ MintLink(r)
             \/ Consume(r) \/ ResetRevokeAll(r)
    <3>1. UNCHANGED acct
      BY <2>1 DEF Arrive, Abort, LoginThrottled, LoginUnknown, LoginSelect,
         LoginRevoke, LoginIssue, LoginLookup, Logout, ChangeRead,
         ChangeRotate, FindUser, MintLink, Consume, ResetRevokeAll
    <3> QED
      BY <1>k, <3>1
  <2>2. CASE LoginRehash(r) \/ ChangeWrite(r) \/ SetPassword(r)
    <3>1. req[r].user \in Users
      BY <1>a, <2>2 DEF LoginRehash, ChangeWrite, SetPassword, At, HoldInv, Held
    <3>2. UNCHANGED acct \/ \E h : acct' = [acct EXCEPT ![req[r].user].hash = h]
      BY <2>2 DEF LoginRehash, ChangeWrite, SetPassword, updatePassword
    <3> QED
      BY <1>k, <1>h, <3>1, <3>2
  <2>3. CASE InsertUser(r)
    <3>1. CASE UNCHANGED acct
      BY <1>k, <3>1
    <3>2. ASSUME NEW u \in Users, NEW h, Owners(req[r].email) = {},
                 acct' = [acct EXCEPT ![u] =
                     [exists |-> TRUE, email |-> req[r].email,
                      verified |-> FALSE, hash |-> h]]
          PROVE  AddressInv'
      <4>1. \A v \in Users \ {u} : acct'[v] = acct[v]
        BY <1>a, <3>2
      <4>2. acct'[u].email = req[r].email
        BY <1>a, <3>2
      <4>3. \A v \in Users \ {u} : LiveAccount(v)' =>
               LiveAccount(v) /\ acct'[v].email # acct'[u].email
        BY <1>b, <3>2, <4>1, <4>2 DEF LiveAccount, Owners
      <4> QED
        BY <4>1, <4>3 DEF AddressInv
    <3> QED
      BY <2>3, <3>1, <3>2 DEF InsertUser, Conflict
  <2>4. CASE MarkVerified(r)
    <3>1. acct' = [acct EXCEPT ![req[r].user].verified = TRUE]
      BY <2>4 DEF MarkVerified
    <3> QED
      BY <1>a, <1>k, <3>1 DEF Account
  <2> QED
    BY <1>1, <2>1, <2>2, <2>3, <2>4 DEF Step
<1>2. CASE CloseAccount \/ TimePasses \/ UNCHANGED vars
  BY <1>2, <1>k DEF CloseAccount, TimePasses, vars, avars
<1> QED
  BY <1>1, <1>2 DEF Next

(* One live account per address, for any number of racing registrations    *)
(* and invitations and whatever accounts are closed meanwhile.             *)
THEOREM AddressUnique == Spec => []OneAccountPerAddress
<1>1. AInit => AddressInv
  BY DEF AInit, AddressInv, LiveAccount, NoAccount
<1>2. AInv /\ AddressInv /\ [Next]_vars => AddressInv'
  BY AddressStep
<1>3. AddressInv => OneAccountPerAddress
  <2> SUFFICES ASSUME AddressInv, NEW e \in Emails
               PROVE  Cardinality(Owners(e)) <= 1
    BY DEF OneAccountPerAddress
  <2>1. CASE Owners(e) = {}
    BY <2>1, FS_EmptySet
  <2>2. CASE \E u \in Users : Owners(e) = {u}
    BY <2>2, FS_Singleton
  <2> QED
    BY <2>1, <2>2 DEF AddressInv, Owners
<1> QED
  BY <1>1, <1>2, <1>3, AccountsStructure, PTL DEF Spec

-----------------------------------------------------------------------------
(* A confirmed address. *)

Mailed(u) == \E l \in Links : /\ links[l].user = u
                              /\ links[l].purpose \in {"verify", "invite"}
                              /\ links[l].burns > 0

(* An unsent link is unburned; a request that is going to confirm an       *)
(* address has burned a link that was mailed there.                        *)
MailInv ==
    /\ \A l \in Links : links[l].burns > 0 => links[l].minted
    /\ \A r \in Requests :
          \/ req[r].pc = "markVerified"
          \/ req[r].pc = "set" /\ req[r].op = "accept"
          => Mailed(req[r].user)
    /\ VerifiedByMailbox

(* Nothing un-mails an address. *)
LEMMA MailedStays ==
  ASSUME AInv, MailInv, NEW r \in Requests, Step(r), NEW u, Mailed(u)
  PROVE  Mailed(u)'
<1>a. links \in [Links -> Link]
  BY DEF AInv, ATypeOK
<1>1. PICK l \in Links : /\ links[l].user = u /\ links[l].burns > 0
                         /\ links[l].purpose \in {"verify", "invite"}
  BY DEF Mailed
<1>2. links[l].minted /\ links[l].burns \in Nat
  BY <1>a, <1>1 DEF MailInv, Link
<1>3. CASE MintLink(r)
  <2>1. links'[l] = links[l]
    BY <1>a, <1>2, <1>3 DEF MintLink
  <2> QED
    BY <1>1, <2>1 DEF Mailed
<1>4. CASE Consume(r)
  <2>1. /\ links'[l].user = links[l].user
        /\ links'[l].purpose = links[l].purpose
        /\ links'[l].burns \in {links[l].burns, links[l].burns + 1}
    BY <1>a, <1>4 DEF Consume, Link
  <2> QED
    BY <1>1, <1>2, <2>1 DEF Mailed
<1>5. CASE ~MintLink(r) /\ ~Consume(r)
  <2>1. UNCHANGED links
    BY <1>5 DEF Step, Arrive, Abort, LoginThrottled, LoginUnknown,
       LoginSelect, LoginRehash, LoginRevoke, LoginIssue, LoginLookup, Logout,
       ChangeRead, ChangeWrite, ChangeRotate, FindUser, InsertUser,
       SetPassword, ResetRevokeAll, MarkVerified
  <2> QED
    BY <1>1, <2>1 DEF Mailed
<1> QED
  BY <1>3, <1>4, <1>5

(* Where a step of r takes it, when that is towards a confirmation.        *)
LEMMA TowardsConfirming ==
  ASSUME AInv, MailInv, [SNext]_svars, NEW r \in Requests, Step(r),
         \/ req'[r].pc = "markVerified"
         \/ req'[r].pc = "set" /\ req'[r].op = "accept"
  PROVE  Mailed(req[r].user)'
<1>a. /\ ReqType /\ req[r] \in Request /\ Held(r) /\ LinkType
  BY DEF AInv, ATypeOK, ReqType, LinkType, HoldInv
<1>1. ~Finish(r)
  BY <1>a DEF Finish, NoRequest, ReqType
<1>2. CASE Consume(r)
  <2> DEFINE l == req[r].link
  <2>1. l \in Links
    BY <1>a, <1>2 DEF Consume, Held, At, Request
  <2>2. /\ Consumable(l, PurposeOf(req[r].op))
        /\ links' = [links EXCEPT ![l].burns = @ + 1]
        /\ req' = [req EXCEPT ![r].user = links[l].user,
                  ![r].pc = IF req[r].op = "verify" THEN "markVerified"
                                                    ELSE "set"]
    BY <1>1, <1>2 DEF Consume
  <2> HIDE DEF l
  <2>3. /\ req'[r].user = links[l].user /\ req'[r].op = req[r].op
        /\ req'[r].pc = IF req[r].op = "verify" THEN "markVerified" ELSE "set"
    BY <1>a, <2>2 DEF ReqType, Request
  <2>4. req[r].op \in {"verify", "accept"}
    BY <2>3, <1>a, <1>2 DEF Consume, Held, At, OpsAt
  <2>5. links[l].purpose \in {"verify", "invite"}
    BY <2>2, <2>4 DEF Consumable, PurposeOf
  <2>6. /\ links'[l].user = links[l].user
        /\ links'[l].purpose = links[l].purpose
        /\ links'[l].burns > 0
    BY <1>a, <2>1, <2>2 DEF LinkType, Link, Consumable
  <2> QED
    BY <2>1, <2>3, <2>5, <2>6 DEF Mailed
<1>3. CASE SetPassword(r)
  <2>1. /\ req'[r].user = req[r].user /\ req'[r].op = req[r].op
        /\ req'[r].pc = IF req[r].op = "reset" THEN "revokeAll"
                                               ELSE "markVerified"
        /\ req[r].pc = "set"
    BY <1>a, <1>3 DEF SetPassword, ReqType, Request, At
  <2>2. req[r].op = "accept"
    BY <1>a, <2>1 DEF Held, OpsAt
  <2>3. Mailed(req[r].user)
    BY <2>1, <2>2 DEF MailInv
  <2> QED
    BY <2>1, <2>3, MailedStays
<1>4. CASE Arrive(r)
  <2>1. PICK op \in AllOps : req'[r].pc = FirstPC(op)
    BY <1>a, <1>4, Sets DEF Arrive, Arguments, Call, ReqType
  <2> QED
    BY <2>1 DEF FirstPC, AllOps
<1>5. CASE LoginSelect(r) \/ LoginRehash(r) \/ LoginIssue(r) \/ ChangeRead(r)
           \/ FindUser(r)
  <2>1. CASE LoginSelect(r)
    <3>1. PICK u \in Users :
             req' = [req EXCEPT ![r].user = u, ![r].hash = acct[u].hash,
                       ![r].pc = IF acct[u].hash.weak THEN "rehash"
                                 ELSE Replacing(r)]
      BY <1>1, <2>1 DEF LoginSelect, Owners
    <3> QED
      BY <1>a, <3>1 DEF Replacing, ReqType, Request
  <2>2. CASE LoginRehash(r)
    BY <1>a, <2>2 DEF LoginRehash, Go, Replacing, ReqType, Request
  <2>3. CASE LoginIssue(r)
    BY <1>a, <2>3 DEF LoginIssue, ReqType, Request
  <2>4. CASE ChangeRead(r)
    BY <1>1, <1>a, <2>4 DEF ChangeRead, ReqType, Request
  <2>5. CASE FindUser(r)
    BY <1>1, <1>a, <2>5 DEF FindUser, ReqType, Request
  <2> QED
    BY <1>5, <2>1, <2>2, <2>3, <2>4, <2>5
<1>6. CASE LoginRevoke(r) \/ ChangeWrite(r) \/ InsertUser(r)
  BY <1>1, <1>6, <1>a DEF LoginRevoke, ChangeWrite, InsertUser, Go, ReqType,
     Request
<1> QED
  BY <1>1, <1>2, <1>3, <1>4, <1>5, <1>6
  DEF Step, Abort, LoginThrottled, LoginUnknown, LoginLookup, Logout,
      ChangeRotate, MintLink, ResetRevokeAll, MarkVerified

LEMMA MailStep ==
  ASSUME AInv, MailInv, [Next]_vars
  PROVE  MailInv'
<1>a. /\ acct \in [Users -> Account] /\ LinkType /\ ReqType
      /\ [SNext]_svars /\ HoldInv
  BY StepOfSessions DEF AInv, ATypeOK, LinkType, ReqType
<1>1. ASSUME NEW r \in Requests, Step(r)
      PROVE  MailInv'
  <2>1. Kept(r)
    BY <1>1, <1>a, StepKeeps
  <2>2. \A l \in Links : links'[l].burns > 0 => links'[l].minted
    <3>1. CASE MintLink(r)
      BY <1>a, <3>1 DEF MintLink, MailInv, LinkType
    <3>2. CASE Consume(r)
      <4>1. req[r].link \in Links /\ links[req[r].link].minted
        BY <1>a, <3>2 DEF Consume, HoldInv, Held, At, ReqType, Request
      <4> QED
        BY <1>a, <3>2, <4>1 DEF Consume, MailInv, LinkType, Link
    <3>3. CASE ~MintLink(r) /\ ~Consume(r)
      <4>1. UNCHANGED links
        BY <1>1, <3>3 DEF Step, Arrive, Abort, LoginThrottled, LoginUnknown,
           LoginSelect, LoginRehash, LoginRevoke, LoginIssue, LoginLookup,
           Logout, ChangeRead, ChangeWrite, ChangeRotate, FindUser,
           InsertUser, SetPassword, ResetRevokeAll, MarkVerified
      <4> QED
        BY <4>1 DEF MailInv
    <3> QED
      BY <3>1, <3>2, <3>3
  <2>3. ASSUME NEW q \in Requests,
               \/ req'[q].pc = "markVerified"
               \/ req'[q].pc = "set" /\ req'[q].op = "accept"
        PROVE  Mailed(req[q].user)'
    <3>1. CASE q = r
      BY <1>1, <1>a, <2>3, <3>1, TowardsConfirming
    <3>2. CASE q # r
      <4>1. req'[q] = req[q]
        BY <2>1, <3>2 DEF Kept
      <4>2. Mailed(req[q].user)
        BY <2>3, <4>1 DEF MailInv
      <4> QED
        BY <1>1, <4>1, <4>2, MailedStays
    <3> QED
      BY <3>1, <3>2
  <2>4. ASSUME NEW u \in Users \ Provisioned, acct'[u].verified
        PROVE  Mailed(u)'
    <3>1. CASE acct[u].verified
      <4>1. Mailed(u)
        BY <3>1 DEF MailInv, VerifiedByMailbox, Mailed
      <4> QED
        BY <1>1, <4>1, MailedStays
    <3>2. CASE ~acct[u].verified
      <4>1. MarkVerified(r) /\ req[r].user = u
        <5>1. CASE LoginRehash(r) \/ ChangeWrite(r) \/ SetPassword(r)
          <6>1. UNCHANGED acct \/ \E v, h : acct' = [acct EXCEPT ![v].hash = h]
            BY <5>1 DEF LoginRehash, ChangeWrite, SetPassword, updatePassword
          <6> QED
            BY <1>a, <2>4, <3>2, <6>1 DEF Account
        <5>2. CASE InsertUser(r)
          <6>1. UNCHANGED acct \/ \E v, e, h :
                   acct' = [acct EXCEPT ![v] = [exists |-> TRUE, email |-> e,
                                           verified |-> FALSE, hash |-> h]]
            BY <5>2 DEF InsertUser
          <6> QED
            BY <1>a, <2>4, <3>2, <6>1
        <5>3. CASE MarkVerified(r)
          BY <1>a, <2>4, <3>2, <5>3 DEF MarkVerified, Account
        <5>4. CASE UNCHANGED acct
          BY <2>4, <3>2, <5>4
        <5> QED
          BY <1>1, <5>1, <5>2, <5>3, <5>4 DEF Step, Arrive, Abort,
             LoginThrottled, LoginUnknown, LoginSelect, LoginRevoke,
             LoginIssue, LoginLookup, Logout, ChangeRead, ChangeRotate,
             FindUser, MintLink, Consume, ResetRevokeAll
      <4>2. Mailed(u)
        BY <4>1 DEF MailInv, MarkVerified, At
      <4> QED
        BY <1>1, <4>2, MailedStays
    <3> QED
      BY <3>1, <3>2
  <2> QED
    BY <2>2, <2>3, <2>4 DEF MailInv, VerifiedByMailbox, Mailed
<1>2. CASE CloseAccount \/ TimePasses \/ UNCHANGED vars
  <2>1. UNCHANGED <<acct, links, req>>
    BY <1>2 DEF CloseAccount, TimePasses, vars, avars
  <2> QED
    BY <2>1 DEF MailInv, VerifiedByMailbox, Mailed
<1> QED
  BY <1>1, <1>2 DEF Next

(* An account is confirmed only by a verification or invitation link that  *)
(* was mailed to it; a reset link confirms nothing.                        *)
THEOREM ConfirmedByMail == Spec => []VerifiedByMailbox
<1>1. AInit => MailInv
  BY DEF AInit, MailInv, NoLinkRow, NoRequest, VerifiedByMailbox, NoAccount
<1>2. AInv /\ MailInv /\ [Next]_vars => MailInv'
  BY MailStep
<1>3. MailInv => VerifiedByMailbox
  BY DEF MailInv
<1> QED
  BY <1>1, <1>2, <1>3, AccountsStructure, PTL DEF Spec

-----------------------------------------------------------------------------
(* Resets. *)

LEMMA OpenRows ==
  ASSUME STypeOK, [SNext]_svars, NEW s \in SessionIds,
         sess[s].status # "unused", sess'[s].status = "open"
  PROVE  sess[s].status = "open" /\ sess'[s].user = sess[s].user
<1> USE DEF STypeOK, Row
<1>1. ASSUME NEW x \in SessionIds, NEW u \in Users, NEW tok \in Tokens,
             NEW t \in TxTimes, Issue(x, u, tok, t)
      PROVE  sess[s].status = "open" /\ sess'[s].user = sess[s].user
  BY <1>1 DEF Issue
<1>2. ASSUME NEW x \in SessionIds, NEW t \in TxTimes, Lookup(x, t)
      PROVE  sess[s].status = "open" /\ sess'[s].user = sess[s].user
  BY <1>2 DEF Lookup, LiveAt
<1>3. ASSUME NEW x \in SessionIds, NEW tok \in Tokens, NEW t \in TxTimes,
             Rotate(x, tok, t)
      PROVE  sess[s].status = "open" /\ sess'[s].user = sess[s].user
  BY <1>3 DEF Rotate, LiveAt
<1>4. ASSUME NEW x \in SessionIds, NEW u \in Users, NEW t \in TxTimes,
             RecordMFA(x, u, t)
      PROVE  sess[s].status = "open" /\ sess'[s].user = sess[s].user
  BY <1>4 DEF RecordMFA, LiveAt
<1>5. ASSUME NEW x \in SessionIds, Revoke(x)
      PROVE  sess[s].status = "open" /\ sess'[s].user = sess[s].user
  BY <1>5 DEF Revoke
<1>6. ASSUME NEW u \in Users, RevokeAllForUser(u) \/ Disable(u)
      PROVE  sess[s].status = "open" /\ sess'[s].user = sess[s].user
  BY <1>6 DEF RevokeAllForUser, Disable
<1>7. CASE Tick \/ UNCHANGED svars
  BY <1>7 DEF Tick, svars
<1> QED
  BY <1>1, <1>2, <1>3, <1>4, <1>5, <1>6, <1>7 DEF SNext

(* A row is opened by a login and by nothing else. *)
LEMMA OpenedByLogin ==
  ASSUME AInv, NEW r \in Requests, Step(r), ~LoginIssue(r),
         NEW s \in SessionIds, sess[s].status = "unused"
  PROVE  sess'[s].status = "unused"
<1>a. STypeOK
  BY DEF AInv, ATypeOK
<1> USE DEF STypeOK, Row
<1>1. \A x \in SessionIds : Lookup(x, clock) => sess'[s].status = "unused"
  BY <1>a DEF Lookup, LiveAt
<1>2. \A x : Revoke(x) => sess'[s].status = "unused"
  BY <1>a DEF Revoke
<1>3. \A x : RevokePrior(x) => sess'[s].status = "unused"
  BY <1>2 DEF RevokePrior, svars
<1>4. \A x, tok : Rotate(x, tok, clock) => sess'[s].status = "unused"
  BY <1>a DEF Rotate, LiveAt
<1>5. \A u : RevokeAllForUser(u) => sess'[s].status = "unused"
  BY DEF RevokeAllForUser
<1>6. UNCHANGED svars => sess'[s].status = "unused"
  BY DEF svars
<1>7. CASE Arrive(r)
  BY <1>1, <1>6, <1>7 DEF Arrive
<1>8. CASE LoginRevoke(r) \/ Logout(r)
  BY <1>3, <1>6, <1>8 DEF LoginRevoke, Logout
<1>9. CASE LoginLookup(r)
  <2>1. req[r].sid \in SessionIds
    BY <1>9 DEF AInv, HoldInv, Held, LoginLookup, At, ATypeOK, Request
  <2> QED
    BY <1>1, <1>6, <1>9, <2>1 DEF LoginLookup
<1>10. CASE ChangeRotate(r)
  BY <1>4, <1>6, <1>10 DEF ChangeRotate
<1>11. CASE ResetRevokeAll(r)
  BY <1>5, <1>11 DEF ResetRevokeAll
<1> QED
  BY <1>6, <1>7, <1>8, <1>9, <1>10, <1>11 DEF Step, Abort, LoginThrottled,
     LoginUnknown, LoginSelect, LoginRehash, ChangeRead, ChangeWrite,
     FindUser, InsertUser, MintLink, Consume, SetPassword, MarkVerified

(* A reset is done only once it has set its hash, hashes are numbered as   *)
(* they are computed, and what an earlier hash opened is closed or was     *)
(* opened late.                                                            *)
ResetInv ==
    /\ \A u \in Users : /\ resets[u].done <= resets[u].set
                        /\ resets[u].set <= hashes
    /\ \A r \in Requests : req[r].pc = "revokeAll"
          => req[r].hash.id <= resets[req[r].user].set
    /\ \A s \in SessionIds :
          /\ sess[s].status = "open"
          /\ born[s].via < resets[sess[s].user].done
          => born[s].late

LEMMA ResetStep ==
  ASSUME AInv, ResetInv, [Next]_vars
  PROVE  ResetInv'
<1>a. /\ STypeOK /\ RestType /\ ReqType /\ HoldInv /\ SInv
      /\ [SNext]_svars /\ SInv'
  BY StepOfSessions, SessionsKept DEF AInv, ATypeOK, RestType, ReqType
<1>t. /\ hashes \in Nat /\ born \in [SessionIds -> [via: Nat, late: BOOLEAN]]
      /\ \A u \in Users : resets[u].done \in Nat /\ resets[u].set \in Nat
      /\ \A r \in Requests : req[r].hash.id \in Nat
  BY <1>a DEF RestType, ReqType, Request, HashRecord
<1>u. \A s \in SessionIds : sess[s].status = "open" => sess[s].user \in Users
  BY <1>a DEF SInv, RowInv
(* A step that changes neither resets nor born, and opens no row. *)
<1>k. ASSUME UNCHANGED <<resets, born>>,
             \A s \in SessionIds : sess[s].status = "unused"
                                      => sess'[s].status = "unused"
      PROVE  \A s \in SessionIds :
                /\ sess'[s].status = "open"
                /\ born'[s].via < resets'[sess'[s].user].done
                => born'[s].late
  BY <1>a, <1>k, OpenRows DEF ResetInv
<1>1. ASSUME NEW r \in Requests, Step(r)
      PROVE  ResetInv'
  <2>1. \A q \in Requests \ {r} : req'[q] = req[q]
    BY <1>1, <1>a, StepKeeps DEF Kept
  <2>f. Finish(r) => req'[r].pc = "idle"
    BY <1>a DEF Finish, NoRequest, ReqType
  <2>h. hashes' \in Nat /\ hashes <= hashes'
    <3>1. CASE LoginRehash(r) \/ ChangeWrite(r) \/ InsertUser(r)
               \/ SetPassword(r)
      <4>1. UNCHANGED hashes \/ hashes' = hashes + 1
        BY <3>1 DEF LoginRehash, ChangeWrite, InsertUser, SetPassword, Hashing
      <4> QED
        BY <1>t, <4>1
    <3>2. CASE UNCHANGED hashes
      BY <1>t, <3>2
    <3> QED
      BY <1>1, <3>1, <3>2 DEF Step, Arrive, Abort, LoginThrottled,
         LoginUnknown, LoginSelect, LoginRevoke, LoginIssue, LoginLookup,
         Logout, ChangeRead, ChangeRotate, FindUser, MintLink, Consume,
         ResetRevokeAll, MarkVerified
  <2>2. CASE LoginIssue(r)
    <3>1. PICK s \in SessionIds, tok \in Tokens :
             /\ Issue(s, req[r].user, tok, clock)
             /\ born' = [born EXCEPT ![s] =
                   [via |-> req[r].hash.id,
                    late |-> req[r].hash.id < resets[req[r].user].set]]
      BY <2>2 DEF LoginIssue
    <3>2. /\ req[r].user \in Users /\ UNCHANGED resets
          /\ req'[r].pc = "lookup"
      BY <1>a, <2>2 DEF LoginIssue, HoldInv, Held, At, ReqType, Request
    <3>3. /\ sess'[s].user = req[r].user
          /\ born'[s].via = req[r].hash.id
          /\ born'[s].late = (req[r].hash.id < resets[req[r].user].set)
      BY <1>a, <1>t, <3>1 DEF Issue, STypeOK
    <3>4. \A x \in SessionIds \ {s} : sess'[x] = sess[x] /\ born'[x] = born[x]
      BY <1>a, <1>t, <3>1 DEF Issue, STypeOK
    <3>5. \A x \in SessionIds :
             /\ sess'[x].status = "open"
             /\ born'[x].via < resets'[sess'[x].user].done
             => born'[x].late
      <4>1. ASSUME req[r].hash.id < resets[req[r].user].done
            PROVE  born'[s].late
        <5>1. req[r].hash.id < resets[req[r].user].set
          BY <1>t, <3>2, <4>1 DEF ResetInv
        <5> QED
          BY <3>3, <5>1, Zenon
      <4> QED
        BY <3>2, <3>3, <3>4, <4>1 DEF ResetInv
    <3>6. \A q \in Requests : req'[q].pc = "revokeAll"
             => req'[q].hash.id <= resets'[req'[q].user].set
      BY <2>1, <3>2 DEF ResetInv
    <3> QED
      BY <1>t, <2>h, <3>2, <3>5, <3>6 DEF ResetInv
  <2>3. CASE SetPassword(r)
    <3> DEFINE u == req[r].user
    <3>1. /\ u \in Users /\ UNCHANGED <<sess, born>> /\ hashes' = hashes + 1
          /\ resets' = IF req[r].op = "reset"
                       THEN [resets EXCEPT ![u].set = hashes + 1] ELSE resets
          /\ req' = [req EXCEPT ![r].hash = NewHash(req[r].new),
                  ![r].pc = IF req[r].op = "reset" THEN "revokeAll"
                                                   ELSE "markVerified"]
      BY <1>a, <2>3 DEF SetPassword, HoldInv, Held, At, Hashing, NewHash, svars
    <3>2. /\ req'[r].user = u
          /\ req'[r].hash.id = hashes + 1
          /\ req'[r].pc = "revokeAll" => req[r].op = "reset"
      BY <1>a, <3>1 DEF ReqType, Request, NewHash
    <3>3. \A v \in Users :
             /\ resets'[v].done = resets[v].done
             /\ \/ resets'[v].set = resets[v].set
                \/ resets'[v].set = hashes + 1
      BY <1>a, <3>1 DEF RestType
    <3>4. req[r].op = "reset" => resets'[u].set = hashes + 1
      BY <1>a, <3>1 DEF RestType
    <3> HIDE DEF u
    <3>5. \A v \in Users : resets'[v].done <= resets'[v].set
                             /\ resets'[v].set <= hashes'
      BY <1>t, <3>1, <3>3 DEF ResetInv
    <3>6. ASSUME NEW q \in Requests, req'[q].pc = "revokeAll"
          PROVE  req'[q].hash.id <= resets'[req'[q].user].set
      <4>1. CASE q = r
        BY <1>t, <3>1, <3>2, <3>4, <3>6, <4>1
      <4>2. CASE q # r
        <5>1. req'[q] = req[q] /\ req[q].user \in Users
          BY <1>a, <2>1, <3>6, <4>2 DEF HoldInv, Held
        <5>2. req[q].hash.id <= resets[req[q].user].set
          BY <3>6, <5>1 DEF ResetInv
        <5> QED
          BY <1>t, <3>3, <5>1, <5>2 DEF ResetInv
      <4> QED
        BY <4>1, <4>2
    <3>7. \A s \in SessionIds :
             /\ sess'[s].status = "open"
             /\ born'[s].via < resets'[sess'[s].user].done
             => born'[s].late
      BY <1>u, <3>1, <3>3 DEF ResetInv
    <3> QED
      BY <3>5, <3>6, <3>7 DEF ResetInv
  <2>4. CASE ResetRevokeAll(r)
    <3> DEFINE u == req[r].user
               id == req[r].hash.id
    <3>1. /\ u \in Users /\ UNCHANGED <<born, hashes>> /\ RevokeAllForUser(u)
          /\ resets' = [resets EXCEPT ![u].done = IF @ < id THEN id ELSE @]
          /\ id <= resets[u].set
      BY <1>a, <2>4 DEF ResetRevokeAll, HoldInv, Held, At, ResetInv
    <3>2. req'[r].pc = "idle"
      BY <2>4, <2>f DEF ResetRevokeAll
    <3>3. /\ \A v \in Users : resets'[v].set = resets[v].set
          /\ \A v \in Users \ {u} : resets'[v].done = resets[v].done
          /\ resets'[u].done \in {resets[u].done, id}
      BY <1>a, <3>1 DEF RestType
    <3>4. \A s \in SessionIds : sess'[s].status = "open"
             => sess[s].status = "open" /\ sess'[s] = sess[s] /\ sess[s].user # u
      BY <1>a, <3>1 DEF RevokeAllForUser, STypeOK, Row
    <3> HIDE DEF u, id
    <3>5. \A v \in Users : resets'[v].done <= resets'[v].set
                             /\ resets'[v].set <= hashes'
      BY <1>t, <3>1, <3>3 DEF ResetInv
    <3>6. \A q \in Requests : req'[q].pc = "revokeAll"
             => req'[q].hash.id <= resets'[req'[q].user].set
      BY <1>a, <2>1, <3>2, <3>3 DEF ResetInv, HoldInv, Held
    <3>7. \A s \in SessionIds :
             /\ sess'[s].status = "open"
             /\ born'[s].via < resets'[sess'[s].user].done
             => born'[s].late
      BY <1>u, <3>1, <3>3, <3>4 DEF ResetInv
    <3> QED
      BY <3>5, <3>6, <3>7 DEF ResetInv
  <2>5. CASE ~LoginIssue(r) /\ ~SetPassword(r) /\ ~ResetRevokeAll(r)
    <3>1. UNCHANGED <<resets, born>>
      BY <1>1, <2>5 DEF Step, Arrive, Abort, LoginThrottled, LoginUnknown,
         LoginSelect, LoginRehash, LoginRevoke, LoginLookup, Logout,
         ChangeRead, ChangeWrite, ChangeRotate, FindUser, InsertUser,
         MintLink, Consume, MarkVerified, history
    <3>2. req'[r].pc # "revokeAll"
      <4>1. CASE Arrive(r)
        <5>1. PICK op \in AllOps : req'[r].pc = FirstPC(op)
          BY <1>a, <4>1, Sets DEF Arrive, Arguments, Call, ReqType
        <5> QED
          BY <5>1 DEF FirstPC, AllOps
      <4>2. CASE LoginSelect(r)
        <5>1. CASE \E u \in Users :
                 req' = [req EXCEPT ![r].user = u, ![r].hash = acct[u].hash,
                           ![r].pc = IF acct[u].hash.weak THEN "rehash"
                                     ELSE Replacing(r)]
          BY <1>a, <5>1 DEF Replacing, ReqType, Request
        <5> QED
          BY <2>f, <4>2, <5>1 DEF LoginSelect, Owners
      <4>3. CASE LoginRehash(r) \/ LoginRevoke(r)
        BY <1>a, <4>3 DEF LoginRehash, LoginRevoke, Go, Replacing, ReqType,
           Request
      <4>4. CASE ChangeRead(r) \/ ChangeWrite(r)
        BY <1>a, <2>f, <4>4 DEF ChangeRead, ChangeWrite, Go, ReqType, Request
      <4>5. CASE FindUser(r) \/ InsertUser(r) \/ Consume(r)
        BY <1>a, <2>f, <4>5 DEF FindUser, InsertUser, Consume, Go, ReqType,
           Request
      <4> QED
        BY <1>1, <2>5, <2>f, <4>1, <4>2, <4>3, <4>4, <4>5
        DEF Step, Abort, LoginThrottled, LoginUnknown, LoginLookup, Logout,
            ChangeRotate, MintLink, MarkVerified
    <3>3. \A s \in SessionIds : sess[s].status = "unused"
                                   => sess'[s].status = "unused"
      BY <1>1, <2>5, OpenedByLogin
    <3>4. \A u \in Users : resets'[u].done <= resets'[u].set
                             /\ resets'[u].set <= hashes'
      BY <1>t, <2>h, <3>1 DEF ResetInv
    <3>5. \A q \in Requests : req'[q].pc = "revokeAll"
             => req'[q].hash.id <= resets'[req'[q].user].set
      BY <2>1, <3>1, <3>2 DEF ResetInv
    <3> QED
      BY <1>k, <3>1, <3>3, <3>4, <3>5 DEF ResetInv
  <2> QED
    BY <2>2, <2>3, <2>4, <2>5
<1>2. CASE CloseAccount \/ TimePasses \/ UNCHANGED vars
  <2>1. UNCHANGED <<avars, sess>>
    BY <1>2 DEF CloseAccount, TimePasses, vars, svars, Disable, Tick
  <2> QED
    BY <2>1 DEF ResetInv, avars, history
<1> QED
  BY <1>1, <1>2 DEF Next

(* A completed reset leaves no session an earlier password opened, but for *)
(* a login past its password check when the reset wrote the new one.       *)
THEOREM ResetIsFinal == Spec => []ResetEndsEarlierSessions
<1>1. AInit => ResetInv
  BY DEF AInit, SInit, ResetInv, NoRow, NoRequest
<1>2. AInv /\ ResetInv /\ [Next]_vars => ResetInv'
  BY ResetStep
<1>3. ResetInv => ResetEndsEarlierSessions
  BY DEF ResetInv, ResetEndsEarlierSessions, Live, LiveAt
<1> QED
  BY <1>1, <1>2, <1>3, AccountsStructure, PTL DEF Spec

-----------------------------------------------------------------------------
(* Replaced credentials.  As in SessionsProofs, nothing revives a session  *)
(* as long as no statement reads an old clock: TxLag = 0.                  *)

(* Minted, and carried by no live session. *)
Dead(tok) == /\ minted[tok] # Nobody
             /\ \A s \in SessionIds : sess[s].token = tok => ~Live(s)

(* The credential a request arrived with is its principal's or nobody's;   *)
(* a login that has revoked its principal has a dead one to replace.       *)
CredInv ==
    /\ \A r \in Requests : req[r].cookie # NoToken =>
          /\ minted[req[r].cookie] # Nobody
          /\ \A s \in SessionIds :
                sess[s].token = req[r].cookie => s = req[r].prior
          /\ req[r].pc \in {"issue", "lookup"} => ~Live(req[r].prior)
    /\ \A tok \in replaced : Dead(tok)

(* A row gets a token by keeping it or by its being minted. *)
LEMMA TokensStay ==
  ASSUME SInv, [SNext]_svars, NEW tok \in Tokens, minted[tok] # Nobody
  PROVE  /\ minted'[tok] = minted[tok]
         /\ \A s \in SessionIds : sess'[s].token = tok => sess[s].token = tok
<1> USE DEF SInv, STypeOK, Row
<1>1. ASSUME NEW x \in SessionIds, NEW u \in Users, NEW k \in Tokens,
             NEW t \in TxTimes, Issue(x, u, k, t)
      PROVE  /\ minted'[tok] = minted[tok]
             /\ \A s \in SessionIds : sess'[s].token = tok => sess[s].token = tok
  BY <1>1 DEF Issue, NewToken
<1>2. ASSUME NEW x \in SessionIds, NEW t \in TxTimes, Lookup(x, t)
      PROVE  /\ minted'[tok] = minted[tok]
             /\ \A s \in SessionIds : sess'[s].token = tok => sess[s].token = tok
  BY <1>2 DEF Lookup
<1>3. ASSUME NEW x \in SessionIds, NEW k \in Tokens, NEW t \in TxTimes,
             Rotate(x, k, t)
      PROVE  /\ minted'[tok] = minted[tok]
             /\ \A s \in SessionIds : sess'[s].token = tok => sess[s].token = tok
  BY <1>3 DEF Rotate, NewToken
<1>4. ASSUME NEW x \in SessionIds, NEW u \in Users, NEW t \in TxTimes,
             RecordMFA(x, u, t)
      PROVE  /\ minted'[tok] = minted[tok]
             /\ \A s \in SessionIds : sess'[s].token = tok => sess[s].token = tok
  BY <1>4 DEF RecordMFA
<1>5. ASSUME NEW x \in SessionIds, Revoke(x)
      PROVE  /\ minted'[tok] = minted[tok]
             /\ \A s \in SessionIds : sess'[s].token = tok => sess[s].token = tok
  BY <1>5 DEF Revoke
<1>6. ASSUME NEW u \in Users, RevokeAllForUser(u) \/ Disable(u)
      PROVE  /\ minted'[tok] = minted[tok]
             /\ \A s \in SessionIds : sess'[s].token = tok => sess[s].token = tok
  BY <1>6 DEF RevokeAllForUser, Disable
<1>7. CASE Tick \/ UNCHANGED svars
  BY <1>7 DEF Tick, svars
<1> QED
  BY <1>1, <1>2, <1>3, <1>4, <1>5, <1>6, <1>7 DEF SNext

LEMMA DeadStays ==
  ASSUME TxLag = 0, SInv, [SNext]_svars, NEW s \in SessionIds,
         sess[s].status # "unused", ~Live(s)
  PROVE  ~Live(s)'
  BY DeadStep DEF DeadRowFrozen

LEMMA DeadTokenStays ==
  ASSUME TxLag = 0, SInv, [SNext]_svars, NEW tok \in Tokens, Dead(tok)
  PROVE  Dead(tok)'
<1>1. /\ minted'[tok] = minted[tok]
      /\ \A s \in SessionIds : sess'[s].token = tok => sess[s].token = tok
  BY TokensStay DEF Dead
<1>2. ASSUME NEW s \in SessionIds, sess'[s].token = tok
      PROVE  ~Live(s)'
  <2>1. sess[s].token = tok /\ ~Live(s)
    BY <1>1, <1>2 DEF Dead
  <2>2. sess[s].status # "unused"
    BY <2>1, Sets DEF SInv, RowInv, NoRow
  <2> QED
    BY <2>1, <2>2, DeadStays
<1> QED
  BY <1>1, <1>2 DEF Dead

(* What a revocation by id leaves behind. *)
LEMMA RevokedPrior ==
  ASSUME STypeOK, NEW r \in Requests, req[r].prior \in SessionIds,
         RevokePrior(r)
  PROVE  \A s \in SessionIds : s = req[r].prior => ~Live(s)'
<1> SUFFICES ASSUME NEW s \in SessionIds, s = req[r].prior
             PROVE  sess'[s].status # "open"
  BY DEF Live, LiveAt
<1>1. CASE Revoke(s)
  BY <1>1 DEF Revoke, STypeOK, Row
<1>2. CASE sess[s].status # "open" /\ UNCHANGED svars
  BY <1>2 DEF svars
<1> QED
  BY <1>1, <1>2 DEF RevokePrior

LEMMA CredStep ==
  ASSUME TxLag = 0, AInv, CredInv, [Next]_vars
  PROVE  CredInv'
<1>a. /\ STypeOK /\ SInv /\ ReqType /\ HoldInv /\ replaced \in SUBSET Tokens
      /\ [SNext]_svars /\ SInv'
  BY StepOfSessions, SessionsKept DEF AInv, ATypeOK, ReqType
<1>r. \A tok \in replaced : Dead(tok)'
  BY <1>a, DeadTokenStays DEF CredInv
<1>p. ASSUME NEW q \in Requests, req[q].cookie # NoToken
      PROVE  /\ req[q].cookie \in Tokens /\ req[q].prior \in SessionIds
             /\ sess[req[q].prior].status # "unused"
             /\ minted'[req[q].cookie] # Nobody
             /\ \A s \in SessionIds :
                   sess'[s].token = req[q].cookie => s = req[q].prior
             /\ ~Live(req[q].prior) => \A s \in SessionIds :
                   s = req[q].prior => ~Live(s)'
  <2>1. /\ req[q].cookie \in Tokens /\ req[q].prior \in SessionIds
        /\ sess[req[q].prior].status # "unused"
    BY <1>a, <1>p DEF ReqType, Request, HoldInv, Held
  <2>2. minted[req[q].cookie] # Nobody
    BY <1>p DEF CredInv
  <2> QED
    BY <1>a, <1>p, <2>1, <2>2, TokensStay, DeadStays DEF CredInv
(* The credential of a request that keeps it and has not revoked it yet,   *)
(* or whose principal is dead already.                                     *)
<1>n. ASSUME NEW q \in Requests, req'[q].cookie = req[q].cookie,
             req'[q].prior = req[q].prior, req[q].cookie # NoToken,
             \/ req'[q].pc \notin {"issue", "lookup"}
             \/ req[q].pc \in {"issue", "lookup"}
             \/ \A s \in SessionIds : s = req[q].prior => ~Live(s)'
      PROVE  /\ minted'[req'[q].cookie] # Nobody
             /\ \A s \in SessionIds :
                   sess'[s].token = req'[q].cookie => s = req'[q].prior
             /\ req'[q].pc \in {"issue", "lookup"} => ~Live(req[q].prior)'
  <2>1. /\ minted'[req'[q].cookie] # Nobody
        /\ \A s \in SessionIds :
              sess'[s].token = req'[q].cookie => s = req'[q].prior
    BY <1>n, <1>p
  <2>2. ASSUME req'[q].pc \in {"issue", "lookup"}
        PROVE  \A s \in SessionIds : s = req[q].prior => ~Live(s)'
    BY <1>n, <1>p, <2>2 DEF CredInv
  <2>3. req'[q].prior \in SessionIds /\ req'[q].prior = req[q].prior
    BY <1>n, <1>p
  <2>4. ASSUME req'[q].pc \in {"issue", "lookup"}
        PROVE  ~Live(req[q].prior)'
    BY <2>2, <2>3, <2>4 DEF Live, LiveAt
  <2> QED
    BY <2>1, <2>4
<1>1. ASSUME NEW r \in Requests, Step(r)
      PROVE  CredInv'
  <2>1. \A q \in Requests \ {r} : req'[q] = req[q]
    BY <1>1, <1>a, StepKeeps DEF Kept
  <2>g. req[r] \in Request
    BY <1>a DEF ReqType
  <2>s. ASSUME \/ req'[r].cookie = NoToken
               \/ /\ minted'[req'[r].cookie] # Nobody
                  /\ \A s \in SessionIds :
                        sess'[s].token = req'[r].cookie => s = req'[r].prior
                  /\ req'[r].pc \in {"issue", "lookup"} => ~Live(req[r].prior)',
               \A tok \in replaced' : Dead(tok)'
        PROVE  CredInv'
    <3>1. ASSUME NEW q \in Requests \ {r}, req'[q].cookie # NoToken
          PROVE  /\ minted'[req'[q].cookie] # Nobody
                 /\ \A s \in SessionIds :
                       sess'[s].token = req'[q].cookie => s = req'[q].prior
                 /\ req'[q].pc \in {"issue", "lookup"} => ~Live(req[q].prior)'
      BY <1>n, <2>1, <3>1
    <3> QED
      BY <2>s, <3>1 DEF CredInv
  <2>2. CASE UNCHANGED replaced /\ Finish(r)
    <3>1. req'[r].cookie = NoToken
      BY <1>a, <2>2 DEF Finish, NoRequest, ReqType
    <3> QED
      BY <1>r, <2>2, <2>s, <3>1
  <2>3. CASE /\ UNCHANGED replaced
             /\ req'[r].cookie = req[r].cookie /\ req'[r].prior = req[r].prior
             /\ req[r].cookie # NoToken =>
                  \/ req'[r].pc \notin {"issue", "lookup"}
                  \/ req[r].pc \in {"issue", "lookup"}
                  \/ \A s \in SessionIds : s = req[r].prior => ~Live(s)'
    BY <1>n, <1>r, <2>3, <2>s
  <2>4. ASSUME \A s \in SessionIds : sess'[s].token = req[r].cookie
                                        => ~Live(s)',
               Replace(r), Finish(r)
        PROVE  CredInv'
    <3>1. req'[r].cookie = NoToken
      BY <1>a, <2>4 DEF Finish, NoRequest, ReqType
    <3>2. req[r].cookie # NoToken => minted'[req[r].cookie] # Nobody
      BY <1>p
    <3>3. ASSUME NEW tok \in replaced' PROVE Dead(tok)'
      BY <1>r, <2>4, <3>2 DEF Replace, Dead
    <3> QED
      BY <2>s, <3>1, <3>3
  <2>5. CASE Arrive(r)
    <3>1. UNCHANGED replaced
      BY <2>5 DEF Arrive, history
    <3>2. ASSUME NEW op \in AllOps, NEW cookie, NEW prior,
                 req'[r].pc = FirstPC(op),
                 req'[r].cookie = cookie, req'[r].prior = prior,
                 \/ cookie = NoToken
                 \/ /\ cookie \in Tokens /\ minted[cookie] # Nobody
                    /\ \A s \in SessionIds : sess[s].token = cookie => s = prior
          PROVE  CredInv'
      <4>1. req'[r].pc \notin {"issue", "lookup"}
        BY <3>2 DEF FirstPC, AllOps
      <4>2. \/ cookie = NoToken
            \/ /\ minted'[cookie] # Nobody
               /\ \A s \in SessionIds : sess'[s].token = cookie => s = prior
        BY <1>a, <3>2, TokensStay
      <4> QED
        BY <1>r, <2>s, <3>1, <3>2, <4>1, <4>2
    <3>3. ASSUME NEW cookie, NEW prior, Arguments(r, cookie, prior)
          PROVE  \E op \in AllOps :
                    /\ req'[r].pc = FirstPC(op)
                    /\ req'[r].cookie = cookie /\ req'[r].prior = prior
      BY <1>a, <3>3, Sets DEF Arguments, Call, ReqType
    <3>4. CASE Arguments(r, NoToken, NoSession)
      BY <3>2, <3>3, <3>4
    <3>5. ASSUME NEW s \in SessionIds, Lookup(s, clock),
                 Arguments(r, sess[s].token, s)
          PROVE  CredInv'
      <4>1. sess[s].status = "open"
        BY <3>5 DEF Lookup, LiveAt
      <4>2. sess[s].token \in Tokens /\ minted[sess[s].token] # Nobody
        BY <1>a, <4>1, Sets DEF SInv, RowInv
      <4>3. \A x \in SessionIds : sess[x].token = sess[s].token => x = s
        BY <1>a, <4>1, <4>2, Sets DEF SInv, RowInv, TokenInv, NoRow
      <4> QED
        BY <3>2, <3>3, <3>5, <4>2, <4>3
    <3> QED
      BY <2>5, <3>4, <3>5 DEF Arrive
  <2>6. CASE LoginSelect(r)
    <3>1. UNCHANGED replaced
      BY <2>6 DEF LoginSelect, history
    <3>2. req[r].cookie # NoToken => Replacing(r) = "revoke"
      BY <1>a DEF HoldInv, Held, Replacing
    <3>3. CASE \E u \in Users :
                 req' = [req EXCEPT ![r].user = u, ![r].hash = acct[u].hash,
                           ![r].pc = IF acct[u].hash.weak THEN "rehash"
                                     ELSE Replacing(r)]
      <4>1. /\ req'[r].cookie = req[r].cookie /\ req'[r].prior = req[r].prior
            /\ req'[r].pc \in {"rehash", Replacing(r)}
        BY <1>a, <3>3 DEF ReqType, Request
      <4> QED
        BY <2>3, <3>1, <3>2, <4>1
    <3> QED
      BY <2>2, <2>6, <3>1, <3>3 DEF LoginSelect, Owners
  <2>7. CASE LoginRehash(r)
    <3>1. UNCHANGED replaced
      BY <2>7 DEF LoginRehash, history
    <3>2. req[r].cookie # NoToken => Replacing(r) = "revoke"
      BY <1>a DEF HoldInv, Held, Replacing
    <3>3. /\ req'[r].cookie = req[r].cookie /\ req'[r].prior = req[r].prior
          /\ req'[r].pc = Replacing(r)
      BY <1>a, <2>7 DEF LoginRehash, Go, ReqType, Request
    <3> QED
      BY <2>3, <3>1, <3>2, <3>3
  <2>8. CASE LoginRevoke(r)
    <3>1. UNCHANGED replaced /\ RevokePrior(r) /\ req[r].prior \in SessionIds
      BY <1>a, <2>8, <2>g DEF LoginRevoke, history, HoldInv, Held, At, Request
    <3>2. /\ req'[r].cookie = req[r].cookie /\ req'[r].prior = req[r].prior
      BY <1>a, <2>8 DEF LoginRevoke, Go, ReqType, Request
    <3> QED
      BY <1>a, <2>3, <3>1, <3>2, RevokedPrior
  <2>9. CASE LoginIssue(r)
    <3>1. UNCHANGED replaced /\ req[r].pc = "issue"
      BY <2>9 DEF LoginIssue, At
    <3>2. /\ req'[r].cookie = req[r].cookie /\ req'[r].prior = req[r].prior
      BY <1>a, <2>9 DEF LoginIssue, ReqType, Request
    <3> QED
      BY <2>3, <3>1, <3>2
  <2>10. CASE LoginLookup(r)
    <3>1. Finish(r) /\ (Replace(r) \/ UNCHANGED replaced) /\ req[r].pc = "lookup"
      BY <2>10 DEF LoginLookup, At
    <3>2. ASSUME req[r].cookie # NoToken, NEW s \in SessionIds,
                 sess'[s].token = req[r].cookie
          PROVE  ~Live(s)'
      BY <1>p, <3>1, <3>2 DEF CredInv
    <3>3. CASE req[r].cookie # NoToken /\ Replace(r)
      BY <2>4, <3>1, <3>2, <3>3
    <3>4. CASE req[r].cookie = NoToken \/ UNCHANGED replaced
      <4>1. UNCHANGED replaced
        BY <3>1, <3>4 DEF Replace
      <4> QED
        BY <2>2, <3>1, <4>1
    <3> QED
      BY <3>1, <3>3, <3>4
  <2>11. CASE Logout(r)
    <3>1. Finish(r) /\ Replace(r)
      BY <2>11 DEF Logout
    <3>2. CASE req[r].cookie = NoToken
      <4>1. UNCHANGED replaced
        BY <3>1, <3>2 DEF Replace
      <4> QED
        BY <2>2, <3>1, <4>1
    <3>3. CASE req[r].cookie # NoToken
      <4>1. req[r].prior \in SessionIds /\ RevokePrior(r)
        BY <1>p, <2>11, <3>3, Sets DEF Logout
      <4>2. \A s \in SessionIds : sess'[s].token = req[r].cookie => ~Live(s)'
        BY <1>a, <1>p, <3>3, <4>1, RevokedPrior
      <4> QED
        BY <2>4, <3>1, <4>2
    <3> QED
      BY <3>2, <3>3
  <2>12. CASE ChangeRotate(r)
    <3>1. CASE Finish(r) /\ UNCHANGED replaced
      BY <2>2, <3>1
    <3>2. ASSUME NEW tok \in Tokens, Rotate(req[r].prior, tok, clock),
                 Replace(r), Finish(r)
          PROVE  CredInv'
      <4>1. CASE req[r].cookie = NoToken
        <5>1. UNCHANGED replaced
          BY <3>2, <4>1 DEF Replace
        <5> QED
          BY <2>2, <3>2, <5>1
      <4>2. CASE req[r].cookie # NoToken
        <5>1. /\ req[r].prior \in SessionIds
              /\ \A s \in SessionIds :
                    sess'[s].token = req[r].cookie => s = req[r].prior
          BY <1>p, <4>2
        <5>2. sess'[req[r].prior].token = tok /\ minted[tok] = Nobody
          BY <1>a, <3>2, <5>1 DEF Rotate, NewToken, STypeOK, Row
        <5>3. tok # req[r].cookie
          BY <4>2, <5>2 DEF CredInv
        <5> QED
          BY <2>4, <3>2, <5>1, <5>2, <5>3
      <4> QED
        BY <4>1, <4>2
    <3> QED
      BY <2>12, <3>1, <3>2 DEF ChangeRotate
  <2>13. CASE ChangeRead(r) \/ ChangeWrite(r) \/ FindUser(r) \/ InsertUser(r)
    <3>1. UNCHANGED replaced
      BY <2>13 DEF ChangeRead, ChangeWrite, FindUser, InsertUser, history
    <3>2. \/ Finish(r)
          \/ /\ req'[r].cookie = req[r].cookie /\ req'[r].prior = req[r].prior
             /\ req'[r].pc \notin {"issue", "lookup"}
      <4>1. CASE ChangeRead(r)
        BY <1>a, <4>1 DEF ChangeRead, ReqType, Request
      <4>2. CASE ChangeWrite(r)
        BY <1>a, <4>2 DEF ChangeWrite, Go, ReqType, Request
      <4>3. CASE FindUser(r)
        BY <1>a, <4>3 DEF FindUser, ReqType, Request
      <4>4. CASE InsertUser(r)
        BY <1>a, <4>4 DEF InsertUser, Go, ReqType, Request
      <4> QED
        BY <2>13, <4>1, <4>2, <4>3, <4>4
    <3> QED
      BY <2>2, <2>3, <3>1, <3>2
  <2>14. CASE Consume(r) \/ SetPassword(r)
    <3>1. UNCHANGED replaced
      BY <2>14 DEF Consume, SetPassword, history
    <3>2. \/ Finish(r)
          \/ /\ req'[r].cookie = req[r].cookie /\ req'[r].prior = req[r].prior
             /\ req'[r].pc \notin {"issue", "lookup"}
      BY <1>a, <2>14 DEF Consume, SetPassword, ReqType, Request
    <3> QED
      BY <2>2, <2>3, <3>1, <3>2
  <2>15. CASE \/ Abort(r) \/ LoginThrottled(r) \/ LoginUnknown(r)
              \/ MintLink(r) \/ ResetRevokeAll(r) \/ MarkVerified(r)
    BY <2>2, <2>15 DEF Abort, LoginThrottled, LoginUnknown, MintLink,
       ResetRevokeAll, MarkVerified, history
  <2> QED
    BY <1>1, <2>5, <2>6, <2>7, <2>8, <2>9, <2>10, <2>11, <2>12, <2>13, <2>14,
       <2>15 DEF Step
<1>2. CASE CloseAccount \/ TimePasses \/ UNCHANGED vars
  <2>1. UNCHANGED <<req, replaced>>
    BY <1>2 DEF CloseAccount, TimePasses, vars, avars, history
  <2> QED
    BY <1>n, <1>r, <2>1 DEF CredInv
<1> QED
  BY <1>1, <1>2 DEF Next

(* A credential does not outlive the request that replaced it, whatever    *)
(* other requests holding the same session do meanwhile.                   *)
THEOREM ReplacedIsDead == TxLag = 0 => (Spec => []ReplacedCredentialsDead)
<1> SUFFICES ASSUME TxLag = 0 PROVE Spec => []ReplacedCredentialsDead
  OBVIOUS
<1>1. AInit => CredInv
  BY DEF AInit, CredInv, NoRequest
<1>2. AInv /\ CredInv /\ [Next]_vars => CredInv'
  BY CredStep
<1>3. CredInv => ReplacedCredentialsDead
  BY DEF CredInv, Dead, ReplacedCredentialsDead, Resolves, Live
<1> QED
  BY <1>1, <1>2, <1>3, AccountsStructure, PTL DEF Spec

=============================================================================
