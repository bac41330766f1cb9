--------------------------- MODULE BrowserProofs ---------------------------
(***************************************************************************)
(* What TLAPS proves of module Browser, for any number of exchanges in     *)
(* flight and every set of sessions, tokens and users.                     *)
(***************************************************************************)
EXTENDS Browser, SessionsProofs, SequenceTheorems

Used == {t \in Tokens : minted[t] # Nobody}
Over == {t \in Used : ~Resolves(t, clock)}

(* What the middleware leaves in a jar, before the operation. *)
Base(dead) == IF dead THEN <<Clear>> ELSE <<>>

(* The jar of an operation that is done: as the middleware left it, or     *)
(* with one cookie more, which deletes after a logout only and is never    *)
(* the dead one again.  A login whose headers were in time has put its own.*)
Answered(q, used) ==
    \/ q.jar = Base(q.dead) /\ ~(q.op = "login" /\ q.head = "written")
    \/ \E c \in used \cup {Clear} :
          /\ q.jar = Append(Base(q.dead), c)
          /\ c = Clear => q.op = "logout"
          /\ q.dead => c # q.sent

(* An exchange, given the tokens ever minted and those that are over.      *)
Good(q, used, over) ==
    /\ q.sent \in used \cup {NoToken}
    /\ q.dead => q.sent \in over
    /\ q.pc \in {"idle", "lost", "sent"}
          => ~q.dead /\ q.jar = <<>> /\ q.head = "open"
    /\ q.pc = "resolved" => q.jar = Base(q.dead) /\ q.head # "written"
    /\ q.pc = "response" => q.head \in {"written", "early"} /\ Answered(q, used)

ExchangeInv == \A r \in Requests : Good(req[r], Used, Over)
CookieInv == cookie \in Used \cup {NoToken}

WInv == SInv /\ WTypeOK /\ ExchangeInv /\ CookieInv

-----------------------------------------------------------------------------
(* The sessions under the browser. *)

(* A step of the browser takes one of these with the sessions. *)
Touched ==
    \/ \E s \in SessionIds, u \in Users, tok \in Tokens : Issue(s, u, tok, clock)
    \/ \E s \in SessionIds : Lookup(s, clock) \/ Revoke(s)
    \/ \E s \in SessionIds, tok \in Tokens : Rotate(s, tok, clock)
    \/ UNCHANGED svars

LEMMA TouchedIsStep ==
    ASSUME STypeOK, Touched
    PROVE  [SNext]_svars
<1>1. clock \in TxTimes
  BY SessionsAssumption DEF STypeOK, TxTimes
<1> QED BY <1>1 DEF Touched, SNext

(* A token minted stays minted, and one that is over stays over. *)
LEMMA TokensAge ==
    ASSUME SInv, Touched
    PROVE  SInv' /\ Used \subseteq Used' /\ Over \subseteq Over'
<1> USE SessionsAssumption
<1>0. STypeOK /\ RowInv
  BY DEF SInv
<1>1. SInv'
  BY <1>0, TouchedIsStep, SInvStep
<1>2. Used \subseteq Used'
  <2> SUFFICES ASSUME NEW t \in Used PROVE minted'[t] # Nobody
    BY DEF Used
  <2>1. CASE \E s \in SessionIds, u \in Users, tok \in Tokens :
               Issue(s, u, tok, clock)
    BY <1>0, <2>1 DEF Issue, NewToken, STypeOK, Used
  <2>2. CASE \E s \in SessionIds, tok \in Tokens : Rotate(s, tok, clock)
    BY <1>0, <2>2 DEF Rotate, NewToken, STypeOK, Used
  <2>3. CASE minted' = minted
    BY <2>3 DEF Used
  <2> QED BY <2>1, <2>2, <2>3 DEF Touched, Lookup, Revoke, svars
<1>3. ASSUME NEW t \in Over, NEW s \in SessionIds, sess'[s].token = t
      PROVE  ~LiveAt(s, clock)' \/ sess'[s].user \in deleted'
  <2>1. t \in Tokens /\ minted[t] # Nobody /\ ~Resolves(t, clock)
    BY DEF Over, Used
  <2>2. /\ sess \in [SessionIds -> Row] /\ clock \in Nat
        /\ sess[s].token = t => ~LiveAt(s, clock) \/ sess[s].user \in deleted
    BY <1>0, <2>1 DEF STypeOK, Resolves
  <2>3. CASE \E x \in SessionIds, u \in Users, tok \in Tokens :
               Issue(x, u, tok, clock)
    <3> PICK x \in SessionIds, u \in Users, tok \in Tokens :
               Issue(x, u, tok, clock)
      BY <2>3
    <3>1. CASE x = s
      BY <2>1, <2>2, <3>1, <1>3 DEF Issue, NewToken
    <3>2. CASE x # s
      <4>1. sess'[s] = sess[s] /\ clock' = clock /\ deleted' = deleted
        BY <3>2, <2>2 DEF Issue
      <4> QED BY <4>1, <2>2, <1>3 DEF LiveAt
    <3> QED BY <3>1, <3>2
  <2>4. CASE \E x \in SessionIds, tok \in Tokens : Rotate(x, tok, clock)
    <3> PICK x \in SessionIds, tok \in Tokens : Rotate(x, tok, clock)
      BY <2>4
    <3>1. CASE x = s
      <4>1. sess'[s].token = tok
        BY <2>2, <3>1 DEF Rotate, Row
      <4> QED BY <2>1, <4>1, <1>3 DEF Rotate, NewToken
    <3>2. CASE x # s
      <4>1. sess'[s] = sess[s] /\ clock' = clock /\ deleted' = deleted
        BY <3>2, <2>2 DEF Rotate
      <4> QED BY <4>1, <2>2, <1>3 DEF LiveAt
    <3> QED BY <3>1, <3>2
  <2>5. CASE \E x \in SessionIds : Lookup(x, clock)
    <3> PICK x \in SessionIds : Lookup(x, clock)
      BY <2>5
    <3>1. clock' = clock /\ deleted' = deleted
      BY DEF Lookup
    <3>2. CASE sess'[s] = sess[s]
      BY <3>1, <3>2, <2>2, <1>3 DEF LiveAt
    <3>3. CASE sess'[s] # sess[s]
      <4>1. x = s /\ LiveAt(s, clock)
        BY <3>3, <2>2 DEF Lookup
      <4>2. sess'[s].token = sess[s].token /\ sess'[s].user = sess[s].user
        BY <4>1, <2>2 DEF Lookup, Row
      <4> QED BY <3>1, <4>1, <4>2, <2>2, <1>3
    <3> QED BY <3>2, <3>3
  <2>6. CASE \E x \in SessionIds : Revoke(x)
    <3> PICK x \in SessionIds : Revoke(x)
      BY <2>6
    <3>1. clock' = clock /\ deleted' = deleted
      BY DEF Revoke
    <3>2. sess'[s] = sess[s] \/ sess'[s].status = "revoked"
      BY <2>2 DEF Revoke, Row
    <3> QED BY <3>1, <3>2, <2>2, <1>3 DEF LiveAt
  <2>7. CASE UNCHANGED svars
    BY <2>7, <2>2, <1>3 DEF svars, LiveAt
  <2> QED BY <2>3, <2>4, <2>5, <2>6, <2>7 DEF Touched
<1>4. \A t \in Over : ~Resolves(t, clock)'
  BY <1>3 DEF Resolves
<1>5. Over \subseteq Used
  BY DEF Over
<1> QED BY <1>1, <1>2, <1>4, <1>5 DEF Over

(* No session answers to the absence of a cookie. *)
LEMMA NoTokenResolvesNot == SInv => ~Resolves(NoToken, clock)
BY SessionsAssumption DEF SInv, STypeOK, RowInv, Resolves, LiveAt, Row

-----------------------------------------------------------------------------
(* Jars. *)

LEMMA Bounded ==
    ASSUME NEW S, NEW m \in 0 .. 2
    PROVE  [1 .. m -> S] \subseteq BoundedSeq(S, 2)
BY DEF BoundedSeq, SeqOf

LEMMA BaseIs ==
    ASSUME NEW d \in BOOLEAN
    PROVE  /\ Base(d) \in BoundedSeq(Tokens \cup {Clear}, 2)
           /\ Base(d) \in Seq(Tokens \cup {Clear}) /\ Len(Base(d)) \in {0, 1}
           /\ d => Base(d) # <<>> /\ Last(Base(d)) = Clear
           /\ ~d => Base(d) = <<>>
<1> DEFINE S == Tokens \cup {Clear}
<1>1. CASE d
  <2>1. Base(d) = <<Clear>>
    BY <1>1 DEF Base
  <2>2. /\ <<Clear>> \in [1 .. 1 -> S] /\ <<Clear>> \in Seq(S)
        /\ Len(<<Clear>>) = 1 /\ <<Clear>> # <<>> /\ <<Clear>>[1] = Clear
    OBVIOUS
  <2>3. <<Clear>> \in BoundedSeq(S, 2)
    BY <2>2, Bounded
  <2> QED BY <1>1, <2>1, <2>2, <2>3 DEF Last
<1>2. CASE ~d
  <2>1. Base(d) = <<>>
    BY <1>2 DEF Base
  <2>2. <<>> \in [1 .. 0 -> S] /\ <<>> \in Seq(S) /\ Len(<<>>) = 0
    OBVIOUS
  <2>3. 0 \in 0 .. 2
    OBVIOUS
  <2>4. [1 .. 0 -> S] \subseteq BoundedSeq(S, 2)
    BY ONLY <2>3, Bounded
  <2> QED BY <1>2, <2>1, <2>2, <2>4
<1> QED BY <1>1, <1>2

LEMMA AppendIs ==
    ASSUME NEW d \in BOOLEAN, NEW c \in Tokens \cup {Clear}
    PROVE  /\ Append(Base(d), c) \in BoundedSeq(Tokens \cup {Clear}, 2)
           /\ Append(Base(d), c) # <<>> /\ Last(Append(Base(d), c)) = c
<1> DEFINE S == Tokens \cup {Clear}
           b == Base(d)
           j == Append(b, c)
<1>1. b \in Seq(S) /\ Len(b) \in {0, 1} /\ c \in S
  BY BaseIs
<1> HIDE DEF b, S
<1>2. /\ j \in Seq(S) /\ Len(j) = Len(b) + 1 /\ j[Len(j)] = c
  BY <1>1, AppendProperties
<1> HIDE DEF j
<1>3. Len(j) \in 0 .. 2 /\ Len(j) > 0
  BY <1>1, <1>2
<1>4. j \in [1 .. Len(j) -> S] /\ j # <<>>
  BY <1>2, <1>3, LenProperties, EmptySeq
<1>5. j \in BoundedSeq(S, 2)
  BY <1>3, <1>4, Bounded
<1>6. Last(j) = c
  BY <1>2 DEF Last
<1> QED BY <1>4, <1>5, <1>6 DEF j, b, S

-----------------------------------------------------------------------------
(* The inductive step: one exchange moves, and the others keep what they   *)
(* have.                                                                   *)

LEMMA GoodStays ==
    ASSUME NEW q, NEW u1, NEW u2, NEW o1, NEW o2,
           u1 \subseteq u2, o1 \subseteq o2, Good(q, u1, o1)
    PROVE  Good(q, u2, o2)
BY DEF Good, Answered

LEMMA Combine ==
    ASSUME WInv, Touched, NEW r \in Requests, NEW q \in Exchange,
           req' = [req EXCEPT ![r] = q], Good(q, Used', Over'),
           cookie' \in Used' \cup {NoToken}, outages' \in 0 .. MaxOutages
    PROVE  WInv'
<1>1. SInv' /\ Used \subseteq Used' /\ Over \subseteq Over'
  BY TokensAge DEF WInv
<1>2. req' \in [Requests -> Exchange]
  BY DEF WInv, WTypeOK
<1>3. Used' \subseteq Tokens
  BY DEF Used
<1>4. WTypeOK'
  BY <1>1, <1>2, <1>3 DEF WTypeOK, SInv
<1>5. ASSUME NEW x \in Requests PROVE Good(req'[x], Used', Over')
  <2>1. CASE x = r
    BY <2>1 DEF WInv, WTypeOK
  <2>2. CASE x # r
    <3>1. req'[x] = req[x] /\ Good(req[x], Used, Over)
      BY <2>2 DEF WInv, WTypeOK, ExchangeInv
    <3>2. Good(req[x], Used', Over')
      BY <3>1, <1>1, GoodStays
    <3> QED BY <3>1, <3>2
  <2> QED BY <2>1, <2>2
<1> QED BY <1>1, <1>4, <1>5 DEF WInv, ExchangeInv, CookieInv

(* What a step starts from, in the terms of Combine. *)
LEMMA Before ==
    ASSUME WInv, Touched, NEW r \in Requests
    PROVE  /\ req[r] \in Exchange /\ Good(req[r], Used', Over')
           /\ cookie \in Used' \cup {NoToken} /\ outages \in 0 .. MaxOutages
           /\ Used' \subseteq Tokens /\ STypeOK /\ STypeOK'
<1>1. SInv' /\ Used \subseteq Used' /\ Over \subseteq Over'
  BY TokensAge DEF WInv
<1>2. Good(req[r], Used, Over)
  BY DEF WInv, ExchangeInv
<1>3. Good(req[r], Used', Over')
  BY <1>1, <1>2, GoodStays
<1> QED BY <1>1, <1>3 DEF WInv, WTypeOK, CookieInv, SInv, Used

LEMMA SendStep ==
    ASSUME WInv, NEW r \in Requests, NEW op \in Kinds, Send(r, op)
    PROVE  WInv'
<1> DEFINE q == [NoExchange EXCEPT !.pc = "sent", !.op = op, !.sent = cookie]
<1>1. Touched
  BY DEF Send, Touched
<1>2. /\ cookie \in Used' \cup {NoToken} /\ Used' \subseteq Tokens
      /\ outages \in 0 .. MaxOutages
  BY <1>1, Before
<1>3. <<>> \in BoundedSeq(Tokens \cup {Clear}, 2)
  BY BaseIs
<1>4. q \in Exchange
  BY <1>2, <1>3 DEF Exchange, NoExchange
<1>5. Good(q, Used', Over')
  BY <1>2 DEF Good, NoExchange
<1>6. /\ req' = [req EXCEPT ![r] = q] /\ cookie' = cookie
      /\ outages' = outages
  BY DEF Send
<1> HIDE DEF q
<1> QED BY <1>1, <1>2, <1>4, <1>5, <1>6, Combine

LEMMA ResolveLiveStep ==
    ASSUME WInv, NEW r \in Requests, ResolveLive(r)
    PROVE  WInv'
<1> PICK s \in SessionIds :
       /\ Lookup(s, clock)
       /\ req' = [req EXCEPT ![r].pc = "resolved", ![r].prior = s]
  BY DEF ResolveLive
<1> DEFINE q == [req[r] EXCEPT !.pc = "resolved", !.prior = s]
<1>1. Touched
  BY DEF Touched
<1>2. /\ req[r] \in Exchange /\ Good(req[r], Used', Over')
      /\ cookie \in Used' \cup {NoToken} /\ outages \in 0 .. MaxOutages
  BY <1>1, Before
<1>3. q \in Exchange
  BY <1>2 DEF Exchange
<1>4. Good(q, Used', Over')
  BY <1>2 DEF Good, Base, ResolveLive, Exchange
<1>5. /\ req' = [req EXCEPT ![r] = q] /\ cookie' = cookie
      /\ outages' = outages
  BY DEF ResolveLive
<1> HIDE DEF q
<1> QED BY <1>1, <1>2, <1>3, <1>4, <1>5, Combine

(* The cookie that did not resolve was minted once, so it is over.         *)
LEMMA ResolveDeadStep ==
    ASSUME WInv, NEW r \in Requests, ResolveDead(r)
    PROVE  WInv'
<1>1. Touched
  BY DEF ResolveDead, Touched
<1>2. /\ req[r] \in Exchange /\ Good(req[r], Used', Over')
      /\ cookie \in Used' \cup {NoToken} /\ outages \in 0 .. MaxOutages
  BY <1>1, Before
<1>3. cookie' = cookie /\ outages' = outages /\ req[r].pc = "sent"
  BY DEF ResolveDead
<1>4. ~req[r].dead /\ req[r].jar = <<>> /\ req[r].head = "open"
  BY <1>2, <1>3 DEF Good
<1>5. CASE req[r].sent = NoToken
  <2> DEFINE q == [req[r] EXCEPT !.pc = "resolved"]
  <2>1. q \in Exchange /\ req' = [req EXCEPT ![r] = q]
    BY <1>2, <1>5 DEF Exchange, ResolveDead
  <2>2. Good(q, Used', Over')
    BY <1>2, <1>4 DEF Good, Base, Exchange
  <2> HIDE DEF q
  <2> QED BY <1>1, <1>2, <1>3, <2>1, <2>2, Combine
<1>6. CASE req[r].sent # NoToken
  <2> DEFINE q == [req[r] EXCEPT !.pc = "resolved", !.dead = TRUE,
                                 !.jar = <<Clear>>]
  <2>1. <<Clear>> \in BoundedSeq(Tokens \cup {Clear}, 2)
    BY BaseIs DEF Base
  <2>2. add(r, Clear) = <<Clear>>
    BY <1>4 DEF add
  <2>3. q \in Exchange /\ req' = [req EXCEPT ![r] = q]
    BY <1>2, <1>6, <2>1, <2>2 DEF Exchange, ResolveDead
  <2>4. req[r].sent \in Used /\ ~Resolves(req[r].sent, clock)
    BY <1>6 DEF WInv, ExchangeInv, Good, ResolveDead
  <2>5. req[r].sent \in Over'
    BY <1>1, <2>4, TokensAge DEF Over, WInv
  <2>6. Good(q, Used', Over')
    BY <1>2, <1>4, <2>5 DEF Good, Base, Exchange
  <2> HIDE DEF q
  <2> QED BY <1>1, <1>2, <1>3, <2>3, <2>6, Combine
<1> QED BY <1>5, <1>6

LEMMA ResolveFailsStep ==
    ASSUME WInv, NEW r \in Requests, ResolveFails(r)
    PROVE  WInv'
<1> DEFINE q == [req[r] EXCEPT !.pc = "resolved"]
<1>1. Touched
  BY DEF ResolveFails, Touched
<1>2. /\ req[r] \in Exchange /\ Good(req[r], Used', Over')
      /\ cookie \in Used' \cup {NoToken} /\ outages \in 0 .. MaxOutages
  BY <1>1, Before
<1>3. q \in Exchange
  BY <1>2 DEF Exchange
<1>4. Good(q, Used', Over')
  BY <1>2 DEF Good, Base, ResolveFails, Exchange
<1>5. /\ req' = [req EXCEPT ![r] = q] /\ cookie' = cookie
      /\ outages' = outages + 1 /\ outages < MaxOutages
  BY DEF ResolveFails
<1>6. outages' \in 0 .. MaxOutages
  BY <1>2, <1>5, BrowserAssumption
<1> HIDE DEF q
<1> QED BY <1>1, <1>2, <1>3, <1>4, <1>5, <1>6, Combine

LEMMA FlushStep ==
    ASSUME WInv, NEW r \in Requests, Flush(r)
    PROVE  WInv'
<1> DEFINE q == [req[r] EXCEPT !.head = "early"]
<1>1. Touched
  BY DEF Flush, Touched
<1>2. /\ req[r] \in Exchange /\ Good(req[r], Used', Over')
      /\ cookie \in Used' \cup {NoToken} /\ outages \in 0 .. MaxOutages
  BY <1>1, Before
<1>3. q \in Exchange
  BY <1>2 DEF Exchange
<1>4. Good(q, Used', Over')
  BY <1>2 DEF Good, Flush, Exchange
<1>5. /\ req' = [req EXCEPT ![r] = q] /\ cookie' = cookie
      /\ outages' = outages
  BY DEF Flush
<1> HIDE DEF q
<1> QED BY <1>1, <1>2, <1>3, <1>4, <1>5, Combine

(* An operation is done: its answer is read already, or waits with the jar *)
(* the operation leaves.                                                   *)
LEMMA RespondStep ==
    ASSUME WInv, Touched, NEW r \in Requests, req[r].pc = "resolved",
           NEW jar, Respond(r, jar),
           jar \in BoundedSeq(Tokens \cup {Clear}, 2),
           \/ jar = req[r].jar /\ ~(req[r].op = "login" /\ req[r].head = "open")
           \/ \E c \in Used' \cup {Clear} :
                 /\ jar = Append(Base(req[r].dead), c)
                 /\ c = Clear => req[r].op = "logout"
                 /\ req[r].dead => c # req[r].sent,
           UNCHANGED <<cookie, outages>>
    PROVE  WInv'
<1>1. /\ req[r] \in Exchange /\ Good(req[r], Used', Over')
      /\ cookie \in Used' \cup {NoToken} /\ outages \in 0 .. MaxOutages
  BY Before
<1>2. /\ req[r].jar = Base(req[r].dead)
      /\ req[r].head \in {"open", "early", "read"}
  BY <1>1 DEF Good, Exchange
<1>3. CASE req[r].head = "read"
  <2>1. req' = [req EXCEPT ![r] = NoExchange]
    BY <1>3 DEF Respond
  <2>2. <<>> \in BoundedSeq(Tokens \cup {Clear}, 2)
    BY BaseIs
  <2>3. NoExchange \in Exchange
    BY <2>2 DEF NoExchange, Exchange, Kinds
  <2>4. Good(NoExchange, Used', Over')
    BY DEF Good, NoExchange
  <2> QED BY <1>1, <2>1, <2>3, <2>4, Combine
<1>4. CASE req[r].head # "read"
  <2> DEFINE h == IF req[r].head = "open" THEN "written" ELSE req[r].head
             q == [req[r] EXCEPT !.pc = "response", !.jar = jar, !.head = h]
  <2>1. req' = [req EXCEPT ![r] = q]
    BY <1>1, <1>4 DEF Respond, Exchange
  <2>2. h \in {"written", "early"} /\ (h = "written" => req[r].head = "open")
    BY <1>2, <1>4
  <2> HIDE DEF h
  <2>3. /\ q \in Exchange /\ q.pc = "response" /\ q.jar = jar /\ q.head = h
        /\ q.dead = req[r].dead /\ q.sent = req[r].sent /\ q.op = req[r].op
    BY <1>1, <2>2 DEF Exchange
  <2> HIDE DEF q
  <2>4. Answered(q, Used')
    BY <1>2, <2>2, <2>3 DEF Answered
  <2>5. Good(q, Used', Over')
    BY <1>1, <2>2, <2>3, <2>4 DEF Good
  <2> QED BY <1>1, <2>1, <2>3, <2>5, Combine
<1> QED BY <1>3, <1>4

(* The operation adds a cookie of its own, unless the answer has begun.    *)
LEMMA RespondWithStep ==
    ASSUME WInv, Touched, NEW r \in Requests, req[r].pc = "resolved",
           NEW c \in Used' \cup {Clear}, Respond(r, add(r, c)),
           c = Clear => req[r].op = "logout",
           req[r].dead => c # req[r].sent,
           UNCHANGED <<cookie, outages>>
    PROVE  WInv'
<1>1. req[r] \in Exchange /\ req[r].jar = Base(req[r].dead)
  BY Before DEF Good
<1>2. CASE req[r].head = "open"
  <2>1. add(r, c) = Append(Base(req[r].dead), c)
    BY <1>1, <1>2 DEF add
  <2>2. Append(Base(req[r].dead), c) \in BoundedSeq(Tokens \cup {Clear}, 2)
    <3>1. req[r].dead \in BOOLEAN /\ c \in Tokens \cup {Clear}
      BY <1>1 DEF Exchange, Used
    <3> QED BY <3>1, AppendIs
  <2> HIDE DEF add
  <2> QED BY <2>1, <2>2, RespondStep
<1>3. CASE req[r].head # "open"
  <2>1. add(r, c) = req[r].jar
    BY <1>3 DEF add
  <2>2. req[r].jar \in BoundedSeq(Tokens \cup {Clear}, 2)
    BY <1>1 DEF Exchange
  <2> QED BY <1>3, <2>1, <2>2, RespondStep
<1> QED BY <1>2, <1>3

(* A token new to this step is not the one the request came with.          *)
LEMMA NewIsNotSent ==
    ASSUME WInv, NEW r \in Requests, NEW tok \in Tokens, NewToken(tok)
    PROVE  tok # req[r].sent /\ tok # Clear
BY SessionsAssumption DEF WInv, ExchangeInv, Good, Used, NewToken, Clear

LEMMA QueryStep ==
    ASSUME WInv, NEW r \in Requests, Query(r)
    PROVE  WInv'
<1>1. Touched
  BY DEF Query, Touched
<1>2. /\ req[r].pc = "resolved" /\ req[r].op # "login"
      /\ Respond(r, req[r].jar) /\ UNCHANGED <<cookie, outages>>
  BY DEF Query, Resolved
<1>3. req[r].jar \in BoundedSeq(Tokens \cup {Clear}, 2)
  BY <1>1, Before DEF Exchange
<1> QED BY <1>1, <1>2, <1>3, RespondStep

LEMMA LoginRevokeStep ==
    ASSUME WInv, NEW r \in Requests, LoginRevoke(r)
    PROVE  WInv'
<1> DEFINE q == [req[r] EXCEPT !.prior = NoSession]
<1>0. req[r] \in Exchange
  BY DEF WInv, WTypeOK
<1>1. Touched
  BY <1>0 DEF LoginRevoke, End, Touched, Exchange
<1>2. /\ Good(req[r], Used', Over')
      /\ cookie \in Used' \cup {NoToken} /\ outages \in 0 .. MaxOutages
  BY <1>1, Before
<1>3. q \in Exchange
  BY <1>0 DEF Exchange
<1>4. Good(q, Used', Over')
  BY <1>0, <1>2 DEF Good, LoginRevoke, Resolved, Exchange
<1>5. /\ req' = [req EXCEPT ![r] = q] /\ cookie' = cookie
      /\ outages' = outages
  BY DEF LoginRevoke
<1> HIDE DEF q
<1> QED BY <1>1, <1>2, <1>3, <1>4, <1>5, Combine

LEMMA LoginFailsStep ==
    ASSUME WInv, NEW r \in Requests, LoginFails(r)
    PROVE  WInv'
<1> DEFINE q == [req[r] EXCEPT !.op = "refused"]
<1>0. req[r] \in Exchange
  BY DEF WInv, WTypeOK
<1>1. Touched
  BY DEF LoginFails, Touched
<1>2. /\ Good(req[r], Used', Over')
      /\ cookie \in Used' \cup {NoToken} /\ outages \in 0 .. MaxOutages
  BY <1>1, Before
<1>3. q \in Exchange
  BY <1>0 DEF Exchange
<1>4. Good(q, Used', Over')
  BY <1>0, <1>2 DEF Good, LoginFails, Resolved, Exchange
<1>5. /\ req' = [req EXCEPT ![r] = q] /\ cookie' = cookie
      /\ outages' = outages
  BY DEF LoginFails
<1> HIDE DEF q
<1> QED BY <1>1, <1>2, <1>3, <1>4, <1>5, Combine

LEMMA LoginIssueStep ==
    ASSUME WInv, NEW r \in Requests, LoginIssue(r)
    PROVE  WInv'
<1>1. PICK s \in SessionIds, u \in Users, tok \in Tokens :
         Issue(s, u, tok, clock) /\ Respond(r, add(r, tok))
  BY DEF LoginIssue
<1>2. Touched
  BY <1>1 DEF Touched
<1>3. /\ tok # req[r].sent /\ tok # Clear
      /\ minted \in [Tokens -> Users \cup {Nobody}]
  BY <1>1, NewIsNotSent DEF Issue, WInv, WTypeOK, STypeOK
<1>5. tok \in Used'
  BY <1>1, <1>3, SessionsAssumption DEF Issue, Used
<1>4. req[r].pc = "resolved" /\ UNCHANGED <<cookie, outages>>
  BY DEF LoginIssue, Resolved
<1> QED BY <1>1, <1>2, <1>3, <1>4, <1>5, RespondWithStep

LEMMA LogoutStep ==
    ASSUME WInv, NEW r \in Requests, Logout(r)
    PROVE  WInv'
<1>1. req[r] \in Exchange
  BY DEF WInv, WTypeOK
<1>2. Touched
  BY <1>1 DEF Logout, End, Touched, Exchange
<1>3. /\ req[r].pc = "resolved" /\ req[r].op = "logout"
      /\ Respond(r, add(r, Clear)) /\ UNCHANGED <<cookie, outages>>
  BY DEF Logout, Resolved
<1>4. req[r].dead => Clear # req[r].sent
  BY SessionsAssumption DEF WInv, ExchangeInv, Good, Over, Used, Clear
<1> QED BY <1>2, <1>3, <1>4, RespondWithStep

LEMMA ChangeStep ==
    ASSUME WInv, NEW r \in Requests, Change(r)
    PROVE  WInv'
<1> DEFINE s == req[r].prior
<1>1. /\ req[r] \in Exchange /\ req[r].pc = "resolved"
      /\ req[r].op = "change" /\ UNCHANGED <<cookie, outages>>
  BY DEF WInv, WTypeOK, Change, Resolved
<1>2. CASE s # NoSession /\ Live(s)
  <2>1. PICK tok \in Tokens :
           Rotate(s, tok, clock) /\ Respond(r, add(r, tok))
    BY <1>2 DEF Change
  <2>2. Touched
    BY <1>1, <1>2, <2>1 DEF Touched, Exchange
  <2>3. tok # req[r].sent /\ tok # Clear
    BY <2>1, NewIsNotSent DEF Rotate
  <2>4. /\ minted \in [Tokens -> Users \cup {Nobody}]
        /\ sess[s].user \in Users
    BY <1>1, <1>2 DEF WInv, SInv, STypeOK, RowInv, Live, LiveAt, Exchange
  <2>5. tok \in Used'
    BY <2>1, <2>4, SessionsAssumption DEF Rotate, Used
  <2> QED BY <1>1, <2>1, <2>2, <2>3, <2>5, RespondWithStep
<1>3. CASE ~(s # NoSession /\ Live(s))
  <2>1. Respond(r, req[r].jar) /\ UNCHANGED svars
    BY <1>3 DEF Change
  <2>2. Touched
    BY <2>1 DEF Touched
  <2>3. req[r].jar \in BoundedSeq(Tokens \cup {Clear}, 2)
    BY <1>1 DEF Exchange
  <2> QED BY <1>1, <2>1, <2>2, <2>3, RespondStep
<1> QED BY <1>2, <1>3

(* What an answer sets when the browser reads it: nothing, a deletion for  *)
(* a dead cookie, or the cookie of the operation.                          *)
LEMMA LastOfJar ==
    ASSUME WInv, NEW r \in Requests, Deliver(r)
    PROVE  \/ /\ ~(req[r].op = "login" /\ req[r].head = "written")
              /\ cookie' = IF req[r].dead THEN Clear ELSE cookie
           \/ /\ cookie' \in Used \cup {Clear}
              /\ cookie' = Clear => req[r].op = "logout"
              /\ req[r].dead => cookie' # req[r].sent
<1>1. req[r] \in Exchange /\ Good(req[r], Used, Over)
  BY DEF WInv, WTypeOK, ExchangeInv
<1>2. /\ req[r].head \in {"written", "early"}
      /\ cookie' = IF req[r].jar = <<>> THEN cookie ELSE Last(req[r].jar)
  BY DEF Deliver
<1>3. /\ req[r].pc \in {"idle", "sent", "resolved", "response", "lost"}
      /\ req[r].dead \in BOOLEAN
  BY <1>1 DEF Exchange
<1>4. CASE /\ req[r].jar = Base(req[r].dead)
           /\ ~(req[r].op = "login" /\ req[r].head = "written")
  <2>1. cookie' = IF req[r].dead THEN Clear ELSE cookie
    BY <1>2, <1>3, <1>4, BaseIs
  <2> QED BY <1>4, <2>1
<1>5. CASE \E c \in Used \cup {Clear} :
              /\ req[r].jar = Append(Base(req[r].dead), c)
              /\ c = Clear => req[r].op = "logout"
              /\ req[r].dead => c # req[r].sent
  <2> PICK c \in Used \cup {Clear} :
         /\ req[r].jar = Append(Base(req[r].dead), c)
         /\ c = Clear => req[r].op = "logout"
         /\ req[r].dead => c # req[r].sent
    BY <1>5
  <2>1. cookie' = c
    BY <1>2, <1>3, AppendIs DEF Used
  <2> QED BY <2>1
<1> QED BY <1>1, <1>2, <1>3, <1>4, <1>5 DEF Good, Answered

LEMMA DeliverStep ==
    ASSUME WInv, NEW r \in Requests, Deliver(r)
    PROVE  WInv'
<1>1. Touched
  BY DEF Deliver, Touched
<1>2. /\ req[r] \in Exchange /\ Good(req[r], Used', Over')
      /\ cookie \in Used' \cup {NoToken} /\ outages \in 0 .. MaxOutages
  BY <1>1, Before
<1>3. outages' = outages
  BY DEF Deliver
<1>4. cookie' \in Used' \cup {NoToken}
  <2>1. Used \subseteq Used'
    BY <1>1, TokensAge DEF WInv
  <2> QED BY <1>2, <2>1, LastOfJar DEF Clear
<1>5. CASE req[r].pc = "response"
  <2>1. req' = [req EXCEPT ![r] = NoExchange]
    BY <1>5 DEF Deliver
  <2>2. <<>> \in BoundedSeq(Tokens \cup {Clear}, 2)
    BY BaseIs
  <2>3. NoExchange \in Exchange
    BY <2>2 DEF NoExchange, Exchange, Kinds
  <2>4. Good(NoExchange, Used', Over')
    BY DEF Good, NoExchange
  <2> QED BY <1>1, <1>3, <1>2, <1>4, <2>1, <2>3, <2>4, Combine
<1>6. CASE req[r].pc # "response"
  <2> DEFINE q == [req[r] EXCEPT !.head = "read"]
  <2>1. req' = [req EXCEPT ![r] = q]
    BY <1>6 DEF Deliver
  <2>2. q \in Exchange
    BY <1>2 DEF Exchange
  <2>3. Good(q, Used', Over')
    BY <1>2, <1>6 DEF Good, Deliver, Exchange
  <2> HIDE DEF q
  <2> QED BY <1>1, <1>3, <1>2, <1>4, <2>1, <2>2, <2>3, Combine
<1> QED BY <1>5, <1>6

LEMMA LoseStep ==
    ASSUME WInv, NEW r \in Requests, Lose(r)
    PROVE  WInv'
<1> DEFINE q == [NoExchange EXCEPT !.pc = "lost"]
<1>1. Touched
  BY DEF Lose, Touched
<1>2. /\ cookie \in Used' \cup {NoToken} /\ outages \in 0 .. MaxOutages
  BY <1>1, Before
<1>3. <<>> \in BoundedSeq(Tokens \cup {Clear}, 2)
  BY BaseIs
<1>4. q \in Exchange
  BY <1>3 DEF NoExchange, Exchange, Kinds
<1>5. Good(q, Used', Over')
  BY DEF Good, NoExchange
<1>6. /\ req' = [req EXCEPT ![r] = q] /\ cookie' = cookie
      /\ outages' = outages
  BY DEF Lose
<1> HIDE DEF q
<1> QED BY <1>1, <1>2, <1>4, <1>5, <1>6, Combine

-----------------------------------------------------------------------------
(* The invariant. *)

LEMMA WInvInit == WInit => WInv
<1> SUFFICES ASSUME WInit PROVE WInv
  OBVIOUS
<1>1. SInv
  BY SInvInit DEF WInit
<1>2. <<>> \in BoundedSeq(Tokens \cup {Clear}, 2)
  BY BaseIs
<1>3. NoExchange \in Exchange
  BY <1>2 DEF NoExchange, Exchange, Kinds
<1>4. WTypeOK
  BY <1>1, <1>3, BrowserAssumption DEF WInit, WTypeOK, SInv
<1>5. Good(NoExchange, Used, Over)
  BY DEF Good, NoExchange
<1>6. ExchangeInv /\ CookieInv
  BY <1>5 DEF WInit, ExchangeInv, CookieInv
<1> QED BY <1>1, <1>4, <1>6 DEF WInv

(* No exchange moved.                                                      *)
LEMMA AsideStep ==
    ASSUME WInv, Touched, UNCHANGED <<cookie, req, outages>>
    PROVE  WInv'
<1>1. SInv' /\ Used \subseteq Used' /\ Over \subseteq Over'
  BY TokensAge DEF WInv
<1>2. WTypeOK'
  BY <1>1 DEF WInv, WTypeOK, SInv
<1>3. ASSUME NEW x \in Requests PROVE Good(req'[x], Used', Over')
  <2>1. req'[x] = req[x] /\ Good(req[x], Used, Over)
    BY DEF WInv, ExchangeInv
  <2> QED BY <2>1, <1>1, GoodStays
<1> QED BY <1>1, <1>2, <1>3 DEF WInv, ExchangeInv, CookieInv

LEMMA WInvStep == WInv /\ [WNext]_wvars => WInv'
<1> SUFFICES ASSUME WInv, [WNext]_wvars PROVE WInv'
  OBVIOUS
<1>1. ASSUME NEW r \in Requests, NEW op \in Kinds, Send(r, op) PROVE WInv'
  BY <1>1, SendStep
<1>2. ASSUME NEW r \in Requests,
             ResolveLive(r) \/ ResolveDead(r) \/ ResolveFails(r) \/ Flush(r)
      PROVE  WInv'
  BY <1>2, ResolveLiveStep, ResolveDeadStep, ResolveFailsStep, FlushStep
<1>3. ASSUME NEW r \in Requests,
             \/ Query(r) \/ LoginRevoke(r) \/ LoginIssue(r) \/ LoginFails(r)
             \/ Logout(r) \/ Change(r)
      PROVE  WInv'
  BY <1>3, QueryStep, LoginRevokeStep, LoginIssueStep, LoginFailsStep,
     LogoutStep, ChangeStep
<1>4. ASSUME NEW r \in Requests, Deliver(r) \/ Lose(r) PROVE WInv'
  BY <1>4, DeliverStep, LoseStep
<1>5. CASE EndElsewhere
  BY <1>5, AsideStep DEF EndElsewhere, Touched
<1>6. CASE UNCHANGED wvars
  BY <1>6, AsideStep DEF wvars, Touched
<1> QED BY <1>1, <1>2, <1>3, <1>4, <1>5, <1>6 DEF WNext

LEMMA Structured == WSpec => []WInv
BY WInvInit, WInvStep, PTL DEF WSpec

(* Every exchange, jar and cookie is of its type: no jar holds more than   *)
(* two cookies, a deletion and that of one operation, however the answers  *)
(* and the sessions interleave (jar.add, Middleware).                      *)
THEOREM BrowserTyped == WSpec => []WTypeOK
<1>1. WInv => WTypeOK
  BY DEF WInv
<1> QED BY <1>1, Structured, PTL

(* What the tabs do to the table is what module Sessions allows: all that  *)
(* is proved of the sessions holds under the browser (Middleware and the   *)
(* flows call the table through Lookup, Issue, Rotate and Revoke only).    *)
THEOREM BrowserUsesSessions == WSpec => SSpec
<1>1. WInit => SInit
  BY DEF WInit
<1>2. ASSUME WInv, [WNext]_wvars PROVE [SNext]_svars
  <2>1. /\ STypeOK
        /\ \A r \in Requests : req[r].prior \in SessionIds \cup {NoSession}
    BY <1>2 DEF WInv, WTypeOK, Exchange
  <2>2. ASSUME NEW r \in Requests, LoginRevoke(r) \/ Logout(r) PROVE Touched
    BY <2>1, <2>2 DEF LoginRevoke, Logout, End, Touched
  <2>3. ASSUME NEW r \in Requests, Change(r) PROVE Touched
    BY <2>1, <2>3 DEF Change, Touched
  <2>4. ASSUME NEW r \in Requests,
               ResolveLive(r) \/ LoginIssue(r) \/ LoginFails(r)
        PROVE  Touched
    BY <2>4 DEF ResolveLive, LoginIssue, LoginFails, Touched
  <2>5. ASSUME NEW r \in Requests,
               \/ \E op \in Kinds : Send(r, op)
               \/ ResolveDead(r) \/ ResolveFails(r) \/ Flush(r) \/ Query(r)
               \/ Deliver(r) \/ Lose(r)
        PROVE  Touched
    BY <2>5 DEF Send, ResolveDead, ResolveFails, Flush, Query, Deliver, Lose,
                Touched
  <2>6. EndElsewhere \/ UNCHANGED wvars => Touched
    BY DEF EndElsewhere, wvars, Touched
  <2>7. Touched
    BY <1>2, <2>2, <2>3, <2>4, <2>5, <2>6 DEF WNext
  <2> QED BY <2>1, <2>7, TouchedIsStep
<1> QED BY <1>1, <1>2, Structured, PTL DEF WSpec, SSpec

-----------------------------------------------------------------------------
(* What an answer does to the browser. *)

(* Only the browser's reading of an answer counts as its delivery.         *)
LEMMA DeliveredIsDeliver ==
    ASSUME WInv, [WNext]_wvars, NEW r \in Requests, Delivered(r)
    PROVE  Deliver(r)
<1>1. /\ req \in [Requests -> Exchange] /\ Good(req[r], Used, Over)
      /\ req[r].head \in {"written", "early"}
      /\ req'[r].head \in {"open", "read"} /\ req'[r].pc # "lost"
  BY DEF WInv, WTypeOK, ExchangeInv, Delivered
<1>2. req[r] \in Exchange /\ req'[r].head # req[r].head
  BY <1>1
<1>3. req[r].pc \in {"resolved", "response"}
  BY <1>1, <1>2 DEF Good, Exchange
<1>4. ASSUME NEW x \in Requests, x # r, NEW q, req' = [req EXCEPT ![x] = q]
      PROVE  FALSE
  BY <1>1, <1>2, <1>4
<1>5. ASSUME NEW x \in Requests,
             \/ \E op \in Kinds : Send(x, op)
             \/ ResolveLive(x) \/ ResolveDead(x) \/ ResolveFails(x) \/ Flush(x)
      PROVE  FALSE
  <2>1. x # r
    BY <1>1, <1>3, <1>5 DEF Send, ResolveLive, ResolveDead, ResolveFails, Flush
  <2>2. req'[r] = req[r]
    BY <1>1, <1>5, <2>1 DEF Send, ResolveLive, ResolveDead, ResolveFails, Flush
  <2> QED BY <1>2, <2>2
<1>6. ASSUME NEW x \in Requests, NEW jar, Respond(x, jar) PROVE FALSE
  <2>1. CASE x # r
    BY <1>4, <1>6, <2>1 DEF Respond
  <2>2. CASE x = r
    <3>1. req'[r].head = req[r].head
      BY <1>1, <1>2, <1>6, <2>2 DEF Respond, Exchange
    <3> QED BY <1>2, <3>1
  <2> QED BY <2>1, <2>2
<1>7. ASSUME NEW x \in Requests,
             \/ Query(x) \/ LoginIssue(x) \/ Logout(x) \/ Change(x)
      PROVE  FALSE
  BY <1>6, <1>7 DEF Query, LoginIssue, Logout, Change
<1>8. ASSUME NEW x \in Requests, LoginRevoke(x) \/ LoginFails(x) \/ Lose(x)
      PROVE  FALSE
  <2>1. CASE x # r
    BY <1>1, <1>2, <1>8, <2>1 DEF LoginRevoke, LoginFails, Lose
  <2>2. CASE x = r
    BY <1>1, <1>2, <1>8, <2>2
       DEF LoginRevoke, LoginFails, Lose, Exchange, NoExchange
  <2> QED BY <2>1, <2>2
<1>9. ASSUME NEW x \in Requests, Deliver(x) PROVE x = r
  BY <1>1, <1>2, <1>9 DEF Deliver
<1>10. ~EndElsewhere /\ ~UNCHANGED wvars
  BY <1>2 DEF EndElsewhere, wvars
<1> QED BY <1>5, <1>7, <1>8, <1>9, <1>10 DEF WNext

(* A dead cookie is gone from the browser once an answer to a request that *)
(* carried it has been read (Middleware's add of ClearCookie, before the   *)
(* operation adds its own).                                                *)
THEOREM DeadTakenBack == WSpec => DeadCookieTakenBack
<1>1. ASSUME WInv, [WNext]_wvars, NEW r \in Requests, Delivered(r),
             req[r].dead
      PROVE  cookie' # req[r].sent
  <2>1. Deliver(r)
    BY <1>1, DeliveredIsDeliver
  <2>2. req[r].sent \in Tokens
    BY <1>1 DEF WInv, ExchangeInv, Good, Over, Used
  <2>3. Clear # req[r].sent
    BY <2>2, SessionsAssumption DEF Clear
  <2> QED BY <1>1, <2>1, <2>3, LastOfJar
<1>2. WInv /\ [WNext]_wvars
        => [\A r \in Requests : Delivered(r) /\ req[r].dead
                                   => cookie' # req[r].sent]_wvars
  BY <1>1
<1> QED BY <1>2, Structured, PTL DEF WSpec, DeadCookieTakenBack

(* A login whose answer had not begun signs the browser in, with a dead    *)
(* cookie to delete in the same answer or without (jar.add keeps the order *)
(* and the last Set-Cookie wins).                                          *)
THEOREM LoginHolds == WSpec => LoginSticks
<1>1. ASSUME WInv, [WNext]_wvars, NEW r \in Requests, Delivered(r),
             req[r].op = "login", req[r].head # "early"
      PROVE  cookie' # NoToken
  <2>1. Deliver(r) /\ req[r].head = "written"
    BY <1>1, DeliveredIsDeliver DEF Delivered
  <2>2. cookie' \in Used \cup {Clear} /\ cookie' # Clear
    BY <1>1, <2>1, LastOfJar
  <2> QED BY <2>2 DEF Clear
<1>2. WInv /\ [WNext]_wvars
        => [\A r \in Requests :
              Delivered(r) /\ req[r].op = "login" /\ req[r].head # "early"
                 => cookie' # NoToken]_wvars
  BY <1>1
<1> QED BY <1>2, Structured, PTL DEF WSpec, LoginSticks

(* While the session a request was sent in still resolves, no answer to it *)
(* takes its cookie away but that to a logout: neither a lookup that       *)
(* failed on the driver nor what other tabs were answered does.            *)
THEOREM NotThrownOut == WSpec => StaysSignedIn
<1>1. ASSUME WInv, [WNext]_wvars, NEW r \in Requests, Delivered(r),
             Resolves(req[r].sent, clock), cookie = req[r].sent,
             cookie' = NoToken
      PROVE  req[r].op = "logout"
  <2>1. Deliver(r)
    BY <1>1, DeliveredIsDeliver
  <2>2. ~req[r].dead
    BY <1>1 DEF WInv, ExchangeInv, Good, Over
  <2>3. cookie # NoToken
    BY <1>1, NoTokenResolvesNot DEF WInv
  <2> QED BY <1>1, <2>1, <2>2, <2>3, LastOfJar DEF Clear
<1>2. WInv /\ [WNext]_wvars
        => [\A r \in Requests :
              Delivered(r) /\ Resolves(req[r].sent, clock)
                 /\ cookie = req[r].sent /\ cookie' = NoToken
                 => req[r].op = "logout"]_wvars
  BY <1>1
<1> QED BY <1>2, Structured, PTL DEF WSpec, StaysSignedIn
=============================================================================
