------------------------------ MODULE Browser ------------------------------
(***************************************************************************)
(* One browser, several tabs: the cookie a request carries, the session    *)
(* session.Middleware resolves it to, the jar of cookies the response      *)
(* takes back, and responses that arrive in any order or not at all.       *)
(*                                                                         *)
(* The sessions are module Sessions with its clock stopped; an operation   *)
(* runs without another request between its statements (module Accounts    *)
(* has those interleavings), and a request runs one of them: a document    *)
(* with several could set more cookies than two in its answer.  The        *)
(* browser is external: it keeps one cookie of the name and applies        *)
(* Set-Cookie headers in order (cookie.go).                                *)
(***************************************************************************)
EXTENDS Sessions, SequencesExt

CONSTANTS
    Requests,   \* requests in flight
    NoSession,
    MaxOutages  \* bound on lookups that fail on the driver

ASSUME BrowserAssumption == NoSession \notin SessionIds /\ MaxOutages \in Nat

VARIABLES
    cookie,   \* the cookie the browser holds
    req,      \* the requests in flight
    outages   \* lookups that have failed on the driver

wvars == <<svars, cookie, req, outages>>

Clear == NoToken   \* ClearCookie: a Set-Cookie that deletes
Kinds == {"query", "login", "logout", "change"}

(* sent is the cookie the request carries; dead, that it did not resolve;  *)
(* prior the principal's session; jar the cookies to set, in order, Clear  *)
(* for a deletion.  head is where the headers of the answer are: they are  *)
(* written with its first byte, which is late in the common case and       *)
(* early when the transport streams.  op is "refused" once a login failed. *)
Exchange == [pc: {"idle", "sent", "resolved", "response", "lost"},
             op: Kinds \cup {"refused"},
             sent: Tokens \cup {NoToken}, dead: BOOLEAN,
             prior: SessionIds \cup {NoSession},
             jar: BoundedSeq(Tokens \cup {Clear}, 2),
             head: {"open", "written", "early", "read"}]
NoExchange == [pc |-> "idle", op |-> "query", sent |-> NoToken,
               dead |-> FALSE, prior |-> NoSession, jar |-> <<>>, head |-> "open"]

WTypeOK ==
    /\ STypeOK
    /\ cookie \in Tokens \cup {NoToken}
    /\ req \in [Requests -> Exchange]
    /\ outages \in 0 .. MaxOutages

WInit ==
    /\ SInit
    /\ cookie = NoToken
    /\ req = [r \in Requests |-> NoExchange]
    /\ outages = 0

-----------------------------------------------------------------------------

(* The browser attaches the cookie it holds when the request leaves. *)
Send(r, op) ==
    /\ req[r].pc \in {"idle", "lost"}
    /\ req' = [req EXCEPT ![r] = [NoExchange EXCEPT !.pc = "sent", !.op = op,
                                                    !.sent = cookie]]
    /\ UNCHANGED <<svars, cookie, outages>>

(* Defect: the jar is written out in the other order. *)
addFirst(r, c) == IF req[r].head = "open" THEN <<c>> \o req[r].jar ELSE req[r].jar

(* jar.add: cookies go out in the order they were asked for; one asked for *)
(* after the headers went is dropped, and nobody is told.                  *)
add(r, c) == IF req[r].head = "open" THEN Append(req[r].jar, c) ELSE req[r].jar

(* The cookie resolves to a live session. *)
ResolveLive(r) ==
    /\ req[r].pc = "sent"
    /\ \E s \in SessionIds :
          /\ sess[s].token = req[r].sent
          /\ Lookup(s, clock)
          /\ req' = [req EXCEPT ![r].pc = "resolved", ![r].prior = s]
    /\ UNCHANGED <<cookie, outages>>

(* Two defects: a dead cookie is left with the browser; it is deleted      *)
(* twice over.                                                             *)
ResolveDeadLeaving(r) ==
    /\ req[r].pc = "sent"
    /\ ~Resolves(req[r].sent, clock)
    /\ req' = [req EXCEPT ![r].pc = "resolved",
                          ![r].dead = (req[r].sent # NoToken)]
    /\ UNCHANGED <<svars, cookie, outages>>

ResolveDeadTwice(r) ==
    /\ req[r].pc = "sent"
    /\ ~Resolves(req[r].sent, clock)
    /\ req' = IF req[r].sent = NoToken
              THEN [req EXCEPT ![r].pc = "resolved"]
              ELSE [req EXCEPT ![r].pc = "resolved", ![r].dead = TRUE,
                               ![r].jar = <<Clear, Clear>>]
    /\ UNCHANGED <<svars, cookie, outages>>

(* The cookie is dead and is taken back, or there was none. *)
ResolveDead(r) ==
    /\ req[r].pc = "sent"
    /\ ~Resolves(req[r].sent, clock)
    /\ req' = IF req[r].sent = NoToken
              THEN [req EXCEPT ![r].pc = "resolved"]
              ELSE [req EXCEPT ![r].pc = "resolved", ![r].dead = TRUE,
                               ![r].jar = add(r, Clear)]
    /\ UNCHANGED <<svars, cookie, outages>>

(* Defect: a failed lookup is taken for a dead cookie. *)
ResolveFailsClearing(r) ==
    /\ req[r].pc = "sent" /\ req[r].sent # NoToken
    /\ outages < MaxOutages
    /\ outages' = outages + 1
    /\ req' = [req EXCEPT ![r].pc = "resolved", ![r].jar = add(r, Clear)]
    /\ UNCHANGED <<svars, cookie>>

(* The lookup fails on the driver: the request goes on anonymously, with   *)
(* the cookie left alone.                                                  *)
ResolveFails(r) ==
    /\ req[r].pc = "sent" /\ req[r].sent # NoToken
    /\ outages < MaxOutages
    /\ outages' = outages + 1
    /\ req' = [req EXCEPT ![r].pc = "resolved"]
    /\ UNCHANGED <<svars, cookie>>

(* flushWriter: the first byte takes the jar with it, once.               *)
Flush(r) ==
    /\ req[r].pc = "resolved" /\ req[r].head = "open"
    /\ req' = [req EXCEPT ![r].head = "early"]
    /\ UNCHANGED <<svars, cookie, outages>>

Resolved(r, op) == req[r].pc = "resolved" /\ req[r].op = op

(* The handler returns: headers not yet written are written now. *)
Respond(r, jar) ==
    LET unsent == req[r].head = "open" IN
    req' = [req EXCEPT ![r] =
        IF req[r].head = "read" THEN NoExchange
        ELSE [req[r] EXCEPT !.pc = "response", !.jar = jar,
                            !.head = IF unsent THEN "written" ELSE req[r].head]]

(* A handler that asked for no cookie. *)
Query(r) ==
    /\ Resolved(r, "query") \/ Resolved(r, "refused")
    /\ Respond(r, req[r].jar)
    /\ UNCHANGED <<svars, cookie, outages>>

(* Revoke by id: a row already revoked is left be. *)
End(s) == Revoke(s) \/ (sess[s].status # "open" /\ UNCHANGED svars)

(* Login: the session the request arrived with is revoked, then a new one  *)
(* is issued and sent.                                                     *)
LoginRevoke(r) ==
    /\ Resolved(r, "login") /\ req[r].prior # NoSession
    /\ End(req[r].prior)
    /\ req' = [req EXCEPT ![r].prior = NoSession]
    /\ UNCHANGED <<cookie, outages>>

LoginIssue(r) ==
    /\ Resolved(r, "login") /\ req[r].prior = NoSession
    /\ \E s \in SessionIds, u \in Users, tok \in Tokens :
          Issue(s, u, tok, clock) /\ Respond(r, add(r, tok))
    /\ UNCHANGED <<cookie, outages>>

(* Refused, or failed at any statement, the last of them the lookup of the *)
(* session just issued: that one then stays open and no cookie names it.   *)
LoginFails(r) ==
    /\ Resolved(r, "login")
    /\ \/ UNCHANGED svars
       \/ /\ req[r].prior = NoSession
          /\ \E s \in SessionIds, u \in Users, tok \in Tokens :
                Issue(s, u, tok, clock)
    /\ req' = [req EXCEPT ![r].op = "refused"]
    /\ UNCHANGED <<cookie, outages>>

Logout(r) ==
    /\ Resolved(r, "logout")
    /\ IF req[r].prior = NoSession THEN UNCHANGED svars ELSE End(req[r].prior)
    /\ Respond(r, add(r, Clear))
    /\ UNCHANGED <<cookie, outages>>

(* ChangePassword's rotation; anonymous, or no longer live, is refused.    *)
Change(r) ==
    LET s == req[r].prior IN
    /\ Resolved(r, "change")
    /\ IF s # NoSession /\ Live(s)
       THEN \E tok \in Tokens :
               Rotate(s, tok, clock) /\ Respond(r, add(r, tok))
       ELSE Respond(r, req[r].jar) /\ UNCHANGED svars
    /\ UNCHANGED <<cookie, outages>>

(* The browser applies the Set-Cookie headers in order: the last one wins. *)
Deliver(r) ==
    /\ req[r].head \in {"written", "early"}
    /\ cookie' = IF req[r].jar = <<>> THEN cookie ELSE Last(req[r].jar)
    /\ req' = [req EXCEPT ![r] =
          IF @.pc = "response" THEN NoExchange ELSE [@ EXCEPT !.head = "read"]]
    /\ UNCHANGED <<svars, outages>>

(* The request or its response is lost, whatever the server had done.      *)
Lose(r) ==
    /\ req[r].pc \in {"sent", "resolved", "response"}
    /\ req' = [req EXCEPT ![r] = [NoExchange EXCEPT !.pc = "lost"]]
    /\ UNCHANGED <<svars, cookie, outages>>

(* Another device ends the session. *)
EndElsewhere == (\E s \in SessionIds : Revoke(s))
                /\ UNCHANGED <<cookie, req, outages>>

WNext ==
    \/ \E r \in Requests :
          \/ \E op \in Kinds : Send(r, op)
          \/ ResolveLive(r) \/ ResolveDead(r) \/ ResolveFails(r) \/ Flush(r)
          \/ Query(r) \/ LoginRevoke(r) \/ LoginIssue(r) \/ LoginFails(r)
          \/ Logout(r) \/ Change(r) \/ Deliver(r) \/ Lose(r)
    \/ EndElsewhere

WSpec == WInit /\ [][WNext]_wvars

-----------------------------------------------------------------------------
(* Properties. *)

Delivered(r) == /\ req[r].head \in {"written", "early"}
                /\ req'[r].head \in {"open", "read"} /\ req'[r].pc # "lost"

(* "Take the dead cookie back off the client": an answer to a request      *)
(* whose cookie was dead leaves the browser without that cookie, whatever  *)
(* the operation added to the jar, however early the answer began and      *)
(* however the answers were ordered.                                       *)
DeadCookieTakenBack ==
    [][\A r \in Requests :
          Delivered(r) /\ req[r].dead => cookie' # req[r].sent]_wvars

(* A login that succeeds signs the browser in even when it arrived with a  *)
(* dead cookie, whose deletion rides in the same answer.  One case escapes:*)
(* an answer that began before the login was done has no place for its     *)
(* cookie.                                                                 *)
LoginSticks ==
    [][\A r \in Requests :
          Delivered(r) /\ req[r].op = "login" /\ req[r].head # "early"
              => cookie' # NoToken]_wvars

(* An answer takes the session it was asked in from the browser only if    *)
(* that was a logout or the session is over: not because the lookup had    *)
(* failed, nor because of what other answers do ("no identity is granted", *)
(* but none is thrown away either).                                        *)
StaysSignedIn ==
    [][\A r \in Requests :
          Delivered(r) /\ Resolves(req[r].sent, clock)
             /\ cookie = req[r].sent /\ cookie' = NoToken
              => req[r].op = "logout"]_wvars

(* "No two-tab race", said of sessions: no answer takes a live session's   *)
(* cookie from the browser but the answer to a logout.                     *)
SignedOutOnlyByLogout ==
    [][\A r \in Requests :
          Delivered(r) /\ Resolves(cookie, clock) /\ cookie' = NoToken
              => req[r].op = "logout"]_wvars
=============================================================================
