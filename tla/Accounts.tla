------------------------------ MODULE Accounts ------------------------------
(***************************************************************************)
(* authn.Accounts: registration, login, logout, password change, password  *)
(* reset, e-mail verification and invitation, one SQL statement at a time, *)
(* by requests that run concurrently on one database.                      *)
(*                                                                         *)
(* The README wires every call to r.DB, a *pg.DB, so each statement        *)
(* commits on its own and any other request may run between two of them.   *)
(* A request that fails half way (a driver error, a hasher that refuses, a *)
(* crash of the process) leaves what it has already written.               *)
(*                                                                         *)
(* A computation on values the request alone holds (Argon2id verification, *)
(* hashing) is merged with the statement before it.                        *)
(***************************************************************************)
EXTENDS Sessions, FiniteSets

CONSTANTS
    Requests,         \* requests in flight
    Emails,           \* addresses, already lowercased
    Passwords,        \* secrets a client may send
    Links,            \* emailed tokens: verify, reset, invite
    Ops,              \* the operations clients call
    Provisioned,      \* accounts that exist when the behaviour starts
    AllowUnverified,  \* Config.AllowUnverifiedLogin
    VerifyTTL, ResetTTL, InviteTTL,
    MaxHashes,        \* bound on how many hashes are computed
    NoEmail, NoPassword, NoLink, NoSession

AllOps == {"login", "logout", "change", "forgot", "reset",
           "verify", "register", "invite", "accept"}

ASSUME AccountsAssumption ==
    /\ Ops \subseteq AllOps
    /\ Provisioned \subseteq Users
    /\ AllowUnverified \in BOOLEAN
    /\ {VerifyTTL, ResetTTL, InviteTTL} \subseteq Nat \ {0}
    /\ MaxHashes \in Nat
    /\ NoEmail \notin Emails /\ NoPassword \notin Passwords
    /\ NoLink \notin Links /\ NoSession \notin SessionIds

VARIABLES
    acct,      \* the auth_users rows, by id (deleted_at is in deleted)
    links,     \* the auth_tokens rows
    hashes,    \* how many hashes have been computed: numbers them
    req,       \* what each request in flight holds
    born,      \* history: the hash each session's login verified
    resets,    \* history: the hashes password resets installed
    replaced   \* history: credentials their own request has replaced

history == <<born, resets, replaced>>
avars == <<acct, links, hashes, req, history>>
vars == <<svars, avars>>

(* Every hash is salted afresh, so two hashes of one password differ: id.  *)
(* weak marks one made below the configured cost, or by bcrypt.            *)
HashRecord == [pw: Passwords \cup {NoPassword}, id: Nat, weak: BOOLEAN]
NoHash == [pw |-> NoPassword, id |-> 0, weak |-> FALSE]

Account == [exists: BOOLEAN, email: Emails \cup {NoEmail},
            hash: HashRecord, verified: BOOLEAN]
NoAccount == [exists |-> FALSE, email |-> NoEmail,
              hash |-> NoHash, verified |-> FALSE]

Purposes == {"verify", "reset", "invite"}
Link == [minted: BOOLEAN, user: Users \cup {Nobody},
         purpose: Purposes, expires: Nat, burns: 0 .. 2]
NoLinkRow == [minted |-> FALSE, user |-> Nobody,
              purpose |-> "verify", expires |-> 0, burns |-> 0]

PCs == {"idle", "select", "rehash", "revoke", "issue", "lookup",
        "logout", "read", "write", "rotate", "find", "mint",
        "consume", "set", "revokeAll", "markVerified", "insert"}

Request ==
    [pc: PCs, op: AllOps,
     email: Emails \cup {NoEmail},
     pw: Passwords \cup {NoPassword},      \* the password presented
     new: Passwords \cup {NoPassword},     \* the password to install
     link: Links \cup {NoLink},
     cookie: Tokens \cup {NoToken},        \* the credential presented
     prior: SessionIds \cup {NoSession},   \* the principal's session
     sid: SessionIds \cup {NoSession},     \* the session just issued
     user: Users \cup {Nobody},
     hash: HashRecord]                     \* the hash read, or installed
NoRequest ==
    [pc |-> "idle", op |-> "login", email |-> NoEmail, pw |-> NoPassword,
     new |-> NoPassword, link |-> NoLink, cookie |-> NoToken,
     prior |-> NoSession, sid |-> NoSession, user |-> Nobody,
     hash |-> NoHash]

ATypeOK ==
    /\ STypeOK
    /\ acct \in [Users -> Account]
    /\ links \in [Links -> Link]
    /\ hashes \in Nat
    /\ req \in [Requests -> Request]
    /\ born \in [SessionIds -> [via: Nat, late: BOOLEAN]]
    /\ resets \in [Users -> [set: Nat, done: Nat]]
    /\ replaced \in SUBSET Tokens

(* Some verified accounts with a password, one per address; their hashes   *)
(* may predate the current cost (an import).                               *)
AInit ==
    /\ SInit
    /\ \E at \in [Provisioned -> Emails], pw \in [Provisioned -> Passwords],
         weak \in [Provisioned -> BOOLEAN] :
          /\ \A u, v \in Provisioned : at[u] = at[v] => u = v
          /\ acct = [u \in Users |->
                IF u \in Provisioned
                THEN [exists |-> TRUE, email |-> at[u], verified |-> TRUE,
                      hash |-> [pw |-> pw[u], id |-> 1, weak |-> weak[u]]]
                ELSE NoAccount]
    /\ links = [l \in Links |-> NoLinkRow]
    /\ hashes = 1
    /\ req = [r \in Requests |-> NoRequest]
    /\ born = [s \in SessionIds |-> [via |-> 0, late |-> FALSE]]
    /\ resets = [u \in Users |-> [set |-> 0, done |-> 0]]
    /\ replaced = {}

-----------------------------------------------------------------------------
(* Helpers. *)

At(r, pc) == req[r].pc = pc
Go(r, pc) == req' = [req EXCEPT ![r].pc = pc]
Finish(r) == req' = [req EXCEPT ![r] = NoRequest]

LiveAccount(u) == acct[u].exists /\ u \notin deleted

(* The live account of an address; the partial unique index keeps it one.  *)
Owners(e) == {u \in Users : LiveAccount(u) /\ acct[u].email = e}

(* The i-th hash computed, of password pw, at the configured cost. *)
NewHash(pw) == [pw |-> pw, id |-> hashes + 1, weak |-> FALSE]
Hashing == hashes < MaxHashes /\ hashes' = hashes + 1

Replace(r) == replaced' = replaced \cup ({req[r].cookie} \ {NoToken})

(* Defect: an update by id alone. *)
updatePasswordBlindly(u, old, h) ==
    acct' = [acct EXCEPT ![u].hash = h]

(* updatePasswordSQL, for a password change and for a rehash: zero rows,   *)
(* and so not enabled, when the stored hash is not the one verified.       *)
updatePassword(u, old, h) ==
    /\ acct[u].hash = old
    /\ acct' = [acct EXCEPT ![u].hash = h]

-----------------------------------------------------------------------------
(* A request arrives: the middleware resolves its cookie, once, to a       *)
(* principal the whole request keeps; then the resolver calls kal.         *)

FirstPC(op) ==
    CASE op = "login" -> "select"
      [] op = "logout" -> "logout"
      [] op = "change" -> "read"
      [] op = "forgot" -> "find"
      [] op \in {"reset", "verify", "accept"} -> "consume"
      [] op \in {"register", "invite"} -> "insert"

Call(r, op, e, pw, new, l, cookie, prior) ==
    /\ At(r, "idle")
    /\ op \in Ops
    /\ req' = [req EXCEPT ![r] =
          [pc |-> FirstPC(op), op |-> op, email |-> e, pw |-> pw,
           new |-> new, link |-> l, cookie |-> cookie, prior |-> prior,
           sid |-> NoSession, user |-> Nobody, hash |-> NoHash]]

(* The arguments an operation takes; the others stay blank. *)
Arguments(r, cookie, prior) ==
    \/ \E e \in Emails, pw \in Passwords, op \in {"login", "register"} :
          Call(r, op, e, pw, NoPassword, NoLink, cookie, prior)
    \/ Call(r, "logout", NoEmail, NoPassword, NoPassword, NoLink, cookie, prior)
    \/ /\ prior # NoSession          \* authz.Require
       /\ \E pw, new \in Passwords :
             Call(r, "change", NoEmail, pw, new, NoLink, cookie, prior)
    \/ \E e \in Emails, op \in {"forgot", "invite"} :
          Call(r, op, e, NoPassword, NoPassword, NoLink, cookie, prior)
    \/ \E l \in Links, new \in Passwords, op \in {"reset", "accept"} :
          /\ links[l].minted
          /\ Call(r, op, NoEmail, NoPassword, new, l, cookie, prior)
    \/ \E l \in Links :
          /\ links[l].minted
          /\ Call(r, "verify", NoEmail, NoPassword, NoPassword, l, cookie, prior)

Arrive(r) ==
    /\ \/ Arguments(r, NoToken, NoSession) /\ UNCHANGED svars
       \/ \E s \in SessionIds :
             /\ Lookup(s, clock)
             /\ IF sess[s].user \in deleted
                THEN Arguments(r, NoToken, NoSession)
                ELSE Arguments(r, sess[s].token, s)
    /\ UNCHANGED <<acct, links, hashes, history>>

(* Any statement may fail, the hasher may refuse, the process may die.     *)
Abort(r) ==
    /\ ~At(r, "idle")
    /\ Finish(r)
    /\ UNCHANGED <<svars, acct, links, hashes, history>>

-----------------------------------------------------------------------------
(* Login: select, verify, and on success rehash, revoke the session the    *)
(* request arrived with, issue, look the new session up, set the cookie.   *)
(* The failure counters are module Backoff's: what this module sees of     *)
(* them is that any login may be refused.                                  *)

LoginThrottled(r) ==
    /\ At(r, "select")
    /\ Finish(r)
    /\ UNCHANGED <<svars, acct, links, hashes, history>>

(* No row, or no password: the dummy verification. *)
LoginUnknown(r) ==
    /\ At(r, "select")
    /\ \A u \in Owners(req[r].email) : acct[u].hash = NoHash
    /\ Finish(r)
    /\ UNCHANGED <<svars, acct, links, hashes, history>>

(* Where a login goes once the hash is dealt with. *)
Replacing(r) == IF req[r].prior = NoSession THEN "issue" ELSE "revoke"

LoginSelect(r) ==
    /\ At(r, "select")
    /\ \E u \in Owners(req[r].email) :
          LET h == acct[u].hash IN
          /\ h # NoHash
          /\ \/ /\ h.pw # req[r].pw \/ ~(acct[u].verified \/ AllowUnverified)
                /\ Finish(r)
             \/ /\ h.pw = req[r].pw
                /\ acct[u].verified \/ AllowUnverified
                /\ req' = [req EXCEPT ![r].user = u, ![r].hash = h,
                       ![r].pc = IF h.weak THEN "rehash" ELSE Replacing(r)]
    /\ UNCHANGED <<svars, acct, links, hashes, history>>

(* rehashStored: compare-and-swap on the hash that was verified, and       *)
(* skipped on any error or lost race.                                      *)
LoginRehash(r) ==
    LET u == req[r].user IN
    /\ At(r, "rehash")
    /\ \/ /\ Hashing
          /\ updatePassword(u, req[r].hash, NewHash(req[r].pw))
          /\ req' = [req EXCEPT ![r].pc = Replacing(r),
                                ![r].hash = NewHash(req[r].pw)]
       \/ Go(r, Replacing(r)) /\ UNCHANGED <<acct, hashes>>
    /\ UNCHANGED <<svars, links, history>>

(* Defect: the session is left to expire. *)
RevokeNothing(r) == UNCHANGED svars

(* Revoke, by the id of the principal: a row already revoked is left be.   *)
RevokePrior(r) ==
    LET s == req[r].prior IN
    \/ Revoke(s)
    \/ sess[s].status # "open" /\ UNCHANGED svars

LoginRevoke(r) ==
    /\ At(r, "revoke")
    /\ RevokePrior(r)
    /\ Go(r, "issue")
    /\ UNCHANGED <<acct, links, hashes, history>>

LoginIssue(r) ==
    LET u == req[r].user  h == req[r].hash IN
    /\ At(r, "issue")
    /\ \E s \in SessionIds, tok \in Tokens :
          /\ Issue(s, u, tok, clock)
          /\ req' = [req EXCEPT ![r].pc = "lookup", ![r].sid = s]
          /\ born' = [born EXCEPT ![s] =
                         [via |-> h.id, late |-> h.id < resets[u].set]]
    /\ UNCHANGED <<acct, links, hashes, resets, replaced>>

(* The new session is looked up; one that does not resolve is an error,    *)
(* one that does goes out in the cookie.                                   *)
LoginLookup(r) ==
    LET s == req[r].sid IN
    /\ At(r, "lookup")
    /\ Finish(r)
    /\ \/ /\ Lookup(s, clock)
          /\ IF sess[s].user \in deleted
             THEN UNCHANGED replaced ELSE Replace(r)
       \/ ~Live(s) /\ UNCHANGED <<svars, replaced>>
    /\ UNCHANGED <<acct, links, hashes, born, resets>>

Logout(r) ==
    /\ At(r, "logout")
    /\ IF req[r].prior = NoSession THEN UNCHANGED svars ELSE RevokePrior(r)
    /\ Replace(r)
    /\ Finish(r)
    /\ UNCHANGED <<acct, links, hashes, born, resets>>

-----------------------------------------------------------------------------
(* ChangePassword: read the hash, verify, hash the replacement, write it   *)
(* compare-and-swap, rotate the session, set the cookie.                   *)

ChangeRead(r) ==
    LET u == sess[req[r].prior].user  h == acct[u].hash IN
    /\ At(r, "read")
    /\ IF LiveAccount(u) /\ h # NoHash /\ h.pw = req[r].pw
       THEN req' = [req EXCEPT ![r].user = u, ![r].hash = h,
                               ![r].pc = "write"]
       ELSE Finish(r)
    /\ UNCHANGED <<svars, acct, links, hashes, history>>

(* Zero rows: the password changed concurrently, INVALID_CREDENTIALS.      *)
ChangeWrite(r) ==
    LET u == req[r].user IN
    /\ At(r, "write")
    /\ Hashing
    /\ \/ /\ updatePassword(u, req[r].hash, NewHash(req[r].new))
          /\ Go(r, "rotate")
       \/ acct[u].hash # req[r].hash /\ Finish(r) /\ UNCHANGED acct
    /\ UNCHANGED <<svars, links, history>>

(* A session no longer live is UNAUTHENTICATED; the new password stands.   *)
ChangeRotate(r) ==
    LET s == req[r].prior IN
    /\ At(r, "rotate")
    /\ \/ (\E tok \in Tokens : Rotate(s, tok, clock)) /\ Replace(r)
       \/ ~Live(s) /\ UNCHANGED <<svars, replaced>>
    /\ Finish(r)
    /\ UNCHANGED <<acct, links, hashes, born, resets>>

-----------------------------------------------------------------------------
(* Emailed links. *)

PurposeOf(op) ==
    CASE op \in {"register", "verify"} -> "verify"
      [] op \in {"forgot", "reset"} -> "reset"
      [] op \in {"invite", "accept"} -> "invite"

TTL(purpose) ==
    CASE purpose = "verify" -> VerifyTTL
      [] purpose = "reset" -> ResetTTL
      [] purpose = "invite" -> InviteTTL

(* RequestPasswordReset, and Invite of an address already a member: find   *)
(* the account; an unknown address ends the request.                       *)
FindUser(r) ==
    /\ At(r, "find")
    /\ IF Owners(req[r].email) = {}
       THEN Finish(r)
       ELSE \E u \in Owners(req[r].email) :
               req' = [req EXCEPT ![r].pc = "mint", ![r].user = u]
    /\ UNCHANGED <<svars, acct, links, hashes, history>>

(* Defect: the index over (lower(email), deleted_at), null being distinct. *)
NoConflict(e) == FALSE

(* The partial unique index on lower(email) where deleted_at is null.      *)
Conflict(e) == Owners(e) # {}

(* Register and Invite: insert, on conflict do nothing.  Register ends on  *)
(* a conflict; Invite looks the member up and sends a new link.            *)
InsertUser(r) ==
    LET e == req[r].email  register == req[r].op = "register" IN
    /\ At(r, "insert")
    /\ IF register THEN Hashing ELSE UNCHANGED hashes
    /\ IF ~Conflict(e)
       THEN \E u \in Users :
               /\ ~acct[u].exists
               /\ acct' = [acct EXCEPT ![u] =
                     [exists |-> TRUE, email |-> e, verified |-> FALSE,
                      hash |-> IF register THEN NewHash(req[r].pw)
                                           ELSE NoHash]]
               /\ req' = [req EXCEPT ![r].pc = "mint", ![r].user = u]
       ELSE /\ IF register THEN Finish(r) ELSE Go(r, "find")
            /\ UNCHANGED acct
    /\ UNCHANGED <<svars, links, history>>

(* insertToken; then the mail goes out with the link. *)
MintLink(r) ==
    LET purpose == PurposeOf(req[r].op) IN
    /\ At(r, "mint")
    /\ \E l \in Links :
          /\ ~links[l].minted
          /\ links' = [links EXCEPT ![l] =
                [minted |-> TRUE, user |-> req[r].user, purpose |-> purpose,
                 expires |-> clock + TTL(purpose), burns |-> 0]]
    /\ Finish(r)
    /\ UNCHANGED <<svars, acct, hashes, history>>

(* Two defects: a burned link works again; a link serves every purpose.    *)
ConsumableAgain(l, purpose) ==
    links[l].purpose = purpose /\ links[l].expires > clock
ConsumableForAnything(l, purpose) ==
    links[l].burns = 0 /\ links[l].expires > clock

Consumable(l, purpose) ==
    /\ links[l].purpose = purpose
    /\ links[l].burns = 0
    /\ links[l].expires > clock

(* One UPDATE burns the link and says whose it was; zero rows is           *)
(* INVALID_TOKEN, whatever the reason.                                     *)
Consume(r) ==
    LET l == req[r].link IN
    /\ At(r, "consume")
    /\ IF Consumable(l, PurposeOf(req[r].op))
       THEN /\ links' = [links EXCEPT ![l].burns = @ + 1]
            /\ req' = [req EXCEPT ![r].user = links[l].user,
                  ![r].pc = IF req[r].op = "verify" THEN "markVerified"
                                                    ELSE "set"]
       ELSE Finish(r) /\ UNCHANGED links
    /\ UNCHANGED <<svars, acct, hashes, history>>

(* setPassword writes over whatever is there, on the account's id alone.   *)
SetPassword(r) ==
    LET u == req[r].user  h == NewHash(req[r].new) IN
    /\ At(r, "set")
    /\ Hashing
    /\ acct' = [acct EXCEPT ![u].hash = h]
    /\ req' = [req EXCEPT ![r].hash = h,
                  ![r].pc = IF req[r].op = "reset" THEN "revokeAll"
                                                   ELSE "markVerified"]
    /\ resets' = IF req[r].op = "reset"
                 THEN [resets EXCEPT ![u].set = h.id] ELSE resets
    /\ UNCHANGED <<svars, links, born, replaced>>

(* Defect: the reset leaves the sessions alone. *)
ResetRevokeNone(r) ==
    LET u == req[r].user IN
    /\ At(r, "revokeAll")
    /\ resets' = [resets EXCEPT ![u].done =
                     IF @ < req[r].hash.id THEN req[r].hash.id ELSE @]
    /\ Finish(r)
    /\ UNCHANGED <<svars, acct, links, hashes, born, replaced>>

ResetRevokeAll(r) ==
    LET u == req[r].user IN
    /\ At(r, "revokeAll")
    /\ RevokeAllForUser(u)
    /\ resets' = [resets EXCEPT ![u].done =
                     IF @ < req[r].hash.id THEN req[r].hash.id ELSE @]
    /\ Finish(r)
    /\ UNCHANGED <<acct, links, hashes, born, replaced>>

MarkVerified(r) ==
    /\ At(r, "markVerified")
    /\ acct' = [acct EXCEPT ![req[r].user].verified = TRUE]
    /\ Finish(r)
    /\ UNCHANGED <<svars, links, hashes, history>>

-----------------------------------------------------------------------------
(* The application closes an account; time passes. *)

CloseAccount ==
    /\ \E u \in Users : LiveAccount(u) /\ Disable(u)
    /\ UNCHANGED avars

TimePasses == Tick /\ UNCHANGED avars

Step(r) ==
    \/ Arrive(r) \/ Abort(r)
    \/ LoginThrottled(r) \/ LoginUnknown(r) \/ LoginSelect(r)
    \/ LoginRehash(r) \/ LoginRevoke(r)
    \/ LoginIssue(r) \/ LoginLookup(r) \/ Logout(r)
    \/ ChangeRead(r) \/ ChangeWrite(r) \/ ChangeRotate(r)
    \/ FindUser(r) \/ InsertUser(r) \/ MintLink(r) \/ Consume(r)
    \/ SetPassword(r) \/ ResetRevokeAll(r) \/ MarkVerified(r)

Next == (\E r \in Requests : Step(r)) \/ CloseAccount \/ TimePasses

Spec == AInit /\ [][Next]_vars

-----------------------------------------------------------------------------
(* Properties. *)

(* A credential does not outlive the request that replaced it: once a      *)
(* login, a logout or a password change has succeeded, the token that      *)
(* request presented resolves for nobody, whatever other requests holding  *)
(* the same session do meanwhile ("a privilege change never rides on the   *)
(* old credential"; the session "is being replaced, so it dies").          *)
ReplacedCredentialsDead ==
    \A tok \in replaced : ~Resolves(tok, clock)

(* A completed password reset leaves no session that an earlier password   *)
(* opened, but for a login that was already past its password check when   *)
(* the reset wrote the new one (ResetPassword: set, then revoke all).      *)
ResetEndsEarlierSessions ==
    \A s \in SessionIds :
        /\ Live(s)
        /\ born[s].via < resets[sess[s].user].done
        => born[s].late

(* What ResetPassword's comment says outright: every session the old       *)
(* credential could have created dies with it.                             *)
ResetKillsEverySession ==
    \A s \in SessionIds :
        Live(s) => born[s].via >= resets[sess[s].user].done

(* Upgrading a hash in passing never changes which password opens the      *)
(* account: a login that verified a password since replaced does not       *)
(* bring it back (rehashStored is compare-and-swap).                       *)
RehashKeepsPassword ==
    [][\A r \in Requests, u \in Users :
          At(r, "rehash") /\ req'[r] # req[r] =>
              acct'[u].hash.pw = acct[u].hash.pw]_vars

(* A password change never writes over a password it did not verify: a     *)
(* concurrent change, reset or invitation accepted meanwhile stands ("two  *)
(* concurrent changes cannot silently clobber each other").                *)
ChangeClobbersNothing ==
    [][\A r \in Requests :
          At(r, "write") /\ req'[r].pc = "rotate" =>
              acct[req[r].user].hash.pw = req[r].pw]_vars

(* An emailed link works at most once, however often and however           *)
(* concurrently it is presented (consume is one UPDATE).                   *)
LinksBurnOnce == \A l \in Links : links[l].burns <= 1

(* A confirmed address means its mailbox answered: the account was there   *)
(* from the start, or a verification or invitation link mailed for it has  *)
(* been burned.  A reset link does not confirm.                            *)
VerifiedByMailbox ==
    \A u \in Users \ Provisioned : acct[u].verified =>
        \E l \in Links : /\ links[l].user = u
                         /\ links[l].purpose \in {"verify", "invite"}
                         /\ links[l].burns > 0

(* One live account per address, across racing registrations and           *)
(* invitations and across a closed account's address being taken again.    *)
OneAccountPerAddress ==
    \A e \in Emails : Cardinality(Owners(e)) <= 1
=============================================================================
