# kal in TLA+

A verification project for [kal](../src/README.md), a Go library of
authentication for GraphQL servers on Postgres: sessions, accounts, emailed
links, a login throttle, a bounded password hasher, a vault for keys the server
cannot read, bearer tokens, and authorization at fields, rows and connections.
The modules are translated from the Go and SQL sources;
`PROJECT.json` names, for every definition, the lines it stands for.

    tlc -workers 2 -config Sessions.cfg MCSessions     # one run
    tlapm SessionsProofs.tla                           # the proofs of a module

## Inventory

| Component | State | Operations | What is hard | Module |
|---|---|---|---|---|
| `session.Sessions` | `auth_sessions` rows; the database clock | Issue, Lookup, Rotate, RecordMFA, Revoke, RevokeAllForUser (List reads) | two deadlines, one refreshed lazily; `now()` is the transaction's; statements race | `Sessions`, `Credential` |
| `session.Middleware`, jar, cookie | request context, the cookies to set, the browser's cookie | resolve a cookie, queue and flush cookies | answers out of order or lost, lookups that fail, two `Set-Cookie` of one name | `Browser` |
| `authn.Accounts` | `auth_users`, `auth_tokens`, `auth_login_attempts`; what each request holds | Login, Logout, ChangePassword, Register, RequestPasswordReset, ResetPassword, VerifyEmail, Invite, AcceptInvite | each is several statements with seconds of hashing in between; values read early and used late; failure half way | `Accounts` |
| backoff | `auth_login_attempts` | checkBackoff, recordFailure, resetBackoff, delayFor | check in one statement, act in another | `Backoff` |
| `authn.Hasher` | a weighted semaphore | Hash, Verify, VerifyDummy | timeouts against grants, leaks, two computations per request | `Hasher` |
| `e2ee.Vaults` | `auth_e2ee_vaults` | Params, Get, Put, Discard | several devices; the password and its hash move underneath | `Vault` |
| `session.JWT` | the keys of each process; tokens in the field; cached key sets | Token, Verify, JWKS | not revocable; rotation by deployment, against caches; whole seconds | `JWT` |
| `authz` directive, roles | the principal of a request; `auth_user_roles` | the decision at a field; Grant, Revoke | roles and factor as of the lookup; two clocks | `Authz` |
| `authz.Scope`, `scoped.go` | an application's rows | List, Get, Update, Delete | OR in a caller's conditions | `Authz` |
| `authz.WithRLS` | settings of pooled connections | WithRLSSettings | settings that outlive a transaction, or replace the caller | `Authz` |
| `guard.go` | none | admit or refuse a GraphQL document | aliases, fragments, several operations | `Guard`, `Request` |
| `kal.Middleware`, `Configure`, `Directive` | none | the order in which a request passes all of these | each runs only where the application mounted it | `Request` |
| `coverage.go`, `kal.New`, `migrate.go`, `kalerr`, `mailer.go`, `audit.go` | none after start | checks at startup or in tests, wiring | no behaviour of their own | not modelled |
| `0002_zk.sql`, `0004_zk_hardening.sql` | tables | none in this repository | | not modelled |

How they interact: a request passes the middleware, which resolves its cookie
with `Sessions.Lookup` to a principal that the whole request keeps; a resolver
calls `Accounts`, which takes a slot of the hasher for each Argon2 computation,
runs its statements against the tables, calls `Sessions`, and queues cookies in
the jar. The guard sees the document before any field of it is resolved, and the
directive sees the principal before each field that is annotated. `Vaults` reads
`auth_users.password_hash` in its SQL and is never told when it changes.

## Modules

`Credential` says what a session token promises, without table or clock: fresh,
then valid, then spent for good. `Sessions` is the table. `Accounts` and
`Browser` extend `Sessions`: each of their steps is a step of it or leaves it
alone. `Authz` is a request's authorization without documents; `Request` extends
it with `Guard` and GraphQL documents, and decides which of its steps come when.
`Backoff`,
`Hasher`, `Vault` and `JWT` stand by themselves. `MC<module>` adds the symmetry
and the data of an instance; the `.cfg` files choose its constants.
`<module>Proofs` holds a module's theorems and their proofs: there are eight.

A definition whose comment begins with "Defect" (or lists several) is a
deliberately wrong variant of the definition below it. No specification uses
them: `PROJECT.json` pairs each with the property that would notice it.

### Sessions

One action per method, because each method is one SQL statement. `sess` holds
the rows; `status` is `revoked_at`, `mfa` is `mfa_at` with 0 for null; a token
and its SHA-256 are one value. Every action takes the time `t` its transaction
sees. With `TxLag = 0` that is the instant it applies; with a lag it is up to
`TxLag` ticks in the past, as for a caller that passes a `*pg.Tx` it opened
earlier (`now()` is the start of the transaction). `Lookup` writes even if the
account is disabled: the refreshing CTE does not depend on the join with
`auth_users`. The units of time are abstract; `RefreshAfter` stands for the 60
seconds of `lookupSQL`.

A statement that waits for a row lock under READ COMMITTED re-evaluates its
WHERE on the row's new version. For `lookupSQL` only the `touched` CTE does,
on the columns of the row, so it can refresh the idle deadline of a session
revoked at the same moment; `revoked_at` stays set and nothing reads the
deadline of a revoked row. The model gives each statement one instant and
leaves that write out.

### Accounts

A request is a program counter and what it holds. Between any two statements
another request may run, and any step may be its last (`Abort`: a driver error,
a refusal by the hasher, a crash), so what is checked is also checked for
operations that stop half way. A computation on values only the request holds
is merged with the statement before it. `Arrive` is the middleware: the lookup,
once, and a principal kept to the end. Every hash is numbered (`id`), since two
hashes of one password differ; `weak` marks one that is to be upgraded.
Any login may be refused by the throttle: when it is, is `Backoff`'s subject,
which has the counters. The history variables `born`, `resets` and `replaced`
record which hash opened a session, which hashes came from resets, and which
credentials were replaced; nothing reads them but the properties. `Ops` chooses
the operations of an instance.

### Browser

One browser, several exchanges with kal in flight. The jar is the sequence of
`Set-Cookie` headers of an answer, and the browser applies them in order. They
are written with the first byte of the answer: when the handler returns, in the
common case, or before the operation is done, when the transport streams
(`Flush`); what an operation adds after that is dropped. An answer, or the
request itself, may be lost at any point; a lookup may fail on the driver,
`MaxOutages` times. A login may be refused or fail at any of its statements
(`LoginFails`), and is then answered with the jar as it was; when it failed at
its last lookup, the session it issued stays open and no cookie names it. An
operation's statements are not interleaved here except Login's revocation and
issue; `Accounts` does the rest. A request runs one operation that sets a cookie,
which is why a jar has at most two: one document with several such fields could
queue more (`session/jar.go:23`). The client address and the transport guard play
no part. The clock stands still: sessions end by revocation from elsewhere
(`EndElsewhere`), which for a cookie is the same as by expiry.

### Backoff

Time is kept as ages, saturated at the longest delay, beyond which every window
is open. `streak` records how long ago each attempt on a key was let through
since the key's last reset, `quiet` how long ago a failure was last counted on
it, `lost` the failures that best effort did not count; all three are history.

### Hasher

`golang.org/x/sync/semaphore` is external; `Notify`, `Release` and `Granted`
say what it documents and does: first come first served, a waiter leaves the
queue from wherever it stands, one that is
granted a slot after it gave up puts it back. A request needs one or two
computations and each takes and releases a slot of its own.

### Vault

One account. A master key is a password and a KDF: the client derives it under
the parameters `Params` answers; kal stores a hash of one half and the client
wraps the root key with the other. Root keys are numbered as clients generate
them. The salt is a function of the address and is left out. A device is the
client of `docs/e2ee-client.md`: it signs in, reads, and prepares a write or a
password change with what it knows then; the request is applied later. Reads and
deletions are in flight as well, for the principal they were sent with (`Ask`).
A reset writes the hash and ends the sessions in two steps, with anything in
between, as in `tokens.go`; its link is `Accounts`' subject. What `check` refuses
(lengths, the floor of the parameters) is never sent. `past` (the password behind
each hash), `behind` (a device whose password another one has replaced) and
`late` (a row such a device wrote) are history. `Ops` chooses which of the
optional events an instance has.

### JWT

Keys are numbered in the order they are introduced, so a process holds `<<k>>`
or, in a rotation, `<<k + 1, k>>`: the first signs. A token is its key, its
`kid`, its session and its expiry in whole seconds; `seen` and `due` are
history. Time runs in ticks, `Unit` of them to a second, since `exp` is cut to
seconds and the clocks are not. There is one clock: minting and verifying
processes, services and the database that ends a session are taken to agree on
the time, which in the code are the hosts' own clocks (`session/jwt.go:112`) and
the database's, and the skew between them adds to every bound. A process that holds keys verifies by `keyfunc`;
a service that does not (`Remotes`) caches the answer of `JWKS` for its
`max-age`. `Publish` and `Drop` are the rotation that the comments describe, one
process at a time: a key is added only when every process is done with the last
rotation, and dropped when every process signs with the new one and what the old
one signed has had time to drain. A request that is in progress keeps the keys
of the process it started in.

### Authz

A request holds the principal of its arrival and the fields it was let into.
`Serve` is a field that runs: where it is annotated, behind the directive, whose
whole decision is `Allows`, with the proof of a claim an outside answer; where it
is not, behind nothing. A request that did not pass the middleware is anonymous
to everything after it (`From`, `Scope`), so it is an `Arrive` of nobody. An SQL condition is the separator it was
appended with and the rows that satisfy it; `Selected` is what AND and OR make
of a list of them, and `scoped` puts the caller's into parentheses of their own.
`Update` writes every column, the owner's too, so a row may be given away by its
owner. A connection has the settings of its transaction (`local`) and of its
session (`base`); kal writes the first only. Grants, revocations, second factors
and other requests happen between any two steps. `since` and `shown` are
history. The clock of a process may be anything within `MaxSkew` of the
database's, at every decision anew, as between the replicas of a deployment.
The bypass role of the directive's options and that of the configuration are one
role, as `Auth.Directive` sets it (`kal.go:446`). `app.roles` is the set of the principal's roles:
the code joins the names with commas and kal does not check a name for one, so a
role name that contains a comma would read as two (`authz/rls.go:115`).

### Guard and Request

`Guard` is the verdict on a document: a set of operations and fragments, each a
tree of selections. A tree is kept flat, as a function from addresses (the
positions that lead to a selection) to what stands there, so that what the walk
of `guard.go` counts is a cardinality: `Counts` is `counts[name]`, `FieldsOf` is
`total`, `level` is how deep a selection's own set is. `MCRequest` also has the
walk as the code makes it, recursive and down the trees, and assumes
(`WalkAgrees`, evaluated by every run) that the two find the same on every
document of the instance. `IsDocument` is what validation has left when the guard
is called: spreads name fragments, and no fragment leads to itself.

`Request` is a request through `Middleware`, the guard's interceptor and the
directive, and then gqlgen's execution, which is external: a place (`at`) that
moves from selection to selection, through inline fragments (`Pass`) and into
the fragments that spreads name (`Follow`), which the walk never does. A field of
the operation is run by the resolver once for each key (`Run`, or `Deny` when the
directive refuses); a key met again only adds its selections (`Merge`). A field
below another is run once for every visit (`RunInside`), as it is for every value
of a list. The directive stands before each that is annotated, and the resolvers
act as in `Authz`. That gqlgen calls it there, and that a type's annotation is
called at each of its fields, as `coverage.go:40` takes it to be, are assumptions
about gqlgen, whose source is not in the repository.
`answered` holds the keys of the operation's fields; `ran` is history.

## What the runs check

| Run | Instance | Shows |
|---|---|---|
| `Sessions` | 2 users, 2 sessions, 3 tokens, idle 3 in absolute 4, clock to 6 | type; lifetime and idle bounds; second factor within the session; dead rows frozen; refinement of `Credential` |
| `Recovery` | 1 account, 2 requests: login, logout, change, forgot, reset | resets end earlier sessions; a replaced credential is dead; rehash and change are compare-and-swap |
| `ResetInFlight` | login, forgot, reset | **violation** of `ResetKillsEverySession` |
| `Enrollment` | 2 user rows, 1 address, 2 links, TTLs 1 to 3, account closure | verified means the mailbox answered; one live account per address; links burn once |
| `Vault` | 2 devices, 2 passwords, 2 KDFs; rehash, closure, discard, redeployment, re-wrap | a vault that reads as fresh opens, and one that opens reads as stale only after an upgrade of the hash, unless a late writer wrote it; a write does not change the root key unless the vault was discarded under it; CONFLICT means another write won |
| `VaultDiscard` | 2 devices, discard | **violation** of `LoserLearns` |
| `Backoff` | 2 logins, 1 account, 1 address, cap 2 s | attempts are spaced by the curve, shifted by the number in flight; a refusal is always owed to a recent failure |
| `Hasher` | 4 requests, 2 slots | slots conserved, everybody served, everybody told |
| `Browser` | 2 exchanges, 3 sessions, 3 tokens, 1 failed lookup, answers that begin early | dead cookies go, logins that succeed stick, an outage signs nobody out |
| `TwoTabs` | 2 exchanges | **violation** of `SignedOutOnlyByLogout` |
| `JWT` | 2 processes, 1 service, 2 keys, 1 token, half-second ticks, clock to 10 | a token outlives its session by no more than the ceiling and its request; a rotation refuses no token that is due; a retired key dies with the caches |
| `Request` | 2 users, 1 request, 1 connection, 1 row, 5 fields of which one has no directive, 2 roles that differ in case, 12 documents, clocks a tick apart | rows, settings, roles and second factors are the caller's, rows and settings also where no directive asked; a sensitive field runs once; the nesting of an execution is bounded |

The types of `Accounts`, `Hasher` and `JWT` are proved (`AccountsTyped`,
`HasherTyped`, `TokensTyped`), so no run repeats them.

Why the bounds suffice for what they are used for. Two requests are enough for
a check in one and a write in the other to cross; every race listed here is
between two. Two session rows and two or three tokens give a session and its
replacement. Clocks run past every deadline of the instance
(`MaxClock > Absolute` in `Sessions`; past every TTL but the invitation's in
`Enrollment`, whose link lives to the end). In the other `Accounts` runs the
clock stands still, because their properties are about order, not time, and
`Sessions` has the deadlines. `MaxHashes` counts the hashes ever stored:
three in `Recovery`, so the password is set twice after the first; two in
`Vault`, where the second is a change, a reset or an upgrade, and every
staleness is relative to one of them. `MaxVersion` is two in `Vault`: an
enrolment and a re-wrap of each row, and `Discard` starts it again. In `Backoff` the cap is two seconds and one doubling, so that
free, doubling and capped attempts all occur within a streak of four. Four
requests for two slots leave two waiting, so that one can leave the queue ahead
of another. In `JWT` the clock runs past two lifetimes and a request, so that a
whole rotation with its draining fits, and a token is minted before, within or
after it; lifetimes asked for include a negative one, zero and one above the
ceiling. In `Request` one request at a time on one connection is enough for what
an earlier one could leave behind (settings, a place in its document), and the
other actors act during it; that several requests do not disturb each other is
proved for any number. Its documents select a field twice by alias, in an inline
fragment, in a fragment, in two, through a fragment spread twice, and in a second
operation; they reach the cap on selections and exceed it, and nest up to the cap
on depth and beyond it, directly and through one and two fragments. The window of
a second factor is the tick it was presented in and the clocks are a tick apart,
so that a factor two ticks old is too old for every process and one a tick old
for some. Deadlock is checked everywhere and none occurs: a request can
always be abandoned or arrive.

**Fairness.** Only `Hasher` assumes any. `HSpec` assumes that a goroutine that
can run does (taking a slot, leaving the queue), which Go's scheduler gives.
What depends on more says so in the property: `Served` is that *if* every
computation ends, every request that neither times out nor hangs up is served;
`ToldSo` that *if* timers fire, every waiter is answered, even if no computation
ever ends. Nobody is assumed to send requests. Every other property is a safety
property and assumes nothing.

## Where the code and its text disagree

Each is a run whose property states the text and whose counterexample is the
code's behaviour; none is a crash, all are narrow windows.

* `ResetInFlight`: a login past its password check opens a session after the
  reset's revocation (`authn/tokens.go:164`). `ResetEndsEarlierSessions` says
  that this is the only kind that survives.
* `VaultDiscard`: versions restart after `Discard`, so the compare-and-swap can
  match another row, and the device whose key is replaced is never told
  (`e2ee/e2ee.go:281`). `RootKeyStable` says that this is the only way.
* `TwoTabs`: a late answer to a dead cookie deletes a fresh one
  (`session/session.go:6`, `session/middleware.go:86`).

Three are described by a property that says what does hold:

* `Vault.Stale` is said to mean that "the account's password moved since this key
  was wrapped, so the key derived from the current password cannot open it"
  (`e2ee/e2ee.go:150`). The statement compares fingerprints of the hash
  (`e2ee/sql.go:50`). So a hash upgraded in passing makes a vault the password
  still opens read as stale, and a write prepared before a change of the password
  and applied after it is stored with the new fingerprint: it reads as fresh and
  does not open. `StaleTells` says that these are the only two ways: a row whose
  writer was not behind is told of correctly, but for the same password hashed
  again.
* The cap on depth is said to be the "nesting allowed in one document"
  (`guard.go:17`). It is a cap on each operation and each fragment as written:
  an answer may nest that deep once more for every fragment a spread leads
  through. And a field without selections counts for two levels.
  `NestingBounded` says both.
* Two keys are said to make rotation "a deploy rather than an outage"
  (`session/jwt.go:56`, `SECURITY.md:76`). While the deployment is under way, a
  token signed with the new key is refused by a process that does not have it
  yet, and by a service whose cached key set is older than the key. That every
  key is tried when the `kid` is unknown does not help: none of them signed it.
  `GoodWhileDue` promises a token's lifetime only where its key has arrived.

And one by a property with an exception: the jar is said to work "regardless of
who writes first" (`session/jar.go:57`). A cookie queued after the first byte
has gone is dropped, and `SetCookie` returns nil all the same
(`session/jar.go:37`), so a login whose answer had begun opens a session whose
cookie is never sent, and a password change rotates the browser out of its
session. `LoginSticks` says that this is the only way a login does
not hold; a dead cookie is taken back even then, because its deletion is queued
before the handler runs.

## What the models have and no property promises

Behaviour met while modelling, reachable in the models, that a user of the
library should know of:

* A rotation run in a transaction its caller began before a session's deadline
  revives the session, since `now()` is the start of the transaction
  (`session/sql.go:71`; `Sessions` with `TxLag = 1`).
* An invitation accepted for an account that has a password writes over it
  (`authn/tokens.go:258`).
* A re-wrap under another KDF changes the parameters `Params` answers with and
  not the stored hash, so the secret a client then derives is not the one the
  account stores (`e2ee/sql.go:65`). Raising `Options.Default` does the same to
  accounts without a vault (`e2ee/e2ee.go:117`).
* A login that fails at the lookup after its issue leaves an open session whose
  token nobody has (`authn/accounts.go:271`).
* A login whose cookie lookup failed on the driver leaves the session it arrived
  with alive until its own deadlines (`authn/accounts.go:195`).
* When the answer to `ChangePassword` is lost, the session has been rotated and
  the browser keeps a cookie that no longer resolves (`authn/accounts.go:351`).
* A reset burns its link first: one the hasher refuses leaves the old password
  and no link, one that stops after the write leaves the old sessions
  (`authn/tokens.go:170`).
* Nothing looks at a session when a token is minted: a request that outlives its
  session still mints, so revocation takes effect after the ceiling plus what is
  left of the request (`session/jwt.go:99`; `RevocationWindow`).
* An `Update` may write another user into the owner column of a caller's own row
  (`scoped.go:130`).

Met while reading, outside the models: `Config.ExtraMiddleware` is said to run
outside the `BypassRole` wrapper (`kal.go:226`, `CHANGELOG.md:125`), `Middleware`
mounts it inside, so an entry sees the bypass role (`kal.go:367`); `authz/audit.go:19` says that a failed
login carries no user id, `Login` sends one for a wrong password and for an
unverified account (`authn/accounts.go:237`, `:241`); the table comment at
`migrations/0001_core.sql:84` says the backoff key is the user id, the code
uses the address; `docs/e2ee-client.md:88` says kal validates the version and
the algorithm byte of a blob, `check` (`e2ee/e2ee.go:319`) looks at lengths and
parameters.

## What is proved

`SessionsProofs` holds for every set of users, session ids and tokens and every
choice of `Idle <= Absolute`, `RefreshAfter` and clock bound.

* `TypeCorrect`, `Structure`: the inductive invariant `SInv`. The type alone is
  not enough: the deadlines mean something only relative to when a row was
  created and last seen (`RowInv`: `abs = created + Absolute`,
  `idle = seen + Idle`, neither timestamp in the future, the token minted for
  the row's owner), and the refinement needs that no two rows share a token
  (`TokenInv`, the unique constraint on `token_sha256`, which holds because
  every token is minted once).
* `AbsoluteLifetime` follows from `SInv` for any `TxLag`.
* `IdleTimeout` needs a second invariant about when a session was last used
  against when that was last written (the throttled refresh), and `TxLag = 0`.
* `FactorLifetime` likewise: a stamp is taken at an instant the session is live.
* `NoResurrection`: an action property from `SInv`; one case per statement.
* `Refinement`: initial states map to initial states, and each step to `Grant`,
  `Waste` (a session issued to a closed account), `Swap`, `Retire` or a stutter.
  `Tick`, `Disable` and the revocations retire whichever tokens stop resolving.

The four that assume `TxLag = 0` are false without it: a rotation in a
transaction that began before the deadline revives the session. The only
assumption on the constants is `SessionsAssumption`, which `NewSessions`
enforces.

`AccountsProofs` holds for any number of users, addresses, passwords, links and
requests, and for every set of operations, from `AccountsAssumption` and
`SessionsAssumption`. It proves every safety property that the runs of
`Accounts` check.

* `AccountsTyped`: the inductive invariant `AInv` is the types, `SInv` of the
  session table, what a request holds at each of its statements (`Held`: a
  request about to revoke has a principal, one about to issue has found an
  account, one about to consume has a mailed link) and `LinkInv`.
* `ImplementsSessions`: each step is a step of `Sessions` or leaves its
  variables alone, so `AbsoluteLifetime`, `NoResurrection` and the other
  theorems above hold of the accounts too.
* `OneBurn` is a conjunct of `LinkInv`.
* `RehashSafe` and `ChangeSafe` need `PwInv`: a request about to write a hash
  still holds one its own password opens. That the row has not moved since then
  is the statement's own `AND password_hash = ?`.
* `AddressUnique` has its own invariant, over live accounts only: an address
  comes back when its account is closed.
* `ConfirmedByMail` needs `MailInv`: the link is burned one statement before the
  address is confirmed, and stays burned in between.
* `ResetIsFinal` needs `ResetInv`: hashes are numbered in the order they are
  computed, and a reset is not done before it has set its own. The exception is
  in the property: a login past its password check when the hash changed.
* `ReplacedIsDead` assumes `TxLag = 0` and needs `CredInv`: the credential a
  request arrived with is carried by its principal's row or by none, and by the
  time a login issues, that row is dead.

`VaultProofs` holds for any number of devices, passwords and parameters.

* `StalenessHolds`: hashes are numbered and `past` only grows, so a fingerprint
  names the password that was the account's when the row was written. A device
  that is not behind knows today's password (`Knows`), and so does the write it has
  in flight; the key it stores is then one of that password, and stays so
  (`RowInv`). A fresh row has the password of today, hence opens; one that opens
  and reads as stale has the same password under another hash.
* `RootHolds` and `ConflictHolds` need `VersionInv`: the version a device read
  pins the root it read with it, for every device whose row was not discarded
  under it. This is why the exception in `RootKeyStable` is the only one.

`BackoffProofs` holds for any number of requests in flight, accounts and
addresses, and every setting of the curve. `SelfRecovery` needs that the age the
statement computes is the time since the last counted failure (`QuietInv`).
`Spacing` is that concurrent logins only shift the curve, by their number and by
the failures that went uncounted. Its invariant `SpaceInv` says of each key that
every attempt on the streak was counted, was lost or is in flight (`Tallied`);
that those let through since the last count were lost or are in flight
(`Lagging`), which is what a check made before another's write can miss; and that
the streak is in order (`Ordered`). The rest is that the curve does not fall
(`DelayGrows`).

`HasherProofs` holds for any finite set of requests and any number of slots.
`SlotsAreConserved` rests on the queue being the waiting requests, each once
(`Lined`); a wake-up takes a prefix of it, a withdrawal one position.

`JWTProofs` holds for any number of processes, services, keys and tokens and any
lifetimes. `GoodThroughRotation` is the argument of the rotation: whoever has
learned of a key that may still sign, or has signed what is still due, keeps it
(`HeadInv`, `SigningInv`, `DueInv`); a key is dropped only after the last process
began to sign with its successor, the longest request since has ended and the
longest lifetime after that has passed. `WindowHolds` needs that a principal was
live when its request arrived, and `RetirementHolds` that no key set fetched
after a key was dropped has it.

`RequestProofs` holds the theorems of `Authz` and `Request`, for any users, roles,
schema with any of its fields annotated, rows, conditions and number of requests
and connections, for any way of folding case, any bound on the skew of the clocks
and any set of documents that pass validation. `RowsShown` and `RowsWritten` rest on a lemma about conditions:
whatever the caller adds, `scoped` is a list joined by AND alone that begins with
the ownership predicate. `SettingsHold` needs that a transaction's request
outlives it and that nothing but local settings is written. The conditions of
`AuthzAssumption` say what a schema is and nothing of its content.

* `Execution`: the inductive invariant `RInv`. An execution stands at a place of
  an admitted document (`Deep`), and a sensitive field that has run has a place
  that selects it whose key is answered (`Answered`); a request that is over has
  nothing of its document left.
* `SensitiveHolds`: an admitted document selects a sensitive field at one place,
  whichever operation or fragment it is in (`OnePlace`), that place has one key,
  and an answered key is not run again. So a fragment may be spread any number of
  times.
* `NestingHolds`: following a spread strictly lowers a rank that exists because
  fragments do not lead back to themselves, so the definitions above the place an
  execution is in only grow (`HigherGrows`), and in each the cap bounds the fields
  it has entered (`WithinCap`). The sum over them is the bound.
* `DocumentsChangeNothing`: `Request` takes the steps of `Authz` only
  (`RequestsAreRequests`, a lemma that holds by how the actions are written), so
  what is proved of `Authz` holds of requests with documents.

`BrowserProofs` holds for any number of exchanges in flight and all sets of
sessions and tokens. Its invariant says of a jar that it holds at most a
deletion, when the request's cookie was dead, and then the cookie of one
operation, if it succeeded; the order of answers drops out because a token is minted once and one
that is over stays over (`TokensAge`), so no later answer can carry the cookie an
earlier one deleted. `BrowserUsesSessions` is that each of its steps is a step of
`Sessions`.

Model-checked and not proved: the two liveness properties of `Hasher`, `Served`
and `ToldSo`, which are out of the prover's reach, as ENABLED is; and that the
flat documents of `Guard` say what the recursive walk finds (`WalkAgrees`), which
is an induction over trees. Every other property of a passing run is a theorem.

## Plan

Done: every component with state of its own has a module, and every safety
property that a run checks has a proof. What is left, in order:

1. `Vault`: a second instance with three hashes for the staleness property, if
   it can be made small enough; the theorem covers any number.
2. `Accounts` with `JWT`: tokens minted in a request that changes its password.

## Not modelled

The zero-knowledge tables are schema for code in another repository.
`AssertAuthCoverage` and `AssertDirectivesWired` are pure checks of a schema and
a struct that an application's test calls; `Authz` has the schema that fails the
first, a field nobody annotated, and what then still guards its rows. (A directive
that is not wired is an error at every field that has it.) `kal.New` validates a configuration
and assembles the parts. Conditional introspection and suggestion suppression
are one assignment each. Migrations are run once, by an operator, on an
empty schema. Audit events are a synchronous callback, errors and mail value types and
an interface. The transport guard and PHC strings are pure functions of their
input.

## Limits

Cryptography, timing channels, the wording of errors and mail, and the contents
of blobs are abstracted. Postgres is taken at its word: a statement is atomic
and a unique index unique. A request's failure is modelled as an end before one
of its statements; a statement that was applied and whose answer was lost is
the same as an end after it. The application's own writes to kal's tables are
limited to setting `deleted_at`.
