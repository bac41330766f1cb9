------------------------------- MODULE Authz -------------------------------
(***************************************************************************)
(* The three layers of authorization of a request: the @auth directive at  *)
(* a field (authz/directive.go), the ownership predicate of a statement    *)
(* (authz/scope.go, scoped.go) and the settings row-level policies read    *)
(* (authz/rls.go).  All of them look at the principal the middleware       *)
(* resolved when the request arrived, while roles are granted and revoked, *)
(* second factors recorded and rows written by others.                     *)
(*                                                                         *)
(* One session per user, so that the second factor is the user's.  An      *)
(* empty setting and an unset one are one value: policies are to treat     *)
(* both as nobody.  No role name contains a comma, so that app.roles, the  *)
(* names joined by commas, is their set.  A field need not be annotated,   *)
(* and a request need not have met the middleware: it is anonymous then.   *)
(***************************************************************************)
EXTENDS Integers, Sequences, FiniteSets

CONSTANTS
    Users, Nobody,
    Roles,       \* role names, in auth_roles, the schema and the configuration
    Fold(_),     \* strings.EqualFold: a representative of the names it equates
    BypassRole,  \* Config.BypassRole, or NoRole
    NoRole,
    Fields,      \* of the schema
    Auth,        \* the arguments of @auth at those that have it
    Wired,       \* whether Config.Proofs is set
    Rows, Clauses,
    Extras,      \* what callers of WithRLSSettings add: the names, and values
    Conns,       \* connections of the pool
    Requests, NoRequest,
    MFAWindow,
    MaxSkew,     \* how far a process clock may be from the database's
    MaxChanges,  \* bound: grants and revocations
    MaxClock     \* bound: ticks

Levels == {"ANONYMOUS", "AUTHENTICATED"}
Annotation == [requires: Levels, roles: SUBSET Roles, mfa: BOOLEAN,
               proves: {"absent", "empty", "claims"}]

ASSUME AuthzAssumption ==
    /\ Nobody \notin Users /\ NoRole \notin Roles
    /\ NoRequest \notin Requests
    /\ DOMAIN Auth \subseteq Fields /\ Auth \in [DOMAIN Auth -> Annotation]
    /\ Wired \in BOOLEAN
    /\ Clauses \subseteq Seq([or: BOOLEAN, sat: SUBSET Rows])
    /\ Extras \subseteq [names: SUBSET STRING, user: Users, roles: SUBSET Roles]
    /\ {MFAWindow, MaxSkew, MaxChanges, MaxClock} \subseteq Nat

VARIABLES
    clock,    \* the database's
    held,     \* auth_user_roles
    changes,  \* grants and revocations so far
    mfaAt,    \* when the session last passed a second factor, 0 for never
    req,      \* the principal of each request and the fields it was let into
    since,    \* history: the roles its user held at some time during it
    rows,     \* the owner of each row, Nobody once deleted
    shown,    \* history: the owners of the rows each request was shown
    conn      \* the connections: their settings and whose transaction it is

zvars == <<clock, held, changes, mfaAt, req, since, rows, shown, conn>>

Anonymous == [user |-> Nobody, roles |-> {}, mfa |-> 0]
Principal == [user: Users \cup {Nobody}, roles: SUBSET Roles, mfa: Nat]
Request == [open: BOOLEAN, p: Principal, served: SUBSET Fields]
Idle == [open |-> FALSE, p |-> Anonymous, served |-> {}]

(* local is what set_config(..., true) set, base what outlives the         *)
(* transaction.                                                            *)
Setting == [user: Users \cup {Nobody}, roles: SUBSET Roles]
Unset == [user |-> Nobody, roles |-> {}]
Conn == [by: Requests \cup {NoRequest}, local: Setting, base: Setting]

ZTypeOK ==
    /\ clock \in Nat \ {0}
    /\ held \in [Users -> SUBSET Roles]
    /\ changes \in 0 .. MaxChanges
    /\ mfaAt \in [Users -> Nat]
    /\ req \in [Requests -> Request]
    /\ since \in [Requests -> SUBSET Roles]
    /\ rows \in [Rows -> Users \cup {Nobody}]
    /\ shown \in [Requests -> SUBSET (Users \cup {Nobody})]
    /\ conn \in [Conns -> Conn]

ZInit ==
    /\ clock = 1
    /\ held \in [Users -> SUBSET Roles]
    /\ changes = 0
    /\ mfaAt = [u \in Users |-> 0]
    /\ req = [r \in Requests |-> Idle]
    /\ since = [r \in Requests |-> {}]
    /\ rows \in [Rows -> Users]
    /\ shown = [r \in Requests |-> {}]
    /\ conn = [c \in Conns |-> [by |-> NoRequest, local |-> Unset, base |-> Unset]]

-----------------------------------------------------------------------------
(* The principal. *)

(* Defect: the roles are those of any role row, as if the join were lost. *)
ResolveAll(u) ==
    [user |-> u, roles |-> UNION {held[v] : v \in Users}, mfa |-> mfaAt[u]]

(* What the session lookup joins to the session. *)
Resolve(u) == [user |-> u, roles |-> held[u], mfa |-> mfaAt[u]]

Arrive(r, u) ==
    /\ ~req[r].open
    /\ LET p == IF u = Nobody THEN Anonymous ELSE Resolve(u)
       IN  req' = [req EXCEPT ![r] = [open |-> TRUE, p |-> p, served |-> {}]]
    /\ since' = [since EXCEPT ![r] = IF u = Nobody THEN {} ELSE held[u]]
    /\ UNCHANGED <<clock, held, changes, mfaAt, rows, shown, conn>>

(* It ends when its transactions have. *)
Leave(r) ==
    /\ req[r].open /\ \A c \in Conns : conn[c].by # r
    /\ req' = [req EXCEPT ![r] = Idle]
    /\ since' = [since EXCEPT ![r] = {}]
    /\ shown' = [shown EXCEPT ![r] = {}]
    /\ UNCHANGED <<clock, held, changes, mfaAt, rows, conn>>

hasRole(roles, want) == \E x \in roles : Fold(x) = Fold(want)

Bypasses(p) == BypassRole # NoRole /\ hasRole(p.roles, BypassRole)

-----------------------------------------------------------------------------
(* The directive. *)

anyRole(p, want) == Bypasses(p) \/ \E x \in want : hasRole(p.roles, x)

(* time.Since: a process clock, d ahead, against the database's stamp.     *)
Skews == -MaxSkew .. MaxSkew
Since(t, d) == clock + d - t

(* Defect: only whether there was a factor. *)
SteppedUpOnce(p, d) == p.mfa # 0

SteppedUp(p, d) == p.mfa # 0 /\ Since(p.mfa, d) <= MFAWindow

(* The arguments under which next runs; a request denied stays as it is.   *)
Allows(a, p, d) ==
    /\ a.proves # "empty"
    /\ \/ /\ p.user = Nobody
          /\ a.requires = "ANONYMOUS" /\ a.roles = {} /\ ~a.mfa
          /\ a.proves = "absent"
       \/ /\ p.user # Nobody
          /\ a.roles # {} => anyRole(p, a.roles)
          /\ a.mfa => SteppedUp(p, d)
          /\ a.proves = "claims" => Wired

(* A field resolves: nothing is asked where nobody annotated it; Proofs,   *)
(* if it is asked, agreed.                                                 *)
Serve(r, f) ==
    /\ req[r].open
    /\ f \in DOMAIN Auth => \E d \in Skews : Allows(Auth[f], req[r].p, d)
    /\ req' = [req EXCEPT ![r].served = @ \cup {f}]
    /\ UNCHANGED <<clock, held, changes, mfaAt, since, rows, shown, conn>>

-----------------------------------------------------------------------------
(* Scope.  A condition has the separator it was appended with and the rows *)
(* that satisfy it; AND binds tighter than OR.                             *)

Where(sat) == [or |-> FALSE, sat |-> sat]

Selected(list) ==
    {x \in Rows :
        \/ list = <<>>
        \/ \E i \in DOMAIN list :
              /\ i = 1 \/ list[i].or
              /\ \A k \in i .. Len(list) :
                    x \in list[k].sat \/ \E j \in i + 1 .. k : list[j].or}

Scope(p) ==
    IF p.user = Nobody THEN <<Where({})>>
    ELSE IF Bypasses(p) THEN <<>>
    ELSE <<Where({x \in Rows : rows[x] = p.user})>>

(* Defect: the caller's conditions appended, not in parentheses. *)
scopedFlat(p, opts) == Scope(p) \o opts

(* scoped: the predicate, then the caller's conditions in parentheses.     *)
scoped(p, opts) ==
    Scope(p) \o (IF opts = <<>> THEN <<>> ELSE <<Where(Selected(opts))>>)

Existing == {x \in Rows : rows[x] # Nobody}

(* In a resolver. *)
Resolving(r) == req[r].open /\ req[r].served # {}

List(r, opts) ==
    /\ Resolving(r)
    /\ LET found == Existing \cap Selected(scoped(req[r].p, opts))
       IN  shown' = [shown EXCEPT ![r] = {rows[x] : x \in found}]
    /\ UNCHANGED <<clock, held, changes, mfaAt, req, since, rows, conn>>

(* Defect: the key alone. *)
ByKeyAlone(r, x, opts) ==
    Existing \cap Selected(<<Where({x})>> \o opts)

(* luima puts the key of the row first. *)
ByKey(r, x, opts) ==
    Existing \cap Selected(<<Where({x})>> \o scoped(req[r].p, opts))

Get(r, x, opts) ==
    /\ Resolving(r)
    /\ shown' = [shown EXCEPT ![r] = {rows[y] : y \in ByKey(r, x, opts)}]
    /\ UNCHANGED <<clock, held, changes, mfaAt, req, since, rows, conn>>

(* Every column is written, the owner's too. *)
Update(r, x, opts, owner) ==
    /\ Resolving(r)
    /\ rows' = [y \in Rows |-> IF y \in ByKey(r, x, opts) THEN owner ELSE rows[y]]
    /\ UNCHANGED <<clock, held, changes, mfaAt, req, since, shown, conn>>

Delete(r, x, opts) ==
    /\ Resolving(r)
    /\ rows' = [y \in Rows |-> IF y \in ByKey(r, x, opts) THEN Nobody ELSE rows[y]]
    /\ UNCHANGED <<clock, held, changes, mfaAt, req, since, shown, conn>>

Scoped(r) ==
    \E opts \in Clauses :
        \/ List(r, opts)
        \/ \E x \in Rows :
              \/ Get(r, x, opts)
              \/ \E u \in Users : Update(r, x, opts, u)
              \/ Delete(r, x, opts)

-----------------------------------------------------------------------------
(* Settings. *)

(* What current_setting answers. *)
Current(c) == IF conn[c].local # Unset THEN conn[c].local ELSE conn[c].base

(* Defect: set_config's third argument is false. *)
SetConfigForGood(c, s) == [conn[c] EXCEPT !.base = s]

SetConfig(c, s) == [conn[c] EXCEPT !.local = s]

Refused(extra) == extra.names \cap {"app.user_id", "app.roles"} # {}

(* The caller's settings, then the extra ones in the same statement.       *)
Settings(p, extra) ==
    [user |-> IF "app.user_id" \in extra.names THEN extra.user ELSE p.user,
     roles |-> IF "app.roles" \in extra.names THEN extra.roles ELSE p.roles]

(* RunInTransaction and its first statement; nothing runs if a name among  *)
(* the extra settings is refused.                                          *)
WithRLS(r, c, extra) ==
    /\ Resolving(r) /\ conn[c].by = NoRequest /\ ~Refused(extra)
    /\ conn' = [conn EXCEPT ![c] =
          [SetConfig(c, Settings(req[r].p, extra)) EXCEPT !.by = r]]
    /\ UNCHANGED <<clock, held, changes, mfaAt, req, since, rows, shown>>

(* COMMIT or ROLLBACK, whichever statement failed. *)
EndTx(r, c) ==
    /\ conn[c].by = r
    /\ conn' = [conn EXCEPT ![c].by = NoRequest, ![c].local = Unset]
    /\ UNCHANGED <<clock, held, changes, mfaAt, req, since, rows, shown>>

-----------------------------------------------------------------------------
(* Everybody else. *)

Changed(u, after) ==
    /\ changes < MaxChanges
    /\ changes' = changes + 1
    /\ held' = [held EXCEPT ![u] = after]
    /\ since' = [r \in Requests |->
          IF req[r].p.user = u THEN since[r] \cup after ELSE since[r]]
    /\ UNCHANGED <<clock, mfaAt, req, rows, shown, conn>>

Grant(u, role) == Changed(u, held[u] \cup {role})
Revoke(u, role) == Changed(u, held[u] \ {role})

RecordMFA(u) ==
    /\ mfaAt' = [mfaAt EXCEPT ![u] = clock]
    /\ UNCHANGED <<clock, held, changes, req, since, rows, shown, conn>>

Tick ==
    /\ clock < MaxClock
    /\ clock' = clock + 1
    /\ UNCHANGED <<held, changes, mfaAt, req, since, rows, shown, conn>>

(* The others' part of the steps. *)
Others ==
    \/ \E u \in Users :
          \/ RecordMFA(u)
          \/ \E x \in Roles : Grant(u, x) \/ Revoke(u, x)
    \/ Tick

(* What a resolver does with the database. *)
Resolver(r) ==
    \/ Scoped(r)
    \/ \E c \in Conns :
          \/ \E extra \in Extras : WithRLS(r, c, extra)
          \/ EndTx(r, c)

ZNext ==
    \/ \E r \in Requests :
          \/ \E u \in Users \cup {Nobody} : Arrive(r, u)
          \/ \E f \in Fields : Serve(r, f)
          \/ Resolver(r)
          \/ Leave(r)
    \/ Others

ZSpec == ZInit /\ [][ZNext]_zvars

-----------------------------------------------------------------------------
(* Properties. *)

(* Whether the user of a request held a role of that name, in any case of  *)
(* its letters, at some time since the request arrived.                    *)
Had(r, role) == \E x \in since[r] : Fold(x) = Fold(role)
HadBypass(r) == BypassRole # NoRole /\ Had(r, BypassRole)

(* A field that asks for roles runs only in a request whose user held one  *)
(* of them, or the bypass role, during the request: roles are the user's,  *)
(* and at most as old as the request.                                      *)
RolesWereHeld ==
    [][\A r \in Requests : \A f \in req'[r].served \ req[r].served :
          f \in DOMAIN Auth /\ Auth[f].roles # {} =>
              HadBypass(r) \/ \E x \in Auth[f].roles : Had(r, x)]_zvars

(* A field that asks for a recent second factor runs only while the last   *)
(* one the user presented is within the window, and what the process clock *)
(* may be behind, by the clock of the database that stamped it.            *)
StepUpFresh ==
    [][\A r \in Requests : \A f \in req'[r].served \ req[r].served :
          f \in DOMAIN Auth /\ Auth[f].mfa =>
              LET u == req[r].p.user
              IN  /\ u \in Users /\ mfaAt[u] # 0
                  /\ clock - mfaAt[u] <= MFAWindow + MaxSkew]_zvars

(* A request is shown its user's rows only, whatever conditions the        *)
(* resolver adds and whether or not a directive let it in, unless the user *)
(* held the bypass role.  An anonymous request is shown none.              *)
ShownRowsAreOwned ==
    \A r \in Requests :
        \A u \in shown[r] : u = req[r].p.user \/ HadBypass(r)

(* A row changes only under a request of its owner or of a user with the   *)
(* bypass role, also where a resolver runs that no directive guards.       *)
WrittenRowsWereOwned ==
    [][\A x \in Rows : rows'[x] # rows[x] =>
          \E r \in Requests :
              /\ req[r].open /\ req[r].p.user # Nobody
              /\ rows[x] = req[r].p.user \/ HadBypass(r)]_zvars

(* The settings that policies read are the caller's in a transaction of    *)
(* WithRLS, whatever else it set, and nobody's on a connection in the pool.*)
SettingsAreTheCallers ==
    \A c \in Conns :
        Current(c) =
            IF conn[c].by = NoRequest THEN Unset
            ELSE LET p == req[conn[c].by].p IN [user |-> p.user, roles |-> p.roles]
=============================================================================
