--------------------------- MODULE RequestProofs ---------------------------
(***************************************************************************)
(* What TLAPS proves of modules Authz and Request, for every set of users, *)
(* roles, rows, requests and connections, every schema, every list of      *)
(* conditions and every set of documents.                                  *)
(***************************************************************************)
EXTENDS Request, SequenceTheorems, FiniteSetTheorems, TLAPS


(* The principal of a request is what its user was at some time since it   *)
(* arrived; between requests nothing of the last one is left.              *)
PrincipalInv ==
    \A r \in Requests :
        IF req[r].open
        THEN /\ req[r].p.roles \subseteq since[r]
             /\ req[r].p.user = Nobody => req[r].p = Anonymous
             /\ req[r].p.user # Nobody => req[r].p.mfa <= mfaAt[req[r].p.user]
        ELSE req[r] = Idle /\ shown[r] = {}

(* A second factor is not of the future. *)
FactorInv == \A u \in Users : mfaAt[u] <= clock

(* A connection has the settings of the transaction open on it, which is   *)
(* of a request in progress, and none of an earlier one's.                 *)
ConnInv ==
    \A c \in Conns :
        /\ conn[c].base = Unset
        /\ conn[c].by = NoRequest => conn[c].local = Unset
        /\ conn[c].by # NoRequest =>
              LET q == req[conn[c].by]
              IN  /\ q.open
                  /\ conn[c].local = [user |-> q.p.user, roles |-> q.p.roles]

ZInv == /\ ZTypeOK /\ PrincipalInv /\ FactorInv
        /\ ShownRowsAreOwned /\ ConnInv

-----------------------------------------------------------------------------
(* Conditions. *)

Condition == [or: BOOLEAN, sat: SUBSET Rows]

(* A row that a list joined by AND alone selects satisfies all of it. *)
LEMMA AllAnded ==
    ASSUME NEW list \in Seq(Condition), list # <<>>,
           \A k \in DOMAIN list : ~list[k].or,
           NEW x \in Selected(list), NEW k \in DOMAIN list
    PROVE  x \in list[k].sat
<1>1. PICK i \in DOMAIN list :
         /\ i = 1 \/ list[i].or
         /\ \A n \in i .. Len(list) :
               x \in list[n].sat \/ \E j \in i + 1 .. n : list[j].or
  BY DEF Selected
<1>2. DOMAIN list = 1 .. Len(list) /\ Len(list) \in Nat
  OBVIOUS
<1>3. i = 1
  BY <1>1
<1>4. \A j \in 2 .. k : ~list[j].or
  BY <1>2
<1> QED BY <1>1, <1>2, <1>3, <1>4

LEMMA SelectedRows == ASSUME NEW list PROVE Selected(list) \subseteq Rows
BY DEF Selected

(* Whatever the caller adds, scoped is a list joined by AND that begins    *)
(* with the ownership predicate, unless the principal bypasses it.         *)
LEMMA ScopedIs ==
    ASSUME NEW p, NEW opts
    PROVE  LET list == scoped(p, opts) IN
           /\ list \in Seq(Condition)
           /\ \A k \in DOMAIN list : ~list[k].or
           /\ p.user = Nobody \/ ~Bypasses(p) =>
                 /\ 1 \in DOMAIN list
                 /\ list[1].sat = IF p.user = Nobody THEN {}
                                  ELSE {x \in Rows : rows[x] = p.user}
<1> DEFINE a == Scope(p)
           b == IF opts = <<>> THEN <<>> ELSE <<Where(Selected(opts))>>
<1>1. \A S \in SUBSET Rows : /\ Where(S) \in Condition /\ ~Where(S).or
                             /\ Where(S).sat = S
  BY DEF Where, Condition
<1>2. /\ a \in Seq(Condition) /\ Len(a) \in {0, 1}
      /\ \A k \in DOMAIN a : ~a[k].or
      /\ p.user = Nobody \/ ~Bypasses(p) =>
            /\ Len(a) = 1
            /\ a[1].sat = IF p.user = Nobody THEN {}
                          ELSE {x \in Rows : rows[x] = p.user}
  <2>1. CASE p.user = Nobody
    <3>1. a = <<Where({})>>
      BY <2>1 DEF Scope
    <3> QED BY <1>1, <2>1, <3>1
  <2>2. CASE p.user # Nobody /\ Bypasses(p)
    <3>1. a = <<>>
      BY <2>2 DEF Scope
    <3> QED BY <2>2, <3>1
  <2>3. CASE p.user # Nobody /\ ~Bypasses(p)
    <3>1. a = <<Where({x \in Rows : rows[x] = p.user})>>
      BY <2>3 DEF Scope
    <3>2. {x \in Rows : rows[x] = p.user} \in SUBSET Rows
      OBVIOUS
    <3> QED BY <1>1, <2>3, <3>1, <3>2
  <2> QED BY <2>1, <2>2, <2>3
<1>3. /\ b \in Seq(Condition)
      /\ \A k \in DOMAIN b : ~b[k].or
  BY <1>1, SelectedRows
<1>4. scoped(p, opts) = a \o b
  BY DEF scoped
<1> HIDE DEF a, b
<1>5. /\ a \o b \in Seq(Condition) /\ Len(a \o b) = Len(a) + Len(b)
      /\ \A k \in 1 .. Len(a \o b) :
            (a \o b)[k] = IF k <= Len(a) THEN a[k] ELSE b[k - Len(a)]
  BY <1>2, <1>3
<1>6. \A k \in DOMAIN (a \o b) : ~(a \o b)[k].or
  <2> SUFFICES ASSUME NEW k \in 1 .. Len(a \o b) PROVE ~(a \o b)[k].or
    BY <1>5
  <2>1. Len(a) \in Nat /\ Len(b) \in Nat /\ k \in Nat
    BY <1>2, <1>3
  <2>2. CASE k <= Len(a)
    <3>1. k \in DOMAIN a
      BY <1>2, <2>1, <2>2
    <3> QED BY <1>2, <1>5, <2>2, <3>1
  <2>3. CASE k > Len(a)
    <3>1. k - Len(a) \in DOMAIN b
      BY <1>3, <1>5, <2>1, <2>3
    <3> QED BY <1>3, <1>5, <2>1, <2>3, <3>1
  <2> QED BY <2>1, <2>2, <2>3
<1>7. ASSUME p.user = Nobody \/ ~Bypasses(p)
      PROVE  1 \in DOMAIN (a \o b) /\ (a \o b)[1] = a[1]
  <2>1. Len(a) = 1 /\ Len(b) \in Nat
    BY <1>2, <1>3, <1>7
  <2> QED BY <1>5, <2>1
<1> QED BY <1>2, <1>4, <1>5, <1>6, <1>7

(* A scoped statement reaches the rows of its principal only, or all of    *)
(* them for a principal with the bypass role.                              *)
LEMMA ScopeGuards ==
    ASSUME NEW p, NEW opts, NEW x \in Selected(scoped(p, opts)), ~Bypasses(p)
    PROVE  p.user # Nobody /\ rows[x] = p.user
<1> DEFINE list == scoped(p, opts)
<1>1. /\ list \in Seq(Condition) /\ 1 \in DOMAIN list
      /\ \A k \in DOMAIN list : ~list[k].or
      /\ list[1].sat = IF p.user = Nobody THEN {}
                       ELSE {y \in Rows : rows[y] = p.user}
  BY ScopedIs
<1> HIDE DEF list
<1>2. list # <<>>
  BY <1>1
<1>3. x \in list[1].sat
  BY <1>1, <1>2, AllAnded DEF list
<1> QED BY <1>1, <1>3

LEMMA NobodyReaches ==
    ASSUME NEW p, p.user = Nobody, NEW opts
    PROVE  Selected(scoped(p, opts)) = {}
<1> SUFFICES ASSUME NEW x \in Selected(scoped(p, opts)) PROVE FALSE
  OBVIOUS
<1> DEFINE list == scoped(p, opts)
<1>1. /\ list \in Seq(Condition) /\ 1 \in DOMAIN list
      /\ \A k \in DOMAIN list : ~list[k].or
      /\ list[1].sat = {}
  BY ScopedIs
<1> HIDE DEF list
<1>2. list # <<>>
  BY <1>1
<1>3. x \in list[1].sat
  BY <1>1, <1>2, AllAnded DEF list
<1> QED BY <1>1, <1>3

(* So does one that names a row, and it reaches no row that scoped alone   *)
(* would not.                                                              *)
LEMMA KeyGuards ==
    ASSUME NEW r, NEW x \in Rows, NEW opts, NEW y \in ByKey(r, x, opts)
    PROVE  /\ y \in Existing /\ req[r].p.user # Nobody
           /\ ~Bypasses(req[r].p) => rows[y] = req[r].p.user
<1> DEFINE p == req[r].p
           list == scoped(p, opts)
           all == <<Where({x})>> \o list
<1>1. /\ list \in Seq(Condition)
      /\ \A k \in DOMAIN list : ~list[k].or
      /\ p.user = Nobody \/ ~Bypasses(p) =>
            /\ 1 \in DOMAIN list
            /\ list[1].sat = IF p.user = Nobody THEN {}
                             ELSE {z \in Rows : rows[z] = p.user}
  BY ScopedIs
<1>2. Where({x}) \in Condition /\ ~Where({x}).or
  BY DEF Where, Condition
<1>3. y \in Existing /\ y \in Selected(all)
  BY DEF ByKey
<1> HIDE DEF list
<1>4. /\ all \in Seq(Condition) /\ Len(all) = 1 + Len(list)
      /\ all[1] = Where({x}) /\ \A k \in 1 .. Len(list) : all[k + 1] = list[k]
  BY <1>1, <1>2
<1>5. Len(list) \in Nat /\ DOMAIN list = 1 .. Len(list)
      /\ DOMAIN all = 1 .. Len(all)
  BY <1>1, <1>4
<1> HIDE DEF all
<1>6. \A k \in DOMAIN all : ~all[k].or
  <2> SUFFICES ASSUME NEW k \in 1 .. Len(list) + 1 PROVE ~all[k].or
    BY <1>4, <1>5
  <2>1. CASE k = 1
    BY <1>2, <1>4, <2>1
  <2>2. CASE k # 1
    <3>1. k - 1 \in 1 .. Len(list) /\ k = (k - 1) + 1
      BY <1>5, <2>2
    <3>2. all[k] = list[k - 1]
      BY <1>4, <3>1
    <3> QED BY <1>1, <1>5, <3>1, <3>2
  <2> QED BY <2>1, <2>2
<1>7. ASSUME p.user = Nobody \/ ~Bypasses(p)
      PROVE  y \in list[1].sat
  <2>1. 1 \in 1 .. Len(list)
    BY <1>1, <1>5, <1>7
  <2>2. all[2] = list[1] /\ 2 \in DOMAIN all /\ all # <<>>
    BY <1>4, <1>5, <2>1
  <2> QED BY <1>3, <1>4, <1>6, <2>2, AllAnded
<1> QED BY <1>1, <1>3, <1>7

-----------------------------------------------------------------------------
(* Type correctness. *)

LEMMA ResolveType ==
    ASSUME ZTypeOK, NEW u \in Users
    PROVE  Resolve(u) \in Principal
BY DEF Resolve, Principal, ZTypeOK

LEMMA AnonymousType == Anonymous \in Principal /\ Idle \in Request
BY DEF Anonymous, Principal, Idle, Request

LEMMA ZTypeInit == ZInit => ZTypeOK
<1> SUFFICES ASSUME ZInit PROVE ZTypeOK
  OBVIOUS
<1>1. [by |-> NoRequest, local |-> Unset, base |-> Unset] \in Conn
  BY DEF Conn, Setting, Unset
<1> QED BY <1>1, AnonymousType, AuthzAssumption DEF ZInit, ZTypeOK

LEMMA ZTypeStep == ZTypeOK /\ [ZNext]_zvars => ZTypeOK'
<1> SUFFICES ASSUME ZTypeOK, [ZNext]_zvars PROVE ZTypeOK'
  OBVIOUS
<1> USE DEF ZTypeOK
<1>1. ASSUME NEW r \in Requests, NEW u \in Users \cup {Nobody}, Arrive(r, u)
      PROVE  ZTypeOK'
  <2> DEFINE p == IF u = Nobody THEN Anonymous ELSE Resolve(u)
  <2>1. p \in Principal
    BY ResolveType, AnonymousType
  <2>2. [open |-> TRUE, p |-> p, served |-> {}] \in Request
    BY <2>1 DEF Request
  <2>3. (IF u = Nobody THEN {} ELSE held[u]) \in SUBSET Roles
    OBVIOUS
  <2> HIDE DEF p
  <2>4. req' = [req EXCEPT ![r] = [open |-> TRUE, p |-> p, served |-> {}]]
    BY <1>1 DEF Arrive, p
  <2> QED BY <1>1, <2>2, <2>3, <2>4 DEF Arrive
<1>2. ASSUME NEW r \in Requests, NEW f \in Fields, Serve(r, f)
      PROVE  ZTypeOK'
  <2>1. req[r] \in Request
    OBVIOUS
  <2>2. [req[r] EXCEPT !.served = @ \cup {f}] \in Request
    BY <2>1 DEF Request
  <2> QED BY <1>2, <2>2 DEF Serve
<1>3. ASSUME NEW r \in Requests, NEW opts, List(r, opts)
      PROVE  ZTypeOK'
  <2>1. {rows[x] : x \in Existing \cap Selected(scoped(req[r].p, opts))}
           \in SUBSET (Users \cup {Nobody})
    BY DEF Existing
  <2> QED BY <1>3, <2>1 DEF List
<1>4. ASSUME NEW r \in Requests, NEW x \in Rows, NEW opts, Get(r, x, opts)
      PROVE  ZTypeOK'
  <2>1. {rows[y] : y \in ByKey(r, x, opts)} \in SUBSET (Users \cup {Nobody})
    BY DEF ByKey, Existing
  <2> QED BY <1>4, <2>1 DEF Get
<1>5. ASSUME NEW r \in Requests, NEW x \in Rows, NEW opts, NEW u \in Users,
             Update(r, x, opts, u)
      PROVE  ZTypeOK'
  BY <1>5 DEF Update
<1>6. ASSUME NEW r \in Requests, NEW x \in Rows, NEW opts, Delete(r, x, opts)
      PROVE  ZTypeOK'
  BY <1>6 DEF Delete
<1>7. ASSUME NEW r \in Requests, NEW c \in Conns, NEW extra \in Extras,
             WithRLS(r, c, extra)
      PROVE  ZTypeOK'
  <2>1. req[r].p \in Principal /\ conn[c] \in Conn
    BY DEF Request
  <2>2. extra.user \in Users /\ extra.roles \in SUBSET Roles
    BY AuthzAssumption
  <2>3. Settings(req[r].p, extra) \in Setting
    BY <2>1, <2>2 DEF Settings, Setting, Principal
  <2>4. [SetConfig(c, Settings(req[r].p, extra)) EXCEPT !.by = r] \in Conn
    BY <2>1, <2>3 DEF SetConfig, Conn
  <2> QED BY <1>7, <2>4 DEF WithRLS
<1>8. ASSUME NEW r \in Requests, NEW c \in Conns, EndTx(r, c)
      PROVE  ZTypeOK'
  <2>1. [conn[c] EXCEPT !.by = NoRequest, !.local = Unset] \in Conn
    BY DEF Conn, Unset, Setting
  <2>2. conn' = [conn EXCEPT ![c] =
                    [conn[c] EXCEPT !.by = NoRequest, !.local = Unset]]
    BY <1>8 DEF EndTx
  <2> QED BY <1>8, <2>1, <2>2 DEF EndTx
<1>9. ASSUME NEW r \in Requests, Leave(r)
      PROVE  ZTypeOK'
  BY <1>9, AnonymousType DEF Leave
<1>10. ASSUME NEW u \in Users, NEW after \in SUBSET Roles, Changed(u, after)
       PROVE  ZTypeOK'
  <2>1. since' \in [Requests -> SUBSET Roles]
    BY <1>10 DEF Changed
  <2>2. changes' \in 0 .. MaxChanges
    BY <1>10, AuthzAssumption DEF Changed
  <2> QED BY <1>10, <2>1, <2>2 DEF Changed
<1>11. ASSUME NEW u \in Users, RecordMFA(u)
       PROVE  ZTypeOK'
  BY <1>11 DEF RecordMFA
<1>12. CASE Tick
  BY <1>12 DEF Tick
<1>13. CASE UNCHANGED zvars
  BY <1>13 DEF zvars
<1>14. \A u \in Users : \A x \in Roles :
          held[u] \cup {x} \in SUBSET Roles /\ held[u] \ {x} \in SUBSET Roles
  OBVIOUS
<1> QED
  BY <1>1, <1>2, <1>3, <1>4, <1>5, <1>6, <1>7, <1>8, <1>9, <1>10, <1>11,
     <1>12, <1>13, <1>14
  DEF ZNext, Resolver, Scoped, Others, Grant, Revoke

(* Every reachable state of authorization is well typed. *)
THEOREM AuthorizationTyped == ZSpec => []ZTypeOK
<1>1. ZInit => ZTypeOK
  BY ZTypeInit
<1>2. ZTypeOK /\ [ZNext]_zvars => ZTypeOK'
  BY ZTypeStep
<1> QED BY <1>1, <1>2, PTL DEF ZSpec

-----------------------------------------------------------------------------
(* Roles and factors. *)

LEMMA HadFromRoles ==
    ASSUME NEW r, req[r].p.roles \subseteq since[r]
    PROVE  /\ \A x : hasRole(req[r].p.roles, x) => Had(r, x)
           /\ Bypasses(req[r].p) => HadBypass(r)
BY DEF hasRole, Had, Bypasses, HadBypass

LEMMA PrincipalStep ==
    ZTypeOK /\ PrincipalInv /\ FactorInv /\ [ZNext]_zvars => PrincipalInv'
<1> SUFFICES ASSUME ZTypeOK, PrincipalInv, FactorInv, [ZNext]_zvars
             PROVE  PrincipalInv'
  OBVIOUS
<1>0. /\ req \in [Requests -> Request] /\ shown \in [Requests -> SUBSET (Users \cup {Nobody})]
      /\ since \in [Requests -> SUBSET Roles] /\ mfaAt \in [Users -> Nat]
      /\ clock \in Nat
  BY DEF ZTypeOK
<1>1. ASSUME NEW r \in Requests, NEW u \in Users \cup {Nobody}, Arrive(r, u)
      PROVE  PrincipalInv'
  <2> DEFINE p == IF u = Nobody THEN Anonymous ELSE Resolve(u)
  <2>1. /\ req'[r] = [open |-> TRUE, p |-> p, served |-> {}]
        /\ since'[r] = IF u = Nobody THEN {} ELSE held[u]
        /\ \A q \in Requests \ {r} : req'[q] = req[q] /\ since'[q] = since[q]
        /\ mfaAt' = mfaAt /\ shown' = shown
    BY <1>0, <1>1 DEF Arrive
  <2>2. /\ p.roles = since'[r]
        /\ p.user = Nobody => p = Anonymous
        /\ p.user # Nobody => p.mfa <= mfaAt'[p.user]
    <3>1. CASE u = Nobody
      BY <2>1, <3>1 DEF Anonymous
    <3>2. CASE u # Nobody
      <4>1. p = [user |-> u, roles |-> held[u], mfa |-> mfaAt[u]] /\ u \in Users
        BY <3>2 DEF Resolve
      <4>2. mfaAt[u] <= mfaAt[u]
        BY <1>0, <4>1
      <4> QED BY <2>1, <3>2, <4>1, <4>2
    <3> QED BY <3>1, <3>2
  <2> HIDE DEF p
  <2>3. req'[r].open /\ req'[r].p = p
    BY <2>1
  <2> QED BY <2>1, <2>2, <2>3 DEF PrincipalInv
<1>2. ASSUME NEW r \in Requests, NEW f \in Fields, Serve(r, f)
      PROVE  PrincipalInv'
  <2>1. /\ req'[r].open /\ req[r].open /\ req'[r].p = req[r].p
        /\ \A q \in Requests \ {r} : req'[q] = req[q]
        /\ UNCHANGED <<since, mfaAt, shown>>
    BY <1>0, <1>2 DEF Serve, Request
  <2> QED BY <2>1 DEF PrincipalInv
<1>3. ASSUME NEW r \in Requests, req[r].open,
             UNCHANGED <<req, since, mfaAt>>,
             \A q \in Requests \ {r} : shown'[q] = shown[q]
      PROVE  PrincipalInv'
  BY <1>3 DEF PrincipalInv
<1>4. ASSUME NEW r \in Requests, NEW opts \in Clauses, List(r, opts)
      PROVE  PrincipalInv'
  BY <1>0, <1>3, <1>4 DEF List, Resolving
<1>5. ASSUME NEW r \in Requests, NEW x \in Rows, NEW opts \in Clauses,
             Get(r, x, opts)
      PROVE  PrincipalInv'
  BY <1>0, <1>3, <1>5 DEF Get, Resolving
<1>6. ASSUME NEW r \in Requests, Leave(r)
      PROVE  PrincipalInv'
  <2>1. /\ req'[r] = Idle /\ shown'[r] = {} /\ mfaAt' = mfaAt
        /\ \A q \in Requests \ {r} :
              req'[q] = req[q] /\ since'[q] = since[q] /\ shown'[q] = shown[q]
    BY <1>0, <1>6 DEF Leave
  <2>2. ~Idle.open
    BY DEF Idle
  <2> QED BY <2>1, <2>2 DEF PrincipalInv
<1>7. ASSUME NEW u \in Users, NEW after \in SUBSET Roles, Changed(u, after)
      PROVE  PrincipalInv'
  <2>1. /\ \A q \in Requests : since[q] \subseteq since'[q]
        /\ UNCHANGED <<req, mfaAt, shown>>
    BY <1>0, <1>7 DEF Changed
  <2> QED BY <2>1 DEF PrincipalInv
<1>8. ASSUME NEW u \in Users, RecordMFA(u)
      PROVE  PrincipalInv'
  <2>1. UNCHANGED <<req, since, shown>> /\ mfaAt' = [mfaAt EXCEPT ![u] = clock]
    BY <1>8 DEF RecordMFA
  <2>2. \A v \in Users : mfaAt[v] <= mfaAt'[v] /\ mfaAt[v] \in Nat /\ mfaAt'[v] \in Nat
    BY <1>0, <2>1 DEF FactorInv
  <2>3. \A q \in Requests : req[q].p \in Principal
    BY <1>0 DEF Request
  <2>4. ASSUME NEW q \in Requests, req[q].open, req[q].p.user # Nobody
        PROVE  req[q].p.mfa <= mfaAt'[req[q].p.user]
    <3>1. req[q].p.user \in Users /\ req[q].p.mfa \in Nat
      BY <2>3, <2>4 DEF Principal
    <3>2. req[q].p.mfa <= mfaAt[req[q].p.user]
      BY <2>4 DEF PrincipalInv
    <3> QED BY <2>2, <3>1, <3>2
  <2> QED BY <2>1, <2>4 DEF PrincipalInv
<1>9. CASE UNCHANGED <<req, since, mfaAt, shown>>
  BY <1>9 DEF PrincipalInv
<1>10. \A u \in Users : \A x \in Roles :
          held[u] \cup {x} \in SUBSET Roles /\ held[u] \ {x} \in SUBSET Roles
  BY DEF ZTypeOK
<1> QED
  BY <1>1, <1>2, <1>4, <1>5, <1>6, <1>7, <1>8, <1>9, <1>10
  DEF ZNext, zvars, Resolver, Scoped, Others, Grant, Revoke, Update, Delete,
      WithRLS, EndTx, Tick

LEMMA FactorStep == ZTypeOK /\ FactorInv /\ [ZNext]_zvars => FactorInv'
<1> SUFFICES ASSUME ZTypeOK, FactorInv, [ZNext]_zvars PROVE FactorInv'
  OBVIOUS
<1>0. mfaAt \in [Users -> Nat] /\ clock \in Nat
  BY DEF ZTypeOK
<1>1. ASSUME NEW u \in Users, RecordMFA(u)
      PROVE  FactorInv'
  BY <1>0, <1>1 DEF RecordMFA, FactorInv
<1>2. CASE Tick
  BY <1>0, <1>2 DEF Tick, FactorInv
<1>3. CASE UNCHANGED <<clock, mfaAt>>
  BY <1>3 DEF FactorInv
<1> QED
  BY <1>1, <1>2, <1>3
  DEF ZNext, zvars, Resolver, Scoped, Others, Grant, Revoke, Changed, Arrive,
      Serve, Leave, List, Get, Update, Delete, WithRLS, EndTx

-----------------------------------------------------------------------------
(* Rows and connections. *)

LEMMA ShownStep ==
    /\ ZTypeOK /\ PrincipalInv /\ ShownRowsAreOwned /\ [ZNext]_zvars
    => ShownRowsAreOwned'
<1> SUFFICES ASSUME ZTypeOK, PrincipalInv, ShownRowsAreOwned, [ZNext]_zvars
             PROVE  ShownRowsAreOwned'
  OBVIOUS
<1>0. /\ req \in [Requests -> Request] /\ shown \in [Requests -> SUBSET (Users \cup {Nobody})]
      /\ since \in [Requests -> SUBSET Roles]
  BY DEF ZTypeOK
<1>1. ASSUME NEW r \in Requests, NEW u \in Users \cup {Nobody}, Arrive(r, u)
      PROVE  ShownRowsAreOwned'
  <2>1. shown' = shown /\ shown[r] = {}
        /\ \A q \in Requests \ {r} : req'[q] = req[q] /\ since'[q] = since[q]
    BY <1>0, <1>1 DEF Arrive, PrincipalInv
  <2> QED BY <2>1 DEF ShownRowsAreOwned, HadBypass, Had
<1>2. ASSUME NEW r \in Requests, NEW f \in Fields, Serve(r, f)
      PROVE  ShownRowsAreOwned'
  <2>1. UNCHANGED <<shown, since>> /\ \A q \in Requests : req'[q].p = req[q].p
    BY <1>0, <1>2 DEF Serve, Request
  <2> QED BY <2>1 DEF ShownRowsAreOwned, HadBypass, Had
<1>3. ASSUME NEW r \in Requests, req[r].open, UNCHANGED <<req, since>>,
             \A q \in Requests \ {r} : shown'[q] = shown[q],
             NEW S, shown'[r] = {rows[x] : x \in S},
             \A x \in S : ~Bypasses(req[r].p) => rows[x] = req[r].p.user
      PROVE  ShownRowsAreOwned'
  <2>1. Bypasses(req[r].p) => HadBypass(r)
    BY <1>3, HadFromRoles DEF PrincipalInv
  <2>2. \A q \in Requests : HadBypass(q)' <=> HadBypass(q)
    BY <1>3 DEF HadBypass, Had
  <2>3. \A u \in shown'[r] : u = req[r].p.user \/ HadBypass(r)
    BY <1>3, <2>1
  <2> QED BY <1>3, <2>2, <2>3 DEF ShownRowsAreOwned
<1>4. ASSUME NEW r \in Requests, NEW opts \in Clauses, List(r, opts)
      PROVE  ShownRowsAreOwned'
  <2> DEFINE S == Existing \cap Selected(scoped(req[r].p, opts))
  <2>1. /\ req[r].open /\ UNCHANGED <<req, since>>
        /\ \A q \in Requests \ {r} : shown'[q] = shown[q]
        /\ shown'[r] = {rows[x] : x \in S}
    BY <1>0, <1>4 DEF List, Resolving
  <2>2. \A x \in S : ~Bypasses(req[r].p) => rows[x] = req[r].p.user
    BY ScopeGuards
  <2> HIDE DEF S
  <2> QED BY <1>3, <2>1, <2>2
<1>5. ASSUME NEW r \in Requests, NEW x \in Rows, NEW opts \in Clauses,
             Get(r, x, opts)
      PROVE  ShownRowsAreOwned'
  <2> DEFINE S == ByKey(r, x, opts)
  <2>1. /\ req[r].open /\ UNCHANGED <<req, since>>
        /\ \A q \in Requests \ {r} : shown'[q] = shown[q]
        /\ shown'[r] = {rows[y] : y \in S}
    BY <1>0, <1>5 DEF Get, Resolving
  <2>2. \A y \in S : ~Bypasses(req[r].p) => rows[y] = req[r].p.user
    BY KeyGuards
  <2> HIDE DEF S
  <2> QED BY <1>3, <2>1, <2>2
<1>6. ASSUME NEW r \in Requests, Leave(r)
      PROVE  ShownRowsAreOwned'
  <2>1. /\ shown'[r] = {}
        /\ \A q \in Requests \ {r} :
              req'[q] = req[q] /\ since'[q] = since[q] /\ shown'[q] = shown[q]
    BY <1>0, <1>6 DEF Leave
  <2> QED BY <2>1 DEF ShownRowsAreOwned, HadBypass, Had
<1>7. ASSUME NEW u \in Users, NEW after \in SUBSET Roles, Changed(u, after)
      PROVE  ShownRowsAreOwned'
  <2>1. UNCHANGED <<req, shown>> /\ \A q \in Requests : since[q] \subseteq since'[q]
    BY <1>0, <1>7 DEF Changed
  <2> QED BY <2>1 DEF ShownRowsAreOwned, HadBypass, Had
<1>8. CASE UNCHANGED <<req, since, shown>>
  BY <1>8 DEF ShownRowsAreOwned, HadBypass, Had
<1>9. \A u \in Users : \A x \in Roles :
         held[u] \cup {x} \in SUBSET Roles /\ held[u] \ {x} \in SUBSET Roles
  BY DEF ZTypeOK
<1> QED
  BY <1>1, <1>2, <1>4, <1>5, <1>6, <1>7, <1>8, <1>9
  DEF ZNext, zvars, Resolver, Scoped, Others, Grant, Revoke, Update, Delete,
      WithRLS, EndTx, RecordMFA, Tick

LEMMA ConnStep ==
    ZTypeOK /\ PrincipalInv /\ ConnInv /\ [ZNext]_zvars => ConnInv'
<1> SUFFICES ASSUME ZTypeOK, PrincipalInv, ConnInv, [ZNext]_zvars
             PROVE  ConnInv'
  OBVIOUS
<1>0. req \in [Requests -> Request] /\ conn \in [Conns -> Conn]
  BY DEF ZTypeOK
<1>1. \A c \in Conns : conn[c].by # NoRequest => conn[c].by \in Requests
  BY <1>0 DEF Conn
<1>2. ASSUME NEW r \in Requests, NEW u \in Users \cup {Nobody}, Arrive(r, u)
      PROVE  ConnInv'
  <2>1. conn' = conn /\ ~req[r].open
        /\ \A q \in Requests \ {r} : req'[q] = req[q]
    BY <1>0, <1>2 DEF Arrive
  <2>2. \A c \in Conns : conn[c].by # r
    BY <1>2, <2>1, AuthzAssumption DEF ConnInv
  <2> QED BY <1>1, <2>1, <2>2 DEF ConnInv
<1>3. ASSUME NEW r \in Requests, NEW f \in Fields, Serve(r, f)
      PROVE  ConnInv'
  <2>1. conn' = conn
        /\ \A q \in Requests : req'[q].p = req[q].p /\ req'[q].open = req[q].open
    BY <1>0, <1>3 DEF Serve, Request
  <2> QED BY <1>1, <2>1 DEF ConnInv
<1>4. ASSUME NEW r \in Requests, NEW c \in Conns, NEW extra \in Extras,
             WithRLS(r, c, extra)
      PROVE  ConnInv'
  <2>1. Settings(req[r].p, extra) = [user |-> req[r].p.user, roles |-> req[r].p.roles]
    BY <1>4 DEF WithRLS, Refused, Settings
  <2> DEFINE s == [user |-> req[r].p.user, roles |-> req[r].p.roles]
  <2>2. conn' = [conn EXCEPT ![c] = [[conn[c] EXCEPT !.local = s] EXCEPT !.by = r]]
    BY <1>4, <2>1 DEF WithRLS, SetConfig
  <2>3. /\ req' = req /\ req[r].open /\ r # NoRequest
        /\ \A d \in Conns \ {c} : conn'[d] = conn[d]
    BY <1>0, <1>4, AuthzAssumption DEF WithRLS, Resolving
  <2> HIDE DEF s
  <2>4. conn'[c].base = conn[c].base /\ conn'[c].local = s /\ conn'[c].by = r
    BY <1>0, <2>2 DEF Conn
  <2>5. s = [user |-> req[r].p.user, roles |-> req[r].p.roles]
    BY DEF s
  <2>6. conn[c].base = Unset
    BY DEF ConnInv
  <2> QED BY <2>3, <2>4, <2>5, <2>6 DEF ConnInv
<1>5. ASSUME NEW r \in Requests, NEW c \in Conns, EndTx(r, c)
      PROVE  ConnInv'
  <2>1. /\ conn'[c].by = NoRequest /\ conn'[c].local = Unset
        /\ conn'[c].base = conn[c].base /\ req' = req
        /\ \A d \in Conns \ {c} : conn'[d] = conn[d]
    BY <1>0, <1>5 DEF EndTx, Conn
  <2> QED BY <2>1 DEF ConnInv
<1>6. ASSUME NEW r \in Requests, Leave(r)
      PROVE  ConnInv'
  <2>1. conn' = conn /\ (\A c \in Conns : conn[c].by # r)
        /\ \A q \in Requests \ {r} : req'[q] = req[q]
    BY <1>0, <1>6 DEF Leave
  <2> QED BY <1>1, <2>1 DEF ConnInv
<1>7. CASE UNCHANGED <<req, conn>>
  BY <1>7 DEF ConnInv
<1> QED
  BY <1>2, <1>3, <1>4, <1>5, <1>6, <1>7
  DEF ZNext, zvars, Resolver, Scoped, Others, Grant, Revoke, Changed, List,
      Get, Update, Delete, RecordMFA, Tick

-----------------------------------------------------------------------------

LEMMA ZInvInit == ZInit => ZInv
<1> SUFFICES ASSUME ZInit PROVE ZInv
  OBVIOUS
<1>1. PrincipalInv
  BY DEF ZInit, PrincipalInv, Idle
<1>2. FactorInv /\ ShownRowsAreOwned /\ ConnInv
  BY DEF ZInit, FactorInv, ShownRowsAreOwned, ConnInv
<1> QED BY <1>1, <1>2, ZTypeInit DEF ZInv

LEMMA ZInvStep == ZInv /\ [ZNext]_zvars => ZInv'
BY ZTypeStep, PrincipalStep, FactorStep, ShownStep, ConnStep DEF ZInv

(* The inductive invariant: principals, factors, rows and connections.     *)
THEOREM Authorization == ZSpec => []ZInv
<1>1. ZInit => ZInv
  BY ZInvInit
<1>2. ZInv /\ [ZNext]_zvars => ZInv'
  BY ZInvStep
<1> QED BY <1>1, <1>2, PTL DEF ZSpec

(* ShownRowsAreOwned holds, whatever conditions resolvers add. *)
THEOREM RowsShown == ZSpec => []ShownRowsAreOwned
<1>1. ZInv => ShownRowsAreOwned
  BY DEF ZInv
<1> QED BY <1>1, Authorization, PTL

(* SettingsAreTheCallers holds, whatever connections transactions share.   *)
THEOREM SettingsHold == ZSpec => []SettingsAreTheCallers
<1>1. ZInv => SettingsAreTheCallers
  <2> SUFFICES ASSUME ZInv, NEW c \in Conns
               PROVE  Current(c) =
                        IF conn[c].by = NoRequest THEN Unset
                        ELSE LET p == req[conn[c].by].p
                             IN [user |-> p.user, roles |-> p.roles]
    BY DEF SettingsAreTheCallers
  <2> QED BY DEF ZInv, ConnInv, Current
<1> QED BY <1>1, Authorization, PTL

(* A field that has just been let in was let in by Serve. *)
LEMMA OnlyServeServes ==
    ASSUME ZTypeOK, [ZNext]_zvars, NEW r \in Requests,
           NEW f \in req'[r].served \ req[r].served
    PROVE  Serve(r, f)
<1>0. req \in [Requests -> Request]
  BY DEF ZTypeOK
<1>1. ASSUME NEW q \in Requests, NEW u \in Users \cup {Nobody}, Arrive(q, u)
      PROVE  FALSE
  <2>1. q = r => req'[r].served = {}
    BY <1>0, <1>1 DEF Arrive
  <2> QED BY <1>0, <1>1, <2>1 DEF Arrive
<1>2. ASSUME NEW q \in Requests, NEW g \in Fields, Serve(q, g)
      PROVE  Serve(r, f)
  <2>1. /\ \A o \in Requests \ {q} : req'[o] = req[o]
        /\ req'[q].served = req[q].served \cup {g}
    BY <1>0, <1>2 DEF Serve, Request
  <2>2. q = r /\ g = f
    BY <2>1
  <2> QED BY <1>2, <2>2
<1>3. ASSUME NEW q \in Requests, Leave(q)
      PROVE  FALSE
  <2>1. q = r => req'[r].served = {}
    BY <1>0, <1>3 DEF Leave, Idle
  <2> QED BY <1>0, <1>3, <2>1 DEF Leave
<1>4. CASE req' = req
  BY <1>4
<1> QED
  BY <1>1, <1>2, <1>3, <1>4
  DEF ZNext, zvars, Resolver, Scoped, Others, Grant, Revoke, Changed, List,
      Get, Update, Delete, WithRLS, EndTx, RecordMFA, Tick

(* RolesWereHeld holds: no field is served on a role its user did not hold *)
(* during the request.                                                     *)
THEOREM RolesHold == ZSpec => RolesWereHeld
<1>1. ASSUME ZInv, [ZNext]_zvars
      PROVE  [\A r \in Requests : \A f \in req'[r].served \ req[r].served :
                 f \in DOMAIN Auth /\ Auth[f].roles # {} =>
                    HadBypass(r) \/ \E x \in Auth[f].roles : Had(r, x)]_zvars
  <2> SUFFICES ASSUME NEW r \in Requests,
                      NEW f \in req'[r].served \ req[r].served,
                      f \in DOMAIN Auth, Auth[f].roles # {}
               PROVE  HadBypass(r) \/ \E x \in Auth[f].roles : Had(r, x)
    OBVIOUS
  <2>1. req[r].open /\ \E d \in Skews : Allows(Auth[f], req[r].p, d)
    BY <1>1, OnlyServeServes DEF ZInv, Serve
  <2>2. anyRole(req[r].p, Auth[f].roles)
    BY <2>1 DEF Allows
  <2>3. req[r].p.roles \subseteq since[r]
    BY <1>1, <2>1 DEF ZInv, PrincipalInv
  <2> QED BY <2>2, <2>3, HadFromRoles DEF anyRole
<1> QED BY <1>1, Authorization, PTL DEF ZSpec, RolesWereHeld

(* StepUpFresh holds: a step-up field is served within the window of the   *)
(* user's last second factor, lengthened by the skew of the clocks, only.  *)
THEOREM StepUpHolds == ZSpec => StepUpFresh
<1>1. ASSUME ZInv, [ZNext]_zvars
      PROVE  [\A r \in Requests : \A f \in req'[r].served \ req[r].served :
                 f \in DOMAIN Auth /\ Auth[f].mfa =>
                   LET u == req[r].p.user
                   IN  /\ u \in Users /\ mfaAt[u] # 0
                       /\ clock - mfaAt[u] <= MFAWindow + MaxSkew]_zvars
  <2> SUFFICES ASSUME NEW r \in Requests,
                      NEW f \in req'[r].served \ req[r].served,
                      f \in DOMAIN Auth, Auth[f].mfa
               PROVE  /\ req[r].p.user \in Users /\ mfaAt[req[r].p.user] # 0
                      /\ clock - mfaAt[req[r].p.user] <= MFAWindow + MaxSkew
    OBVIOUS
  <2>1. Serve(r, f)
    BY <1>1, OnlyServeServes DEF ZInv
  <2>2. req[r].open /\ \E d \in Skews : Allows(Auth[f], req[r].p, d)
    BY <2>1 DEF Serve
  <2>3. PICK d \in Skews : Allows(Auth[f], req[r].p, d)
    BY <2>2
  <2>4. req[r].p.user # Nobody /\ SteppedUp(req[r].p, d)
    BY <2>3 DEF Allows
  <2> DEFINE m == req[r].p.mfa
             n == mfaAt[req[r].p.user]
  <2>5. req[r].p.user \in Users /\ m \in Nat
    BY <1>1, <2>4 DEF ZInv, ZTypeOK, Request, Principal
  <2>6. n \in Nat /\ clock \in Nat
    BY <1>1, <2>5 DEF ZInv, ZTypeOK
  <2>7. m <= n
    BY <1>1, <2>2, <2>4 DEF ZInv, PrincipalInv
  <2>8. m # 0 /\ clock + d - m <= MFAWindow
    BY <2>4 DEF SteppedUp, Since
  <2>9. d \in Int /\ -MaxSkew <= d /\ MaxSkew \in Nat /\ MFAWindow \in Nat
    BY <2>3, AuthzAssumption DEF Skews
  <2> HIDE DEF m, n
  <2>10. n # 0 /\ clock - n <= MFAWindow + MaxSkew
    BY <2>5, <2>6, <2>7, <2>8, <2>9
  <2> QED BY <2>5, <2>10 DEF n
<1> QED BY <1>1, Authorization, PTL DEF ZSpec, StepUpFresh

(* WrittenRowsWereOwned holds: a row changes under a request of its owner  *)
(* or of a user with the bypass role only.                                 *)
THEOREM RowsWritten == ZSpec => WrittenRowsWereOwned
<1>1. ASSUME ZInv, [ZNext]_zvars
      PROVE  [\A x \in Rows : rows'[x] # rows[x] =>
                 \E r \in Requests :
                    /\ req[r].open /\ req[r].p.user # Nobody
                    /\ rows[x] = req[r].p.user \/ HadBypass(r)]_zvars
  <2> SUFFICES ASSUME NEW x \in Rows, rows'[x] # rows[x]
               PROVE  \E r \in Requests :
                        /\ req[r].open /\ req[r].p.user # Nobody
                        /\ rows[x] = req[r].p.user \/ HadBypass(r)
    OBVIOUS
  <2>1. ASSUME NEW r \in Requests, req[r].open,
               NEW y \in Rows, NEW opts \in Clauses, x \in ByKey(r, y, opts)
        PROVE  /\ req[r].open /\ req[r].p.user # Nobody
               /\ rows[x] = req[r].p.user \/ HadBypass(r)
    <3>1. /\ req[r].p.user # Nobody
          /\ ~Bypasses(req[r].p) => rows[x] = req[r].p.user
      BY <2>1, KeyGuards
    <3>2. Bypasses(req[r].p) => HadBypass(r)
      BY <1>1, <2>1, HadFromRoles DEF ZInv, PrincipalInv
    <3> QED BY <2>1, <3>1, <3>2
  <2>2. ASSUME NEW r \in Requests, NEW y \in Rows, NEW opts \in Clauses,
               NEW u \in Users, Update(r, y, opts, u)
        PROVE  req[r].open /\ x \in ByKey(r, y, opts)
    BY <2>2 DEF Update, Resolving
  <2>3. ASSUME NEW r \in Requests, NEW y \in Rows, NEW opts \in Clauses,
               Delete(r, y, opts)
        PROVE  req[r].open /\ x \in ByKey(r, y, opts)
    BY <2>3 DEF Delete, Resolving
  <2>4. ASSUME NEW r \in Requests, Scoped(r)
        PROVE  \E y \in Rows : \E opts \in Clauses :
                  req[r].open /\ x \in ByKey(r, y, opts)
    BY <2>2, <2>3, <2>4 DEF Scoped, List, Get
  <2>5. \/ \E r \in Requests : Scoped(r)
        \/ rows' = rows
    BY <1>1
    DEF ZNext, zvars, Resolver, Others, Grant, Revoke, Changed, Arrive,
        Serve, Leave, WithRLS, EndTx, RecordMFA, Tick
  <2>6. PICK r \in Requests : Scoped(r)
    BY <2>5
  <2>7. PICK y \in Rows : \E opts \in Clauses :
           req[r].open /\ x \in ByKey(r, y, opts)
    BY <2>4, <2>6
  <2> QED BY <2>1, <2>7
<1> QED BY <1>1, Authorization, PTL DEF ZSpec, WrittenRowsWereOwned

-----------------------------------------------------------------------------
(***************************************************************************)
(* Documents.                                                              *)
(***************************************************************************)
Depth == Limit(MaxDepth, DefaultMaxDepth)
Down(set, p) == Cardinality(FieldsTo(set, p))

LEMMA DepthIs == Depth \in Nat /\ Depth - 1 \in Nat
<1>1. Depth \in Nat \ {0}
  BY GuardAssumption DEF Depth, Limit
<1> QED BY <1>1

LEMMA Scales ==
    ASSUME NEW l \in Nat, NEW x \in Nat, NEW y \in Nat, x + 1 <= y
    PROVE  l * x + l <= l * y
<1>1. PICK k \in Nat : y = x + 1 + k
  <2>1. y - (x + 1) \in Nat /\ y = x + 1 + (y - (x + 1))
    OBVIOUS
  <2> QED BY <2>1
<1>2. l * y = l * x + l + l * k
  BY <1>1
<1>3. l * k \in Nat /\ l * x \in Nat
  BY <1>1
<1> QED BY <1>2, <1>3

LEMMA DownIs ==
    ASSUME NEW set, NEW p \in Seq(Nat)
    PROVE  IsFiniteSet(FieldsTo(set, p)) /\ Down(set, p) \in Nat
<1>1. Len(p) \in Nat /\ IsFiniteSet(1 .. Len(p))
  BY LenProperties, FS_Interval
<1>2. FieldsTo(set, p) \subseteq 1 .. Len(p)
  BY DEF FieldsTo
<1>3. IsFiniteSet(FieldsTo(set, p))
  BY <1>1, <1>2, FS_Subset
<1> QED BY <1>3, FS_CardinalityType DEF Down

LEMMA DownAtRoot ==
    ASSUME NEW set
    PROVE  Down(set, <<>>) = 0
<1>1. FieldsTo(set, <<>>) = {}
  BY DEF FieldsTo
<1> QED BY <1>1, FS_EmptySet DEF Down

(* Prefixes of an address are those of the address above it, and itself.   *)
LEMMA Prefixes ==
    ASSUME NEW a \in Seq(Nat), NEW x \in Nat
    PROVE  /\ \A i \in 1 .. Len(a) :
                 SubSeq(Append(a, x), 1, i) = SubSeq(a, 1, i)
           /\ SubSeq(Append(a, x), 1, Len(a) + 1) = Append(a, x)
<1> DEFINE p == Append(a, x)
<1>1. /\ p \in Seq(Nat) /\ Len(p) = Len(a) + 1 /\ Len(a) \in Nat
      /\ \A i \in 1 .. Len(a) : p[i] = a[i]
  BY AppendProperties, LenProperties
<1> HIDE DEF p
<1>2. ASSUME NEW i \in 1 .. Len(a)
      PROVE  SubSeq(p, 1, i) = SubSeq(a, 1, i)
  <2>1. \A j \in 1 .. i : p[j] = a[j]
    <3>1. 1 .. i \subseteq 1 .. Len(a)
      BY <1>1
    <3> QED BY <1>1, <3>1
  <2>2. SubSeq(p, 1, i) = [j \in 1 .. i |-> p[j]]
    BY <1>1
  <2>3. SubSeq(a, 1, i) = [j \in 1 .. i |-> a[j]]
    BY <1>1
  <2> QED BY <2>1, <2>2, <2>3
<1>3. SubSeq(p, 1, Len(p)) = p
  <2>1. SubSeq(p, 1, Len(p)) = [j \in 1 .. Len(p) |-> p[j]]
    BY <1>1
  <2> QED BY <1>1, <2>1
<1> QED BY <1>1, <1>2, <1>3 DEF p

(* One step down is inside one field more, if it is a field. *)
LEMMA StepDown ==
    ASSUME NEW set, NEW a \in Seq(Nat), NEW x \in Nat
    PROVE  Down(set, Append(a, x)) =
              IF set[Append(a, x)].kind = "field" THEN Down(set, a) + 1
                                                  ELSE Down(set, a)
<1> DEFINE p == Append(a, x)
           n == Len(a) + 1
<1>1. Len(p) = n /\ Len(a) \in Nat
  BY AppendProperties, LenProperties
<1>2. /\ \A i \in 1 .. Len(a) : SubSeq(p, 1, i) = SubSeq(a, 1, i)
      /\ SubSeq(p, 1, n) = p
  BY Prefixes
<1>3. 1 .. Len(p) = (1 .. Len(a)) \cup {n} /\ n \notin 1 .. Len(a)
  BY <1>1
<1> HIDE DEF p, n
<1>4. FieldsTo(set, p) = FieldsTo(set, a)
                            \cup (IF set[p].kind = "field" THEN {n} ELSE {})
  BY <1>2, <1>3 DEF FieldsTo
<1>5. IsFiniteSet(FieldsTo(set, a)) /\ n \notin FieldsTo(set, a)
  BY <1>3, DownIs DEF FieldsTo
<1>6. CASE set[p].kind = "field"
  <2>1. Cardinality(FieldsTo(set, a) \cup {n}) = Cardinality(FieldsTo(set, a)) + 1
    BY <1>5, FS_AddElement
  <2> QED BY <1>4, <1>6, <2>1 DEF Down, p
<1>7. CASE set[p].kind # "field"
  BY <1>4, <1>7 DEF Down, p
<1> QED BY <1>6, <1>7

(* No selection of an admitted document is inside more fields than the cap *)
(* less one.                                                               *)
LEMMA WithinCap ==
    ASSUME NEW d, IsDocument(d), Admitted(d),
           NEW n \in DOMAIN d.sets, NEW p \in DOMAIN d.sets[n]
    PROVE  Down(d.sets[n], p) <= Depth - 1
<1> DEFINE w == <<n, p>>
<1>1. w \in Walked(d) /\ w[1] = n /\ w[2] = p
  BY DEF Walked
<1>2. level(d.sets[n], p) <= Depth
  BY <1>1 DEF Admitted, Shallow, Depth
<1>3. Down(d.sets[n], p) \in Nat
  BY DownIs DEF IsDocument
<1> QED BY <1>2, <1>3, DepthIs DEF level, Down

(* Ranks, and the definitions an operation may have come through. *)
Rank(d) ==
    CHOOSE rank \in [DOMAIN d.sets -> 0 .. Cardinality(DOMAIN d.sets)] :
        Descends(d, rank)
Parts(d, o) == Fragments(d) \cup {o}
Higher(d, o, n) == {m \in Parts(d, o) : Rank(d)[m] > Rank(d)[n]}

LEMMA RankIs ==
    ASSUME NEW d, IsDocument(d)
    PROVE  /\ \A n \in DOMAIN d.sets : Rank(d)[n] \in Nat
           /\ Descends(d, Rank(d))
<1>1. Cardinality(DOMAIN d.sets) \in Nat
  BY FS_CardinalityType DEF IsDocument
<1>2. /\ Rank(d) \in [DOMAIN d.sets -> 0 .. Cardinality(DOMAIN d.sets)]
      /\ Descends(d, Rank(d))
  BY DEF IsDocument, Rank
<1> QED BY <1>1, <1>2

LEMMA PartsAre ==
    ASSUME NEW d, IsDocument(d), NEW o \in d.operations
    PROVE  /\ Parts(d, o) \subseteq DOMAIN d.sets
           /\ IsFiniteSet(Parts(d, o)) /\ IsFiniteSet(Fragments(d))
           /\ Cardinality(Parts(d, o)) = Cardinality(Fragments(d)) + 1
           /\ Cardinality(Fragments(d)) \in Nat
<1>1. Fragments(d) \subseteq DOMAIN d.sets /\ o \notin Fragments(d)
  BY DEF Fragments
<1>2. IsFiniteSet(Fragments(d))
  BY <1>1, FS_Subset DEF IsDocument
<1>3. /\ IsFiniteSet(Fragments(d) \cup {o})
      /\ Cardinality(Fragments(d) \cup {o}) = Cardinality(Fragments(d)) + 1
  BY <1>1, <1>2, FS_AddElement
<1> QED BY <1>1, <1>2, <1>3, FS_CardinalityType DEF Parts, IsDocument

LEMMA HigherIs ==
    ASSUME NEW d, IsDocument(d), NEW o \in d.operations, NEW n \in Parts(d, o)
    PROVE  /\ IsFiniteSet(Higher(d, o, n))
           /\ Cardinality(Higher(d, o, n)) \in Nat
           /\ Cardinality(Higher(d, o, n)) <= Cardinality(Fragments(d))
<1>1. Higher(d, o, n) \subseteq Parts(d, o) \ {n}
  BY RankIs, PartsAre DEF Higher
<1>2. /\ IsFiniteSet(Parts(d, o) \ {n})
      /\ Cardinality(Parts(d, o) \ {n}) = Cardinality(Parts(d, o)) - 1
  BY PartsAre, FS_RemoveElement
<1>3. /\ IsFiniteSet(Higher(d, o, n))
      /\ Cardinality(Higher(d, o, n)) <= Cardinality(Parts(d, o) \ {n})
  BY <1>1, <1>2, FS_Subset
<1> QED BY <1>2, <1>3, PartsAre, FS_CardinalityType

(* A spread goes to a definition with more above it. *)
LEMMA HigherGrows ==
    ASSUME NEW d, IsDocument(d), NEW o \in d.operations,
           NEW n \in Parts(d, o), NEW m \in Parts(d, o),
           Rank(d)[m] < Rank(d)[n]
    PROVE  Cardinality(Higher(d, o, n)) + 1 <= Cardinality(Higher(d, o, m))
<1>1. n \notin Higher(d, o, n)
  BY RankIs, PartsAre DEF Higher
<1>2. Higher(d, o, n) \cup {n} \subseteq Higher(d, o, m)
  BY RankIs, PartsAre DEF Higher
<1>3. /\ IsFiniteSet(Higher(d, o, n) \cup {n})
      /\ Cardinality(Higher(d, o, n) \cup {n}) = Cardinality(Higher(d, o, n)) + 1
  BY <1>1, HigherIs, FS_AddElement
<1>4. Cardinality(Higher(d, o, n) \cup {n}) <= Cardinality(Higher(d, o, m))
  BY <1>2, HigherIs, FS_Subset
<1> QED BY <1>3, <1>4

(* An admitted document selects a sensitive field at one place at most. *)
LEMMA OnePlace ==
    ASSUME NEW d, IsDocument(d), Admitted(d), NEW f \in SensitiveFields,
           NEW v \in Counts(d, f), NEW w \in Counts(d, f)
    PROVE  v = w
<1>1. IsFiniteSet(Walked(d))
  <2> DEFINE T == {{n} \X DOMAIN d.sets[n] : n \in DOMAIN d.sets}
             g == [n \in DOMAIN d.sets |-> {n} \X DOMAIN d.sets[n]]
  <2>1. IsFiniteSet(T)
    <3>1. g \in [DOMAIN d.sets -> T] /\ \A t \in T : \E n \in DOMAIN d.sets : g[n] = t
      OBVIOUS
    <3>2. g \in Surjection(DOMAIN d.sets, T)
      BY <3>1 DEF Surjection
    <3> QED BY <3>2, FS_Surjection DEF IsDocument
  <2>2. \A n \in DOMAIN d.sets : IsFiniteSet({n} \X DOMAIN d.sets[n])
    BY FS_Product, FS_Singleton DEF IsDocument
  <2> QED BY <2>1, <2>2, FS_UNION DEF Walked
<1>2. Counts(d, f) \subseteq Walked(d)
  BY DEF Counts, FieldsOf
<1>3. IsFiniteSet(Counts(d, f)) /\ Cardinality(Counts(d, f)) <= 1
  BY <1>1, <1>2, FS_Subset DEF Admitted, Once
<1> SUFFICES ASSUME v # w PROVE FALSE
  OBVIOUS
<1>4. {v, w} \subseteq Counts(d, f)
  OBVIOUS
<1>5. Cardinality({v, w}) = 2
  <2>1. IsFiniteSet({v}) /\ Cardinality({v}) = 1
    BY FS_Singleton
  <2>2. Cardinality({v} \cup {w}) = 2
    BY <2>1, FS_AddElement
  <2> QED BY <2>2
<1>6. Cardinality({v, w}) <= Cardinality(Counts(d, f))
  BY <1>3, <1>4, FS_Subset
<1>7. Cardinality(Counts(d, f)) \in Nat
  BY <1>3, FS_CardinalityType
<1> QED BY <1>3, <1>5, <1>6, <1>7

-----------------------------------------------------------------------------
(***************************************************************************)
(* Requests with documents.  What is said of one request is said of its    *)
(* place, the keys it has answered and the fields it has run.              *)
(***************************************************************************)

(* The place is in a definition the operation leads to, and inside no more *)
(* fields than the cap allows in each of those above and in this one.      *)
Deep(c) ==
    LET d == Documents[c.doc]
    IN  /\ Admitted(d) /\ c.in \in Parts(d, c.op)
        /\ c.height <= (Depth - 1) * Cardinality(Higher(d, c.op, c.in))
                          + Down(d.sets[c.in], c.addr)

(* A sensitive field ran once at most, under a key that stays answered.    *)
Answered(c, a, n) ==
    \A f \in SensitiveFields :
        /\ n[f] <= 1
        /\ n[f] > 0 => \E w \in Counts(Documents[c.doc], f) :
                          <<At(Documents[c.doc], w).key, "value">> \in a

Executes(c, a, n) == IsPlace(c) /\ Deep(c) /\ Answered(c, a, n)

Rest(c, a, n) == c = Nowhere /\ a = {} /\ n = NoneRan

Sound(open, c, a, n) ==
    /\ a \in SUBSET (STRING \X {"value", "null"})
    /\ n \in [SensitiveFields -> Nat]
    /\ \/ Rest(c, a, n)
       \/ open /\ Executes(c, a, n)

RInv ==
    /\ ZTypeOK /\ DOMAIN at = Requests
    /\ answered \in [Requests -> SUBSET (STRING \X {"value", "null"})]
    /\ ran \in [Requests -> [SensitiveFields -> Nat]]
    /\ \A r \in Requests : Sound(req[r].open, at[r], answered[r], ran[r])

LEMMA RestSound ==
    ASSUME NEW open
    PROVE  Sound(open, Nowhere, {}, NoneRan)
<1>1. NoneRan \in [SensitiveFields -> Nat]
  BY DEF NoneRan
<1>2. {} \in SUBSET (STRING \X {"value", "null"})
  OBVIOUS
<1>3. Rest(Nowhere, {}, NoneRan)
  BY DEF Rest
<1> QED BY <1>1, <1>2, <1>3 DEF Sound

LEMMA SoundOpens ==
    ASSUME NEW open, NEW opens, NEW c, NEW a, NEW n,
           Sound(open, c, a, n), c # Nowhere => opens
    PROVE  Sound(opens, c, a, n)
<1>1. CASE Rest(c, a, n)
  BY <1>1 DEF Sound
<1>2. CASE open /\ Executes(c, a, n)
  <2>1. c # Nowhere
    <3>1. ~IsPlace(Nowhere)
      BY RequestAssumption DEF IsPlace, Nowhere
    <3> QED BY <1>2, <3>1 DEF Executes
  <2> QED BY <1>2, <2>1 DEF Sound
<1> QED BY <1>1, <1>2 DEF Sound

(* A request that is somewhere. *)
LEMMA Somewhere ==
    ASSUME RInv, NEW r \in Requests, at[r] # Nowhere
    PROVE  /\ req[r].open /\ Executes(at[r], answered[r], ran[r])
           /\ at[r].doc \in DOMAIN Documents /\ IsDocument(Doc(r))
           /\ at[r].op \in Doc(r).operations /\ at[r].in \in DOMAIN Doc(r).sets
           /\ at[r].height \in Nat /\ at[r].addr \in Seq(Nat)
           /\ at[r].addr \in {<<>>} \cup DOMAIN Set(r)
           /\ at[r] = [doc |-> at[r].doc, op |-> at[r].op, in |-> at[r].in,
                       height |-> at[r].height, addr |-> at[r].addr]
<1>1. req[r].open /\ Executes(at[r], answered[r], ran[r])
  BY DEF RInv, Sound, Rest
<1>2. /\ at[r].doc \in DOMAIN Documents
      /\ at[r] \in [doc: {at[r].doc}, op: Doc(r).operations,
                    in: DOMAIN Doc(r).sets, height: Nat,
                    addr: {<<>>} \cup DOMAIN Set(r)]
  BY <1>1 DEF Executes, IsPlace, Doc, Set
<1>3. IsDocument(Doc(r))
  BY <1>2, RequestAssumption DEF Doc
<1>4. DOMAIN Set(r) \subseteq Seq(Nat)
  BY <1>2, <1>3 DEF IsDocument, Set
<1>5. <<>> \in Seq(Nat)
  BY EmptySeq
<1> QED BY <1>1, <1>2, <1>3, <1>4, <1>5

(* A selection inside the one it is at. *)
LEMMA InsideIs ==
    ASSUME RInv, NEW r \in Requests, NEW p \in Inside(r)
    PROVE  /\ at[r] # Nowhere /\ p \in DOMAIN Set(r)
           /\ Set(r)[p] \in Selection
           /\ <<at[r].in, p>> \in Walked(Doc(r))
           /\ At(Doc(r), <<at[r].in, p>>) = Set(r)[p]
           /\ Set(r)[p].kind = "field" => Set(r)[p].name \in Fields
           /\ Down(Set(r), p) = IF Set(r)[p].kind = "field"
                                THEN Down(Set(r), at[r].addr) + 1
                                ELSE Down(Set(r), at[r].addr)
           /\ Down(Set(r), p) \in Nat /\ Down(Set(r), at[r].addr) \in Nat
<1>1. /\ at[r] # Nowhere /\ p \in DOMAIN Set(r)
      /\ p = Append(at[r].addr, p[Len(p)])
  BY DEF Inside
<1>2. /\ at[r].doc \in DOMAIN Documents /\ IsDocument(Doc(r))
      /\ at[r].in \in DOMAIN Doc(r).sets /\ at[r].addr \in Seq(Nat)
  BY <1>1, Somewhere
<1>3. Set(r)[p] \in Selection /\ p \in Seq(Nat) /\ p # <<>>
  BY <1>1, <1>2 DEF IsDocument, Set
<1>4. <<at[r].in, p>> \in Walked(Doc(r))
  BY <1>1, <1>2 DEF Walked, Set
<1>5. At(Doc(r), <<at[r].in, p>>) = Set(r)[p]
  BY DEF At, Set
<1>6. Set(r)[p].kind = "field" => Set(r)[p].name \in Fields
  BY <1>2, <1>4, <1>5, RequestAssumption DEF Doc
<1>7. p[Len(p)] \in Nat
  BY <1>3, LenProperties, ElementOfSeq
<1>8. Down(Set(r), Append(at[r].addr, p[Len(p)])) =
         IF Set(r)[Append(at[r].addr, p[Len(p)])].kind = "field"
         THEN Down(Set(r), at[r].addr) + 1 ELSE Down(Set(r), at[r].addr)
  BY <1>2, <1>7, StepDown
<1>9. Down(Set(r), p) \in Nat /\ Down(Set(r), at[r].addr) \in Nat
  BY <1>2, <1>3, DownIs
<1> QED BY <1>1, <1>3, <1>4, <1>5, <1>6, <1>8, <1>9

(* The start of an operation is a place. *)
LEMMA StartIs ==
    ASSUME NEW n \in DOMAIN Documents, NEW o \in Documents[n].operations,
           Admitted(Documents[n])
    PROVE  /\ IsPlace(Start(n, o)) /\ Deep(Start(n, o))
           /\ Start(n, o) # Nowhere /\ Start(n, o).doc = n
<1> DEFINE d == Documents[n]
<1>1. IsDocument(d)
  BY RequestAssumption
<1>2. o \in DOMAIN d.sets
  BY <1>1 DEF IsDocument
<1>3. IsPlace(Start(n, o)) /\ Start(n, o).doc = n
  BY <1>2 DEF IsPlace, Start
<1>4. Start(n, o) # Nowhere
  BY RequestAssumption DEF Start, Nowhere
<1>5. o \in Parts(d, o)
  BY DEF Parts
<1>6. Down(d.sets[o], <<>>) = 0
  BY DownAtRoot
<1>7. 0 <= (Depth - 1) * Cardinality(Higher(d, o, o)) + 0
  <2>1. Cardinality(Higher(d, o, o)) \in Nat
    BY <1>1, <1>5, HigherIs
  <2>2. (Depth - 1) * Cardinality(Higher(d, o, o)) \in Nat
    BY <2>1, DepthIs
  <2> QED BY <2>2
<1>8. Deep(Start(n, o))
  BY <1>5, <1>6, <1>7 DEF Deep, Start
<1> QED BY <1>3, <1>4, <1>8

(* One step down keeps the place sound, into a field one deeper. *)
LEMMA DownSound ==
    ASSUME RInv, NEW r \in Requests, NEW p \in Inside(r), NEW h \in Nat,
           h = IF Set(r)[p].kind = "field" THEN at[r].height + 1
                                           ELSE at[r].height,
           NEW c, c = [doc |-> at[r].doc, op |-> at[r].op, in |-> at[r].in,
                       height |-> h, addr |-> p]
    PROVE  IsPlace(c) /\ Deep(c) /\ c # Nowhere
<1>1. /\ at[r] # Nowhere /\ p \in DOMAIN Set(r)
      /\ Down(Set(r), p) = IF Set(r)[p].kind = "field"
                           THEN Down(Set(r), at[r].addr) + 1
                           ELSE Down(Set(r), at[r].addr)
      /\ Down(Set(r), p) \in Nat /\ Down(Set(r), at[r].addr) \in Nat
  BY InsideIs
<1>2. /\ Executes(at[r], answered[r], ran[r]) /\ IsDocument(Doc(r))
      /\ at[r].doc \in DOMAIN Documents
      /\ at[r].op \in Doc(r).operations /\ at[r].in \in DOMAIN Doc(r).sets
      /\ at[r].height \in Nat
  BY <1>1, Somewhere
<1>3. IsPlace(c)
  BY <1>1, <1>2 DEF IsPlace, Doc, Set
<1>4. c # Nowhere
  BY <1>2, RequestAssumption DEF Nowhere
<1>5. /\ Admitted(Doc(r)) /\ at[r].in \in Parts(Doc(r), at[r].op)
      /\ at[r].height <=
            (Depth - 1) * Cardinality(Higher(Doc(r), at[r].op, at[r].in))
               + Down(Set(r), at[r].addr)
  BY <1>2 DEF Executes, Deep, Doc, Set
<1> DEFINE k == (Depth - 1) * Cardinality(Higher(Doc(r), at[r].op, at[r].in))
<1>6. k \in Nat
  BY <1>2, <1>5, HigherIs, DepthIs
<1>7. at[r].height <= k + Down(Set(r), at[r].addr)
  BY <1>5
<1> HIDE DEF k
<1>8. h <= k + Down(Set(r), p)
  BY <1>1, <1>2, <1>6, <1>7
<1>9. Deep(c)
  BY <1>5, <1>8 DEF Deep, Doc, Set, k
<1> QED BY <1>3, <1>4, <1>9

(* So does following a spread: there is one definition more above. *)
LEMMA FollowSound ==
    ASSUME RInv, NEW r \in Requests, NEW p \in Inside(r),
           Set(r)[p].kind = "spread",
           NEW c, c = [doc |-> at[r].doc, op |-> at[r].op,
                       in |-> Set(r)[p].name, height |-> at[r].height,
                       addr |-> <<>>]
    PROVE  IsPlace(c) /\ Deep(c) /\ c # Nowhere
<1> DEFINE d == Doc(r)
           o == at[r].op
           n == at[r].in
           m == Set(r)[p].name
<1>1. /\ at[r] # Nowhere /\ p \in DOMAIN Set(r)
      /\ Down(Set(r), p) = Down(Set(r), at[r].addr)
      /\ Down(Set(r), p) \in Nat
  BY InsideIs
<1>2. /\ Executes(at[r], answered[r], ran[r]) /\ IsDocument(d)
      /\ at[r].doc \in DOMAIN Documents
      /\ o \in d.operations /\ n \in DOMAIN d.sets /\ at[r].height \in Nat
  BY <1>1, Somewhere
<1>3. /\ Admitted(d) /\ n \in Parts(d, o)
      /\ at[r].height <= (Depth - 1) * Cardinality(Higher(d, o, n))
                            + Down(Set(r), at[r].addr)
  BY <1>2 DEF Executes, Deep, Doc, Set
<1>4. m \in Fragments(d) /\ Rank(d)[m] < Rank(d)[n]
  BY <1>1, <1>2, RankIs DEF Descends, Set
<1>5. m \in Parts(d, o) /\ m \in DOMAIN d.sets
  BY <1>4 DEF Parts, Fragments
<1>6. IsPlace(c)
  BY <1>2, <1>5 DEF IsPlace, Doc
<1>7. c # Nowhere
  BY <1>2, RequestAssumption DEF Nowhere
<1>8. Down(Set(r), p) <= Depth - 1
  BY <1>1, <1>2, <1>3, WithinCap DEF Set
<1>9. at[r].height <= (Depth - 1) * Cardinality(Higher(d, o, m))
  <2> DEFINE x == Cardinality(Higher(d, o, n))
             y == Cardinality(Higher(d, o, m))
             z == Down(Set(r), p)
             l == Depth - 1
  <2>1. x \in Nat /\ y \in Nat /\ x + 1 <= y
    BY <1>2, <1>3, <1>4, <1>5, HigherIs, HigherGrows
  <2>2. l \in Nat /\ z \in Nat /\ z <= l /\ at[r].height <= l * x + z
    BY <1>1, <1>3, <1>8, DepthIs
  <2> HIDE DEF x, y, z, l
  <2>3. l * x + l <= l * y
    BY <2>1, <2>2, Scales
  <2>4. l * x \in Nat /\ l * y \in Nat
    BY <2>1, <2>2
  <2>5. at[r].height <= l * y
    BY <1>2, <2>2, <2>3, <2>4
  <2> QED BY <2>5 DEF l, y
<1>10. Down(d.sets[m], <<>>) = 0
  BY DownAtRoot
<1>11. (Depth - 1) * Cardinality(Higher(d, o, m)) \in Nat
  BY <1>2, <1>5, HigherIs, DepthIs
<1>12. Deep(c)
  BY <1>2, <1>3, <1>5, <1>9, <1>10, <1>11 DEF Deep, Doc
<1> QED BY <1>6, <1>7, <1>12

-----------------------------------------------------------------------------
(* The steps. *)

LEMMA StepIsAuthz ==
    ASSUME RInv, [RNext]_rvars
    PROVE  [ZNext]_zvars
<1>1. ASSUME NEW r \in Requests, NEW p \in Inside(r), Set(r)[p].kind = "field",
             Serve(r, Set(r)[p].name)
      PROVE  ZNext
  BY <1>1, InsideIs DEF ZNext
<1>2. ASSUME NEW r \in Requests, NEW p \in Inside(r),
             \/ Pass(r, p) \/ Follow(r, p) \/ Run(r, p)
             \/ Deny(r, p) \/ Merge(r, p) \/ RunInside(r, p)
      PROVE  [ZNext]_zvars
  BY <1>1, <1>2 DEF Pass, Follow, Run, Deny, Merge, RunInside, Own, zvars
<1>3. ASSUME NEW r \in Requests, NEW n \in DOMAIN Documents,
             \/ \E o \in Documents[n].operations : Intercept(r, n, o)
             \/ Refuse(r, n)
      PROVE  [ZNext]_zvars
  BY <1>3 DEF Intercept, Refuse, ZNext, zvars
<1>4. ASSUME NEW r \in Requests,
             \/ \E u \in Users \cup {Nobody} : Enter(r, u)
             \/ Return(r) \/ Resolver(r) \/ Answer(r)
      PROVE  [ZNext]_zvars
  BY <1>4 DEF Enter, Return, Answer, ZNext, zvars
<1>5. CASE Others
  BY <1>5 DEF ZNext
<1>6. CASE UNCHANGED rvars
  BY <1>6 DEF rvars, zvars
<1> QED BY <1>2, <1>3, <1>4, <1>5, <1>6 DEF RNext

LEMMA Frame ==
    ASSUME RInv, ZTypeOK', NEW r \in Requests, DOMAIN at' = Requests,
           answered' \in [Requests -> SUBSET (STRING \X {"value", "null"})],
           ran' \in [Requests -> [SensitiveFields -> Nat]],
           \A q \in Requests \ {r} :
              /\ at'[q] = at[q] /\ answered'[q] = answered[q]
              /\ ran'[q] = ran[q]
              /\ req[q].open => req'[q].open,
           Sound(req'[r].open, at'[r], answered'[r], ran'[r])
    PROVE  RInv'
<1>1. ASSUME NEW q \in Requests
      PROVE  Sound(req'[q].open, at'[q], answered'[q], ran'[q])
  <2>1. CASE q = r
    BY <2>1
  <2>2. CASE q # r
    <3>1. Sound(req[q].open, at[q], answered[q], ran[q])
      BY DEF RInv
    <3>2. at[q] # Nowhere => req'[q].open
      BY <2>2, Somewhere
    <3>3. Sound(req'[q].open, at[q], answered[q], ran[q])
      BY <3>1, <3>2, SoundOpens
    <3> QED BY <2>2, <3>3
  <2> QED BY <2>1, <2>2
<1> QED BY <1>1 DEF RInv

(* A request that only moves. *)
LEMMA MoveSound ==
    ASSUME RInv, ZTypeOK', NEW r \in Requests, at[r] # Nowhere,
           NEW c, c.doc = at[r].doc, IsPlace(c), Deep(c),
           DOMAIN at' = Requests, at'[r] = c,
           \A q \in Requests \ {r} : at'[q] = at[q],
           \A q \in Requests : req'[q].open = req[q].open,
           UNCHANGED <<answered, ran>>
    PROVE  RInv'
<1>1. req[r].open /\ Executes(at[r], answered[r], ran[r])
  BY Somewhere
<1>2. Answered(c, answered[r], ran[r])
  BY <1>1 DEF Executes, Answered
<1>3. Executes(c, answered[r], ran[r])
  BY <1>2 DEF Executes
<1>4. Sound(req'[r].open, c, answered[r], ran[r])
  BY <1>1, <1>3 DEF RInv, Sound
<1>5. /\ answered' \in [Requests -> SUBSET (STRING \X {"value", "null"})]
      /\ ran' \in [Requests -> [SensitiveFields -> Nat]]
  BY DEF RInv
<1> QED BY <1>4, <1>5, Frame

(* A step that moves nobody. *)
LEMMA StillSound ==
    ASSUME RInv, ZTypeOK', UNCHANGED <<at, answered, ran>>,
           \A q \in Requests : at[q] # Nowhere => req'[q].open
    PROVE  RInv'
<1>1. ASSUME NEW q \in Requests
      PROVE  Sound(req'[q].open, at[q], answered[q], ran[q])
  <2>1. Sound(req[q].open, at[q], answered[q], ran[q])
    BY DEF RInv
  <2> QED BY <2>1, SoundOpens
<1> QED BY <1>1 DEF RInv

LEMMA ServeOpens ==
    ASSUME ZTypeOK, NEW r \in Requests, NEW f, Serve(r, f)
    PROVE  \A q \in Requests : req'[q].open = req[q].open
BY DEF ZTypeOK, Serve, Request

LEMMA PassStep ==
    ASSUME RInv, ZTypeOK', NEW r \in Requests, NEW p \in Inside(r), Pass(r, p)
    PROVE  RInv'
<1> DEFINE c == [doc |-> at[r].doc, op |-> at[r].op, in |-> at[r].in,
                 height |-> at[r].height, addr |-> p]
<1>1. at[r] # Nowhere /\ DOMAIN at = Requests
  BY InsideIs DEF RInv
<1>2. at[r].height \in Nat
      /\ at[r] = [doc |-> at[r].doc, op |-> at[r].op, in |-> at[r].in,
                  height |-> at[r].height, addr |-> at[r].addr]
  BY <1>1, Somewhere
<1>3. /\ DOMAIN at' = Requests /\ at'[r] = c
      /\ \A q \in Requests \ {r} : at'[q] = at[q]
      /\ UNCHANGED <<req, answered, ran>>
  BY <1>1, <1>2 DEF Pass, zvars
<1>4. IsPlace(c) /\ Deep(c)
  BY <1>2, DownSound DEF Pass
<1> HIDE DEF c
<1>5. c.doc = at[r].doc
  BY DEF c
<1> QED BY <1>1, <1>3, <1>4, <1>5, MoveSound

LEMMA FollowStep ==
    ASSUME RInv, ZTypeOK', NEW r \in Requests, NEW p \in Inside(r), Follow(r, p)
    PROVE  RInv'
<1> DEFINE c == [doc |-> at[r].doc, op |-> at[r].op, in |-> Set(r)[p].name,
                 height |-> at[r].height, addr |-> <<>>]
<1>1. at[r] # Nowhere /\ DOMAIN at = Requests
  BY InsideIs DEF RInv
<1>2. at[r] = [doc |-> at[r].doc, op |-> at[r].op, in |-> at[r].in,
               height |-> at[r].height, addr |-> at[r].addr]
  BY <1>1, Somewhere
<1>3. /\ DOMAIN at' = Requests /\ at'[r] = c
      /\ \A q \in Requests \ {r} : at'[q] = at[q]
      /\ UNCHANGED <<req, answered, ran>>
  BY <1>1, <1>2 DEF Follow, zvars
<1>4. IsPlace(c) /\ Deep(c)
  BY FollowSound DEF Follow
<1> HIDE DEF c
<1>5. c.doc = at[r].doc
  BY DEF c
<1> QED BY <1>1, <1>3, <1>4, <1>5, MoveSound

(* Into a field. *)
LEMMA EntersIs ==
    ASSUME RInv, NEW r \in Requests, NEW p \in Inside(r), Enters(r, p),
           Set(r)[p].kind = "field"
    PROVE  /\ DOMAIN at' = Requests
           /\ \A q \in Requests \ {r} : at'[q] = at[q]
           /\ at'[r].doc = at[r].doc /\ IsPlace(at'[r]) /\ Deep(at'[r])
           /\ at[r] # Nowhere
<1> DEFINE c == [doc |-> at[r].doc, op |-> at[r].op, in |-> at[r].in,
                 height |-> at[r].height + 1, addr |-> p]
<1>1. at[r] # Nowhere /\ DOMAIN at = Requests
  BY InsideIs DEF RInv
<1>2. at[r].height \in Nat
      /\ at[r] = [doc |-> at[r].doc, op |-> at[r].op, in |-> at[r].in,
                  height |-> at[r].height, addr |-> at[r].addr]
  BY <1>1, Somewhere
<1>3. /\ DOMAIN at' = Requests /\ at'[r] = c
      /\ \A q \in Requests \ {r} : at'[q] = at[q]
  BY <1>1, <1>2 DEF Enters
<1>4. IsPlace(c) /\ Deep(c)
  BY <1>2, DownSound
<1>5. c.doc = at[r].doc
  OBVIOUS
<1> QED BY <1>1, <1>3, <1>4, <1>5

LEMMA EnterStep ==
    ASSUME RInv, ZTypeOK', NEW r \in Requests, NEW p \in Inside(r),
           Merge(r, p) \/ RunInside(r, p)
    PROVE  RInv'
<1>1. Set(r)[p].kind = "field" /\ Enters(r, p) /\ UNCHANGED <<answered, ran>>
  BY DEF Merge, RunInside, Own
<1>2. \A q \in Requests : req'[q].open = req[q].open
  BY ServeOpens DEF Merge, RunInside, zvars, RInv
<1> QED BY <1>1, <1>2, EntersIs, MoveSound

LEMMA AnswersTyped ==
    ASSUME RInv, NEW r \in Requests, NEW p \in Inside(r),
           NEW what \in {"value", "null"}, Answers(r, p, what)
    PROVE  /\ answered' \in [Requests -> SUBSET (STRING \X {"value", "null"})]
           /\ answered'[r] = answered[r] \cup {<<Set(r)[p].key, what>>}
           /\ \A q \in Requests \ {r} : answered'[q] = answered[q]
<1>1. Set(r)[p].key \in STRING
  BY InsideIs DEF Selection
<1> QED BY <1>1 DEF RInv, Answers

LEMMA RunStep ==
    ASSUME RInv, ZTypeOK', NEW r \in Requests, NEW p \in Inside(r), Run(r, p)
    PROVE  RInv'
<1> DEFINE s == Set(r)[p]
           w == <<at[r].in, p>>
           a == answered[r] \cup {<<s.key, "value">>}
<1>1. s.kind = "field" /\ Enters(r, p) /\ Fresh(r, p)
  BY DEF Run, Own
<1>2. /\ DOMAIN at' = Requests
      /\ \A q \in Requests \ {r} : at'[q] = at[q]
      /\ at'[r].doc = at[r].doc /\ IsPlace(at'[r]) /\ Deep(at'[r])
      /\ at[r] # Nowhere
  BY <1>1, EntersIs
<1>3. \A q \in Requests : req'[q].open = req[q].open
  BY ServeOpens DEF Run, RInv
<1>4. /\ answered' \in [Requests -> SUBSET (STRING \X {"value", "null"})]
      /\ answered'[r] = a
      /\ \A q \in Requests \ {r} : answered'[q] = answered[q]
  BY AnswersTyped DEF Run
<1>5. /\ req[r].open /\ Executes(at[r], answered[r], ran[r])
      /\ IsDocument(Doc(r))
  BY <1>2, Somewhere
<1>6. /\ ran' \in [Requests -> [SensitiveFields -> Nat]]
      /\ \A q \in Requests \ {r} : ran'[q] = ran[q]
      /\ \A f \in SensitiveFields :
            ran'[r][f] = IF f = s.name THEN ran[r][f] + 1 ELSE ran[r][f]
      /\ \A f \in SensitiveFields : ran[r][f] \in Nat
  BY DEF Run, RInv
<1>7. w \in FieldsOf(Doc(r)) /\ At(Doc(r), w) = s
  BY <1>1, InsideIs DEF FieldsOf
<1>8. Admitted(Doc(r)) /\ Answered(at[r], answered[r], ran[r])
  BY <1>5 DEF Executes, Deep, Doc
<1> HIDE DEF s, w, a
<1>9. ASSUME NEW f \in SensitiveFields
      PROVE  /\ ran'[r][f] <= 1
             /\ ran'[r][f] > 0 => \E v \in Counts(Doc(r), f) :
                                     <<At(Doc(r), v).key, "value">> \in a
  <2>1. CASE f # s.name
    <3>1. ran'[r][f] = ran[r][f] /\ answered[r] \subseteq a
      BY <1>6, <2>1 DEF a
    <3> QED BY <1>8, <3>1 DEF Answered, Doc
  <2>2. CASE f = s.name
    <3>1. w \in Counts(Doc(r), f)
      BY <1>7, <2>2 DEF Counts
    <3>2. ~(ran[r][f] > 0)
      <4> SUFFICES ASSUME ran[r][f] > 0 PROVE FALSE
        OBVIOUS
      <4>1. PICK v \in Counts(Doc(r), f) :
               <<At(Doc(r), v).key, "value">> \in answered[r]
        BY <1>8 DEF Answered, Doc
      <4>2. v = w
        BY <1>5, <1>8, <3>1, <4>1, OnePlace
      <4>3. <<s.key, "value">> \in answered[r]
        BY <1>7, <4>1, <4>2
      <4> QED BY <1>1, <4>3 DEF Fresh, s
    <3>3. ran'[r][f] = 1
      BY <1>6, <2>2, <3>2
    <3>4. <<At(Doc(r), w).key, "value">> \in a
      BY <1>7 DEF a
    <3> QED BY <3>1, <3>3, <3>4
  <2> QED BY <2>1, <2>2
<1>10. Answered(at'[r], a, ran'[r])
  BY <1>2, <1>9 DEF Answered, Doc
<1>11. Sound(req'[r].open, at'[r], answered'[r], ran'[r])
  BY <1>2, <1>3, <1>4, <1>5, <1>6, <1>10 DEF Sound, Executes
<1> QED BY <1>2, <1>3, <1>4, <1>6, <1>11, Frame

LEMMA DenyStep ==
    ASSUME RInv, ZTypeOK', NEW r \in Requests, NEW p \in Inside(r), Deny(r, p)
    PROVE  RInv'
<1>1. UNCHANGED <<at, req, ran>> /\ Answers(r, p, "null")
  BY DEF Deny, zvars
<1>2. /\ answered' \in [Requests -> SUBSET (STRING \X {"value", "null"})]
      /\ answered[r] \subseteq answered'[r]
      /\ \A q \in Requests \ {r} : answered'[q] = answered[q]
  BY <1>1, AnswersTyped
<1>3. req[r].open /\ Executes(at[r], answered[r], ran[r])
  BY InsideIs, Somewhere
<1>4. Executes(at[r], answered'[r], ran[r])
  BY <1>2, <1>3 DEF Executes, Answered
<1>5. DOMAIN at = Requests /\ ran \in [Requests -> [SensitiveFields -> Nat]]
  BY DEF RInv
<1>6. Sound(req'[r].open, at'[r], answered'[r], ran'[r])
  BY <1>1, <1>2, <1>3, <1>4, <1>5 DEF Sound
<1> QED BY <1>1, <1>2, <1>5, <1>6, Frame

LEMMA InterceptStep ==
    ASSUME RInv, ZTypeOK', NEW r \in Requests, NEW n \in DOMAIN Documents,
           NEW o \in Documents[n].operations, Intercept(r, n, o)
    PROVE  RInv'
<1>1. /\ req[r].open /\ at[r] = Nowhere /\ Admitted(Documents[n])
      /\ UNCHANGED <<req, answered, ran>> /\ DOMAIN at = Requests
  BY DEF Intercept, zvars, RInv
<1>2. /\ DOMAIN at' = Requests /\ at'[r] = Start(n, o)
      /\ \A q \in Requests \ {r} : at'[q] = at[q]
  BY <1>1 DEF Intercept
<1>3. /\ answered \in [Requests -> SUBSET (STRING \X {"value", "null"})]
      /\ ran \in [Requests -> [SensitiveFields -> Nat]]
      /\ answered[r] = {} /\ ran[r] = NoneRan
  <2>1. ~IsPlace(Nowhere)
    BY RequestAssumption DEF IsPlace, Nowhere
  <2> QED BY <1>1, <2>1 DEF RInv, Sound, Rest, Executes
<1>4. IsPlace(Start(n, o)) /\ Deep(Start(n, o))
  BY <1>1, StartIs
<1>5. Answered(Start(n, o), answered[r], ran[r])
  BY <1>3 DEF Answered, NoneRan
<1>6. Sound(req'[r].open, at'[r], answered'[r], ran'[r])
  BY <1>1, <1>2, <1>3, <1>4, <1>5 DEF Sound, Executes
<1> QED BY <1>1, <1>2, <1>3, <1>6, Frame

LEMMA ReturnStep ==
    ASSUME RInv, ZTypeOK', NEW r \in Requests, Return(r)
    PROVE  RInv'
<1> DEFINE c == Start(at[r].doc, at[r].op)
<1>1. /\ at[r] # Nowhere /\ UNCHANGED <<req, answered, ran>>
      /\ DOMAIN at = Requests
  BY DEF Return, zvars, RInv
<1>2. /\ at[r].doc \in DOMAIN Documents /\ at[r].op \in Doc(r).operations
      /\ Executes(at[r], answered[r], ran[r])
  BY <1>1, Somewhere
<1>3. /\ DOMAIN at' = Requests /\ at'[r] = c
      /\ \A q \in Requests \ {r} : at'[q] = at[q]
  BY <1>1 DEF Return
<1>4. Admitted(Doc(r))
  BY <1>2 DEF Executes, Deep, Doc
<1>5. IsPlace(c) /\ Deep(c) /\ c.doc = at[r].doc
  BY <1>2, <1>4, StartIs DEF Doc
<1> QED BY <1>1, <1>3, <1>5, MoveSound

LEMMA AnswerStep ==
    ASSUME RInv, ZTypeOK', NEW r \in Requests, Answer(r)
    PROVE  RInv'
<1>1. /\ \A q \in Requests \ {r} : req'[q] = req[q]
      /\ DOMAIN at = Requests
  BY DEF Answer, Leave, RInv, ZTypeOK
<1>2. /\ DOMAIN at' = Requests /\ at'[r] = Nowhere
      /\ \A q \in Requests \ {r} : at'[q] = at[q]
  BY <1>1 DEF Answer
<1>3. NoneRan \in [SensitiveFields -> Nat]
  BY DEF NoneRan
<1>4. /\ answered' \in [Requests -> SUBSET (STRING \X {"value", "null"})]
      /\ answered'[r] = {}
      /\ \A q \in Requests \ {r} : answered'[q] = answered[q]
  BY DEF Answer, RInv
<1>5. /\ ran' \in [Requests -> [SensitiveFields -> Nat]]
      /\ ran'[r] = NoneRan
      /\ \A q \in Requests \ {r} : ran'[q] = ran[q]
  BY <1>3 DEF Answer, RInv
<1>6. Sound(req'[r].open, at'[r], answered'[r], ran'[r])
  BY <1>2, <1>4, <1>5, RestSound
<1> QED BY <1>1, <1>2, <1>4, <1>5, <1>6, Frame

(* Nobody who is somewhere is shut. *)
LEMMA StayOpen ==
    ASSUME RInv, ZTypeOK', NEW r \in Requests,
           \/ \E u \in Users \cup {Nobody} : Enter(r, u)
           \/ \E n \in DOMAIN Documents : Refuse(r, n)
    PROVE  RInv'
<1>1. UNCHANGED <<at, answered, ran>>
  BY DEF Enter, Refuse
<1>2. \A q \in Requests : at[q] # Nowhere => req[q].open
  BY Somewhere
<1>3. \A q \in Requests : at[q] # Nowhere => req'[q].open
  <2>1. CASE \E u \in Users \cup {Nobody} : Arrive(r, u)
    BY <1>2, <2>1 DEF Arrive, RInv, ZTypeOK
  <2>2. CASE at[r] = Nowhere /\ Leave(r)
    BY <1>2, <2>2 DEF Leave, RInv, ZTypeOK
  <2> QED BY <2>1, <2>2 DEF Enter, Refuse
<1> QED BY <1>1, <1>3, StillSound

LEMMA RInvStep == RInv /\ [RNext]_rvars => RInv'
<1> SUFFICES ASSUME RInv, [RNext]_rvars PROVE RInv'
  OBVIOUS
<1>1. ZTypeOK'
  BY StepIsAuthz, ZTypeStep DEF RInv
<1>2. ASSUME UNCHANGED <<at, answered, ran, req>>
      PROVE  RInv'
  <2>1. \A q \in Requests : at[q] # Nowhere => req'[q].open
    BY <1>2, Somewhere
  <2> QED BY <1>1, <1>2, <2>1, StillSound
<1>3. ASSUME NEW r \in Requests, Resolver(r), UNCHANGED <<at, answered, ran>>
      PROVE  RInv'
  <2>1. req' = req
    BY <1>3 DEF Resolver, Scoped, List, Get, Update, Delete, WithRLS, EndTx
  <2> QED BY <1>2, <1>3, <2>1
<1>4. ASSUME Others, UNCHANGED <<at, answered, ran>>
      PROVE  RInv'
  <2>1. req' = req
    BY <1>4 DEF Others, RecordMFA, Grant, Revoke, Changed, Tick
  <2> QED BY <1>2, <1>4, <2>1
<1>5. CASE UNCHANGED rvars
  BY <1>2, <1>5 DEF rvars
<1> QED
  BY <1>1, <1>3, <1>4, <1>5, PassStep, FollowStep, RunStep, DenyStep, EnterStep,
     InterceptStep, ReturnStep, AnswerStep, StayOpen
  DEF RNext

LEMMA RInvInit == RInit => RInv
<1> SUFFICES ASSUME RInit PROVE RInv
  OBVIOUS
<1>1. ZTypeOK
  BY ZTypeInit DEF RInit
<1>2. NoneRan \in [SensitiveFields -> Nat]
  BY DEF NoneRan
<1>3. /\ answered \in [Requests -> SUBSET (STRING \X {"value", "null"})]
      /\ ran \in [Requests -> [SensitiveFields -> Nat]]
  BY <1>2 DEF RInit
<1>4. \A r \in Requests : Sound(req[r].open, at[r], answered[r], ran[r])
  BY RestSound DEF RInit
<1> QED BY <1>1, <1>3, <1>4 DEF RInit, RInv

(* The inductive invariant of requests with documents. *)
THEOREM Execution == RSpec => []RInv
<1>1. RInv /\ [RNext]_rvars => RInv'
  BY RInvStep
<1> QED BY RInvInit, <1>1, PTL DEF RSpec

(* Every reachable state of a request with a document is well typed: the   *)
(* execution is at a selection of the document's, and nowhere when the     *)
(* request is answered.                                                    *)
THEOREM RequestTyped == RSpec => []RTypeOK
<1>1. RInv => RTypeOK
  BY DEF RInv, Sound, Rest, Executes, RTypeOK
<1> QED BY <1>1, Execution, PTL

(* No request resolves a sensitive field of its operation twice. *)
THEOREM SensitiveHolds == RSpec => []SensitiveOnce
<1>1. RInv => SensitiveOnce
  <2> SUFFICES ASSUME RInv, NEW r \in Requests, NEW f \in SensitiveFields
               PROVE  ran[r][f] <= 1
    BY DEF SensitiveOnce
  <2>1. CASE ran[r] = NoneRan
    BY <2>1 DEF NoneRan
  <2>2. CASE Answered(at[r], answered[r], ran[r])
    BY <2>2 DEF Answered
  <2> QED BY <2>1, <2>2 DEF RInv, Sound, Rest, Executes
<1> QED BY <1>1, Execution, PTL

(* The cap on depth bounds the execution by one operation and every        *)
(* fragment of the document.                                               *)
THEOREM NestingHolds == RSpec => []NestingBounded
<1>1. RInv => NestingBounded
  <2> SUFFICES ASSUME RInv, NEW r \in Requests, at[r] # Nowhere
               PROVE  at[r].height <=
                         (Depth - 1) * (1 + Cardinality(Fragments(Doc(r))))
    BY DEF NestingBounded, Depth
  <2> DEFINE d == Doc(r)
             x == Cardinality(Higher(d, at[r].op, at[r].in))
             y == Cardinality(Fragments(d))
             z == Down(Set(r), at[r].addr)
             l == Depth - 1
  <2>1. /\ Executes(at[r], answered[r], ran[r]) /\ IsDocument(d)
        /\ at[r].op \in d.operations /\ at[r].in \in DOMAIN d.sets
        /\ at[r].height \in Nat /\ at[r].addr \in {<<>>} \cup DOMAIN Set(r)
        /\ at[r].addr \in Seq(Nat)
    BY Somewhere
  <2>2. /\ Admitted(d) /\ at[r].in \in Parts(d, at[r].op)
        /\ at[r].height <= l * x + z
    BY <2>1 DEF Executes, Deep, Doc, Set
  <2>3. x \in Nat /\ y \in Nat /\ x <= y
    BY <2>1, <2>2, HigherIs, PartsAre
  <2>4. l \in Nat /\ z \in Nat
    BY <2>1, DepthIs, DownIs
  <2>5. z <= l
    <3>1. CASE at[r].addr = <<>>
      BY <2>4, <3>1, DownAtRoot
    <3>2. CASE at[r].addr \in DOMAIN Set(r)
      BY <2>1, <2>2, <3>2, WithinCap DEF Set
    <3> QED BY <2>1, <3>1, <3>2
  <2> HIDE DEF d, x, y, z, l
  <2>6. l * x + l <= l * (1 + y)
    BY <2>3, <2>4, Scales
  <2>7. l * x \in Nat /\ l * (1 + y) \in Nat
    BY <2>3, <2>4
  <2>8. at[r].height <= l * (1 + y)
    BY <2>1, <2>2, <2>4, <2>5, <2>6, <2>7
  <2> QED BY <2>8 DEF d, y, l
<1> QED BY <1>1, Execution, PTL

(* A request with a document takes the steps of one without: the document  *)
(* decides which fields are asked for, in what order.                      *)
LEMMA RequestsAreRequests == RSpec => ZSpec
<1>1. RInit => ZInit
  BY DEF RInit
<1>2. RInv /\ [RNext]_rvars => [ZNext]_zvars
  BY StepIsAuthz
<1> QED BY <1>1, <1>2, Execution, PTL DEF RSpec, ZSpec

(* So what is proved of Authz holds of them: rows, settings, roles and     *)
(* second factors are the caller's, whatever documents are sent.           *)
COROLLARY DocumentsChangeNothing ==
    RSpec => /\ []ShownRowsAreOwned /\ []SettingsAreTheCallers
             /\ RolesWereHeld /\ StepUpFresh /\ WrittenRowsWereOwned
BY RequestsAreRequests, RowsShown, SettingsHold, RolesHold, StepUpHolds,
   RowsWritten, PTL
=============================================================================
