-------------------------------- MODULE JWT --------------------------------
(***************************************************************************)
(* session.JWT: bearer tokens minted from the principal of a request, and  *)
(* verified by processes that hold the keys or by services that cache the  *)
(* published key set, while sessions end and the keys are rotated.         *)
(*                                                                         *)
(* Keys are numbered in the order they are introduced, so that a process   *)
(* holds <<k>> or, during a rotation, <<k + 1, k>>: newest first.  Time    *)
(* runs in ticks, Unit of them to a second: the claims count whole seconds *)
(* and the clocks do not.  One issuer, one audience, and the user is the   *)
(* session's: what Verify says of other claims is left out.                *)
(***************************************************************************)
EXTENDS Integers, Sequences, FiniteSets

CONSTANTS
    SessionIds, Requests,
    Instances,   \* the processes behind the load balancer
    Remotes,     \* services that know the published key set only
    Unit,        \* ticks in a second
    TTLs,        \* lifetimes asked for, in ticks
    MaxTokenTTL,
    MaxAge,      \* the max-age of the key set
    MaxRequest,  \* bound: the longest a request runs
    MaxKey,      \* bound: keys ever introduced
    MaxTokens,   \* bound: tokens in the field
    MaxClock     \* bound: ticks

ASSUME JWTAssumption ==
    /\ {Unit, MaxTokenTTL, MaxKey} \subseteq Nat \ {0}
    /\ {MaxAge, MaxRequest, MaxTokens, MaxClock} \subseteq Nat
    /\ TTLs \subseteq Int /\ Instances # {}

VARIABLES
    clock,
    live,       \* the sessions that resolve
    ended,      \* history: when each of the others ended
    keys,       \* the keys each process was configured with
    published,  \* when a process last began to sign with the newest key
    dropped,    \* history: when each key left a process for the last time
    req,        \* what each request in progress holds
    tokens,     \* tokens in the field
    jwks        \* the key set each remote has cached

jvars == <<clock, live, ended, keys, published, dropped, req, tokens, jwks>>

KeyLists == {<<k>> : k \in 1 .. MaxKey}
              \cup {<<k + 1, k>> : k \in 1 .. MaxKey - 1}
Held(list) == {list[n] : n \in DOMAIN list}

(* sid and keys: the principal's session and the keys of the process that  *)
(* serves the request, which a deployment does not take away from it.      *)
Request == [sid: SessionIds, keys: KeyLists, at: Nat]
NoRequest == [sid |-> {}]

(* exp is in seconds.  seen and due are history: when the principal was    *)
(* resolved, and until when the caller asked for the token to be good.     *)
Token == [key: 1 .. MaxKey, kid: 1 .. MaxKey, sid: SessionIds,
          exp: Nat, seen: Nat, due: Nat]

KeySet == [keys: SUBSET (1 .. MaxKey), at: Nat]

JTypeOK ==
    /\ clock \in 0 .. MaxClock
    /\ live \in SUBSET SessionIds
    /\ ended \in [SessionIds -> Nat]
    /\ keys \in [Instances -> KeyLists]
    /\ published \in Nat
    /\ dropped \in [1 .. MaxKey -> Nat]
    /\ req \in [Requests -> Request \cup {NoRequest}]
    /\ tokens \in SUBSET Token
    /\ jwks \in [Remotes -> KeySet]

JInit ==
    /\ clock = 0
    /\ live = SessionIds
    /\ ended = [s \in SessionIds |-> 0]
    /\ keys = [i \in Instances |-> <<1>>]
    /\ published = 0
    /\ dropped = [k \in 1 .. MaxKey |-> 0]
    /\ req = [r \in Requests |-> NoRequest]
    /\ tokens = {}
    /\ jwks = [v \in Remotes |-> [keys |-> {1}, at |-> 0]]

-----------------------------------------------------------------------------
(* Requests. *)

(* A request whose cookie resolves: the principal is the whole request's.  *)
Arrive(r, i, s) ==
    /\ req[r] = NoRequest /\ s \in live
    /\ req' = [req EXCEPT ![r] = [sid |-> s, keys |-> keys[i], at |-> clock]]
    /\ UNCHANGED <<clock, live, ended, keys, published, dropped, tokens, jwks>>

(* Defect: only a lifetime that was not given is replaced. *)
CappedIfAbsent(ttl) == IF ttl <= 0 THEN MaxTokenTTL ELSE ttl

Capped(ttl) ==
    IF ttl <= 0 \/ ttl > MaxTokenTTL THEN MaxTokenTTL ELSE ttl

(* time.Time.Unix *)
Seconds(t) == t \div Unit

(* Token checks nothing but that there is a principal. *)
Mint(r, ttl) ==
    /\ req[r] # NoRequest /\ Cardinality(tokens) < MaxTokens
    /\ LET k == Head(req[r].keys)
           asked == IF ttl \in 1 .. MaxTokenTTL THEN ttl ELSE MaxTokenTTL
       IN  tokens' = tokens \cup
              {[key |-> k, kid |-> k, sid |-> req[r].sid,
                exp |-> Seconds(clock + Capped(ttl)),
                seen |-> req[r].at, due |-> clock + asked]}
    /\ UNCHANGED <<clock, live, ended, keys, published, dropped, req, jwks>>

Finish(r) ==
    /\ req[r] # NoRequest
    /\ req' = [req EXCEPT ![r] = NoRequest]
    /\ UNCHANGED <<clock, live, ended, keys, published, dropped, tokens, jwks>>

(* A session is revoked or runs out. *)
End(s) ==
    /\ s \in live
    /\ live' = live \ {s}
    /\ ended' = [ended EXCEPT ![s] = clock]
    /\ UNCHANGED <<clock, keys, published, dropped, req, tokens, jwks>>

-----------------------------------------------------------------------------
(* Verification. *)

(* Defect: the key that signs is taken to be the one that signed. *)
keyfuncNewest(list, tok) == {Head(list)}

(* The keys a signature is tried with: the one the kid names, or all.      *)
keyfunc(list, tok) ==
    IF tok.kid \in Held(list) THEN {tok.kid} ELSE Held(list)

Expired(tok) == clock >= tok.exp * Unit

Verify(list, tok) == tok.key \in keyfunc(list, tok) /\ ~Expired(tok)

(* Defect: every key there ever was. *)
JWKSForever(list) == 1 .. Head(list)

JWKS(list) == Held(list)

(* A service without the private keys: the cached set while it is fresh.   *)
Fresh(v) == clock < jwks[v].at + MaxAge
RemoteAccepts(v, tok) ==
    Fresh(v) /\ tok.key \in jwks[v].keys /\ ~Expired(tok)

Fetch(v, i) ==
    /\ jwks' = [jwks EXCEPT ![v] = [keys |-> JWKS(keys[i]), at |-> clock]]
    /\ UNCHANGED <<clock, live, ended, keys, published, dropped, req, tokens>>

-----------------------------------------------------------------------------
(* Rotation as jwt.go and SECURITY.md describe it, one process at a time:  *)
(* publish the new key alongside the old, let what the old one signed      *)
(* drain, drop it.  Requests in progress finish in the process they began. *)

Publish(i) ==
    /\ Len(keys[i]) = 1 /\ keys[i][1] < MaxKey
    /\ LET k == keys[i][1]
       IN  /\ \A j \in Instances : keys[j] \in {<<k>>, <<k + 1, k>>}
           /\ keys' = [keys EXCEPT ![i] = <<k + 1, k>>]
    /\ published' = clock
    /\ UNCHANGED <<clock, live, ended, dropped, req, tokens, jwks>>

Drained == clock >= published + MaxRequest + MaxTokenTTL

Drop(i) ==
    /\ Len(keys[i]) = 2 /\ Drained
    /\ LET k == keys[i][1]
       IN  /\ \A j \in Instances : keys[j][1] = k
           /\ keys' = [keys EXCEPT ![i] = <<k>>]
           /\ dropped' = [dropped EXCEPT ![k - 1] = clock]
    /\ UNCHANGED <<clock, live, ended, published, req, tokens, jwks>>

Tick ==
    /\ clock < MaxClock
    /\ \A r \in Requests : req[r] # NoRequest => clock < req[r].at + MaxRequest
    /\ clock' = clock + 1
    /\ UNCHANGED <<live, ended, keys, published, dropped, req, tokens, jwks>>

JNext ==
    \/ \E r \in Requests, i \in Instances, s \in SessionIds : Arrive(r, i, s)
    \/ \E r \in Requests, ttl \in TTLs : Mint(r, ttl)
    \/ \E r \in Requests : Finish(r)
    \/ \E s \in SessionIds : End(s)
    \/ \E v \in Remotes, i \in Instances : Fetch(v, i)
    \/ \E i \in Instances : Publish(i) \/ Drop(i)
    \/ Tick

JSpec == JInit /\ [][JNext]_jvars

-----------------------------------------------------------------------------
(* Properties. *)

AcceptedSomewhere(tok) ==
    \/ \E i \in Instances : Verify(keys[i], tok)
    \/ \E v \in Remotes : RemoteAccepts(v, tok)

(* A token outlives its session by the ceiling and by what was left of the *)
(* request that minted it, and by no more: nothing looks at the session    *)
(* when a token is minted or verified.                                     *)
RevocationWindow ==
    \A tok \in tokens :
        tok.sid \notin live /\ AcceptedSomewhere(tok)
            => clock < ended[tok.sid] + MaxRequest + MaxTokenTTL

(* A token is good for as long as was asked for, less the fraction of a    *)
(* second its claims cannot hold, through any rotation, at every process   *)
(* and in every cached key set that is not older than its key.             *)
GoodWhileDue ==
    \A tok \in tokens : clock + Unit <= tok.due =>
        /\ \A i \in Instances : keys[i][1] >= tok.key
                => Verify(keys[i], tok)
        /\ \A v \in Remotes :
              Fresh(v) /\ (\E k \in jwks[v].keys : k >= tok.key)
                => RemoteAccepts(v, tok)

(* Once every process has dropped a key and the caches have run out, no    *)
(* signature by it is taken anywhere, whoever holds the key.               *)
RetiredKeyDies ==
    \A k \in 1 .. MaxKey :
        /\ \A i \in Instances : keys[i][1] > k /\ k \notin Held(keys[i])
        /\ clock >= dropped[k] + MaxAge
        => \A v \in Remotes : Fresh(v) => k \notin jwks[v].keys
=============================================================================
