----------------------------- MODULE JWTProofs -----------------------------
(***************************************************************************)
(* What TLAPS proves of module JWT, for every number of sessions, requests *)
(* processes, services and keys, and every choice of lifetimes.            *)
(***************************************************************************)
EXTENDS JWT, TLAPS

(* A set of keys that has reached k still has it. *)
Keeps(S, k) == (\E n \in S : n >= k) => k \in S

(* Whoever has learned of key k, or of a later one, verifies by k. *)
Kept(ks, sets, k) ==
    /\ \A i \in Instances : Keeps(Held(ks[i]), k)
    /\ \A v \in Remotes : Keeps(sets[v].keys, k)

Passed(ks, k) == \A i \in Instances : ks[i][1] > k

(* A request runs for MaxRequest at most, and its session was live when it *)
(* arrived.                                                                *)
RequestInv ==
    \A r \in Requests : req[r] # NoRequest =>
        /\ req[r].at <= clock /\ clock <= req[r].at + MaxRequest
        /\ req[r].sid \in live \/ req[r].at <= ended[req[r].sid]

(* The claims of a token against what is known of how it was minted. *)
TokenInv ==
    \A t \in tokens :
        /\ t.kid = t.key /\ t.seen <= clock
        /\ t.sid \in live \/ t.seen <= ended[t.sid]
        /\ t.exp * Unit <= t.seen + MaxRequest + MaxTokenTTL
        /\ t.due < t.exp * Unit + Unit
        /\ t.due <= clock + MaxTokenTTL

(* The newest key of any process is kept by all who reached it, and nobody *)
(* outside knows a key that no process has.                                *)
HeadInv ==
    /\ \A i \in Instances : Kept(keys, jwks, keys[i][1])
    /\ \A v \in Remotes : \A k \in jwks[v].keys :
          \E i \in Instances : k <= keys[i][1]

(* So is the key that a request will sign with and the key of a token that *)
(* is due; once every process signs with a later one they were there       *)
(* before the last of them began to.                                       *)
SigningInv ==
    \A r \in Requests : req[r] # NoRequest =>
        /\ Kept(keys, jwks, req[r].keys[1])
        /\ Passed(keys, req[r].keys[1]) => req[r].at <= published

DueInv ==
    \A t \in tokens :
        /\ clock < t.due => Kept(keys, jwks, t.key)
        /\ Passed(keys, t.key) => t.due <= published + MaxRequest + MaxTokenTTL

(* A key set that has a key no process has was fetched before it went. *)
Gone(ks, k) == Passed(ks, k) /\ \A i \in Instances : k \notin Held(ks[i])
CacheInv ==
    \A v \in Remotes :
        /\ jwks[v].at <= clock
        /\ \A k \in jwks[v].keys : Gone(keys, k) => jwks[v].at <= dropped[k]

JInv == /\ JTypeOK /\ RequestInv /\ TokenInv
        /\ HeadInv /\ SigningInv /\ DueInv /\ CacheInv

-----------------------------------------------------------------------------
(* Operators. *)

(* A list of keys is one key, or one and its predecessor. *)
LEMMA KeyListIs ==
    ASSUME NEW list \in KeyLists
    PROVE  /\ list[1] \in 1 .. MaxKey /\ Head(list) = list[1]
           /\ list[1] \in Held(list) /\ Held(list) \subseteq 1 .. MaxKey
           /\ \A k \in Held(list) : k <= list[1] /\ k >= list[1] - 1
           /\ Len(list) = 1 => list = <<list[1]>> /\ Held(list) = {list[1]}
           /\ Len(list) = 2 => /\ list = <<list[1], list[1] - 1>>
                               /\ list[1] - 1 \in 1 .. MaxKey
                               /\ Held(list) = {list[1], list[1] - 1}
<1> USE JWTAssumption
<1>1. CASE \E k \in 1 .. MaxKey : list = <<k>>
  <2> PICK k \in 1 .. MaxKey : list = <<k>>
    BY <1>1
  <2>1. Held(list) = {k}
    BY DEF Held
  <2> QED BY <2>1
<1>2. CASE \E k \in 1 .. MaxKey - 1 : list = <<k + 1, k>>
  <2> PICK k \in 1 .. MaxKey - 1 : list = <<k + 1, k>>
    BY <1>2
  <2>1. Held(list) = {k + 1, k}
    <3>1. DOMAIN list = {1, 2}
      OBVIOUS
    <3> QED BY <3>1 DEF Held
  <2> QED BY <2>1
<1> QED BY <1>1, <1>2 DEF KeyLists

LEMMA OneKey ==
    ASSUME NEW k \in 1 .. MaxKey
    PROVE  <<k>> \in KeyLists /\ Held(<<k>>) = {k} /\ <<k>>[1] = k
BY DEF KeyLists, Held

LEMMA TwoKeys ==
    ASSUME NEW k \in 1 .. MaxKey, k < MaxKey
    PROVE  /\ <<k + 1, k>> \in KeyLists
           /\ Held(<<k + 1, k>>) = {k + 1, k} /\ <<k + 1, k>>[1] = k + 1
<1>1. DOMAIN <<k + 1, k>> = {1, 2}
  OBVIOUS
<1> QED BY <1>1, JWTAssumption DEF KeyLists, Held

(* Whole seconds lose less than one second. *)
LEMMA Truncation ==
    ASSUME NEW t \in Nat
    PROVE  /\ Seconds(t) \in Nat
           /\ Seconds(t) * Unit <= t /\ t < Seconds(t) * Unit + Unit
<1> Unit \in Nat \ {0}
  BY JWTAssumption
<1> QED BY SMT DEF Seconds

LEMMA CappedIs ==
    ASSUME NEW ttl \in TTLs
    PROVE  /\ Capped(ttl) \in 0 .. MaxTokenTTL
           /\ Capped(ttl) = IF ttl \in 1 .. MaxTokenTTL THEN ttl ELSE MaxTokenTTL
BY JWTAssumption DEF Capped

-----------------------------------------------------------------------------
(* Type correctness. *)

LEMMA JTypeInit == JInit => JTypeOK
<1> USE JWTAssumption
<1>1. <<1>> \in KeyLists
  BY OneKey
<1> QED BY <1>1 DEF JInit, JTypeOK, KeySet

(* The token a request mints. *)
Minted(r, ttl) ==
    [key |-> Head(req[r].keys), kid |-> Head(req[r].keys), sid |-> req[r].sid,
     exp |-> Seconds(clock + Capped(ttl)), seen |-> req[r].at,
     due |-> clock + Capped(ttl)]

LEMMA MintAdds ==
    ASSUME NEW r \in Requests, NEW ttl \in TTLs, Mint(r, ttl)
    PROVE  tokens' = tokens \cup {Minted(r, ttl)}
BY CappedIs DEF Mint, Minted

LEMMA MintedType ==
    ASSUME JTypeOK, NEW r \in Requests, NEW ttl \in TTLs, Mint(r, ttl)
    PROVE  /\ Minted(r, ttl) \in Token /\ req[r] \in Request
           /\ req[r].keys \in KeyLists
<1>1. req[r] \in Request /\ req[r].keys \in KeyLists
  BY DEF JTypeOK, Mint, Request
<1>2. Head(req[r].keys) \in 1 .. MaxKey
  BY <1>1, KeyListIs
<1>3. clock + Capped(ttl) \in Nat
  BY CappedIs, JWTAssumption DEF JTypeOK
<1>4. Seconds(clock + Capped(ttl)) \in Nat
  BY <1>3, Truncation
<1> QED BY <1>1, <1>2, <1>3, <1>4 DEF Minted, Token, Request

LEMMA JTypeStep == JTypeOK /\ [JNext]_jvars => JTypeOK'
<1> SUFFICES ASSUME JTypeOK, [JNext]_jvars PROVE JTypeOK'
  OBVIOUS
<1> USE JWTAssumption DEF JTypeOK
<1>1. ASSUME NEW r \in Requests, NEW i \in Instances, NEW s \in SessionIds,
             Arrive(r, i, s)
      PROVE  JTypeOK'
  <2>1. [sid |-> s, keys |-> keys[i], at |-> clock] \in Request
    BY DEF Request
  <2> QED BY <1>1, <2>1 DEF Arrive
<1>2. ASSUME NEW r \in Requests, NEW ttl \in TTLs, Mint(r, ttl)
      PROVE  JTypeOK'
  <2>1. tokens' \in SUBSET Token
    BY <1>2, MintAdds, MintedType
  <2> QED BY <1>2, <2>1 DEF Mint
<1>3. ASSUME NEW r \in Requests, Finish(r)
      PROVE  JTypeOK'
  BY <1>3 DEF Finish
<1>4. ASSUME NEW s \in SessionIds, End(s)
      PROVE  JTypeOK'
  BY <1>4 DEF End
<1>5. ASSUME NEW v \in Remotes, NEW i \in Instances, Fetch(v, i)
      PROVE  JTypeOK'
  <2>1. JWKS(keys[i]) \in SUBSET (1 .. MaxKey)
    BY KeyListIs DEF JWKS
  <2>2. [keys |-> JWKS(keys[i]), at |-> clock] \in KeySet
    BY <2>1 DEF KeySet
  <2> QED BY <1>5, <2>2 DEF Fetch
<1>6. ASSUME NEW i \in Instances, Publish(i)
      PROVE  JTypeOK'
  <2>1. keys[i][1] \in 1 .. MaxKey /\ keys[i][1] < MaxKey
    BY <1>6, KeyListIs DEF Publish
  <2>2. <<keys[i][1] + 1, keys[i][1]>> \in KeyLists
    BY <2>1, TwoKeys
  <2> QED BY <1>6, <2>2 DEF Publish
<1>7. ASSUME NEW i \in Instances, Drop(i)
      PROVE  JTypeOK'
  <2>1. keys[i][1] \in 1 .. MaxKey
    BY KeyListIs
  <2>2. <<keys[i][1]>> \in KeyLists
    BY <2>1, OneKey
  <2>3. keys' \in [Instances -> KeyLists]
    BY <1>7, <2>2 DEF Drop
  <2>4. clock \in Nat
    OBVIOUS
  <2>5. dropped' \in [1 .. MaxKey -> Nat]
    BY <1>7, <2>4 DEF Drop
  <2> QED BY <1>7, <2>3, <2>5 DEF Drop
<1>8. CASE Tick
  BY <1>8 DEF Tick
<1>9. CASE UNCHANGED jvars
  BY <1>9 DEF jvars
<1> QED
  BY <1>1, <1>2, <1>3, <1>4, <1>5, <1>6, <1>7, <1>8, <1>9 DEF JNext

(* Every reachable state of tokens, keys and key sets is well typed. *)
THEOREM TokensTyped == JSpec => []JTypeOK
<1>1. JInit => JTypeOK
  BY JTypeInit
<1>2. JTypeOK /\ [JNext]_jvars => JTypeOK'
  BY JTypeStep
<1> QED BY <1>1, <1>2, PTL DEF JSpec

-----------------------------------------------------------------------------
(* Requests and tokens, whatever happens to the keys. *)

LEMMA RequestStep ==
    JTypeOK /\ RequestInv /\ [JNext]_jvars => RequestInv'
<1> SUFFICES ASSUME JTypeOK, RequestInv, [JNext]_jvars PROVE RequestInv'
  OBVIOUS
<1>0. \A r \in Requests : req[r] # NoRequest => req[r] \in Request
  BY DEF JTypeOK
<1> USE JWTAssumption DEF JTypeOK, RequestInv, Request
<1>1. ASSUME NEW r \in Requests, NEW i \in Instances, NEW s \in SessionIds,
             Arrive(r, i, s)
      PROVE  RequestInv'
  <2>1. req'[r].at = clock /\ req'[r].sid = s /\ s \in live
    BY <1>1 DEF Arrive
  <2>2. \A q \in Requests \ {r} : req'[q] = req[q]
    BY <1>1 DEF Arrive
  <2>3. UNCHANGED <<clock, live, ended>>
    BY <1>1 DEF Arrive
  <2> QED BY <2>1, <2>2, <2>3
<1>2. ASSUME NEW r \in Requests, Finish(r)
      PROVE  RequestInv'
  BY <1>2 DEF Finish
<1>3. ASSUME NEW s \in SessionIds, End(s)
      PROVE  RequestInv'
  BY <1>0, <1>3 DEF End
<1>4. CASE Tick
  BY <1>0, <1>4 DEF Tick
<1>5. CASE UNCHANGED <<clock, live, ended, req>>
  BY <1>5
<1> QED
  BY <1>1, <1>2, <1>3, <1>4, <1>5
  DEF JNext, jvars, Mint, Fetch, Publish, Drop

(* What a token just minted says. *)
LEMMA MintedIs ==
    ASSUME JTypeOK, RequestInv,
           NEW r \in Requests, NEW ttl \in TTLs, Mint(r, ttl)
    PROVE  LET t == Minted(r, ttl) IN
           /\ t.kid = t.key /\ t.key = req[r].keys[1]
           /\ t.seen = req[r].at /\ t.sid = req[r].sid
           /\ t.due <= clock + MaxTokenTTL
           /\ t.exp * Unit <= t.due /\ t.due < t.exp * Unit + Unit
<1>1. req[r].keys \in KeyLists
  BY MintedType
<1>2. Head(req[r].keys) = req[r].keys[1]
  BY <1>1, KeyListIs
<1>3. clock + Capped(ttl) \in Nat /\ Capped(ttl) <= MaxTokenTTL
  BY CappedIs, JWTAssumption DEF JTypeOK
<1>4. LET n == clock + Capped(ttl) IN
      Seconds(n) * Unit <= n /\ n < Seconds(n) * Unit + Unit
  BY <1>3, Truncation
<1> QED
  BY <1>2, <1>3, <1>4, CappedIs, JWTAssumption DEF Minted, JTypeOK

LEMMA TokenStep ==
    JTypeOK /\ RequestInv /\ TokenInv /\ [JNext]_jvars => TokenInv'
<1> SUFFICES ASSUME JTypeOK, RequestInv, TokenInv, [JNext]_jvars
             PROVE  TokenInv'
  OBVIOUS
<1>0. \A t \in tokens : t \in Token
  BY DEF JTypeOK
<1>1. ASSUME NEW r \in Requests, NEW ttl \in TTLs, Mint(r, ttl)
      PROVE  TokenInv'
  <2> DEFINE t == Minted(r, ttl)
  <2>1. tokens' = tokens \cup {t} /\ UNCHANGED <<clock, live, ended>>
    BY <1>1, MintAdds DEF Mint
  <2>2. /\ t.kid = t.key /\ t.seen = req[r].at /\ t.sid = req[r].sid
        /\ t.due <= clock + MaxTokenTTL
        /\ t.exp * Unit <= t.due /\ t.due < t.exp * Unit + Unit
    BY <1>1, MintedIs
  <2>3. t \in Token
    BY <1>1, MintedType
  <2>4. /\ req[r].at <= clock /\ clock <= req[r].at + MaxRequest
        /\ req[r].sid \in live \/ req[r].at <= ended[req[r].sid]
    BY <1>1 DEF Mint, RequestInv
  <2>5. t.exp * Unit <= t.seen + MaxRequest + MaxTokenTTL
    <3> HIDE DEF t
    <3>1. t.exp \in Nat /\ t.due \in Nat
      BY <2>3 DEF Token
    <3>2. t.exp * Unit \in Int
      BY <3>1, JWTAssumption
    <3>3. req[r].at \in Int /\ clock \in Int
      BY <1>1, MintedType DEF Request, JTypeOK
    <3>4. MaxTokenTTL \in Int /\ MaxRequest \in Int
      BY JWTAssumption
    <3> QED BY <2>2, <2>4, <3>1, <3>2, <3>3, <3>4
  <2> HIDE DEF t
  <2> QED BY <2>1, <2>2, <2>4, <2>5 DEF TokenInv
<1>2. ASSUME NEW s \in SessionIds, End(s)
      PROVE  TokenInv'
  <2>1. ASSUME NEW t \in tokens
        PROVE  t.sid \in live' \/ t.seen <= ended'[t.sid]
    BY <1>0, <1>2, <2>1 DEF End, TokenInv, JTypeOK, Token
  <2> QED BY <1>2, <2>1 DEF End, TokenInv
<1>3. CASE Tick
  <2>1. clock \in Int /\ MaxTokenTTL \in Int /\ clock' = clock + 1
        /\ UNCHANGED <<live, ended, tokens>>
    BY <1>3, JWTAssumption DEF Tick, JTypeOK
  <2>2. \A t \in tokens : t.seen \in Int /\ t.due \in Int
    BY <1>0 DEF Token
  <2> QED BY <2>1, <2>2 DEF TokenInv
<1>4. CASE UNCHANGED <<clock, live, ended, tokens>>
  BY <1>4 DEF TokenInv
<1> QED
  BY <1>1, <1>2, <1>3, <1>4
  DEF JNext, jvars, Arrive, Finish, Fetch, Publish, Drop

-----------------------------------------------------------------------------
(* Rotation. *)

(* A process that publishes key k + 1 held k alone, and every process is   *)
(* there or about to be.                                                   *)
LEMMA PublishIs ==
    ASSUME JTypeOK, NEW i \in Instances, Publish(i)
    PROVE  \E k \in 1 .. MaxKey :
              /\ Held(keys[i]) = {k} /\ keys[i][1] = k
              /\ Held(keys'[i]) = {k, k + 1} /\ keys'[i][1] = k + 1
              /\ \A j \in Instances : keys[j][1] \in {k, k + 1}
              /\ \A j \in Instances \ {i} : keys'[j] = keys[j]
<1> DEFINE k == keys[i][1]
<1>1. k \in 1 .. MaxKey /\ Held(keys[i]) = {k} /\ k < MaxKey
  BY KeyListIs DEF Publish, JTypeOK
<1>2. keys' = [keys EXCEPT ![i] = <<k + 1, k>>]
  BY DEF Publish
<1>3. Held(<<k + 1, k>>) = {k + 1, k} /\ <<k + 1, k>>[1] = k + 1
  BY <1>1, TwoKeys
<1>4. \A j \in Instances : keys[j][1] \in {k, k + 1}
  BY <1>1 DEF Publish
<1>5. keys'[i] = <<k + 1, k>> /\ \A j \in Instances \ {i} : keys'[j] = keys[j]
  BY <1>2 DEF JTypeOK
<1> HIDE DEF k
<1>6. /\ Held(keys[i]) = {k} /\ keys[i][1] = k
      /\ Held(keys'[i]) = {k, k + 1} /\ keys'[i][1] = k + 1
  BY <1>1, <1>3, <1>5 DEF k
<1> QED BY <1>1, <1>4, <1>5, <1>6

(* A process that drops key k - 1 keeps k, which every process signs with. *)
LEMMA DropIs ==
    ASSUME JTypeOK, NEW i \in Instances, Drop(i)
    PROVE  \E k \in 1 .. MaxKey :
              /\ k - 1 \in 1 .. MaxKey
              /\ Held(keys[i]) = {k, k - 1} /\ Held(keys'[i]) = {k}
              /\ \A j \in Instances : keys[j][1] = k /\ keys'[j][1] = k
              /\ \A j \in Instances \ {i} : keys'[j] = keys[j]
              /\ dropped' = [dropped EXCEPT ![k - 1] = clock]
<1> DEFINE k == keys[i][1]
<1>1. k \in 1 .. MaxKey /\ k - 1 \in 1 .. MaxKey /\ Held(keys[i]) = {k, k - 1}
  BY KeyListIs DEF Drop, JTypeOK
<1>2. keys' = [keys EXCEPT ![i] = <<k>>]
  BY DEF Drop
<1>3. Held(<<k>>) = {k} /\ <<k>>[1] = k
  BY <1>1, OneKey
<1>4. keys'[i] = <<k>> /\ \A j \in Instances \ {i} : keys'[j] = keys[j]
  BY <1>2 DEF JTypeOK
<1>5. \A j \in Instances : keys[j][1] = k
  BY DEF Drop
<1>6. dropped' = [dropped EXCEPT ![k - 1] = clock]
  BY DEF Drop
<1> HIDE DEF k
<1>7. \A j \in Instances : keys'[j][1] = k
  BY <1>3, <1>4, <1>5
<1> QED BY <1>1, <1>3, <1>4, <1>5, <1>6, <1>7

(* Publishing a key, and fetching the key set, leave every key that was    *)
(* kept kept; dropping one leaves all others.                              *)
LEMMA PublishKeeps ==
    ASSUME JTypeOK, NEW i \in Instances, Publish(i), NEW n \in Int, Kept(keys, jwks, n)
    PROVE  Kept(keys', jwks', n)
<1>1. PICK k \in 1 .. MaxKey :
              /\ Held(keys[i]) = {k} /\ keys[i][1] = k
              /\ Held(keys'[i]) = {k, k + 1} /\ keys'[i][1] = k + 1
              /\ \A j \in Instances : keys[j][1] \in {k, k + 1}
              /\ \A j \in Instances \ {i} : keys'[j] = keys[j]
  BY PublishIs
<1>2. Keeps({k}, n) => Keeps({k, k + 1}, n)
  BY DEF Keeps
<1>3. jwks' = jwks
  BY DEF Publish
<1> QED BY <1>1, <1>2, <1>3 DEF Kept

LEMMA FetchKeeps ==
    ASSUME JTypeOK, NEW v \in Remotes, NEW i \in Instances, Fetch(v, i),
           NEW n \in Int, Kept(keys, jwks, n)
    PROVE  Kept(keys', jwks', n)
<1>1. /\ jwks'[v].keys = Held(keys[i])
      /\ \A w \in Remotes \ {v} : jwks'[w] = jwks[w]
      /\ keys' = keys
  BY DEF Fetch, JWKS, JTypeOK
<1> QED BY <1>1 DEF Kept

LEMMA DropKeeps ==
    ASSUME JTypeOK, NEW i \in Instances, Drop(i), NEW n \in Int, Kept(keys, jwks, n),
           n # keys[i][1] - 1
    PROVE  Kept(keys', jwks', n)
<1>1. PICK k \in 1 .. MaxKey :
              /\ k - 1 \in 1 .. MaxKey
              /\ Held(keys[i]) = {k, k - 1} /\ Held(keys'[i]) = {k}
              /\ \A j \in Instances : keys[j][1] = k /\ keys'[j][1] = k
              /\ \A j \in Instances \ {i} : keys'[j] = keys[j]
  BY DropIs
<1>2. Keeps({k, k - 1}, n) => Keeps({k}, n)
  BY <1>1 DEF Keeps
<1>3. jwks' = jwks
  BY DEF Drop
<1> QED BY <1>1, <1>2, <1>3 DEF Kept

LEMMA HeadStep ==
    JTypeOK /\ HeadInv /\ [JNext]_jvars => HeadInv'
<1> SUFFICES ASSUME JTypeOK, HeadInv, [JNext]_jvars PROVE HeadInv'
  OBVIOUS
<1>0. \A i \in Instances : keys[i][1] \in Int
  BY KeyListIs DEF JTypeOK
<1>1. ASSUME NEW v \in Remotes, NEW i \in Instances, Fetch(v, i)
      PROVE  HeadInv'
  <2>1. keys' = keys /\ jwks'[v].keys = Held(keys[i])
        /\ \A w \in Remotes \ {v} : jwks'[w] = jwks[w]
    BY <1>1 DEF Fetch, JWKS, JTypeOK
  <2>2. \A j \in Instances : Kept(keys', jwks', keys[j][1])
    BY <1>0, <1>1, <2>1, FetchKeeps DEF HeadInv
  <2>3. \A k \in Held(keys[i]) : k <= keys[i][1]
    BY KeyListIs DEF JTypeOK
  <2> QED BY <2>1, <2>2, <2>3 DEF HeadInv
<1>2. ASSUME NEW i \in Instances, Publish(i)
      PROVE  HeadInv'
  <2>1. PICK k \in 1 .. MaxKey :
              /\ Held(keys[i]) = {k} /\ keys[i][1] = k
              /\ Held(keys'[i]) = {k, k + 1} /\ keys'[i][1] = k + 1
              /\ \A j \in Instances : keys[j][1] \in {k, k + 1}
              /\ \A j \in Instances \ {i} : keys'[j] = keys[j]
    BY <1>2, PublishIs
  <2>2. jwks' = jwks
    BY <1>2 DEF Publish
  <2>3. \A v \in Remotes : jwks[v].keys \subseteq Int
    BY DEF JTypeOK, KeySet
  <2>4. \A v \in Remotes : \A n \in jwks[v].keys : n <= k + 1
    <3> SUFFICES ASSUME NEW v \in Remotes, NEW n \in jwks[v].keys
                 PROVE  n <= k + 1
      OBVIOUS
    <3>1. PICK j \in Instances : n <= keys[j][1]
      BY DEF HeadInv
    <3> QED BY <2>1, <2>3, <3>1
  <2>5. \A j \in Instances : \A n \in Held(keys'[j]) : n \in Int /\ n <= k + 1
    <3>1. \A j \in Instances : \A n \in Held(keys[j]) :
             n \in Int /\ n <= keys[j][1]
      BY KeyListIs DEF JTypeOK
    <3> QED BY <2>1, <3>1
  <2>6. ASSUME NEW S, \A n \in S : n \in Int /\ n <= k + 1
        PROVE  Keeps(S, k + 1)
    BY <2>6 DEF Keeps
  <2>7. Kept(keys', jwks', k + 1)
    BY <2>2, <2>3, <2>4, <2>5, <2>6 DEF Kept
  <2>8. \A j \in Instances \ {i} : Kept(keys', jwks', keys[j][1])
    BY <1>0, <1>2, PublishKeeps DEF HeadInv
  <2>9. \A j \in Instances : Kept(keys', jwks', keys'[j][1])
    <3> SUFFICES ASSUME NEW j \in Instances PROVE Kept(keys', jwks', keys'[j][1])
      OBVIOUS
    <3>1. CASE j = i
      BY <2>1, <2>7, <3>1
    <3>2. CASE j # i
      <4>1. keys'[j] = keys[j]
        BY <2>1, <3>2
      <4> QED BY <2>8, <3>2, <4>1
    <3> QED BY <3>1, <3>2
  <2>10. \A j \in Instances : keys[j][1] <= keys'[j][1]
    BY <1>0, <2>1
  <2>11. \A v \in Remotes : \A n \in jwks'[v].keys :
            \E j \in Instances : n <= keys'[j][1]
    BY <2>1, <2>2, <2>3, <2>4
  <2> QED BY <2>9, <2>11 DEF HeadInv
<1>3. ASSUME NEW i \in Instances, Drop(i)
      PROVE  HeadInv'
  <2>1. PICK k \in 1 .. MaxKey :
              /\ \A j \in Instances : keys[j][1] = k /\ keys'[j][1] = k
              /\ \A j \in Instances \ {i} : keys'[j] = keys[j]
    BY <1>3, DropIs
  <2>2. Kept(keys', jwks', k)
    BY <1>3, <2>1, DropKeeps DEF HeadInv
  <2>3. jwks' = jwks
    BY <1>3 DEF Drop
  <2> QED BY <2>1, <2>2, <2>3 DEF HeadInv
<1>4. CASE UNCHANGED <<keys, jwks>>
  BY <1>4 DEF HeadInv, Kept
<1> QED
  BY <1>1, <1>2, <1>3, <1>4
  DEF JNext, jvars, Arrive, Mint, Finish, End, Tick

(* Keys only move on. *)
LEMMA PassedStays ==
    ASSUME JTypeOK, NEW n \in Int, NEW i \in Instances,
           Publish(i) \/ Drop(i), Passed(keys', n)
    PROVE  Drop(i) => Passed(keys, n)
<1> SUFFICES ASSUME Drop(i) PROVE Passed(keys, n)
  OBVIOUS
<1>1. PICK k \in 1 .. MaxKey :
         \A j \in Instances : keys[j][1] = k /\ keys'[j][1] = k
  BY DropIs
<1> QED BY <1>1 DEF Passed

LEMMA SigningStep ==
    /\ JTypeOK /\ RequestInv /\ HeadInv /\ SigningInv /\ [JNext]_jvars
    => SigningInv'
<1> SUFFICES ASSUME JTypeOK, RequestInv, HeadInv, SigningInv, [JNext]_jvars
             PROVE  SigningInv'
  OBVIOUS
<1>0. \A r \in Requests : req[r] # NoRequest =>
         req[r].keys[1] \in Int /\ req[r].at \in Int
  <2> SUFFICES ASSUME NEW r \in Requests, req[r] # NoRequest
               PROVE  req[r].keys[1] \in Int /\ req[r].at \in Int
    OBVIOUS
  <2>1. req[r].keys \in KeyLists /\ req[r].at \in Int
    BY DEF JTypeOK, Request
  <2> QED BY <2>1, KeyListIs
<1>1. ASSUME NEW r \in Requests, NEW i \in Instances, NEW s \in SessionIds,
             Arrive(r, i, s)
      PROVE  SigningInv'
  <2>1. req'[r].keys = keys[i] /\ UNCHANGED <<keys, jwks, published>>
        /\ \A q \in Requests \ {r} : req'[q] = req[q]
    BY <1>1 DEF Arrive, JTypeOK
  <2>2. Kept(keys, jwks, keys[i][1])
    BY DEF HeadInv
  <2>3. ~Passed(keys, keys[i][1])
    BY KeyListIs DEF Passed, JTypeOK
  <2>4. \A n : (Kept(keys', jwks', n) <=> Kept(keys, jwks, n))
         /\ (Passed(keys', n) <=> Passed(keys, n))
    BY <2>1 DEF Kept, Passed
  <2>5. \A q \in Requests \ {r} : req'[q] # NoRequest =>
           /\ Kept(keys', jwks', req'[q].keys[1])
           /\ Passed(keys', req'[q].keys[1]) => req'[q].at <= published'
    BY <2>1, <2>4 DEF SigningInv
  <2>6. Kept(keys', jwks', req'[r].keys[1]) /\ ~Passed(keys', req'[r].keys[1])
    BY <2>1, <2>2, <2>3, <2>4
  <2> QED BY <2>5, <2>6 DEF SigningInv
<1>2. ASSUME NEW r \in Requests, Finish(r)
      PROVE  SigningInv'
  <2>1. \A n : (Kept(keys', jwks', n) <=> Kept(keys, jwks, n))
         /\ (Passed(keys', n) <=> Passed(keys, n))
    BY <1>2 DEF Finish, Kept, Passed
  <2>2. \A q \in Requests : req'[q] # NoRequest => req'[q] = req[q]
    BY <1>2 DEF Finish
  <2>3. published' = published
    BY <1>2 DEF Finish
  <2> QED BY <2>1, <2>2, <2>3 DEF SigningInv
<1>3. ASSUME NEW v \in Remotes, NEW i \in Instances, Fetch(v, i)
      PROVE  SigningInv'
  <2>1. UNCHANGED <<keys, req, published>>
    BY <1>3 DEF Fetch
  <2>2. \A n : Passed(keys', n) <=> Passed(keys, n)
    BY <2>1 DEF Passed
  <2>3. ASSUME NEW r \in Requests, req[r] # NoRequest
        PROVE  Kept(keys', jwks', req[r].keys[1])
    BY <1>0, <1>3, <2>3, FetchKeeps DEF SigningInv
  <2> QED BY <2>1, <2>2, <2>3 DEF SigningInv
<1>4. ASSUME NEW i \in Instances, Publish(i)
      PROVE  SigningInv'
  <2>1. req' = req /\ published' = clock
    BY <1>4 DEF Publish
  <2>2. ASSUME NEW r \in Requests, req[r] # NoRequest
        PROVE  Kept(keys', jwks', req[r].keys[1]) /\ req[r].at <= clock
    BY <1>0, <1>4, <2>2, PublishKeeps DEF SigningInv, RequestInv
  <2> QED BY <2>1, <2>2 DEF SigningInv
<1>5. ASSUME NEW i \in Instances, Drop(i)
      PROVE  SigningInv'
  <2>1. req' = req /\ published' = published /\ Drained
    BY <1>5 DEF Drop
  <2>2. PICK k \in 1 .. MaxKey :
           \A j \in Instances : keys[j][1] = k /\ keys'[j][1] = k
    BY <1>5, DropIs
  <2>3. ASSUME NEW r \in Requests, req[r] # NoRequest
        PROVE  /\ Kept(keys', jwks', req[r].keys[1])
               /\ Passed(keys', req[r].keys[1]) => req[r].at <= published
    <3>1. Kept(keys, jwks, req[r].keys[1]) /\ req[r].keys[1] \in Int /\ req[r].at \in Int
      BY <1>0, <2>3 DEF SigningInv
    <3>2. Passed(keys', req[r].keys[1]) => Passed(keys, req[r].keys[1])
      BY <1>5, <3>1, PassedStays
    <3>3. Passed(keys, req[r].keys[1]) => req[r].at <= published
      BY <2>3 DEF SigningInv
    <3>4. req[r].keys[1] # keys[i][1] - 1
      <4> SUFFICES ASSUME req[r].keys[1] = keys[i][1] - 1 PROVE FALSE
        OBVIOUS
      <4>1. Passed(keys, req[r].keys[1])
        BY <2>2 DEF Passed
      <4>2. clock <= req[r].at + MaxRequest /\ req[r].at <= published
        BY <2>3, <3>3, <4>1 DEF RequestInv
      <4> QED BY <2>1, <3>1, <4>2, JWTAssumption DEF Drained, JTypeOK
    <3>5. Kept(keys', jwks', req[r].keys[1])
      BY <1>5, <3>1, <3>4, DropKeeps
    <3> QED BY <3>2, <3>3, <3>5
  <2> QED BY <2>1, <2>3 DEF SigningInv
<1>6. CASE UNCHANGED <<keys, jwks, req, published>>
  BY <1>6 DEF SigningInv, Kept, Passed
<1> QED
  BY <1>1, <1>2, <1>3, <1>4, <1>5, <1>6 DEF JNext, jvars, Mint, End, Tick

LEMMA DueStep ==
    /\ JTypeOK /\ RequestInv /\ TokenInv /\ SigningInv /\ DueInv /\ [JNext]_jvars
    => DueInv'
<1> SUFFICES ASSUME JTypeOK, RequestInv, TokenInv, SigningInv, DueInv,
                    [JNext]_jvars
             PROVE  DueInv'
  OBVIOUS
<1>0. \A t \in tokens : t.key \in Int /\ t.due \in Int
  BY DEF JTypeOK, Token
<1>1. ASSUME NEW r \in Requests, NEW ttl \in TTLs, Mint(r, ttl)
      PROVE  DueInv'
  <2> DEFINE t == Minted(r, ttl)
  <2>1. tokens' = tokens \cup {t} /\ UNCHANGED <<clock, keys, jwks, published>>
    BY <1>1, MintAdds DEF Mint
  <2>2. t.key = req[r].keys[1] /\ t.due <= clock + MaxTokenTTL
    BY <1>1, MintedIs
  <2>3. t \in Token /\ req[r].at \in Int
    BY <1>1, MintedType DEF Request
  <2>4. /\ Kept(keys, jwks, t.key) /\ clock <= req[r].at + MaxRequest
        /\ Passed(keys, t.key) => req[r].at <= published
    BY <1>1, <2>2 DEF Mint, RequestInv, SigningInv
  <2> HIDE DEF t
  <2>5. Passed(keys, t.key) => t.due <= published + MaxRequest + MaxTokenTTL
    <3>1. t.due \in Int
      BY <2>3 DEF Token
    <3>2. clock \in Int /\ published \in Int
      BY DEF JTypeOK
    <3>3. MaxTokenTTL \in Int /\ MaxRequest \in Int
      BY JWTAssumption
    <3> QED BY <2>2, <2>3, <2>4, <3>1, <3>2, <3>3
  <2>6. \A n : (Kept(keys', jwks', n) <=> Kept(keys, jwks, n))
         /\ (Passed(keys', n) <=> Passed(keys, n))
    BY <2>1 DEF Kept, Passed
  <2> QED BY <2>1, <2>4, <2>5, <2>6 DEF DueInv
<1>2. ASSUME NEW v \in Remotes, NEW i \in Instances, Fetch(v, i)
      PROVE  DueInv'
  <2>1. UNCHANGED <<clock, keys, tokens, published>>
    BY <1>2 DEF Fetch
  <2>2. \A n : Passed(keys', n) <=> Passed(keys, n)
    BY <2>1 DEF Passed
  <2>3. \A t \in tokens : clock < t.due => Kept(keys', jwks', t.key)
    BY <1>0, <1>2, FetchKeeps DEF DueInv
  <2> QED BY <2>1, <2>2, <2>3 DEF DueInv
<1>3. ASSUME NEW i \in Instances, Publish(i)
      PROVE  DueInv'
  <2>1. UNCHANGED <<clock, tokens>> /\ published' = clock
    BY <1>3 DEF Publish
  <2>2. \A t \in tokens : clock < t.due => Kept(keys', jwks', t.key)
    BY <1>0, <1>3, PublishKeeps DEF DueInv
  <2>3. \A t \in tokens : t.due <= clock + MaxRequest + MaxTokenTTL
    BY <1>0, JWTAssumption DEF TokenInv, JTypeOK
  <2> QED BY <2>1, <2>2, <2>3 DEF DueInv
<1>4. ASSUME NEW i \in Instances, Drop(i)
      PROVE  DueInv'
  <2>1. UNCHANGED <<clock, tokens, published>> /\ Drained
    BY <1>4 DEF Drop
  <2>2. PICK k \in 1 .. MaxKey :
           \A j \in Instances : keys[j][1] = k /\ keys'[j][1] = k
    BY <1>4, DropIs
  <2>3. ASSUME NEW t \in tokens
        PROVE  /\ clock < t.due => Kept(keys', jwks', t.key)
               /\ Passed(keys', t.key) => t.due <= published + MaxRequest + MaxTokenTTL
    <3>1. Passed(keys', t.key) => Passed(keys, t.key)
      BY <1>0, <1>4, PassedStays
    <3>2. Passed(keys, t.key) => t.due <= published + MaxRequest + MaxTokenTTL
      BY DEF DueInv
    <3>3. ASSUME clock < t.due PROVE t.key # keys[i][1] - 1
      <4> SUFFICES ASSUME t.key = keys[i][1] - 1 PROVE FALSE
        OBVIOUS
      <4>1. Passed(keys, t.key)
        BY <2>2 DEF Passed
      <4> QED
        BY <1>0, <2>1, <3>2, <3>3, <4>1, JWTAssumption DEF Drained, JTypeOK
    <3>4. clock < t.due => Kept(keys', jwks', t.key)
      BY <1>0, <1>4, <3>3, DropKeeps DEF DueInv
    <3> QED BY <3>1, <3>2, <3>4
  <2> QED BY <2>1, <2>3 DEF DueInv
<1>5. CASE Tick
  <2>1. clock \in Int /\ clock' = clock + 1
        /\ UNCHANGED <<keys, jwks, tokens, published>>
    BY <1>5 DEF Tick, JTypeOK
  <2>2. \A n : (Kept(keys', jwks', n) <=> Kept(keys, jwks, n))
         /\ (Passed(keys', n) <=> Passed(keys, n))
    BY <2>1 DEF Kept, Passed
  <2> QED BY <1>0, <2>1, <2>2 DEF DueInv
<1>6. CASE UNCHANGED <<clock, keys, jwks, tokens, published>>
  BY <1>6 DEF DueInv, Kept, Passed
<1> QED
  BY <1>1, <1>2, <1>3, <1>4, <1>5, <1>6 DEF JNext, jvars, Arrive, Finish, End

LEMMA CacheStep ==
    JTypeOK /\ CacheInv /\ [JNext]_jvars => CacheInv'
<1> SUFFICES ASSUME JTypeOK, CacheInv, [JNext]_jvars PROVE CacheInv'
  OBVIOUS
<1>0. \A v \in Remotes : jwks[v].at \in Int /\ jwks[v].keys \subseteq 1 .. MaxKey
  BY DEF JTypeOK, KeySet
<1>1. ASSUME NEW v \in Remotes, NEW i \in Instances, Fetch(v, i)
      PROVE  CacheInv'
  <2>1. /\ jwks'[v].keys = Held(keys[i]) /\ jwks'[v].at = clock
        /\ \A w \in Remotes \ {v} : jwks'[w] = jwks[w]
        /\ UNCHANGED <<clock, keys, dropped>>
    BY <1>1 DEF Fetch, JWKS, JTypeOK
  <2>2. \A k : Gone(keys', k) <=> Gone(keys, k)
    BY <2>1 DEF Gone, Passed
  <2>3. \A k \in Held(keys[i]) : ~Gone(keys, k)
    BY DEF Gone
  <2>4. clock \in Int
    BY DEF JTypeOK
  <2> QED BY <2>1, <2>2, <2>3, <2>4 DEF CacheInv
<1>2. ASSUME NEW i \in Instances, Publish(i)
      PROVE  CacheInv'
  <2>1. UNCHANGED <<clock, jwks, dropped>>
    BY <1>2 DEF Publish
  <2>2. PICK k \in 1 .. MaxKey :
              /\ Held(keys[i]) = {k} /\ keys[i][1] = k
              /\ Held(keys'[i]) = {k, k + 1} /\ keys'[i][1] = k + 1
              /\ \A j \in Instances : keys[j][1] \in {k, k + 1}
              /\ \A j \in Instances \ {i} : keys'[j] = keys[j]
    BY <1>2, PublishIs
  <2>3. ASSUME NEW n \in 1 .. MaxKey, Gone(keys', n)
        PROVE  Gone(keys, n)
    <3>1. n # k /\ n < k + 1
      BY <2>2, <2>3 DEF Gone, Passed
    <3> QED BY <2>2, <2>3, <3>1 DEF Gone, Passed
  <2> QED BY <1>0, <2>1, <2>3 DEF CacheInv
<1>3. ASSUME NEW i \in Instances, Drop(i)
      PROVE  CacheInv'
  <2>1. UNCHANGED <<clock, jwks>> /\ clock \in Int
    BY <1>3 DEF Drop, JTypeOK
  <2>2. PICK k \in 1 .. MaxKey :
              /\ k - 1 \in 1 .. MaxKey
              /\ Held(keys[i]) = {k, k - 1} /\ Held(keys'[i]) = {k}
              /\ \A j \in Instances : keys[j][1] = k /\ keys'[j][1] = k
              /\ \A j \in Instances \ {i} : keys'[j] = keys[j]
              /\ dropped' = [dropped EXCEPT ![k - 1] = clock]
    BY <1>3, DropIs
  <2>3. dropped'[k - 1] = clock
        /\ \A n \in 1 .. MaxKey : n # k - 1 => dropped'[n] = dropped[n]
    BY <2>2 DEF JTypeOK
  <2>4. ASSUME NEW n \in 1 .. MaxKey, n # k - 1, Gone(keys', n)
        PROVE  Gone(keys, n)
    BY <2>2, <2>4 DEF Gone, Passed
  <2>5. ASSUME NEW v \in Remotes, NEW n \in jwks[v].keys, Gone(keys', n)
        PROVE  jwks[v].at <= dropped'[n]
    BY <1>0, <2>1, <2>3, <2>4, <2>5 DEF CacheInv
  <2> QED BY <2>1, <2>5 DEF CacheInv
<1>4. CASE Tick
  <2>1. clock \in Int /\ clock' = clock + 1 /\ UNCHANGED <<keys, jwks, dropped>>
    BY <1>4 DEF Tick, JTypeOK
  <2> QED BY <1>0, <2>1 DEF CacheInv, Gone, Passed
<1>5. CASE UNCHANGED <<clock, keys, jwks, dropped>>
  BY <1>5 DEF CacheInv, Gone, Passed
<1> QED
  BY <1>1, <1>2, <1>3, <1>4, <1>5 DEF JNext, jvars, Arrive, Mint, Finish, End

-----------------------------------------------------------------------------

LEMMA JInvInit == JInit => JInv
<1> SUFFICES ASSUME JInit PROVE JInv
  OBVIOUS
<1>1. JTypeOK
  BY JTypeInit
<1>2. Held(<<1>>) = {1} /\ <<1>>[1] = 1
  BY OneKey, JWTAssumption
<1>3. \A i \in Instances : Held(keys[i]) = {1} /\ keys[i][1] = 1
  BY <1>2 DEF JInit
<1>4. \A v \in Remotes : jwks[v].keys = {1} /\ jwks[v].at = 0
  BY DEF JInit
<1>5. Kept(keys, jwks, 1)
  BY <1>3, <1>4 DEF Kept, Keeps
<1>6. HeadInv
  <2>1. \E i \in Instances : 1 <= keys[i][1]
    BY <1>3, JWTAssumption
  <2> QED BY <1>3, <1>4, <1>5, <2>1 DEF HeadInv
<1>7. RequestInv /\ TokenInv /\ SigningInv /\ DueInv
  BY DEF JInit, RequestInv, TokenInv, SigningInv, DueInv
<1>8. CacheInv
  <2>1. clock = 0 /\ dropped[1] = 0
    BY JWTAssumption DEF JInit
  <2> QED BY <1>4, <2>1 DEF CacheInv
<1> QED BY <1>1, <1>6, <1>7, <1>8 DEF JInv

LEMMA JInvStep == JInv /\ [JNext]_jvars => JInv'
BY JTypeStep, RequestStep, TokenStep, HeadStep, SigningStep, DueStep, CacheStep
DEF JInv

(* The inductive invariant: rotation never outruns the tokens. *)
THEOREM RotationInOrder == JSpec => []JInv
<1>1. JInit => JInv
  BY JInvInit
<1>2. JInv /\ [JNext]_jvars => JInv'
  BY JInvStep
<1> QED BY <1>1, <1>2, PTL DEF JSpec

LEMMA AcceptedIsCurrent ==
    ASSUME NEW t \in tokens, AcceptedSomewhere(t)
    PROVE  ~Expired(t)
BY DEF AcceptedSomewhere, Verify, RemoteAccepts

(* RevocationWindow holds: a token outlives its session by the ceiling and *)
(* by the rest of its request at most.                                     *)
THEOREM WindowHolds == JSpec => []RevocationWindow
<1>1. JInv => RevocationWindow
  <2> SUFFICES ASSUME JInv, NEW t \in tokens, t.sid \notin live,
                      AcceptedSomewhere(t)
               PROVE  clock < ended[t.sid] + MaxRequest + MaxTokenTTL
    BY DEF RevocationWindow
  <2>1. ~Expired(t)
    BY AcceptedIsCurrent
  <2>2. t \in Token /\ ended[t.sid] \in Int /\ clock \in Int
    BY DEF JInv, JTypeOK, Token
  <2>3. t.exp * Unit \in Int /\ t.seen \in Int
    BY <2>2, JWTAssumption DEF Token
  <2>4. t.seen <= ended[t.sid] /\ t.exp * Unit <= t.seen + MaxRequest + MaxTokenTTL
    BY DEF JInv, TokenInv
  <2>5. clock < t.exp * Unit
    BY <2>1, <2>2, <2>3 DEF Expired
  <2> QED BY <2>2, <2>3, <2>4, <2>5, JWTAssumption
<1> QED BY <1>1, RotationInOrder, PTL

(* GoodWhileDue holds: through any rotation a token is accepted for as     *)
(* long as was asked for by every process and key set that reached its key.*)
THEOREM GoodThroughRotation == JSpec => []GoodWhileDue
<1>1. JInv => GoodWhileDue
  <2> SUFFICES ASSUME JInv, NEW t \in tokens, clock + Unit <= t.due
               PROVE  /\ \A i \in Instances : keys[i][1] >= t.key
                            => Verify(keys[i], t)
                      /\ \A v \in Remotes :
                            Fresh(v) /\ (\E k \in jwks[v].keys : k >= t.key)
                              => RemoteAccepts(v, t)
    BY DEF GoodWhileDue
  <2>1. t \in Token /\ clock \in Int /\ Unit \in Nat \ {0}
    BY JWTAssumption DEF JInv, JTypeOK
  <2>2. t.exp * Unit \in Int /\ t.due \in Int
    BY <2>1 DEF Token
  <2>3. t.due < t.exp * Unit + Unit /\ t.kid = t.key
    BY DEF JInv, TokenInv
  <2>4. ~Expired(t)
    BY <2>1, <2>2, <2>3 DEF Expired
  <2>5. clock < t.due
    BY <2>1, <2>2
  <2>6. Kept(keys, jwks, t.key)
    BY <2>5 DEF JInv, DueInv
  <2>7. ASSUME NEW i \in Instances, keys[i][1] >= t.key
        PROVE  Verify(keys[i], t)
    <3>1. keys[i][1] \in Held(keys[i])
      BY KeyListIs DEF JInv, JTypeOK
    <3>2. t.key \in Held(keys[i])
      BY <2>6, <2>7, <3>1 DEF Kept, Keeps
    <3> QED BY <2>3, <2>4, <3>2 DEF Verify, keyfunc
  <2>8. ASSUME NEW v \in Remotes, Fresh(v), \E k \in jwks[v].keys : k >= t.key
        PROVE  RemoteAccepts(v, t)
    BY <2>4, <2>6, <2>8 DEF RemoteAccepts, Kept, Keeps
  <2> QED BY <2>7, <2>8
<1> QED BY <1>1, RotationInOrder, PTL

(* RetiredKeyDies holds: nothing takes a dropped key once the key sets     *)
(* fetched before have run out.                                            *)
THEOREM RetirementHolds == JSpec => []RetiredKeyDies
<1>1. JInv => RetiredKeyDies
  <2> SUFFICES ASSUME JInv, NEW k \in 1 .. MaxKey,
                      \A i \in Instances : keys[i][1] > k /\ k \notin Held(keys[i]),
                      clock >= dropped[k] + MaxAge,
                      NEW v \in Remotes, Fresh(v), k \in jwks[v].keys
               PROVE  FALSE
    BY DEF RetiredKeyDies
  <2>1. Gone(keys, k)
    BY DEF Gone, Passed
  <2>2. jwks[v].at <= dropped[k]
    BY <2>1 DEF JInv, CacheInv
  <2>3. jwks[v].at \in Int /\ dropped[k] \in Int /\ clock \in Int
    BY DEF JInv, JTypeOK, KeySet
  <2> QED BY <2>2, <2>3, JWTAssumption DEF Fresh
<1> QED BY <1>1, RotationInOrder, PTL
=============================================================================
