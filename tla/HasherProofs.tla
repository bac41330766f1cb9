---------------------------- MODULE HasherProofs ----------------------------
(***************************************************************************)
(* Theorems of Hasher, for any number of requests and of slots: the slots  *)
(* are conserved.  It rests on the queue being exactly the waiting         *)
(* requests, each once (Lined): only then does a release grant as many     *)
(* slots as it counts.                                                     *)
(***************************************************************************)
EXTENDS Hasher, SequenceTheorems, FiniteSetTheorems, FunctionTheorems,
        TLAPS

Holders(pcs) == {r \in Requests : pcs[r] \in {"ready", "hashing"}}

Lined(q, pcs) ==
    /\ \A i, j \in 1 .. Len(q) : q[i] = q[j] => i = j
    /\ \A r \in Requests :
          pcs[r] = "waiting" <=> \E i \in 1 .. Len(q) : q[i] = r

HInv ==
    HTypeOK /\ SlotsConserved /\ Lined(queue, pc)

(* What a semaphore operation, given and left with n taken, q and pcs,     *)
(* leaves alone: callers count their own computations.                     *)
Sound(n, q, pcs) ==
    /\ n \in 0 .. Limit
    /\ q \in Seq(Requests)
    /\ pcs \in [Requests -> PCs]
    /\ n = Cardinality(Holders(pcs))
    /\ Lined(q, pcs)

LEMMA InvIsSound ==
    HInv <=> /\ Sound(cur, queue, pc)
             /\ left \in [Requests -> 0 .. 2] /\ expired \in SUBSET Requests
<1>1. cur \in 0 .. Limit => cur <= Limit
  BY HasherAssumption
<1> QED
  BY <1>1 DEF HInv, Sound, HTypeOK, SlotsConserved, Holders

LEMMA HoldersFinite ==
    ASSUME NEW pcs
    PROVE  IsFiniteSet(Holders(pcs)) /\ Holders(pcs) \subseteq Requests
  BY HasherAssumption, FS_Subset DEF Holders

-----------------------------------------------------------------------------
(* The semaphore. *)

(* The first k of a queue without repetition are k requests. *)
LEMMA FrontCounts ==
    ASSUME NEW q \in Seq(Requests), NEW k \in 0 .. Len(q),
           \A i, j \in 1 .. Len(q) : q[i] = q[j] => i = j
    PROVE  Cardinality({q[i] : i \in 1 .. k}) = k
<1> DEFINE front == {q[i] : i \in 1 .. k}
           f == [i \in 1 .. k |-> q[i]]
<1>1. k \in Nat /\ 1 .. k \subseteq 1 .. Len(q)
  BY LenProperties
<1>2. f \in [1 .. k -> front]
  OBVIOUS
<1>3. \A a, b \in 1 .. k : f[a] = f[b] => a = b
  BY <1>1
<1>4. \A t \in front : \E s \in 1 .. k : f[s] = t
  OBVIOUS
<1>5. f \in Bijection(1 .. k, front)
  BY <1>2, <1>3, <1>4, Fun_IsBij
<1>6. ExistsBijection(1 .. k, front)
  BY <1>5 DEF ExistsBijection
<1> QED BY <1>1, <1>6, FS_CountingElements

LEMMA NotifySound ==
    ASSUME NEW n, NEW q, NEW pcs, Sound(n, q, pcs), Notify(n, q, pcs)
    PROVE  Sound(cur', queue', pc')
<1> DEFINE free == Limit - n
           k == IF free < Len(q) THEN free ELSE Len(q)
           granted == {q[i] : i \in 1 .. k}
<1>1. /\ n \in Nat /\ n <= Limit /\ Limit \in Nat
      /\ q \in Seq(Requests) /\ Len(q) \in Nat
      /\ \A i \in 1 .. Len(q) : q[i] \in Requests
      /\ pcs \in [Requests -> PCs]
  BY HasherAssumption, LenProperties, ElementOfSeq DEF Sound
<1>2. k \in 0 .. Len(q) /\ n + k \in 0 .. Limit /\ (k < Len(q) => n + k = Limit)
  BY <1>1
<1>3. /\ cur' = n + k
      /\ queue' = SubSeq(q, k + 1, Len(q))
      /\ pc' = [r \in Requests |-> IF r \in granted THEN "ready" ELSE pcs[r]]
  BY DEF Notify
<1> HIDE DEF k
<1>4. /\ queue' \in Seq(Requests) /\ Len(queue') = Len(q) - k
      /\ \A i \in 1 .. Len(queue') : queue'[i] = q[i + k]
  <2>1. k + 1 \in Int /\ Len(q) \in Int /\ k \in Nat
        /\ \A i \in (k + 1) .. Len(q) : q[i] \in Requests
    BY <1>1, <1>2
  <2>2. /\ queue' \in Seq(Requests)
        /\ Len(queue') = IF k + 1 <= Len(q) THEN Len(q) - (k + 1) + 1 ELSE 0
        /\ \A i \in 1 .. Len(q) - (k + 1) + 1 : queue'[i] = q[(k + 1) + i - 1]
    BY <1>3, <2>1, SubSeqProperties
  <2>3. Len(queue') = Len(q) - k
    BY <1>1, <1>2, <2>1, <2>2
  <2>4. ASSUME NEW i \in 1 .. Len(queue')
        PROVE  queue'[i] = q[i + k]
    <3>1. i \in 1 .. Len(q) - (k + 1) + 1 /\ (k + 1) + i - 1 = i + k
      BY <1>1, <2>1, <2>3
    <3> QED BY <2>2, <3>1
  <2> QED BY <2>2, <2>3, <2>4
<1>5. pc' \in [Requests -> PCs]
  BY <1>1, <1>3 DEF PCs
<1>6. \A r \in granted : r \in Requests /\ pcs[r] = "waiting"
  <2>1. \A i \in 1 .. k : i \in 1 .. Len(q)
    BY <1>1, <1>2
  <2> QED BY <1>1, <2>1 DEF Sound, Lined
<1>7. cur' = Cardinality(Holders(pc'))
  <2>1. Holders(pc') = Holders(pcs) \cup granted
    BY <1>3, <1>6 DEF Holders
  <2>2. Holders(pcs) \cap granted = {}
    BY <1>6 DEF Holders
  <2>3. granted \subseteq Requests
    BY <1>6
  <2>4. IsFiniteSet(Holders(pcs)) /\ IsFiniteSet(granted)
    BY <2>3, HoldersFinite, HasherAssumption, FS_Subset
  <2>5. Cardinality(granted) = k
    BY <1>1, <1>2, FrontCounts DEF Sound, Lined
  <2>6. Cardinality(Holders(pcs) \cap granted) = 0
    BY <2>2, FS_EmptySet
  <2>7. Cardinality(Holders(pc')) = n + k - 0
    BY <2>1, <2>4, <2>5, <2>6, FS_Union DEF Sound
  <2> QED BY <1>1, <1>2, <1>3, <2>7
<1>8. \A i, j \in 1 .. Len(queue') : queue'[i] = queue'[j] => i = j
  <2> SUFFICES ASSUME NEW i \in 1 .. Len(queue'), NEW j \in 1 .. Len(queue'),
                      queue'[i] = queue'[j]
               PROVE  i = j
    OBVIOUS
  <2>1. i + k \in 1 .. Len(q) /\ j + k \in 1 .. Len(q) /\ q[i + k] = q[j + k]
    BY <1>1, <1>2, <1>4
  <2>2. i + k = j + k
    BY <2>1 DEF Sound, Lined
  <2> QED BY <1>1, <1>2, <1>4, <2>2
<1>9. ASSUME NEW r \in Requests
      PROVE  pc'[r] = "waiting" <=> \E i \in 1 .. Len(queue') : queue'[i] = r
  <2>1. pc'[r] = "waiting" <=> pcs[r] = "waiting" /\ r \notin granted
    BY <1>3
  <2>2. ASSUME pcs[r] = "waiting", r \notin granted
        PROVE  \E i \in 1 .. Len(queue') : queue'[i] = r
    <3>1. PICK i \in 1 .. Len(q) : q[i] = r
      BY <2>2 DEF Sound, Lined
    <3>2. i \notin 1 .. k
      BY <2>2, <3>1
    <3>3. i - k \in 1 .. Len(queue') /\ (i - k) + k = i
      BY <1>1, <1>2, <1>4, <3>2
    <3>4. queue'[i - k] = r
      BY <1>4, <3>1, <3>3
    <3> QED BY <3>3, <3>4
  <2>3. ASSUME NEW i \in 1 .. Len(queue'), queue'[i] = r
        PROVE  pcs[r] = "waiting" /\ r \notin granted
    <3>1. i + k \in 1 .. Len(q) /\ q[i + k] = r /\ i + k > k
      BY <1>1, <1>2, <1>4, <2>3
    <3>2. ASSUME NEW j \in 1 .. k, q[j] = r
          PROVE  FALSE
      <4>1. j \in 1 .. Len(q) /\ q[j] = q[i + k]
        BY <1>1, <1>2, <3>1, <3>2
      <4>2. j = i + k
        BY <3>1, <4>1 DEF Sound, Lined
      <4> QED BY <1>1, <1>2, <1>4, <4>2
    <3>3. pcs[r] = "waiting"
      BY <3>1 DEF Sound, Lined
    <3> QED BY <3>2, <3>3
  <2> QED BY <2>1, <2>2, <2>3
<1>10. cur' \in 0 .. Limit
  BY <1>2, <1>3
<1> QED BY <1>4, <1>5, <1>7, <1>8, <1>9, <1>10 DEF Sound, Lined

(* A holder gives its slot back. *)
LEMMA ReleaseSound ==
    ASSUME HInv, NEW r \in Requests, pc[r] \in {"ready", "hashing"},
           NEW p \in {"idle", "acquire"}, Release(queue, [pc EXCEPT ![r] = p])
    PROVE  Sound(cur', queue', pc')
<1> DEFINE pcs == [pc EXCEPT ![r] = p]
<1>1. Sound(cur, queue, pc)
  BY InvIsSound
<1>2. pcs \in [Requests -> PCs]
      /\ pcs[r] = p /\ \A x \in Requests \ {r} : pcs[x] = pc[x]
  BY <1>1 DEF Sound, PCs
<1>3. Holders(pcs) = Holders(pc) \ {r} /\ r \in Holders(pc)
  BY <1>2 DEF Holders
<1>4. Cardinality(Holders(pcs)) = cur - 1
  BY <1>1, <1>3, HoldersFinite, FS_RemoveElement DEF Sound
<1>5. cur - 1 \in 0 .. Limit
  <2>1. Cardinality(Holders(pcs)) \in Nat
    BY HoldersFinite, FS_CardinalityType
  <2> QED BY <1>1, <1>4, <2>1, HasherAssumption DEF Sound
<1>6. Lined(queue, pcs)
  BY <1>1, <1>2 DEF Sound, Lined
<1> HIDE DEF pcs
<1>7. Sound(cur - 1, queue, pcs)
  BY <1>1, <1>2, <1>4, <1>5, <1>6 DEF Sound
<1> QED BY <1>7, NotifySound DEF Release, pcs

LEMMA WithoutOne ==
    ASSUME NEW q \in Seq(Requests), NEW i \in 1 .. Len(q)
    PROVE  /\ RemoveAt(q, i) \in Seq(Requests)
           /\ Len(RemoveAt(q, i)) = Len(q) - 1
           /\ \A j \in 1 .. Len(q) - 1 :
                 RemoveAt(q, i)[j] = IF j < i THEN q[j] ELSE q[j + 1]
<1> DEFINE s1 == SubSeq(q, 1, i - 1)
           s2 == SubSeq(q, i + 1, Len(q))
<1>1. Len(q) \in Nat /\ i \in Int /\ \A j \in 1 .. Len(q) : q[j] \in Requests
  BY LenProperties, ElementOfSeq
<1>2. /\ s1 \in Seq(Requests) /\ Len(s1) = i - 1
      /\ \A j \in 1 .. i - 1 : s1[j] = q[j]
  <2>1. /\ 1 \in Int /\ i - 1 \in Int
        /\ \A j \in 1 .. i - 1 : q[j] \in Requests
    BY <1>1
  <2>2. /\ s1 \in Seq(Requests)
        /\ Len(s1) = IF 1 <= i - 1 THEN (i - 1) - 1 + 1 ELSE 0
        /\ \A j \in 1 .. (i - 1) - 1 + 1 : s1[j] = q[1 + j - 1]
    BY <2>1, SubSeqProperties
  <2>3. (i - 1) - 1 + 1 = i - 1 /\ \A j \in 1 .. i - 1 : 1 + j - 1 = j
    BY <1>1
  <2> HIDE DEF s1
  <2> QED BY <1>1, <2>2, <2>3
<1>3. /\ s2 \in Seq(Requests) /\ Len(s2) = Len(q) - i
      /\ \A j \in 1 .. Len(q) - i : s2[j] = q[i + j]
  <2>1. /\ i + 1 \in Int /\ Len(q) \in Int
        /\ \A j \in i + 1 .. Len(q) : q[j] \in Requests
    BY <1>1
  <2>2. /\ s2 \in Seq(Requests)
        /\ Len(s2) = IF i + 1 <= Len(q) THEN Len(q) - (i + 1) + 1 ELSE 0
        /\ \A j \in 1 .. Len(q) - (i + 1) + 1 : s2[j] = q[(i + 1) + j - 1]
    BY <2>1, SubSeqProperties
  <2>3. Len(q) - (i + 1) + 1 = Len(q) - i
        /\ \A j \in 1 .. Len(q) - i : (i + 1) + j - 1 = i + j
    BY <1>1
  <2> HIDE DEF s2
  <2> QED BY <1>1, <2>2, <2>3
<1> HIDE DEF s1, s2
<1>4. /\ s1 \o s2 \in Seq(Requests)
      /\ Len(s1 \o s2) = Len(s1) + Len(s2)
      /\ \A j \in 1 .. Len(s1) + Len(s2) :
            (s1 \o s2)[j] = IF j <= Len(s1) THEN s1[j] ELSE s2[j - Len(s1)]
  BY <1>2, <1>3, ConcatProperties
<1>5. Len(s1) + Len(s2) = Len(q) - 1
  BY <1>1, <1>2, <1>3
<1>6. ASSUME NEW j \in 1 .. Len(q) - 1
      PROVE  (s1 \o s2)[j] = IF j < i THEN q[j] ELSE q[j + 1]
  <2>1. CASE j < i
    <3>1. j \in 1 .. i - 1 /\ j <= Len(s1)
      BY <1>1, <1>2, <2>1
    <3> QED BY <1>2, <1>4, <1>5, <2>1, <3>1
  <2>2. CASE ~(j < i)
    <3>1. /\ j - Len(s1) \in 1 .. Len(q) - i /\ ~(j <= Len(s1))
          /\ i + (j - Len(s1)) = j + 1
      BY <1>1, <1>2, <2>2
    <3> QED BY <1>3, <1>4, <1>5, <2>2, <3>1
  <2> QED BY <2>1, <2>2
<1> QED BY <1>4, <1>5, <1>6 DEF RemoveAt, s1, s2

(* A waiter that leaves leaves the others lined up. *)
LEMMA WithdrawSound ==
    ASSUME HInv, NEW r \in Requests, Withdraw(r)
    PROVE  Sound(cur', queue', pc')
<1> DEFINE pcs == [pc EXCEPT ![r] = "idle"]
<1>1. Sound(cur, queue, pc) /\ pc[r] = "waiting"
  BY InvIsSound DEF Withdraw
<1>2. pcs \in [Requests -> PCs]
      /\ pcs[r] = "idle" /\ \A x \in Requests \ {r} : pcs[x] = pc[x]
  BY <1>1 DEF Sound, PCs
<1>3. Holders(pcs) = Holders(pc)
  BY <1>1, <1>2 DEF Holders
<1>4. PICK i \in 1 .. Len(queue) :
         queue[i] = r /\ Notify(cur, RemoveAt(queue, i), pcs)
  BY DEF Withdraw
<1> DEFINE q == RemoveAt(queue, i)
<1>5. /\ q \in Seq(Requests) /\ Len(q) = Len(queue) - 1
      /\ \A j \in 1 .. Len(q) :
            q[j] = IF j < i THEN queue[j] ELSE queue[j + 1]
  BY <1>1, WithoutOne DEF Sound
<1>6. Len(queue) \in Nat
  BY <1>1, LenProperties DEF Sound
<1> HIDE DEF pcs, q
<1>7. ASSUME NEW a \in 1 .. Len(q), NEW b \in 1 .. Len(q), q[a] = q[b]
      PROVE  a = b
  <2> DEFINE at(j) == IF j < i THEN j ELSE j + 1
  <2>1. /\ at(a) \in 1 .. Len(queue) /\ at(b) \in 1 .. Len(queue)
        /\ queue[at(a)] = queue[at(b)]
    BY <1>5, <1>6, <1>7
  <2>2. at(a) = at(b)
    BY <1>1, <2>1 DEF Sound, Lined
  <2> QED BY <1>5, <1>6, <2>2
<1>8. ASSUME NEW x \in Requests
      PROVE  pcs[x] = "waiting" <=> \E j \in 1 .. Len(q) : q[j] = x
  <2>1. ASSUME pcs[x] = "waiting"
        PROVE  \E j \in 1 .. Len(q) : q[j] = x
    <3>1. x # r /\ pc[x] = "waiting"
      BY <1>2, <2>1
    <3>2. PICK j \in 1 .. Len(queue) : queue[j] = x
      BY <1>1, <3>1 DEF Sound, Lined
    <3>3. j # i
      BY <1>4, <3>1, <3>2
    <3>4. CASE j < i
      <4>1. j \in 1 .. Len(q) /\ q[j] = x
        BY <1>5, <1>6, <3>2, <3>4
      <4> QED BY <4>1
    <3>5. CASE j > i
      <4>1. j - 1 \in 1 .. Len(q) /\ ~(j - 1 < i) /\ (j - 1) + 1 = j
        BY <1>5, <1>6, <3>5
      <4>2. q[j - 1] = x
        BY <1>5, <3>2, <4>1
      <4> QED BY <4>1, <4>2
    <3> QED BY <1>6, <3>3, <3>4, <3>5
  <2>2. ASSUME NEW j \in 1 .. Len(q), q[j] = x
        PROVE  pcs[x] = "waiting"
    <3> DEFINE m == IF j < i THEN j ELSE j + 1
    <3>1. m \in 1 .. Len(queue) /\ m # i /\ queue[m] = x
      BY <1>5, <1>6, <2>2
    <3>2. pc[x] = "waiting" /\ x # r
      BY <1>1, <1>4, <3>1 DEF Sound, Lined
    <3> QED BY <1>2, <3>2
  <2> QED BY <2>1, <2>2
<1>9. Sound(cur, q, pcs)
  BY <1>1, <1>2, <1>3, <1>5, <1>7, <1>8 DEF Sound, Lined
<1> QED BY <1>4, <1>9, NotifySound DEF q

(* A slot is taken, or the request joins the queue. *)
LEMMA AcquireSound ==
    ASSUME HInv, NEW r \in Requests, Acquire(r)
    PROVE  Sound(cur', queue', pc')
<1>1. /\ Sound(cur, queue, pc) /\ pc[r] = "acquire"
      /\ cur \in 0 .. Limit /\ Limit \in Nat
  BY InvIsSound, HasherAssumption DEF Acquire, Sound
<1>2. CASE pc' = [pc EXCEPT ![r] = "idle"] /\ UNCHANGED <<cur, queue>>
  <2>1. /\ pc' \in [Requests -> PCs] /\ pc'[r] = "idle"
        /\ \A x \in Requests \ {r} : pc'[x] = pc[x]
    BY <1>1, <1>2 DEF Sound, PCs
  <2>2. Holders(pc') = Holders(pc)
    BY <1>1, <2>1 DEF Holders
  <2>3. Lined(queue, pc')
    BY <1>1, <2>1 DEF Sound, Lined
  <2> QED BY <1>1, <1>2, <2>1, <2>2, <2>3 DEF Sound
<1>3. CASE /\ cur < Limit /\ queue = <<>>
           /\ cur' = cur + 1 /\ pc' = [pc EXCEPT ![r] = "hashing"]
           /\ UNCHANGED queue
  <2>1. /\ pc' \in [Requests -> PCs] /\ pc'[r] = "hashing"
        /\ \A x \in Requests \ {r} : pc'[x] = pc[x]
    BY <1>1, <1>3 DEF Sound, PCs
  <2>2. Holders(pc') = Holders(pc) \cup {r} /\ r \notin Holders(pc)
    BY <1>1, <2>1 DEF Holders
  <2>3. Cardinality(Holders(pc')) = cur + 1
    BY <1>1, <2>2, HoldersFinite, FS_AddElement DEF Sound
  <2>4. Lined(queue, pc')
    BY <1>1, <2>1 DEF Sound, Lined
  <2>5. cur' \in 0 .. Limit
    BY <1>1, <1>3
  <2> QED BY <1>1, <1>3, <2>1, <2>3, <2>4, <2>5 DEF Sound
<1>4. CASE /\ ~(cur < Limit /\ queue = <<>>)
           /\ queue' = Append(queue, r) /\ pc' = [pc EXCEPT ![r] = "waiting"]
           /\ UNCHANGED cur
  <2>1. /\ pc' \in [Requests -> PCs] /\ pc'[r] = "waiting"
        /\ \A x \in Requests \ {r} : pc'[x] = pc[x]
    BY <1>1, <1>4 DEF Sound, PCs
  <2>2. Holders(pc') = Holders(pc)
    BY <1>1, <2>1 DEF Holders
  <2>3. /\ queue' \in Seq(Requests) /\ Len(queue') = Len(queue) + 1
        /\ queue'[Len(queue) + 1] = r /\ Len(queue) \in Nat
        /\ \A i \in 1 .. Len(queue) : queue'[i] = queue[i]
    BY <1>1, <1>4 DEF Sound
  <2>4. \A i \in 1 .. Len(queue) : queue[i] # r
    BY <1>1 DEF Sound, Lined
  <2>5. \A i, j \in 1 .. Len(queue') : queue'[i] = queue'[j] => i = j
    <3>1. \A i \in 1 .. Len(queue') :
             i \in 1 .. Len(queue) \/ i = Len(queue) + 1
      BY <2>3
    <3> QED BY <1>1, <2>3, <2>4, <3>1 DEF Sound, Lined
  <2>6. ASSUME NEW x \in Requests
        PROVE  pc'[x] = "waiting" <=> \E i \in 1 .. Len(queue') : queue'[i] = x
    <3>1. CASE x = r
      BY <2>1, <2>3, <3>1
    <3>2. CASE x # r
      <4>1. \A i \in 1 .. Len(queue') : i \in 1 .. Len(queue)
                                         \/ i = Len(queue) + 1
        BY <2>3
      <4>2. \A i \in 1 .. Len(queue) : i \in 1 .. Len(queue')
        BY <2>3
      <4>3. (\E i \in 1 .. Len(queue') : queue'[i] = x)
            <=> \E i \in 1 .. Len(queue) : queue[i] = x
        BY <2>3, <3>2, <4>1, <4>2
      <4> QED BY <1>1, <2>1, <3>2, <4>3 DEF Sound, Lined
    <3> QED BY <3>1, <3>2
  <2> QED BY <1>1, <1>4, <2>1, <2>2, <2>3, <2>5, <2>6 DEF Sound, Lined
<1> QED BY <1>2, <1>3, <1>4 DEF Acquire

(* A step of one request that only its own place shows, from outside the   *)
(* queue to outside it.                                                    *)
LEMMA MoveSound ==
    ASSUME HInv, NEW r \in Requests, NEW p \in PCs \ {"waiting"},
           pc[r] # "waiting", UNCHANGED <<cur, queue>>,
           pc' = [pc EXCEPT ![r] = p],
           p \in {"ready", "hashing"} <=> pc[r] \in {"ready", "hashing"}
    PROVE  Sound(cur', queue', pc')
<1>1. Sound(cur, queue, pc)
  BY InvIsSound
<1>2. /\ pc' \in [Requests -> PCs] /\ pc'[r] = p
      /\ \A x \in Requests \ {r} : pc'[x] = pc[x]
  BY <1>1 DEF Sound
<1>3. Holders(pc') = Holders(pc)
  BY <1>2 DEF Holders
<1>4. Lined(queue, pc')
  BY <1>1, <1>2 DEF Sound, Lined
<1> QED BY <1>1, <1>2, <1>3, <1>4 DEF Sound

-----------------------------------------------------------------------------
(* The system. *)

LEMMA HasherInit == HInit => HInv
<1> SUFFICES ASSUME HInit PROVE HInv
  OBVIOUS
<1>1. /\ cur = 0 /\ queue = <<>> /\ pc = [r \in Requests |-> "idle"]
      /\ left = [r \in Requests |-> 0] /\ expired = {}
  BY DEF HInit
<1>2. Holders(pc) = {}
  BY <1>1 DEF Holders
<1>3. queue \in Seq(Requests) /\ Len(queue) = 0
  BY <1>1, EmptySeq
<1>4. Lined(queue, pc)
  BY <1>1, <1>3 DEF Lined
<1>5. Sound(cur, queue, pc)
  <2>1. Cardinality(Holders(pc)) = 0
    BY <1>2, FS_EmptySet
  <2>2. cur \in 0 .. Limit
    BY <1>1, HasherAssumption
  <2>3. pc \in [Requests -> PCs]
    BY <1>1 DEF PCs
  <2> QED BY <1>1, <1>3, <1>4, <2>1, <2>2, <2>3 DEF Sound
<1> QED BY <1>1, <1>5, InvIsSound

LEMMA StopTyped ==
    ASSUME HInv, NEW r \in Requests, Stop(r)
    PROVE  left' \in [Requests -> 0 .. 2] /\ expired' \in SUBSET Requests
  BY DEF HInv, HTypeOK, Stop

LEMMA HasherStep == HInv /\ [HNext]_hvars => HInv'
<1> SUFFICES ASSUME HInv, [HNext]_hvars PROVE HInv'
  OBVIOUS
<1>0. left \in [Requests -> 0 .. 2] /\ expired \in SUBSET Requests
  BY DEF HInv, HTypeOK
<1> DEFINE Good == /\ Sound(cur', queue', pc')
                   /\ left' \in [Requests -> 0 .. 2]
                   /\ expired' \in SUBSET Requests
<1>1. ASSUME NEW r \in Requests, NEW n \in {1, 2}, Start(r, n)
      PROVE  Good
  <2>1. left' \in [Requests -> 0 .. 2]
    BY <1>0, <1>1 DEF Start
  <2>2. "acquire" \in PCs \ {"waiting"}
    BY DEF PCs
  <2> QED BY <1>0, <1>1, <2>1, <2>2, MoveSound DEF Start
<1>2. ASSUME NEW r \in Requests, Acquire(r)
      PROVE  Good
  BY <1>0, <1>2, AcquireSound, StopTyped DEF Acquire
<1>3. ASSUME NEW r \in Requests, Expire(r)
      PROVE  Good
  <2>1. /\ UNCHANGED <<cur, queue, pc, left>>
        /\ expired' = expired \cup {r}
    BY <1>3 DEF Expire
  <2>2. Sound(cur', queue', pc')
    BY <2>1, InvIsSound
  <2> QED BY <1>0, <2>1, <2>2
<1>4. ASSUME NEW r \in Requests, Withdraw(r)
      PROVE  Good
  BY <1>4, WithdrawSound, StopTyped DEF Withdraw
<1>5. ASSUME NEW r \in Requests, Granted(r)
      PROVE  Good
  <2>1. CASE r \in expired
    BY <1>5, <2>1, ReleaseSound, StopTyped DEF Granted
  <2>2. CASE r \notin expired
    <3>1. "hashing" \in PCs \ {"waiting"}
      BY DEF PCs
    <3> QED BY <1>0, <1>5, <2>2, <3>1, MoveSound DEF Granted
  <2> QED BY <2>1, <2>2
<1>6. ASSUME NEW r \in Requests, Finish(r)
      PROVE  Good
  <2>1. CASE /\ Release(queue, [pc EXCEPT ![r] = "acquire"])
             /\ left' = [left EXCEPT ![r] = 1] /\ UNCHANGED expired
    <3>1. left' \in [Requests -> 0 .. 2]
      BY <1>0, <2>1
    <3> QED BY <1>0, <1>6, <2>1, <3>1, ReleaseSound DEF Finish
  <2>2. CASE Release(queue, [pc EXCEPT ![r] = "idle"]) /\ Stop(r)
    BY <1>6, <2>2, ReleaseSound, StopTyped DEF Finish
  <2> QED BY <1>6, <2>1, <2>2 DEF Finish
<1>7. CASE UNCHANGED hvars
  BY <1>7 DEF hvars, HInv, HTypeOK, SlotsConserved, Lined
<1>8. Good => HInv'
  <2>1. cur' \in 0 .. Limit => cur' <= Limit
    BY HasherAssumption
  <2> QED BY <2>1 DEF HInv, Sound, HTypeOK, SlotsConserved, Holders
<1> QED
  BY <1>1, <1>2, <1>3, <1>4, <1>5, <1>6, <1>7, <1>8 DEF HNext

LEMMA HasherInvariant == HSpec => []HInv
<1> QED BY HasherInit, HasherStep, PTL DEF HSpec

(* The semaphore's state is what its type says. *)
THEOREM HasherTyped == HSpec => []HTypeOK
<1>1. HInv => HTypeOK
  BY DEF HInv
<1> QED BY <1>1, HasherInvariant, PTL

(* Every slot counted is held by one request that will give it back, and   *)
(* there are never more of them than the limit.                            *)
THEOREM SlotsAreConserved == HSpec => []SlotsConserved
<1>1. HInv => SlotsConserved
  BY DEF HInv
<1> QED BY <1>1, HasherInvariant, PTL
=============================================================================
