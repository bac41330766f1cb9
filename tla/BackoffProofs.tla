--------------------------- MODULE BackoffProofs ---------------------------
(***************************************************************************)
(* Theorems of Backoff: the counters are counters, no key stays shut       *)
(* longer than the cap after its last counted failure, and logins that     *)
(* run at once do no more than shift the curve, for every number of        *)
(* logins in flight and every setting of the curve.                        *)
(***************************************************************************)
EXTENDS Backoff, SequenceTheorems, FiniteSetTheorems, TLAPS

(* A counter's window opens when its last failure was counted. *)
QuietInv == \A k \in Keys : failures[k] > 0 => quiet[k] = age[k]

BInv == BTypeOK /\ QuietInv

-----------------------------------------------------------------------------
(* Types. *)

LEMMA RowsAreKeys ==
    ASSUME BTypeOK, NEW r \in Requests
    PROVE  Rows(r) \subseteq Keys
  BY DEF BTypeOK, Login, Rows, Keys

LEMMA OlderIsAge ==
    ASSUME NEW a \in 0 .. MaxDelay
    PROVE  Older(a) \in 0 .. MaxDelay
<1>1. MaxDelay \in Nat /\ a \in Nat /\ a <= MaxDelay
  BY BackoffAssumption
<1> QED BY <1>1 DEF Older

LEMMA OlderSeq ==
    ASSUME NEW s \in Seq(0 .. MaxDelay)
    PROVE  [i \in 1 .. Len(s) |-> Older(s[i])] \in Seq(0 .. MaxDelay)
<1>1. Len(s) \in Nat /\ \A i \in 1 .. Len(s) : s[i] \in 0 .. MaxDelay
  BY LenProperties, ElementOfSeq
<1>2. \A i \in 1 .. Len(s) : Older(s[i]) \in 0 .. MaxDelay
  BY <1>1, OlderIsAge
<1>3. [i \in 1 .. Len(s) |-> Older(s[i])] \in [1 .. Len(s) -> 0 .. MaxDelay]
  BY <1>2
<1>4. \A n \in Nat : \A D : [1 .. n -> D] \subseteq Seq(D)
  BY SeqDef
<1> QED BY <1>1, <1>3, <1>4

(* A login moves on; nothing else does but what is named. *)
LEMMA LoginTyped ==
    ASSUME BTypeOK, NEW r \in Requests, NEW p \in Login,
           login' = [login EXCEPT ![r] = p]
    PROVE  login' \in [Requests -> Login]
  BY DEF BTypeOK

LEMMA IdleIsLogin == Idle \in Login
<1>1. (CHOOSE a \in Accounts : TRUE) \in Accounts
  BY BackoffAssumption
<1> QED BY <1>1 DEF Idle, Login

LEMMA MovedIsLogin ==
    ASSUME BTypeOK, NEW r \in Requests,
           NEW pc \in {"idle", "check", "verify", "fail", "reset"}
    PROVE  [login[r] EXCEPT !.pc = pc] \in Login
  BY DEF BTypeOK, Login

LEMMA CountTyped ==
    ASSUME BTypeOK, NEW K \in SUBSET Keys, Count(K), Counted(K)
    PROVE  /\ failures' \in [Keys -> Nat] /\ age' \in [Keys -> 0 .. MaxDelay]
           /\ quiet' \in [Keys -> 0 .. MaxDelay]
<1>1. 0 \in 0 .. MaxDelay
  BY BackoffAssumption
<1> QED BY <1>1 DEF BTypeOK, Count, Counted

LEMMA LoseTyped ==
    ASSUME BTypeOK, NEW r \in Requests, Lose(r)
    PROVE  lost' \in [Keys -> Nat]
  BY DEF BTypeOK, Lose

LEMMA BackoffTypeStep == BTypeOK /\ [BNext]_bvars => BTypeOK'
<1> SUFFICES ASSUME BTypeOK, [BNext]_bvars PROVE BTypeOK'
  OBVIOUS
<1>0. 0 \in 0 .. MaxDelay /\ MaxDelay \in 0 .. MaxDelay
  BY BackoffAssumption
<1>1. ASSUME NEW r \in Requests, NEW a \in Accounts,
             NEW ip \in Addresses \cup {NoAddress}, Attempt(r, a, ip)
      PROVE  BTypeOK'
  <2>1. [pc |-> "check", account |-> a, from |-> ip] \in Login
    BY DEF Login
  <2>2. login' \in [Requests -> Login]
    BY <1>1, <2>1, LoginTyped DEF Attempt
  <2> QED BY <1>1, <2>2 DEF Attempt, BTypeOK
<1>2. ASSUME NEW r \in Requests, Refuse(r)
      PROVE  BTypeOK'
  <2>1. login' \in [Requests -> Login]
    BY <1>2, LoginTyped, IdleIsLogin DEF Refuse
  <2> QED BY <1>2, <2>1 DEF Refuse, BTypeOK
<1>3. ASSUME NEW r \in Requests, Admit(r)
      PROVE  BTypeOK'
  <2>1. login' = [login EXCEPT ![r] = [login[r] EXCEPT !.pc = "verify"]]
    BY <1>3 DEF Admit, BTypeOK
  <2>2. login' \in [Requests -> Login]
    BY <2>1, LoginTyped, MovedIsLogin
  <2>3. \A k \in Keys : streak'[k] \in Seq(0 .. MaxDelay)
    <3>1. \A k \in Keys : Append(streak[k], 0) \in Seq(0 .. MaxDelay)
      BY <1>0 DEF BTypeOK
    <3> QED BY <1>3, <3>1 DEF Admit, BTypeOK
  <2> QED BY <1>3, <2>2, <2>3 DEF Admit, BTypeOK
<1>4. ASSUME NEW r \in Requests, NEW verdict \in {"fail", "reset"},
             Verify(r, verdict)
      PROVE  BTypeOK'
  <2>1. login' = [login EXCEPT ![r] = [login[r] EXCEPT !.pc = verdict]]
    BY <1>4 DEF Verify, BTypeOK
  <2>2. login' \in [Requests -> Login]
    BY <2>1, LoginTyped, MovedIsLogin
  <2> QED BY <1>4, <2>2 DEF Verify, BTypeOK
<1>5. ASSUME NEW r \in Requests, GiveUp(r)
      PROVE  BTypeOK'
  <2>1. login' \in [Requests -> Login]
    BY <1>5, LoginTyped, IdleIsLogin DEF GiveUp
  <2>2. lost' \in [Keys -> Nat]
    BY <1>5, LoseTyped DEF GiveUp
  <2> QED BY <1>5, <2>1, <2>2 DEF GiveUp, BTypeOK
<1>6. ASSUME NEW r \in Requests, RecordFailure(r)
      PROVE  BTypeOK'
  <2>1. login' \in [Requests -> Login] /\ streak' = streak
    BY <1>6, LoginTyped, IdleIsLogin DEF RecordFailure
  <2>2. CASE Count(Rows(r)) /\ Counted(Rows(r)) /\ UNCHANGED lost
    BY <2>1, <2>2, CountTyped, RowsAreKeys DEF BTypeOK
  <2>3. CASE Lose(r) /\ UNCHANGED <<failures, age, quiet>>
    BY <2>1, <2>3, LoseTyped DEF BTypeOK
  <2> QED BY <1>6, <2>2, <2>3 DEF RecordFailure
<1>7. ASSUME NEW r \in Requests, ResetBackoff(r)
      PROVE  BTypeOK'
  <2>1. login' \in [Requests -> Login]
    BY <1>7, LoginTyped, IdleIsLogin DEF ResetBackoff
  <2>2. /\ failures' \in [Keys -> Nat] /\ lost' \in [Keys -> Nat]
        /\ age' \in [Keys -> 0 .. MaxDelay]
        /\ quiet' \in [Keys -> 0 .. MaxDelay]
    BY <1>0, <1>7 DEF ResetBackoff, BTypeOK
  <2>3. \A k \in Keys : streak'[k] \in Seq(0 .. MaxDelay)
    <3>1. <<>> \in Seq(0 .. MaxDelay)
      BY EmptySeq
    <3>2. \A k \in Keys : streak'[k] \in {<<>>, streak[k]}
      BY <1>7 DEF ResetBackoff
    <3> QED BY <3>1, <3>2 DEF BTypeOK
  <2> QED BY <2>1, <2>2, <2>3 DEF BTypeOK
<1>8. ASSUME NEW a \in Accounts, NEW ip \in Addresses \cup {NoAddress},
             ChangeFails(a, ip)
      PROVE  BTypeOK'
  <2>1. {a, ip} \ {NoAddress} \in SUBSET Keys
    BY DEF Keys
  <2>2. Count({a, ip} \ {NoAddress}) /\ Counted({a, ip} \ {NoAddress})
    BY <1>8 DEF ChangeFails
  <2> QED BY <1>8, <2>1, <2>2, CountTyped DEF ChangeFails, BTypeOK
<1>9. ASSUME Second
      PROVE  BTypeOK'
  <2>1. age' \in [Keys -> 0 .. MaxDelay] /\ quiet' \in [Keys -> 0 .. MaxDelay]
    BY <1>9, OlderIsAge DEF Second, BTypeOK
  <2>2. \A k \in Keys : streak'[k] \in Seq(0 .. MaxDelay)
    BY <1>9, OlderSeq DEF Second, BTypeOK
  <2> QED BY <1>9, <2>1, <2>2 DEF Second, BTypeOK
<1>10. CASE UNCHANGED bvars
  BY <1>10 DEF bvars, BTypeOK
<1> QED
  BY <1>1, <1>2, <1>3, <1>4, <1>5, <1>6, <1>7, <1>8, <1>9, <1>10 DEF BNext

LEMMA QuietStep == BTypeOK /\ QuietInv /\ [BNext]_bvars => QuietInv'
<1> SUFFICES ASSUME BTypeOK, QuietInv, [BNext]_bvars PROVE QuietInv'
  OBVIOUS
<1>1. ASSUME NEW K \in SUBSET Keys, Count(K), Counted(K)
      PROVE  QuietInv'
  BY <1>1 DEF Count, Counted, QuietInv
<1>2. CASE UNCHANGED <<failures, age, quiet>>
  BY <1>2 DEF QuietInv
<1>3. ASSUME NEW r \in Requests, RecordFailure(r)
      PROVE  QuietInv'
  BY <1>1, <1>2, <1>3, RowsAreKeys DEF RecordFailure
<1>4. ASSUME NEW r \in Requests, ResetBackoff(r)
      PROVE  QuietInv'
  BY <1>4 DEF ResetBackoff, QuietInv
<1>5. ASSUME NEW a \in Accounts, NEW ip \in Addresses \cup {NoAddress},
             ChangeFails(a, ip)
      PROVE  QuietInv'
  <2>1. {a, ip} \ {NoAddress} \in SUBSET Keys
    BY DEF Keys
  <2> QED BY <1>1, <1>5, <2>1 DEF ChangeFails
<1>6. ASSUME Second
      PROVE  QuietInv'
  <2>1. \A k \in Keys : /\ failures'[k] = failures[k]
                        /\ age'[k] = Older(age[k])
                        /\ quiet'[k] = Older(quiet[k])
    BY <1>6 DEF Second
  <2> QED BY <2>1 DEF QuietInv
<1> QED
  BY <1>2, <1>3, <1>4, <1>5, <1>6
  DEF BNext, bvars, Attempt, Refuse, Admit, GiveUp, Verify

LEMMA BackoffInit == BInit => BInv
<1> SUFFICES ASSUME BInit PROVE BInv
  OBVIOUS
<1>1. 0 \in 0 .. MaxDelay /\ MaxDelay \in 0 .. MaxDelay
  BY BackoffAssumption
<1>2. \A k \in Keys : streak[k] \in Seq(0 .. MaxDelay)
  BY EmptySeq DEF BInit
<1>3. BTypeOK
  BY <1>1, <1>2, IdleIsLogin DEF BInit, BTypeOK
<1>4. QuietInv
  BY DEF BInit, QuietInv
<1> QED BY <1>3, <1>4 DEF BInv

(* The counters, the logins and their ages are what their types say. *)
THEOREM BackoffTyped == BSpec => []BTypeOK
<1> QED BY BackoffInit, BackoffTypeStep, PTL DEF BSpec, BInv

LEMMA BackoffInvariant == BSpec => []BInv
<1> QED BY BackoffInit, BackoffTypeStep, QuietStep, PTL DEF BSpec, BInv

-----------------------------------------------------------------------------
(* No delay is longer than the cap: a window of the cap's age is over. *)
LEMMA CapOpens ==
    ASSUME NEW k \in Keys, NEW n \in Nat
    PROVE  MaxDelay >= delayFor(k, n)
<1>1. MaxDelay \in Nat /\ Free(k) \in Nat
  BY BackoffAssumption DEF Free
<1>2. CASE n <= Free(k)
  BY <1>1, <1>2 DEF delayFor
<1>3. CASE ~(n <= Free(k))
  <2> DEFINE over == n - Free(k)
             p == 2 ^ (over - 1)
  <2>1. over - 1 \in Nat
    BY <1>1, <1>3
  <2>2. ~(p > MaxDelay) => MaxDelay >= p
    BY <1>1, <2>1
  <2>3. delayFor(k, n) = IF over > Doublings \/ p > MaxDelay THEN MaxDelay
                                                            ELSE p
    BY <1>3 DEF delayFor
  <2> HIDE DEF p
  <2> QED BY <1>1, <2>2, <2>3
<1> QED BY <1>2, <1>3

LEMMA NoRowNoDelay ==
    ASSUME NEW k \in Keys
    PROVE  delayFor(k, 0) = 0
  BY BackoffAssumption DEF delayFor, Free

(* What shuts a key is a failure counted on it within the cap. *)
LEMMA ShutByFailure ==
    ASSUME BInv, NEW k \in Keys, ~(age[k] >= delayFor(k, failures[k]))
    PROVE  quiet[k] < MaxDelay
<1>1. age[k] \in 0 .. MaxDelay /\ failures[k] \in Nat /\ MaxDelay \in Nat
  BY BackoffAssumption DEF BInv, BTypeOK
<1>2. failures[k] # 0
  BY <1>1, NoRowNoDelay
<1>3. age[k] # MaxDelay
  BY <1>1, CapOpens
<1> QED BY <1>1, <1>2, <1>3 DEF BInv, QuietInv

(* A login that has been asked about goes back to idle by being refused.   *)
LEMMA RefusedIs ==
    ASSUME BTypeOK, [BNext]_bvars, NEW r \in Requests,
           login[r].pc = "check", login'[r].pc = "idle"
    PROVE  Refuse(r)
<1>0. login \in [Requests -> Login] /\ Idle.pc = "idle"
  BY DEF BTypeOK, Idle
<1>1. ASSUME NEW q \in Requests, q # r, NEW p, login' = [login EXCEPT ![q] = p]
      PROVE  FALSE
  BY <1>0, <1>1
<1>2. ASSUME NEW q \in Requests, Admit(q)
      PROVE  FALSE
  BY <1>0, <1>2 DEF Admit, Login
<1>3. ASSUME NEW q \in Requests,
             \/ \E a \in Accounts, ip \in Addresses \cup {NoAddress} :
                   Attempt(q, a, ip)
             \/ GiveUp(q) \/ RecordFailure(q) \/ ResetBackoff(q)
      PROVE  FALSE
  <2>1. q # r
    BY <1>3 DEF Attempt, GiveUp, RecordFailure, ResetBackoff
  <2>2. \E p : login' = [login EXCEPT ![q] = p]
    BY <1>3 DEF Attempt, GiveUp, RecordFailure, ResetBackoff
  <2> QED BY <1>1, <2>1, <2>2
<1>4. ASSUME NEW q \in Requests, NEW verdict \in {"fail", "reset"},
             Verify(q, verdict)
      PROVE  FALSE
  <2>1. q # r /\ login'[r] = login[r]
    BY <1>0, <1>4 DEF Verify
  <2> QED BY <2>1
<1>5. ASSUME NEW q \in Requests, Refuse(q)
      PROVE  Refuse(r)
  <2>1. CASE q # r
    BY <1>1, <1>5, <2>1 DEF Refuse
  <2> QED BY <1>5, <2>1
<1>6. CASE login' = login
  BY <1>6
<1> QED
  BY <1>2, <1>3, <1>4, <1>5, <1>6 DEF BNext, bvars, ChangeFails, Second

(* An attempt is refused only within the cap of a failure counted on one   *)
(* of its keys.                                                            *)
THEOREM SelfRecovery == BSpec => SelfRecovers
<1>1. ASSUME BInv, [BNext]_bvars, NEW r \in Requests,
             login[r].pc = "check", login'[r].pc = "idle"
      PROVE  \E k \in Rows(r) : quiet[k] < MaxDelay
  <2>1. ~Admitted(r)
    BY <1>1, RefusedIs DEF BInv, Refuse
  <2>2. PICK k \in Rows(r) : ~(age[k] >= delayFor(k, failures[k]))
    BY <2>1 DEF Admitted
  <2>3. k \in Keys
    BY <1>1, RowsAreKeys DEF BInv
  <2> QED BY <1>1, <2>2, <2>3, ShutByFailure
<1>2. BInv /\ [BNext]_bvars
      => [\A r \in Requests :
             login[r].pc = "check" /\ login'[r].pc = "idle"
                => \E k \in Rows(r) : quiet[k] < MaxDelay]_bvars
  BY <1>1
<1> QED BY <1>2, BackoffInvariant, PTL DEF BSpec, SelfRecovers

-----------------------------------------------------------------------------
(* The curve. *)

(* The subsets of 1 .. n are 2 ^ n, so powers of two grow.                 *)
LEMMA PowerIs ==
    ASSUME NEW n \in Nat
    PROVE  /\ IsFiniteSet(SUBSET (1 .. n))
           /\ 2 ^ n = Cardinality(SUBSET (1 .. n))
           /\ 2 ^ n \in Nat
<1>1. IsFiniteSet(1 .. n) /\ Cardinality(1 .. n) = n
  BY FS_Interval
<1>2. /\ IsFiniteSet(SUBSET (1 .. n))
      /\ Cardinality(SUBSET (1 .. n)) = 2 ^ n
  BY <1>1, FS_SUBSET
<1> QED BY <1>2, FS_CardinalityType

LEMMA PowerGrows ==
    ASSUME NEW m \in Nat, NEW n \in Nat, m <= n
    PROVE  2 ^ m <= 2 ^ n
<1>1. SUBSET (1 .. m) \subseteq SUBSET (1 .. n)
  OBVIOUS
<1>2. Cardinality(SUBSET (1 .. m)) <= Cardinality(SUBSET (1 .. n))
  BY <1>1, PowerIs, FS_Subset
<1> QED BY <1>2, PowerIs

(* The shift of delayFor, cut off at Doublings, is the documented curve.   *)
LEMMA DelayIsCurve ==
    ASSUME NEW k \in Keys, NEW n \in Nat
    PROVE  delayFor(k, n) = Curve(k, n)
<1>1. MaxDelay \in Nat /\ Doublings \in Nat /\ Free(k) \in Nat
  BY BackoffAssumption DEF Free
<1>2. CASE n <= Free(k)
  BY <1>2 DEF delayFor, Curve
<1>3. CASE ~(n <= Free(k))
  <2> DEFINE over == n - Free(k)
             p == 2 ^ (over - 1)
  <2>1. over - 1 \in Nat
    BY <1>1, <1>3
  <2>2. p \in Nat
    BY <2>1, PowerIs
  <2>3. over > Doublings => p >= MaxDelay
    <3> SUFFICES ASSUME over > Doublings PROVE p >= MaxDelay
      OBVIOUS
    <3>1. Doublings <= over - 1
      BY <1>1, <2>1
    <3>2. 2 ^ Doublings <= p /\ 2 ^ Doublings \in Nat
      BY <1>1, <2>1, <3>1, PowerGrows, PowerIs
    <3>3. MaxDelay <= 2 ^ Doublings
      BY BackoffAssumption
    <3> HIDE DEF p
    <3> QED BY <1>1, <2>2, <3>2, <3>3
  <2>4. /\ delayFor(k, n) = IF over > Doublings \/ p > MaxDelay THEN MaxDelay
                                                                ELSE p
        /\ Curve(k, n) = CHOOSE d \in 0 .. MaxDelay :
                            \/ d = MaxDelay /\ p >= MaxDelay
                            \/ d < MaxDelay /\ d = p
    BY <1>3 DEF delayFor, Curve
  <2> HIDE DEF p, over
  <2>5. CASE p >= MaxDelay
    <3>1. \A d \in 0 .. MaxDelay :
             (\/ d = MaxDelay /\ p >= MaxDelay
              \/ d < MaxDelay /\ d = p) <=> d = MaxDelay
      BY <1>1, <2>2, <2>5
    <3>2. Curve(k, n) = MaxDelay
      BY <1>1, <2>4, <3>1
    <3> QED BY <1>1, <2>2, <2>4, <2>5, <3>2
  <2>6. CASE ~(p >= MaxDelay)
    <3>1. \A d \in 0 .. MaxDelay :
             (\/ d = MaxDelay /\ p >= MaxDelay
              \/ d < MaxDelay /\ d = p) <=> d = p
      BY <1>1, <2>2, <2>6
    <3>2. p \in 0 .. MaxDelay
      BY <1>1, <2>2, <2>6
    <3>3. Curve(k, n) = p
      BY <2>4, <3>1, <3>2
    <3> QED BY <1>1, <2>2, <2>3, <2>4, <2>6, <3>3
  <2> QED BY <2>5, <2>6
<1> QED BY <1>2, <1>3

(* More failures never make a delay shorter. *)
LEMMA DelayGrows ==
    ASSUME NEW k \in Keys, NEW m \in Nat, NEW n \in Nat, m <= n
    PROVE  /\ delayFor(k, m) <= delayFor(k, n)
           /\ delayFor(k, m) \in Nat /\ delayFor(k, n) \in Nat
<1>1. MaxDelay \in Nat /\ Doublings \in Nat /\ Free(k) \in Nat
  BY BackoffAssumption DEF Free
<1>2. ASSUME NEW i \in Nat
      PROVE  delayFor(k, i) \in Nat
  <2>1. i > Free(k) => 2 ^ (i - Free(k) - 1) \in Nat
    <3>1. i > Free(k) => i - Free(k) - 1 \in Nat
      BY <1>1
    <3> QED BY <3>1, PowerIs
  <2> QED BY <1>1, <2>1 DEF delayFor
<1>3. CASE m <= Free(k)
  BY <1>2, <1>3 DEF delayFor
<1>4. CASE ~(m <= Free(k))
  <2> DEFINE om == m - Free(k)
             on == n - Free(k)
             pm == 2 ^ (om - 1)
             pn == 2 ^ (on - 1)
  <2>1. om - 1 \in Nat /\ on - 1 \in Nat /\ om - 1 <= on - 1
    BY <1>1, <1>4
  <2>2. pm \in Nat /\ pn \in Nat /\ pm <= pn
    BY <2>1, PowerIs, PowerGrows
  <2>3. /\ delayFor(k, m) = IF om > Doublings \/ pm > MaxDelay THEN MaxDelay
                                                               ELSE pm
        /\ delayFor(k, n) = IF on > Doublings \/ pn > MaxDelay THEN MaxDelay
                                                               ELSE pn
    BY <1>1, <1>4 DEF delayFor
  <2> HIDE DEF pm, pn, om, on
  <2>4. om <= on /\ om \in Int /\ on \in Int
    BY <1>1 DEF om, on
  <2>5. delayFor(k, m) <= delayFor(k, n)
    BY <1>1, <2>2, <2>3, <2>4
  <2> QED BY <1>2, <2>5
<1> QED BY <1>3, <1>4

-----------------------------------------------------------------------------
(***************************************************************************)
(* Attempts are spaced.  What is on a key's streak was counted, was lost,  *)
(* or is in flight (Tallied); what was let through since the last count    *)
(* was lost or is in flight (Lagging); and the streak is in the order of   *)
(* the attempts (Ordered).                                                 *)
(***************************************************************************)
Busy == {"verify", "fail", "reset"}
InFlight(k) == {r \in Requests : login[r].pc \in Busy /\ k \in Rows(r)}
After(k) == {i \in 1 .. Len(streak[k]) : streak[k][i] < age[k]}

Tallied(k) == Len(streak[k]) <= failures[k] + lost[k] + Cardinality(InFlight(k))
Lagging(k) == Cardinality(After(k)) <= lost[k] + Cardinality(InFlight(k))
Ordered(k) == \A i, j \in 1 .. Len(streak[k]) :
                  i <= j => streak[k][j] <= streak[k][i]

Spaced(k) == Tallied(k) /\ Lagging(k) /\ Ordered(k)
SpaceInv == \A k \in Keys : Spaced(k)

LEMMA Finite ==
    ASSUME NEW k
    PROVE  /\ IsFiniteSet(InFlight(k)) /\ Cardinality(InFlight(k)) \in Nat
           /\ Cardinality(InFlight(k)) <= Cardinality(Requests)
           /\ Cardinality(Requests) \in Nat
<1>1. InFlight(k) \in SUBSET Requests
  BY DEF InFlight
<1> QED BY <1>1, BackoffAssumption, FS_Subset, FS_CardinalityType

LEMMA FiniteAfter ==
    ASSUME BTypeOK, NEW k \in Keys
    PROVE  IsFiniteSet(After(k)) /\ Cardinality(After(k)) \in Nat
<1>1. Len(streak[k]) \in Nat
  BY LenProperties DEF BTypeOK
<1>2. IsFiniteSet(1 .. Len(streak[k]))
  BY <1>1, FS_Interval
<1>3. After(k) \in SUBSET (1 .. Len(streak[k]))
  BY DEF After
<1> QED BY <1>2, <1>3, FS_Subset, FS_CardinalityType

(* What the counting needs of a key's values. *)
LEMMA KeyTypes ==
    ASSUME BTypeOK, NEW k \in Keys
    PROVE  /\ failures[k] \in Nat /\ lost[k] \in Nat /\ age[k] \in Nat
           /\ streak[k] \in Seq(0 .. MaxDelay) /\ Len(streak[k]) \in Nat
           /\ \A i \in 1 .. Len(streak[k]) : streak[k][i] \in 0 .. MaxDelay
           /\ Cardinality(After(k)) \in Nat
           /\ Cardinality(InFlight(k)) \in Nat
<1>1. streak[k] \in Seq(0 .. MaxDelay) /\ age[k] \in 0 .. MaxDelay
  BY DEF BTypeOK
<1>2. age[k] \in Nat
  BY <1>1, BackoffAssumption
<1> QED BY <1>1, <1>2, LenProperties, ElementOfSeq, FiniteAfter, Finite DEF BTypeOK

LEMMA KeyTypesNext ==
    ASSUME BTypeOK', NEW k \in Keys
    PROVE  /\ failures'[k] \in Nat /\ lost'[k] \in Nat
           /\ Cardinality(After(k)') \in Nat
           /\ Cardinality(InFlight(k)') \in Nat
<1>1. streak'[k] \in Seq(0 .. MaxDelay)
  BY DEF BTypeOK
<1>2. IsFiniteSet(1 .. Len(streak'[k]))
  BY <1>1, LenProperties, FS_Interval
<1>3. After(k)' \in SUBSET (1 .. Len(streak'[k]))
  BY DEF After
<1>4. InFlight(k)' \in SUBSET Requests
  BY DEF InFlight
<1>5. IsFiniteSet(After(k)') /\ IsFiniteSet(InFlight(k)')
  BY <1>2, <1>3, <1>4, BackoffAssumption, FS_Subset
<1> QED BY <1>5, FS_CardinalityType DEF BTypeOK

(* A login that is not busy after the step leaves every flight it was in.  *)
LEMMA Leaves ==
    ASSUME BTypeOK, NEW r \in Requests, NEW p \in Login, p.pc \notin Busy,
           login' = [login EXCEPT ![r] = p], NEW k
    PROVE  /\ InFlight(k)' = InFlight(k) \ {r}
           /\ Cardinality(InFlight(k)') = IF r \in InFlight(k)
                                          THEN Cardinality(InFlight(k)) - 1
                                          ELSE Cardinality(InFlight(k))
<1>1. login'[r] = p /\ \A q \in Requests \ {r} : login'[q] = login[q]
  BY DEF BTypeOK
<1>2. InFlight(k)' = InFlight(k) \ {r}
  BY <1>1 DEF InFlight, Rows
<1>3. IsFiniteSet(InFlight(k))
  BY Finite
<1> HIDE DEF InFlight
<1> QED BY <1>2, <1>3, FS_RemoveElement

(* One that is let through joins the flight of each of its keys.           *)
LEMMA Joins ==
    ASSUME BTypeOK, NEW r \in Requests, Admit(r), NEW k
    PROVE  Cardinality(InFlight(k)') = IF k \in Rows(r)
                                       THEN Cardinality(InFlight(k)) + 1
                                       ELSE Cardinality(InFlight(k))
<1>1. /\ login'[r] = [login[r] EXCEPT !.pc = "verify"]
      /\ \A q \in Requests \ {r} : login'[q] = login[q]
      /\ login[r].pc = "check" /\ login[r] \in Login
  BY DEF BTypeOK, Admit
<1>2. login'[r].pc = "verify" /\ Rows(r)' = Rows(r)
  BY <1>1 DEF Rows, Login
<1>3. r \notin InFlight(k)
  BY <1>1 DEF InFlight, Busy
<1>4. InFlight(k)' = IF k \in Rows(r) THEN InFlight(k) \cup {r} ELSE InFlight(k)
  BY <1>1, <1>2, <1>3 DEF InFlight, Rows, Busy
<1>5. IsFiniteSet(InFlight(k))
  BY Finite
<1> HIDE DEF InFlight
<1> QED BY <1>3, <1>4, <1>5, FS_AddElement

(* A verdict keeps a login in its flights. *)
LEMMA Stays ==
    ASSUME BTypeOK, NEW r \in Requests, NEW verdict \in {"fail", "reset"},
           Verify(r, verdict), NEW k
    PROVE  InFlight(k)' = InFlight(k)
<1>1. /\ login'[r] = [login[r] EXCEPT !.pc = verdict]
      /\ \A q \in Requests \ {r} : login'[q] = login[q]
      /\ login[r].pc = "verify" /\ login[r] \in Login
  BY DEF BTypeOK, Verify
<1>2. login'[r].pc = verdict /\ Rows(r)' = Rows(r)
  BY <1>1 DEF Rows, Login
<1> QED BY <1>1, <1>2 DEF InFlight, Rows, Busy

(* A key whose streak stays, whose age stays or starts again, and on which *)
(* nothing leaves the flight without being counted or lost.                *)
LEMMA KeySettles ==
    ASSUME BTypeOK, BTypeOK', NEW k \in Keys, Spaced(k),
           streak'[k] = streak[k], age'[k] \in {age[k], 0},
           failures[k] + lost[k] + Cardinality(InFlight(k))
              <= failures'[k] + lost'[k] + Cardinality(InFlight(k)'),
           \/ age'[k] = 0
           \/ lost[k] + Cardinality(InFlight(k))
                 <= lost'[k] + Cardinality(InFlight(k)')
    PROVE  Spaced(k)'
<1>1. /\ Len(streak[k]) \in Nat /\ Cardinality(After(k)) \in Nat
      /\ failures[k] \in Nat /\ lost[k] \in Nat
      /\ Cardinality(InFlight(k)) \in Nat
      /\ \A i \in 1 .. Len(streak[k]) : streak[k][i] \in Nat
  BY KeyTypes
<1>2. /\ failures'[k] \in Nat /\ lost'[k] \in Nat
      /\ Cardinality(InFlight(k)') \in Nat /\ Cardinality(After(k)') \in Nat
  BY KeyTypesNext
<1>3. Tallied(k)'
  BY <1>1, <1>2 DEF Spaced, Tallied
<1>4. Ordered(k)'
  BY DEF Spaced, Ordered
<1>5. Lagging(k)'
  <2>1. CASE age'[k] = 0
    <3>1. After(k)' = {}
      BY <1>1, <2>1 DEF After
    <3>2. Cardinality(After(k)') = 0
      BY <3>1, FS_EmptySet
    <3> QED BY <1>2, <3>2 DEF Lagging
  <2>2. CASE age'[k] = age[k] /\ age'[k] # 0
    <3>1. After(k)' = After(k)
      BY <2>2 DEF After
    <3> QED BY <1>1, <1>2, <2>2, <3>1 DEF Spaced, Lagging
  <2> QED BY <2>1, <2>2
<1> QED BY <1>3, <1>4, <1>5 DEF Spaced

LEMMA AdmitSpaced ==
    ASSUME BTypeOK, BTypeOK', SpaceInv, NEW r \in Requests, Admit(r)
    PROVE  SpaceInv'
<1> SUFFICES ASSUME NEW k \in Keys PROVE Spaced(k)'
  BY DEF SpaceInv
<1>1. Spaced(k) /\ failures' = failures /\ age' = age /\ lost' = lost
  BY DEF SpaceInv, Admit
<1>2. CASE k \notin Rows(r)
  <2>1. streak'[k] = streak[k]
    BY <1>2 DEF Admit
  <2>2. Cardinality(InFlight(k)') = Cardinality(InFlight(k))
    BY <1>2, Joins
  <2>3. /\ failures[k] \in Nat /\ lost[k] \in Nat
        /\ Cardinality(InFlight(k)) \in Nat
    BY KeyTypes
  <2> QED BY <1>1, <2>1, <2>2, <2>3, KeySettles
<1>3. CASE k \in Rows(r)
  <2> DEFINE n == Len(streak[k])
  <2>1. /\ n \in Nat /\ Cardinality(After(k)) \in Nat
        /\ failures[k] \in Nat /\ lost[k] \in Nat /\ age[k] \in Nat
        /\ Cardinality(InFlight(k)) \in Nat
        /\ \A i \in 1 .. n : streak[k][i] \in Nat
    BY KeyTypes
  <2>2. 0 \in 0 .. MaxDelay /\ streak[k] \in Seq(0 .. MaxDelay)
    BY BackoffAssumption DEF BTypeOK
  <2>3. streak'[k] = Append(streak[k], 0)
    BY <1>3 DEF Admit
  <2>4. /\ Len(streak'[k]) = n + 1 /\ streak'[k][n + 1] = 0
        /\ \A i \in 1 .. n : streak'[k][i] = streak[k][i]
    BY <2>2, <2>3, AppendProperties
  <2>5. Cardinality(InFlight(k)') = Cardinality(InFlight(k)) + 1
    BY <1>3, Joins
  <2>6. Tallied(k)'
    BY <1>1, <2>1, <2>4, <2>5 DEF Spaced, Tallied
  <2>7. Ordered(k)'
    <3> SUFFICES ASSUME NEW i \in 1 .. n + 1, NEW j \in 1 .. n + 1, i <= j
                 PROVE  streak'[k][j] <= streak'[k][i]
      BY <2>4 DEF Ordered
    <3>1. CASE j = n + 1
      <4>1. i \in 1 .. n \/ i = n + 1
        BY <2>1
      <4> HIDE DEF n
      <4>2. CASE i \in 1 .. n
        <5>1. streak'[k][i] = streak[k][i] /\ streak[k][i] \in Nat
          BY <2>1, <2>4, <4>2
        <5> QED BY <2>4, <3>1, <5>1
      <4>3. CASE i = n + 1
        BY <2>4, <3>1, <4>3
      <4> QED BY <4>1, <4>2, <4>3
    <3>2. CASE j # n + 1
      <4>1. i \in 1 .. n /\ j \in 1 .. n
        BY <2>1, <3>2
      <4> QED BY <1>1, <2>4, <4>1 DEF Spaced, Ordered
    <3> QED BY <3>1, <3>2
  <2>8. Lagging(k)'
    <3>1. After(k)' \in SUBSET (After(k) \cup {n + 1})
      BY <1>1, <2>1, <2>4 DEF After
    <3>2. IsFiniteSet(After(k))
      BY FiniteAfter
    <3> DEFINE m == n + 1
               older == After(k)
    <3> HIDE DEF m, older
    <3>6. IsFiniteSet(older) /\ Cardinality(older) \in Nat
      BY <2>1, <3>2 DEF older
    <3>7. /\ IsFiniteSet(older \cup {m})
          /\ \/ Cardinality(older \cup {m}) = Cardinality(older)
             \/ Cardinality(older \cup {m}) = Cardinality(older) + 1
      BY <3>6, FS_AddElement
    <3>8. /\ IsFiniteSet(older \cup {m})
          /\ Cardinality(older \cup {m}) <= Cardinality(older) + 1
      BY <3>6, <3>7
    <3>3. /\ IsFiniteSet(After(k) \cup {n + 1})
          /\ Cardinality(After(k) \cup {n + 1}) <= Cardinality(After(k)) + 1
      BY <3>8 DEF m, older
    <3>4. Cardinality(After(k)') <= Cardinality(After(k) \cup {n + 1})
      BY <3>1, <3>3, FS_Subset
    <3>5. /\ Cardinality(After(k)') \in Nat
          /\ Cardinality(After(k) \cup {n + 1}) \in Nat
      BY <3>3, FS_CardinalityType, KeyTypesNext
    <3> QED BY <1>1, <2>1, <2>5, <3>3, <3>4, <3>5 DEF Spaced, Lagging
  <2> QED BY <2>6, <2>7, <2>8 DEF Spaced
<1> QED BY <1>2, <1>3

LEMMA ResetSpaced ==
    ASSUME BTypeOK, BTypeOK', SpaceInv, NEW r \in Requests, ResetBackoff(r)
    PROVE  SpaceInv'
<1> SUFFICES ASSUME NEW k \in Keys PROVE Spaced(k)'
  BY DEF SpaceInv
<1>1. /\ failures'[k] \in Nat /\ lost'[k] \in Nat
      /\ Cardinality(InFlight(k)') \in Nat
  BY KeyTypesNext
<1>2. CASE k \in Rows(r)
  <2>1. streak'[k] = <<>>
    BY <1>2 DEF ResetBackoff
  <2>2. Len(streak'[k]) = 0 /\ After(k)' = {}
    BY <2>1 DEF After
  <2>3. Cardinality(After(k)') = 0
    BY <2>2, FS_EmptySet
  <2> QED BY <1>1, <2>2, <2>3 DEF Spaced, Tallied, Lagging, Ordered
<1>3. CASE k \notin Rows(r)
  <2>1. /\ streak'[k] = streak[k] /\ age'[k] = age[k] /\ lost'[k] = lost[k]
        /\ failures'[k] = failures[k]
    BY <1>3 DEF ResetBackoff
  <2>2. r \notin InFlight(k)
    BY <1>3 DEF InFlight
  <2>3. Cardinality(InFlight(k)') = Cardinality(InFlight(k))
    BY <2>2, Leaves, IdleIsLogin DEF ResetBackoff, Idle, Busy
  <2> QED BY <1>1, <2>1, <2>3, KeySettles DEF SpaceInv
<1> QED BY <1>2, <1>3

(* Growing older keeps the order of ages, and makes equal what was not     *)
(* only at the cap.                                                        *)
LEMMA OlderOrder ==
    ASSUME NEW a \in 0 .. MaxDelay, NEW b \in 0 .. MaxDelay
    PROVE  /\ a <= b => Older(a) <= Older(b)
           /\ Older(a) < Older(b) => a < b
  BY BackoffAssumption DEF Older

LEMMA SecondSpaced ==
    ASSUME BTypeOK, BTypeOK', SpaceInv, Second
    PROVE  SpaceInv'
<1> SUFFICES ASSUME NEW k \in Keys PROVE Spaced(k)'
  BY DEF SpaceInv
<1> DEFINE n == Len(streak[k])
<1>1. /\ n \in Nat /\ Cardinality(After(k)) \in Nat
      /\ failures[k] \in Nat /\ lost[k] \in Nat
      /\ Cardinality(InFlight(k)) \in Nat
      /\ \A i \in 1 .. n : streak[k][i] \in 0 .. MaxDelay
  BY KeyTypes
<1>2. age[k] \in 0 .. MaxDelay /\ age'[k] = Older(age[k])
  BY DEF BTypeOK, Second
<1>3. streak'[k] = [i \in 1 .. n |-> Older(streak[k][i])]
  BY DEF Second
<1>4. Len(streak'[k]) = n /\ \A i \in 1 .. n : streak'[k][i] = Older(streak[k][i])
  BY <1>1, <1>3
<1>5. /\ failures' = failures /\ lost' = lost
      /\ InFlight(k)' = InFlight(k)
  BY DEF Second, InFlight, Rows
<1>6. Spaced(k)
  BY DEF SpaceInv
<1>7. Tallied(k)'
  BY <1>4, <1>5, <1>6 DEF Spaced, Tallied
<1>8. Ordered(k)'
  BY <1>1, <1>4, <1>6, OlderOrder DEF Spaced, Ordered
<1>9. Lagging(k)'
  <2>1. After(k)' \in SUBSET After(k)
    BY <1>1, <1>2, <1>4, OlderOrder DEF After
  <2>2. Cardinality(After(k)') <= Cardinality(After(k))
    BY <2>1, FiniteAfter, FS_Subset
  <2>3. Cardinality(After(k)') \in Nat
    BY KeyTypesNext
  <2> QED BY <1>1, <1>5, <1>6, <2>2, <2>3 DEF Spaced, Lagging
<1> QED BY <1>7, <1>8, <1>9 DEF Spaced

(* A login that ends, with its failure counted or lost, or before it was   *)
(* let through.                                                            *)
LEMMA EndSpaced ==
    ASSUME BTypeOK, BTypeOK', SpaceInv, NEW r \in Requests, NEW p \in Login,
           p.pc \notin Busy, login' = [login EXCEPT ![r] = p],
           UNCHANGED streak,
           \/ login[r].pc \notin Busy /\ UNCHANGED <<failures, age, lost>>
           \/ Count(Rows(r)) /\ UNCHANGED lost
           \/ Lose(r) /\ UNCHANGED <<failures, age>>
    PROVE  SpaceInv'
<1> SUFFICES ASSUME NEW k \in Keys PROVE Spaced(k)'
  BY DEF SpaceInv
<1>1. /\ failures[k] \in Nat /\ lost[k] \in Nat
      /\ Cardinality(InFlight(k)) \in Nat
  BY KeyTypes
<1>2. Cardinality(InFlight(k)') = IF r \in InFlight(k)
                                  THEN Cardinality(InFlight(k)) - 1
                                  ELSE Cardinality(InFlight(k))
  BY Leaves
<1>3. /\ r \in InFlight(k) => k \in Rows(r)
      /\ login[r].pc \notin Busy => r \notin InFlight(k)
  BY DEF InFlight
<1>4. Spaced(k)
  BY DEF SpaceInv
<1>5. CASE login[r].pc \notin Busy /\ UNCHANGED <<failures, age, lost>>
  BY <1>1, <1>2, <1>3, <1>4, <1>5, KeySettles
<1>6. CASE Count(Rows(r)) /\ UNCHANGED lost
  <2>1. CASE k \in Rows(r)
    <3>1. failures'[k] = failures[k] + 1 /\ age'[k] = 0
      BY <1>6, <2>1 DEF Count
    <3> QED BY <1>1, <1>2, <1>4, <1>6, <3>1, KeySettles
  <2>2. CASE k \notin Rows(r)
    <3>1. failures'[k] = failures[k] /\ age'[k] = age[k]
      BY <1>6, <2>2 DEF Count
    <3> QED BY <1>1, <1>2, <1>3, <1>4, <1>6, <2>2, <3>1, KeySettles
  <2> QED BY <2>1, <2>2
<1>7. CASE Lose(r) /\ UNCHANGED <<failures, age>>
  <2>1. lost'[k] = IF k \in Rows(r) THEN lost[k] + 1 ELSE lost[k]
    BY <1>7 DEF Lose
  <2> QED BY <1>1, <1>2, <1>3, <1>4, <1>7, <2>1, KeySettles
<1> QED BY <1>5, <1>6, <1>7

LEMMA SpaceStep == BTypeOK /\ SpaceInv /\ [BNext]_bvars => SpaceInv'
<1> SUFFICES ASSUME BTypeOK, SpaceInv, [BNext]_bvars PROVE SpaceInv'
  OBVIOUS
<1>0. BTypeOK'
  BY BackoffTypeStep
<1>1. ASSUME NEW r \in Requests, NEW a \in Accounts,
             NEW ip \in Addresses \cup {NoAddress}, Attempt(r, a, ip)
      PROVE  SpaceInv'
  <2> DEFINE p == [pc |-> "check", account |-> a, from |-> ip]
  <2>1. p \in Login /\ p.pc \notin Busy
    BY DEF Login, Busy
  <2>2. /\ login' = [login EXCEPT ![r] = p] /\ login[r].pc \notin Busy
        /\ UNCHANGED <<failures, age, streak, lost>>
    BY <1>1 DEF Attempt, Busy
  <2> HIDE DEF p
  <2> QED BY <1>0, <2>1, <2>2, EndSpaced
<1>2. ASSUME NEW r \in Requests, Refuse(r) \/ GiveUp(r) \/ RecordFailure(r)
      PROVE  SpaceInv'
  <2>1. Idle \in Login /\ Idle.pc \notin Busy
    BY IdleIsLogin DEF Idle, Busy
  <2>2. /\ login' = [login EXCEPT ![r] = Idle] /\ UNCHANGED streak
        /\ \/ login[r].pc \notin Busy /\ UNCHANGED <<failures, age, lost>>
           \/ Count(Rows(r)) /\ UNCHANGED lost
           \/ Lose(r) /\ UNCHANGED <<failures, age>>
    BY <1>2 DEF Refuse, GiveUp, RecordFailure, Busy
  <2> QED BY <1>0, <2>1, <2>2, EndSpaced
<1>3. ASSUME NEW r \in Requests, NEW verdict \in {"fail", "reset"},
             Verify(r, verdict)
      PROVE  SpaceInv'
  <2>1. UNCHANGED <<failures, age, streak, lost>>
    BY <1>3 DEF Verify
  <2>2. \A k \in Keys : InFlight(k)' = InFlight(k)
    BY <1>3, Stays
  <2> QED BY <2>1, <2>2 DEF SpaceInv, Spaced, Tallied, Lagging, Ordered, After
<1>4. ASSUME NEW a \in Accounts, NEW ip \in Addresses \cup {NoAddress},
             ChangeFails(a, ip)
      PROVE  SpaceInv'
  <2> SUFFICES ASSUME NEW k \in Keys PROVE Spaced(k)'
    BY DEF SpaceInv
  <2>1. /\ failures[k] \in Nat /\ lost[k] \in Nat
        /\ Cardinality(InFlight(k)) \in Nat
    BY KeyTypes
  <2>2. InFlight(k)' = InFlight(k)
    BY <1>4 DEF ChangeFails, InFlight, Rows
  <2>3. /\ streak' = streak /\ lost' = lost
        /\ \/ failures'[k] = failures[k] + 1 /\ age'[k] = 0
           \/ failures'[k] = failures[k] /\ age'[k] = age[k]
    BY <1>4 DEF ChangeFails, Count
  <2> QED BY <1>0, <2>1, <2>2, <2>3, KeySettles DEF SpaceInv
<1>5. CASE UNCHANGED bvars
  BY <1>5 DEF bvars, SpaceInv, Spaced, Tallied, Lagging, Ordered, After, InFlight,
              Rows
<1> QED
  BY <1>0, <1>1, <1>2, <1>3, <1>4, <1>5, AdmitSpaced, ResetSpaced, SecondSpaced
  DEF BNext

LEMMA SpaceInit == BInit => SpaceInv
<1> SUFFICES ASSUME BInit, NEW k \in Keys PROVE Spaced(k)
  BY DEF SpaceInv
<1>1. failures[k] = 0 /\ lost[k] = 0 /\ Len(streak[k]) = 0
  BY DEF BInit
<1>2. After(k) = {}
  BY <1>1 DEF After
<1>3. Cardinality(After(k)) = 0 /\ Cardinality(InFlight(k)) \in Nat
  BY <1>2, FS_EmptySet, Finite
<1> QED BY <1>1, <1>3 DEF Spaced, Tallied, Lagging, Ordered

LEMMA SpaceInvariant == BSpec => [](BTypeOK /\ SpaceInv)
<1>1. BInit => BTypeOK /\ SpaceInv
  BY BackoffInit, SpaceInit DEF BInv
<1>2. BTypeOK /\ SpaceInv /\ [BNext]_bvars => BTypeOK' /\ SpaceInv'
  BY BackoffTypeStep, SpaceStep
<1> QED BY <1>1, <1>2, PTL DEF BSpec

(* A login that goes from being asked about to its password was admitted.  *)
LEMMA AdmittedIs ==
    ASSUME BTypeOK, [BNext]_bvars, NEW r \in Requests,
           login[r].pc = "check", login'[r].pc = "verify"
    PROVE  Admit(r)
<1>0. login \in [Requests -> Login] /\ Idle.pc = "idle"
  BY DEF BTypeOK, Idle
<1>1. ASSUME NEW q \in Requests, NEW p, p.pc # "verify",
             login' = [login EXCEPT ![q] = p]
      PROVE  FALSE
  BY <1>0, <1>1
<1>2. ASSUME NEW q \in Requests, NEW a \in Accounts,
             NEW ip \in Addresses \cup {NoAddress}, Attempt(q, a, ip)
      PROVE  FALSE
  <2> DEFINE p == [pc |-> "check", account |-> a, from |-> ip]
  <2>1. p.pc # "verify" /\ login' = [login EXCEPT ![q] = p]
    BY <1>2 DEF Attempt
  <2> HIDE DEF p
  <2> QED BY <1>1, <2>1
<1>3. ASSUME NEW q \in Requests,
             \/ Refuse(q) \/ GiveUp(q) \/ RecordFailure(q) \/ ResetBackoff(q)
      PROVE  FALSE
  <2>1. login' = [login EXCEPT ![q] = Idle]
    BY <1>3 DEF Refuse, GiveUp, RecordFailure, ResetBackoff
  <2> QED BY <1>0, <1>1, <2>1
<1>4. ASSUME NEW q \in Requests, NEW verdict \in {"fail", "reset"},
             Verify(q, verdict)
      PROVE  FALSE
  BY <1>0, <1>4 DEF Verify, Login
<1>5. ASSUME NEW q \in Requests, Admit(q)
      PROVE  Admit(r)
  <2>1. CASE q # r
    BY <1>0, <1>5, <2>1 DEF Admit
  <2> QED BY <1>5, <2>1
<1>6. CASE login' = login
  BY <1>6
<1> QED
  BY <1>2, <1>3, <1>4, <1>5, <1>6 DEF BNext, bvars, ChangeFails, Second

(* A login about to be let through is in nobody's flight. *)
LEMMA RoomInFlight ==
    ASSUME NEW r \in Requests, login[r].pc = "check", NEW k
    PROVE  Cardinality(InFlight(k)) + 1 <= Cardinality(Requests)
<1>1. InFlight(k) \in SUBSET (Requests \ {r})
  BY DEF InFlight, Busy
<1>2. /\ IsFiniteSet(Requests \ {r})
      /\ Cardinality(Requests \ {r}) = Cardinality(Requests) - 1
  BY BackoffAssumption, FS_RemoveElement
<1>3. Cardinality(InFlight(k)) <= Cardinality(Requests \ {r})
  BY <1>1, <1>2, FS_Subset
<1> QED BY <1>2, <1>3, Finite

(* The attempt that leaves the requests and the losses behind it comes     *)
(* after the window that the attempts before those opened.                 *)
LEMMA SpacedAttempt ==
    ASSUME BTypeOK, SpaceInv, NEW r \in Requests, Admit(r),
           NEW k \in Rows(r), NEW i \in 1 .. Len(streak[k]),
           i + Cardinality(Requests) + lost[k] = Len(streak[k]) + 1
    PROVE  streak[k][i] >= Curve(k, i)
<1> DEFINE n == Len(streak[k])
           flying == Cardinality(InFlight(k))
           all == Cardinality(Requests)
           late == Cardinality(After(k))
<1>0. k \in Keys
  BY RowsAreKeys
<1>1. /\ n \in Nat /\ late \in Nat /\ flying \in Nat /\ all \in Nat
      /\ failures[k] \in Nat /\ lost[k] \in Nat /\ age[k] \in Nat
      /\ \A j \in 1 .. n : streak[k][j] \in Nat
  BY <1>0, KeyTypes, Finite
<1>2. /\ n <= failures[k] + lost[k] + flying
      /\ late <= lost[k] + flying
      /\ \A j, l \in 1 .. n : j <= l => streak[k][l] <= streak[k][j]
  BY <1>0 DEF SpaceInv, Spaced, Tallied, Lagging, Ordered
<1>3. flying + 1 <= all
  BY RoomInFlight DEF Admit
<1>4. i \in Nat /\ i <= n /\ i + all + lost[k] = n + 1
  BY <1>1
<1>5. age[k] >= delayFor(k, failures[k])
  BY DEF Admit, Admitted
<1>6. streak[k][i] >= age[k]
  <2> SUFFICES ASSUME streak[k][i] < age[k] PROVE FALSE
    BY <1>1
  <2>1. i .. n \subseteq After(k)
    <3> SUFFICES ASSUME NEW l \in i .. n PROVE l \in After(k)
      OBVIOUS
    <3>1. l \in 1 .. n /\ i <= l
      BY <1>1
    <3>2. streak[k][l] <= streak[k][i] /\ streak[k][l] \in Nat
          /\ streak[k][i] \in Nat
      BY <1>1, <1>2, <3>1
    <3>3. streak[k][l] < age[k]
      <4> DEFINE u == streak[k][l]
                 v == streak[k][i]
      <4>1. u <= v /\ v < age[k] /\ u \in Nat /\ v \in Nat /\ age[k] \in Nat
        BY <1>1, <3>2
      <4> HIDE DEF u, v
      <4>2. u < age[k]
        BY <4>1
      <4> QED BY <4>2 DEF u
    <3> QED BY <3>1, <3>3 DEF After
  <2>2. Cardinality(i .. n) = n - i + 1
    <3>1. i \in Int /\ n \in Int /\ ~(i > n)
      BY <1>1, <1>4
    <3> HIDE DEF n
    <3>2. Cardinality(i .. n) = IF i > n THEN 0 ELSE n - i + 1
      BY <3>1, FS_Interval
    <3> QED BY <3>1, <3>2
  <2>3. Cardinality(i .. n) <= late
    BY <1>0, <2>1, FiniteAfter, FS_Subset
  <2> HIDE DEF n, flying, all, late
  <2> QED BY <1>1, <1>2, <1>3, <1>4, <2>2, <2>3
<1> HIDE DEF n, flying, all, late
<1>7. i <= failures[k]
  BY <1>1, <1>2, <1>3, <1>4
<1>8. /\ delayFor(k, i) <= delayFor(k, failures[k])
      /\ delayFor(k, i) \in Nat /\ delayFor(k, failures[k]) \in Nat
  BY <1>0, <1>1, <1>4, <1>7, DelayGrows
<1>9. delayFor(k, i) = Curve(k, i)
  BY <1>0, <1>4, DelayIsCurve
<1> QED BY <1>1, <1>5, <1>6, <1>8, <1>9 DEF n

(* Logins that run at once, however many, only shift the curve by their    *)
(* number and by the failures that went uncounted.                         *)
THEOREM Spacing == BSpec => AttemptsAreSpaced
<1>1. BTypeOK /\ SpaceInv /\ [BNext]_bvars
      => [\A r \in Requests :
             login[r].pc = "check" /\ login'[r].pc = "verify" =>
                \A k \in Rows(r) :
                   \A i \in 1 .. Len(streak[k]) :
                      i + Cardinality(Requests) + lost[k] = Len(streak[k]) + 1
                         => streak[k][i] >= Curve(k, i)]_bvars
  BY AdmittedIs, SpacedAttempt
<1> QED BY <1>1, SpaceInvariant, PTL DEF BSpec, AttemptsAreSpaced
=============================================================================
