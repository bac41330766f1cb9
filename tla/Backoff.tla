------------------------------ MODULE Backoff ------------------------------
(***************************************************************************)
(* The failed-login counters of authn/accounts.go and authn/backoff.go:    *)
(* one row per account and one per client address, read by checkBackoff    *)
(* before the password is looked at and written by recordFailure or        *)
(* resetBackoff afterwards, each in a statement of its own, by logins that *)
(* run concurrently.                                                       *)
(*                                                                         *)
(* What the model keeps of time is ages: how long ago a row was written    *)
(* and an attempt let through, in seconds, up to the longest delay there   *)
(* is.  An age saturated there is past every window.                       *)
(***************************************************************************)
EXTENDS Naturals, Sequences, FiniteSets

CONSTANTS
    Requests,   \* logins in flight
    Accounts,   \* addresses attempted
    Addresses,  \* client addresses
    NoAddress,  \* a client whose address is not known
    UserFree,   \* userFreeFailures
    IpFree,     \* ipFreeFailures
    MaxDelay,   \* maxDelay, in seconds
    Doublings,  \* the 5 of delayFor: beyond it the cap is returned outright
    MaxStreak,  \* bound on the attempts of one streak
    MaxLost     \* bound on the failures of one streak that go uncounted

Keys == Accounts \cup Addresses

(* The shift never stops short of the cap. *)
ASSUME BackoffAssumption ==
    /\ {UserFree, IpFree, MaxDelay, Doublings, MaxStreak, MaxLost}
          \subseteq Nat
    /\ MaxDelay <= 2 ^ Doublings
    /\ IsFiniteSet(Requests)
    /\ Accounts # {} /\ Accounts \cap Addresses = {} /\ NoAddress \notin Keys

VARIABLES
    failures,  \* auth_login_attempts.failures, 0 for no row
    age,       \* now() - last_fail
    login,     \* the logins in flight
    streak,    \* history: age of each attempt let through since the last
               \* reset of the key, oldest first
    quiet,     \* history: age of the last failure counted on the key since
               \* its last reset, MaxDelay if there is none
    lost       \* history: failures of the streak that were never recorded

bvars == <<failures, age, login, streak, quiet, lost>>

Login == [pc: {"idle", "check", "verify", "fail", "reset"},
          account: Accounts, from: Addresses \cup {NoAddress}]
Idle == [pc |-> "idle", account |-> CHOOSE a \in Accounts : TRUE,
         from |-> NoAddress]

BTypeOK ==
    /\ failures \in [Keys -> Nat]
    /\ age \in [Keys -> 0 .. MaxDelay]
    /\ login \in [Requests -> Login]
    /\ \A k \in Keys : streak[k] \in Seq(0 .. MaxDelay)
    /\ quiet \in [Keys -> 0 .. MaxDelay]
    /\ lost \in [Keys -> Nat]

BInit ==
    /\ failures = [k \in Keys |-> 0]
    /\ age = [k \in Keys |-> 0]
    /\ login = [r \in Requests |-> Idle]
    /\ streak = [k \in Keys |-> <<>>]
    /\ quiet = [k \in Keys |-> MaxDelay]
    /\ lost = [k \in Keys |-> 0]

-----------------------------------------------------------------------------

Free(k) == IF k \in Accounts THEN UserFree ELSE IpFree

(* Defect: the count of free failures is off by one. *)
delayLate(k, n) ==
    LET over == n - Free(k) - 1 IN
    IF n <= Free(k) + 1 THEN 0
    ELSE IF over > Doublings \/ 2 ^ (over - 1) > MaxDelay THEN MaxDelay
    ELSE 2 ^ (over - 1)

delayFor(k, n) ==
    LET over == n - Free(k) IN
    IF n <= Free(k) THEN 0
    ELSE IF over > Doublings \/ 2 ^ (over - 1) > MaxDelay THEN MaxDelay
    ELSE 2 ^ (over - 1)

(* The rows one attempt reads and writes; no address, no ip row. *)
Rows(r) == {login[r].account} \cup ({login[r].from} \ {NoAddress})

(* checkBackoff: no counter of the attempt has a window open. *)
Admitted(r) == \A k \in Rows(r) : age[k] >= delayFor(k, failures[k])

-----------------------------------------------------------------------------

Attempt(r, a, ip) ==
    /\ login[r].pc = "idle"
    /\ login' = [login EXCEPT ![r] = [pc |-> "check", account |-> a,
                                      from |-> ip]]
    /\ UNCHANGED <<failures, age, streak, quiet, lost>>

(* Defect: a refused attempt stamps the rows it was refused by. *)
RefuseAndStamp(r) ==
    /\ login[r].pc = "check"
    /\ ~Admitted(r)
    /\ login' = [login EXCEPT ![r] = Idle]
    /\ age' = [k \in Keys |-> IF k \in Rows(r) THEN 0 ELSE age[k]]
    /\ UNCHANGED <<failures, streak, quiet, lost>>

(* RATE_LIMITED: nothing is written, a refusal does not prolong the window. *)
Refuse(r) ==
    /\ login[r].pc = "check"
    /\ ~Admitted(r)
    /\ login' = [login EXCEPT ![r] = Idle]
    /\ UNCHANGED <<failures, age, streak, quiet, lost>>

Admit(r) ==
    /\ login[r].pc = "check"
    /\ Admitted(r)
    /\ \A k \in Rows(r) : Len(streak[k]) < MaxStreak
    /\ streak' = [k \in Keys |-> IF k \in Rows(r) THEN Append(streak[k], 0)
                                                  ELSE streak[k]]
    /\ login' = [login EXCEPT ![r].pc = "verify"]
    /\ UNCHANGED <<failures, age, quiet, lost>>

(* A verdict: a wrong password, or a right one. *)
Verify(r, verdict) ==
    /\ login[r].pc = "verify"
    /\ login' = [login EXCEPT ![r].pc = verdict]
    /\ UNCHANGED <<failures, age, streak, quiet, lost>>

(* A failure, or an attempt, that reaches no counter. *)
Lose(r) ==
    /\ \A k \in Rows(r) : lost[k] < MaxLost
    /\ lost' = [k \in Keys |-> IF k \in Rows(r) THEN lost[k] + 1 ELSE lost[k]]

(* An error before the verdict, an unverified account, a right password    *)
(* whose reset failed: nothing is written, though an attempt was let       *)
(* through.                                                                *)
GiveUp(r) ==
    /\ login[r].pc = "verify"
    /\ login' = [login EXCEPT ![r] = Idle]
    /\ Lose(r)
    /\ UNCHANGED <<failures, age, streak, quiet>>

(* Defect: insert on conflict do nothing. *)
CountOnce(K) ==
    /\ failures' = [k \in Keys |-> IF k \in K THEN 1 ELSE failures[k]]
    /\ age' = [k \in Keys |-> IF k \in K /\ failures[k] = 0 THEN 0 ELSE age[k]]

(* The upsert: both rows, one statement. *)
Count(K) ==
    /\ failures' = [k \in Keys |-> IF k \in K THEN failures[k] + 1
                                              ELSE failures[k]]
    /\ age' = [k \in Keys |-> IF k \in K THEN 0 ELSE age[k]]

Counted(K) == quiet' = [k \in Keys |-> IF k \in K THEN 0 ELSE quiet[k]]

(* Best effort: an error is logged and the failure goes uncounted. *)
RecordFailure(r) ==
    /\ login[r].pc = "fail"
    /\ login' = [login EXCEPT ![r] = Idle]
    /\ \/ Count(Rows(r)) /\ Counted(Rows(r)) /\ UNCHANGED lost
       \/ Lose(r) /\ UNCHANGED <<failures, age, quiet>>
    /\ UNCHANGED streak

(* A wrong current password in ChangePassword counts too, unchecked. *)
ChangeFails(a, ip) ==
    /\ \A k \in {a, ip} \ {NoAddress} : failures[k] < MaxStreak
    /\ Count({a, ip} \ {NoAddress})
    /\ Counted({a, ip} \ {NoAddress})
    /\ UNCHANGED <<login, streak, lost>>

(* Defect: a success takes one failure back instead of all of them. *)
ResetBackoffByOne(r) ==
    /\ login[r].pc = "reset"
    /\ login' = [login EXCEPT ![r] = Idle]
    /\ failures' = [k \in Keys |-> IF k \in Rows(r) THEN failures[k] - 1
                                                    ELSE failures[k]]
    /\ UNCHANGED <<age, streak, quiet, lost>>

(* Both rows go, whoever else has been failing from that address. *)
ResetBackoff(r) ==
    /\ login[r].pc = "reset"
    /\ login' = [login EXCEPT ![r] = Idle]
    /\ failures' = [k \in Keys |-> IF k \in Rows(r) THEN 0 ELSE failures[k]]
    /\ age' = [k \in Keys |-> IF k \in Rows(r) THEN 0 ELSE age[k]]
    /\ streak' = [k \in Keys |-> IF k \in Rows(r) THEN <<>> ELSE streak[k]]
    /\ quiet' = [k \in Keys |-> IF k \in Rows(r) THEN MaxDelay ELSE quiet[k]]
    /\ lost' = [k \in Keys |-> IF k \in Rows(r) THEN 0 ELSE lost[k]]

Older(a) == IF a < MaxDelay THEN a + 1 ELSE a

Second ==
    /\ age' = [k \in Keys |-> Older(age[k])]
    /\ streak' = [k \in Keys |-> [i \in 1 .. Len(streak[k]) |->
                                      Older(streak[k][i])]]
    /\ quiet' = [k \in Keys |-> Older(quiet[k])]
    /\ UNCHANGED <<failures, login, lost>>

BNext ==
    \/ \E r \in Requests :
          \/ \E a \in Accounts, ip \in Addresses \cup {NoAddress} :
                Attempt(r, a, ip)
          \/ Refuse(r) \/ Admit(r) \/ GiveUp(r)
          \/ \E verdict \in {"fail", "reset"} : Verify(r, verdict)
          \/ RecordFailure(r) \/ ResetBackoff(r)
    \/ \E a \in Accounts, ip \in Addresses \cup {NoAddress} :
          ChangeFails(a, ip)
    \/ Second

BSpec == BInit /\ [][BNext]_bvars

-----------------------------------------------------------------------------
(* Properties. *)

(* The curve the documentation draws: nothing within the free allowance,   *)
(* then 1, 2, 4, ... seconds, capped.                                      *)
Curve(k, n) ==
    IF n <= Free(k) THEN 0
    ELSE CHOOSE d \in 0 .. MaxDelay :
            \/ d = MaxDelay /\ 2 ^ (n - Free(k) - 1) >= MaxDelay
            \/ d < MaxDelay /\ d = 2 ^ (n - Free(k) - 1)

(* However many logins run at once, they only shift the curve by their     *)
(* number: the attempt let through after g - 1 others on a key comes no    *)
(* sooner than Curve(i) after the i-th, i being g less the requests there  *)
(* can be in flight and the failures best effort lost.  The counters are   *)
(* checked in one statement and written in another, with the hashing in    *)
(* between (checkBackoff, recordFailure).                                  *)
AttemptsAreSpaced ==
    [][\A r \in Requests :
          login[r].pc = "check" /\ login'[r].pc = "verify" =>
             \A k \in Rows(r) :
                \A i \in 1 .. Len(streak[k]) :
                   i + Cardinality(Requests) + lost[k] = Len(streak[k]) + 1
                      => streak[k][i] >= Curve(k, i)]_bvars

(* "It self-recovers": an attempt is refused only if a failure was counted *)
(* on one of its keys less than the cap ago, so that a key left alone, or  *)
(* one on which attempts keep being refused, opens again (no hard lockout, *)
(* authn/backoff.go).                                                      *)
SelfRecovers ==
    [][\A r \in Requests :
          login[r].pc = "check" /\ login'[r].pc = "idle"
             => \E k \in Rows(r) : quiet[k] < MaxDelay]_bvars
=============================================================================
