------------------------------- MODULE Hasher -------------------------------
(***************************************************************************)
(* authn.Hasher: every Argon2 computation of the process behind one        *)
(* weighted semaphore, and what its callers do with it.  A request asks    *)
(* for one computation (a login, a registration) or two in turn (a login   *)
(* that rehashes, a password change), each in a slot of its own.           *)
(*                                                                         *)
(* semaphore.Weighted is not under src: it is modelled as golang.org/x/    *)
(* sync documents and src uses it, unit weights, first come first served.  *)
(***************************************************************************)
EXTENDS Naturals, Sequences, FiniteSets, SequencesExt

CONSTANTS
    Requests,
    Limit  \* maxConcurrent

ASSUME HasherAssumption ==
    /\ IsFiniteSet(Requests)
    /\ Limit \in Nat \ {0}

VARIABLES
    cur,      \* slots the semaphore counts as taken
    queue,    \* requests waiting for one, in order of arrival
    pc,       \* where each request is
    left,     \* computations it has yet to do, this one included
    expired   \* requests whose two seconds, or whose client, are gone

hvars == <<cur, queue, pc, left, expired>>

PCs == {"idle", "acquire", "waiting", "ready", "hashing"}

HTypeOK ==
    /\ cur \in 0 .. Limit
    /\ queue \in Seq(Requests)
    /\ pc \in [Requests -> PCs]
    /\ left \in [Requests -> 0 .. 2]
    /\ expired \in SUBSET Requests

HInit ==
    /\ cur = 0
    /\ queue = <<>>
    /\ pc = [r \in Requests |-> "idle"]
    /\ left = [r \in Requests |-> 0]
    /\ expired = {}

-----------------------------------------------------------------------------
(* The semaphore. *)

(* notifyWaiters, with pcs the other requests' places and n slots taken:   *)
(* the front of the queue is made ready while slots last.                  *)
Notify(n, q, pcs) ==
    LET free == Limit - n
        k == IF free < Len(q) THEN free ELSE Len(q)
        granted == {q[i] : i \in 1 .. k}
    IN  /\ cur' = n + k
        /\ queue' = SubSeq(q, k + 1, Len(q))
        /\ pc' = [r \in Requests |-> IF r \in granted THEN "ready" ELSE pcs[r]]

Release(q, pcs) == Notify(cur - 1, q, pcs)

-----------------------------------------------------------------------------
(* The callers. *)

Start(r, n) ==
    /\ pc[r] = "idle"
    /\ pc' = [pc EXCEPT ![r] = "acquire"]
    /\ left' = [left EXCEPT ![r] = n]
    /\ UNCHANGED <<cur, queue, expired>>

(* RATE_LIMITED, or the end of the last computation.  The context of a     *)
(* request dies with it.                                                   *)
Stop(r) ==
    /\ left' = [left EXCEPT ![r] = 0]
    /\ expired' = expired \ {r}

(* A context already done takes no slot. *)
Acquire(r) ==
    /\ pc[r] = "acquire"
    /\ IF r \in expired
       THEN /\ pc' = [pc EXCEPT ![r] = "idle"]
            /\ Stop(r)
            /\ UNCHANGED <<cur, queue>>
       ELSE /\ IF cur < Limit /\ queue = <<>>
               THEN /\ cur' = cur + 1
                    /\ pc' = [pc EXCEPT ![r] = "hashing"]
                    /\ UNCHANGED queue
               ELSE /\ queue' = Append(queue, r)
                    /\ pc' = [pc EXCEPT ![r] = "waiting"]
                    /\ UNCHANGED cur
            /\ UNCHANGED <<left, expired>>

(* Two seconds in acquire, or the client hangs up. *)
Expire(r) ==
    /\ pc[r] \in {"acquire", "waiting", "ready"}
    /\ expired' = expired \cup {r}
    /\ UNCHANGED <<cur, queue, pc, left>>

(* Defect: the context is only looked at once there is a free slot. *)
WithdrawLate(r) ==
    /\ pc[r] = "waiting" /\ r \in expired /\ cur < Limit
    /\ \E i \in 1 .. Len(queue) :
          /\ queue[i] = r
          /\ Notify(cur, RemoveAt(queue, i), [pc EXCEPT ![r] = "idle"])
    /\ Stop(r)

(* A waiter gives up and leaves the queue. *)
Withdraw(r) ==
    /\ pc[r] = "waiting" /\ r \in expired
    /\ \E i \in 1 .. Len(queue) :
          /\ queue[i] = r
          /\ Notify(cur, RemoveAt(queue, i), [pc EXCEPT ![r] = "idle"])
    /\ Stop(r)

(* A waiter that was granted a slot takes it, or puts it back if it had    *)
(* given up meanwhile.                                                     *)
Granted(r) ==
    /\ pc[r] = "ready"
    /\ IF r \in expired
       THEN Release(queue, [pc EXCEPT ![r] = "idle"]) /\ Stop(r)
       ELSE /\ pc' = [pc EXCEPT ![r] = "hashing"]
            /\ UNCHANGED <<cur, queue, left, expired>>

(* Two defects: a malformed stored hash returns before the release; a      *)
(* caller goes for its second computation from inside the first.           *)
FinishLeaking(r) ==
    /\ pc[r] = "hashing"
    /\ \/ Release(queue, [pc EXCEPT ![r] = "idle"])
       \/ pc' = [pc EXCEPT ![r] = "idle"] /\ UNCHANGED <<cur, queue>>
    /\ Stop(r)
FinishHolding(r) ==
    /\ pc[r] = "hashing"
    /\ IF left[r] = 2
       THEN /\ pc' = [pc EXCEPT ![r] = "acquire"]
            /\ left' = [left EXCEPT ![r] = 1]
            /\ UNCHANGED <<cur, queue, expired>>
       ELSE Release(queue, [pc EXCEPT ![r] = "idle"]) /\ Stop(r)

(* The computation ends and the deferred release runs, also on an error or *)
(* a panic; a caller with another computation to do, and no error, goes on *)
(* to it, with two seconds more.                                           *)
Finish(r) ==
    /\ pc[r] = "hashing"
    /\ \/ /\ left[r] = 2
          /\ Release(queue, [pc EXCEPT ![r] = "acquire"])
          /\ left' = [left EXCEPT ![r] = 1]
          /\ UNCHANGED expired
       \/ Release(queue, [pc EXCEPT ![r] = "idle"]) /\ Stop(r)

HNext ==
    \E r \in Requests :
       \/ Start(r, 1) \/ Start(r, 2)
       \/ Acquire(r) \/ Expire(r) \/ Withdraw(r) \/ Granted(r) \/ Finish(r)

(* Goroutines run.  Nobody is obliged to send requests or to hang up.      *)
HSpec ==
    /\ HInit /\ [][HNext]_hvars
    /\ \A r \in Requests :
          WF_hvars(Acquire(r)) /\ WF_hvars(Withdraw(r)) /\ WF_hvars(Granted(r))

-----------------------------------------------------------------------------
(* Properties. *)

(* Every slot the semaphore counts is held by a request that will give it  *)
(* back, and a request holds one slot at most: so at most Limit hashes are *)
(* in memory, and no timeout, hang-up, error or second computation leaks   *)
(* one ("a client that gave up does not hold a slot").                     *)
SlotsConserved ==
    /\ cur = Cardinality({r \in Requests : pc[r] \in {"ready", "hashing"}})
    /\ cur <= Limit

Answered == \A r \in Requests : pc[r] = "waiting" ~> pc[r] # "waiting"

(* Slots circulate: if computations end, a request that waits gets a slot, *)
(* first come first served, or gives up; no timer is relied upon, and no   *)
(* request waits for a slot while holding one.                             *)
Served == (\A r \in Requests : WF_hvars(Finish(r))) => Answered

(* "Told so instead of holding a goroutine open": if timers fire, a        *)
(* waiting request is answered even if the hashes ahead of it never end.   *)
ToldSo == (\A r \in Requests : WF_hvars(Expire(r))) => Answered
=============================================================================
