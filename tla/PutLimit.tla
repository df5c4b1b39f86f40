------------------------------ MODULE PutLimit ------------------------------
(***************************************************************************)
(* The limit on PUTs to the bucket at once (rust/src/storage/put_limit.rs)  *)
(* and the retry loop that uses it (send_put of storage/s3_storage.rs).     *)
(*                                                                          *)
(* The semaphore is its number of free permits.  A PutPermit's report       *)
(* (succeeded, throttled) and its drop lock the state one after the other,  *)
(* and acquire takes the permit before it reads the round: each of them is  *)
(* a step of its own.  How long a retry waits is left out.                  *)
(***************************************************************************)
EXTENDS Naturals, FiniteSets

CONSTANTS
  Put,               \* the calls of send_put
  Max,               \* PUT_SLOTS, at least 1
  ThrottledAttempts, \* THROTTLED_PUT_ATTEMPTS
  FailedAttempts     \* STREAM_PUT_ATTEMPTS

ASSUME PutAssumption ==
  /\ IsFiniteSet(Put)
  /\ Max \in Nat \ {0}
  /\ ThrottledAttempts \in Nat \ {0} /\ FailedAttempts \in Nat \ {0}

VARIABLES
  limit, successes, round, debt,  \* State
  slots,      \* free permits of the semaphore
  pc,         \* pc[u]: where call u is
  sentIn,     \* sentIn[u]: the round of the permit of u
  throttles,  \* throttles[u]: throttled tries of u
  failures    \* failures[u]: failed tries of u

stateVars == <<limit, successes, round, debt>>
putVars == <<limit, successes, round, debt, slots, pc, sentIn, throttles, failures>>

\* The calls that hold a permit.
Held == {u \in Put : pc[u] \in {"permitted", "sending", "reported", "failed"}}

PutInit ==
  /\ limit = Max /\ successes = 0 /\ round = 0 /\ debt = 0
  /\ slots = Max
  /\ pc = [u \in Put |-> "waiting"]
  /\ sentIn = [u \in Put |-> 0]
  /\ throttles = [u \in Put |-> 0]
  /\ failures = [u \in Put |-> 0]

\* acquire: the semaphore hands out a permit ...
Acquire(u) ==
  /\ pc[u] = "waiting" /\ slots > 0
  /\ slots' = slots - 1
  /\ pc' = [pc EXCEPT ![u] = "permitted"]
  /\ UNCHANGED <<stateVars, sentIn, throttles, failures>>

\* ... and then the round is read.
Send(u) ==
  /\ pc[u] = "permitted"
  /\ sentIn' = [sentIn EXCEPT ![u] = round]
  /\ pc' = [pc EXCEPT ![u] = "sending"]
  /\ UNCHANGED <<stateVars, slots, throttles, failures>>

\* Each limit's worth of successes raises the limit by one: a slot owed is
\* forgiven, otherwise a permit is added.
Succeeded(u) ==
  LET raise == successes + 1 >= limit /\ limit < Max
  IN  /\ pc[u] = "sending"
      /\ successes' = IF raise THEN 0 ELSE successes + 1
      /\ limit' = IF raise THEN limit + 1 ELSE limit
      /\ debt' = IF raise /\ debt > 0 THEN debt - 1 ELSE debt
      /\ slots' = IF raise /\ debt = 0 THEN slots + 1 ELSE slots
      /\ pc' = [pc EXCEPT ![u] = "reported"]
      /\ UNCHANGED <<round, sentIn, throttles, failures>>

\* The limit is halved, once per round: free permits are forgotten and the
\* rest of the cut is owed by the permits in flight.
Throttled(u) ==
  LET half == IF limit \div 2 > 1 THEN limit \div 2 ELSE 1
      cut == limit - half
      forgotten == IF slots < cut THEN slots ELSE cut
  IN  /\ pc[u] = "sending"
      /\ IF sentIn[u] = round
         THEN /\ limit' = half
              /\ successes' = 0
              /\ round' = round + 1
              /\ slots' = slots - forgotten
              /\ debt' = debt + (cut - forgotten)
         ELSE UNCHANGED <<stateVars, slots>>
      /\ throttles' = [throttles EXCEPT ![u] = @ + 1]
      /\ pc' = [pc EXCEPT ![u] = "failed"]
      /\ UNCHANGED <<sentIn, failures>>

\* A PUT that fails otherwise reports nothing.
Failed(u) ==
  /\ pc[u] = "sending"
  /\ failures' = [failures EXCEPT ![u] = @ + 1]
  /\ pc' = [pc EXCEPT ![u] = "failed"]
  /\ UNCHANGED <<stateVars, slots, sentIn, throttles>>

\* The call gave up after its last attempt, or it tries again.
AfterDrop(u) ==
  IF pc[u] = "failed" /\ throttles[u] < ThrottledAttempts /\ failures[u] < FailedAttempts
  THEN "waiting" ELSE "done"

\* Bug: the permit is returned although a slot is owed.
DropReturns(u) ==
  /\ pc[u] \in {"reported", "failed"}
  /\ debt' = IF debt > 0 THEN debt - 1 ELSE debt
  /\ slots' = slots + 1
  /\ pc' = [pc EXCEPT ![u] = AfterDrop(u)]
  /\ UNCHANGED <<limit, successes, round, sentIn, throttles, failures>>

\* Drop: a permit pays a slot owed, or returns to the semaphore.
Drop(u) ==
  /\ pc[u] \in {"reported", "failed"}
  /\ debt' = IF debt > 0 THEN debt - 1 ELSE debt
  /\ slots' = IF debt > 0 THEN slots ELSE slots + 1
  /\ pc' = [pc EXCEPT ![u] = AfterDrop(u)]
  /\ UNCHANGED <<limit, successes, round, sentIn, throttles, failures>>

\* The upload's task is aborted while it waits or sends.
Cancel(u) ==
  /\ \/ /\ pc[u] = "waiting"
        /\ UNCHANGED <<debt, slots>>
     \/ /\ pc[u] = "sending"
        /\ debt' = IF debt > 0 THEN debt - 1 ELSE debt
        /\ slots' = IF debt > 0 THEN slots ELSE slots + 1
  /\ pc' = [pc EXCEPT ![u] = "done"]
  /\ UNCHANGED <<limit, successes, round, sentIn, throttles, failures>>

PutNext ==
  \E u \in Put :
    Acquire(u) \/ Send(u) \/ Succeeded(u) \/ Throttled(u) \/ Failed(u) \/ Drop(u) \/ Cancel(u)

PutSpec == PutInit /\ [][PutNext]_putVars

\* The semaphore is fair: a waiting call gets a permit when permits keep
\* coming.  A request is answered, and what follows is local.
PutFairness ==
  \A u \in Put :
    /\ SF_putVars(Acquire(u))
    /\ WF_putVars(Send(u))
    /\ WF_putVars(Succeeded(u) \/ Throttled(u) \/ Failed(u))
    /\ WF_putVars(Drop(u))

PutLiveSpec == PutSpec /\ PutFairness

-----------------------------------------------------------------------------
(* Properties.                                                              *)

\* Types; the limit stays between 1 and its maximum.
PutTypeOK ==
  /\ limit \in 1..Max
  /\ successes \in Nat /\ round \in Nat /\ debt \in Nat /\ slots \in Nat
  /\ pc \in [Put -> {"waiting", "permitted", "sending", "reported", "failed", "done"}]
  /\ sentIn \in [Put -> Nat]
  /\ throttles \in [Put -> Nat]
  /\ failures \in [Put -> Nat]

\* No permit is lost or made up, whatever is in flight while the limit moves:
\* free and held permits are the limit plus what is still owed.
PermitsConserved == slots + Cardinality(Held) = limit + debt

\* No PUT starts beyond the current limit: a permit is free only while fewer
\* PUTs than the limit are in flight, and none is while slots are owed.
StartsWithinLimit ==
  /\ slots > 0 => Cardinality(Held) < limit
  /\ debt > 0 => slots = 0

\* The conjunction is inductive.
PutInv == PutTypeOK /\ PermitsConserved /\ StartsWithinLimit

\* Every upload ends: permits owed, forgotten and returned never leave a
\* waiting PUT without one.
EveryPutEnds == \A u \in Put : <>(pc[u] = "done")
=============================================================================
