---------------------------- MODULE BuildWorkers ----------------------------
(***************************************************************************)
(* The build workers over the control store (rust/src/server/worker.rs):    *)
(* slots that claim, build under a renewed lease, settle and release, and   *)
(* a server that may crash and start again (rust/src/server/mod.rs).        *)
(*                                                                          *)
(* A slot's name stands for its current owner string: a slot has one claim  *)
(* at a time and ControlStore's Fresh checks that none of its older strings *)
(* is still in a row.  What a build computes is left out; it ends with a    *)
(* result, a retryable or a permanent error, at any moment.  A panic of the *)
(* build task is recorded as a retryable error.  Wake-ups only shorten the  *)
(* idle poll, so a slot may look for work at any time.                      *)
(***************************************************************************)
EXTENDS ControlStore

CONSTANTS
  Slot,         \* every slot of every pool
  PoolOf,       \* the pool of a slot
  NoClaim,      \* an idle slot's claim
  MaxRequests,  \* bound: requests that change the store, in a behaviour
  MaxCrashes,   \* bound: crashes in a behaviour
  Purging       \* whether repositories are purged in this instance

ASSUME WorkersAssumption ==
  /\ PoolOf \in [Slot -> Kind]
  /\ OwnerId = Slot
  /\ Pools = {PoolOf[s] : s \in Slot}

VARIABLES
  server,     \* "starting" until reset_leases ran, then "serving"
  pc,         \* pc[s]: where slot s is
  claim,      \* claim[s]: the claim run_claim works on
  cancelled,  \* cancelled[s]: the build's Cancel flag
  result,     \* result[s]: what the build ended with
  requests,   \* requests made so far
  crashes     \* crashes so far

slotVars == <<pc, claim, cancelled, result>>
workVars == <<vars, server, pc, claim, cancelled, result, requests, crashes>>

Results == {"none", "ok", "retryable", "permanent"}

\* run_claim's build task is alive.
Running(s) == pc[s] \in {"building", "settling"}

-----------------------------------------------------------------------------
(* A slot.                                                                  *)

\* run_slot: a claim starts the build task.
SlotClaims(s) ==
  /\ server = "serving" /\ pc[s] = "idle"
  /\ \E r \in Row :
       /\ ClaimRow(PoolOf[s], r, s)
       /\ claim' = [claim EXCEPT ![s] = [row |-> r, kind |-> PoolOf[s], owner |-> s]]
  /\ pc' = [pc EXCEPT ![s] = "building"]
  /\ cancelled' = [cancelled EXCEPT ![s] = FALSE]
  /\ result' = [result EXCEPT ![s] = "none"]
  /\ UNCHANGED <<server, requests, crashes>>

\* run_slot: a claim that only gave up exhausted outputs leaves the slot idle.
SlotGivesUp(s) ==
  /\ server = "serving" /\ pc[s] = "idle"
  /\ ClaimNothing(PoolOf[s])
  /\ UNCHANGED <<server, slotVars, requests, crashes>>

\* run_claim's renewal tick.  A lost lease sets the Cancel flag; from then on
\* the slot only waits for the task.
RenewTick(s) ==
  /\ Running(s) /\ ~cancelled[s]
  /\ \/ Renew(claim[s]) /\ UNCHANGED cancelled
     \/ /\ ~Owns(claim[s])
        /\ cancelled' = [cancelled EXCEPT ![s] = TRUE]
        /\ UNCHANGED vars
  /\ UNCHANGED <<server, pc, claim, result, requests, crashes>>

\* The build ends.  publish_or_fail reads the Cancel flag here: a cancelled
\* build records nothing, any other goes on to the store with its result.
BuildEnds(s) ==
  /\ pc[s] = "building"
  /\ \/ /\ ~cancelled[s]
        /\ \E v \in Results \ {"none"} : result' = [result EXCEPT ![s] = v]
        /\ pc' = [pc EXCEPT ![s] = "settling"]
     \/ /\ cancelled[s]
        /\ pc' = [pc EXCEPT ![s] = "joined"]
        /\ UNCHANGED result
  /\ UNCHANGED <<vars, server, claim, cancelled, requests, crashes>>

\* publish or fail answers: the row changed, or the lease was lost and
\* nothing did.
StoreAnswers(s) ==
  \/ result[s] = "ok" /\ Publish(claim[s])
  \/ result[s] # "ok" /\ Fail(claim[s], result[s] = "retryable")
  \/ /\ ~(Owns(claim[s]) /\ state[claim[s].row][claim[s].kind] = "pending")
     /\ UNCHANGED vars

\* The store returns an error: a publish that failed is recorded as a
\* retryable failure, whose record may fail as well.
StoreErrs(s) ==
  \/ result[s] = "ok" /\ Fail(claim[s], TRUE)
  \/ UNCHANGED vars

Settle(s) ==
  /\ pc[s] = "settling"
  /\ StoreAnswers(s) \/ StoreErrs(s)
  /\ pc' = [pc EXCEPT ![s] = "joined"]
  /\ UNCHANGED <<server, claim, cancelled, result, requests, crashes>>

\* Bug: a release that finds the lease gone is retried for ever.
ReleasesOwnedOnly(s) ==
  /\ pc[s] = "joined" /\ ~cancelled[s]
  /\ Release(claim[s])
  /\ pc' = [pc EXCEPT ![s] = "released"]
  /\ UNCHANGED <<server, claim, cancelled, result, requests, crashes>>

\* run_claim after the task: release, retried until the store takes it,
\* unless the lease was found lost.
SlotReleases(s) ==
  /\ pc[s] = "joined" /\ ~cancelled[s]
  /\ Release(claim[s]) \/ (~Owns(claim[s]) /\ UNCHANGED vars)
  /\ pc' = [pc EXCEPT ![s] = "released"]
  /\ UNCHANGED <<server, claim, cancelled, result, requests, crashes>>

\* Back to the top of run_slot.
SlotLoops(s) ==
  /\ pc[s] = "released" \/ (pc[s] = "joined" /\ cancelled[s])
  /\ Forget(claim[s])
  /\ pc' = [pc EXCEPT ![s] = "idle"]
  /\ claim' = [claim EXCEPT ![s] = NoClaim]
  /\ cancelled' = [cancelled EXCEPT ![s] = FALSE]
  /\ result' = [result EXCEPT ![s] = "none"]
  /\ UNCHANGED <<server, requests, crashes>>

-----------------------------------------------------------------------------
(* Requests, the process and the clock.                                     *)

\* admit_build and its retry, /add, and the removal and purge of a repository.
\* A repository may be removed after the check that it is added, so that an
\* admission does not depend on it.
Request ==
  /\ server = "serving" /\ requests < MaxRequests
  /\ requests' = requests + 1
  /\ \/ \E r \in Row, n \in 1..MaxSeq : Admit(r, n)
     \/ \E r \in Row : Retry(r)
     \/ \E p \in Repo : RemoveRepo(p) \/ \E t \in TenantName : AddRepo(p, t)
     \/ Purging /\ \E p \in Repo : RowsOf(p) # {} /\ PurgeRepo(p)
  /\ UNCHANGED <<server, slotVars, crashes>>

\* The process dies with whatever it was doing; the next one opens the store.
Crash ==
  /\ crashes < MaxCrashes
  /\ crashes' = crashes + 1
  /\ Reopen
  /\ server' = "starting"
  /\ pc' = [s \in Slot |-> "idle"]
  /\ claim' = [s \in Slot |-> NoClaim]
  /\ cancelled' = [s \in Slot |-> FALSE]
  /\ result' = [s \in Slot |-> "none"]
  /\ UNCHANGED requests

\* Bug: the leases of the dead process are left to expire.
StartKeepsLeases ==
  /\ server = "starting"
  /\ server' = "serving"
  /\ UNCHANGED <<vars, slotVars, requests, crashes>>

\* Startup frees every lease before the first worker or request.
Start ==
  /\ server = "starting"
  /\ ResetLeases
  /\ server' = "serving"
  /\ UNCHANGED <<slotVars, requests, crashes>>

Clock ==
  /\ \/ \E r \in Row, k \in Kind : LeaseExpires(r, k)
     \/ \E r \in Row, k \in Kind : BackoffElapses(r, k)
  /\ UNCHANGED <<server, slotVars, requests, crashes>>

WorkInit ==
  /\ Init
  /\ server = "starting"
  /\ pc = [s \in Slot |-> "idle"]
  /\ claim = [s \in Slot |-> NoClaim]
  /\ cancelled = [s \in Slot |-> FALSE]
  /\ result = [s \in Slot |-> "none"]
  /\ requests = 0
  /\ crashes = 0

SlotStep(s) ==
  \/ SlotClaims(s)
  \/ SlotGivesUp(s)
  \/ RenewTick(s)
  \/ BuildEnds(s)
  \/ Settle(s)
  \/ SlotReleases(s)
  \/ SlotLoops(s)

WorkNext ==
  \/ \E s \in Slot : SlotStep(s)
  \/ Request
  \/ Crash
  \/ Start
  \/ Clock

\* Slots poll every IDLE_POLL at the latest and a build is bounded by its
\* timeouts; the clock passes every retry time; a server that is starting
\* comes up.  A renewal tick is due at a third of a lease for as long as the
\* build runs.
Fairness ==
  /\ \A s \in Slot :
       /\ WF_workVars(SlotClaims(s))
       /\ WF_workVars(SlotGivesUp(s))
       /\ WF_workVars(BuildEnds(s))
       /\ WF_workVars(Settle(s))
       /\ WF_workVars(SlotReleases(s))
       /\ WF_workVars(SlotLoops(s))
  /\ WF_workVars(Start)
  /\ \A r \in Row, k \in Kind : WF_workVars(BackoffElapses(r, k)
                                  /\ UNCHANGED <<server, slotVars, requests, crashes>>)

WorkSpec == WorkInit /\ [][WorkNext]_workVars /\ Fairness

-----------------------------------------------------------------------------
(* Properties.                                                              *)

\* Between two restarts every lease in the store belongs to a slot that is
\* still at work on it: no output is locked by a build that ended, crashed or
\* was cancelled, which this process would never claim again.
NoOrphanLease ==
  server = "serving" =>
    \A r \in rows, k \in Kind : lease[r][k] # None =>
      \E s \in Slot : pc[s] # "idle" /\ claim[s].row = r /\ claim[s].kind = k
                        /\ lease[r][k] = s

\* Of the running builds of a repository and kind, whatever their commits, at
\* most one still has its lease, so at most one can publish: a purge and a new
\* admission start a second build of the repository before the first one
\* notices.  Proved only (OneBuildCounts): it takes two commits to say
\* something.
OneEffectiveBuild ==
  \A s, t \in Slot :
    /\ Running(s) /\ Running(t)
    /\ claim[s].row[1] = claim[t].row[1] /\ claim[s].kind = claim[t].kind
    /\ Owns(claim[s]) /\ Owns(claim[t])
    => s = t

\* Every admitted output settles: attempts that fail, crash or lose the store
\* are retried until it is ready or failed, or its repository is purged, also
\* when the repository was removed before the admission or is later.
EveryOutputSettles ==
  \A r \in Row, k \in Pools :
    (r \in rows /\ state[r][k] = "pending") ~> (r \notin rows \/ state[r][k] # "pending")

\* Every slot comes back for more work: none waits for ever.
SlotsReturn == \A s \in Slot : []<>(pc[s] = "idle")

\* The inductive strengthening the proofs use.  The claims the process holds
\* are those of the slots at work, each under its slot's name; a lease is that
\* of such a slot; and a slot that released its claim, or found its lease lost,
\* never owns it again.
WorkInv ==
  /\ server \in {"starting", "serving"}
  /\ pc \in [Slot -> {"idle", "building", "settling", "joined", "released"}]
  /\ claim \in [Slot -> Claim \cup {NoClaim}]
  /\ cancelled \in [Slot -> BOOLEAN]
  /\ result \in [Slot -> Results]
  /\ server = "starting" => \A s \in Slot : pc[s] = "idle"
  /\ claims = {claim[s] : s \in {t \in Slot : pc[t] # "idle"}}
  /\ \A s \in Slot : pc[s] # "idle" =>
       /\ claim[s] \in Claim /\ claim[s].owner = s /\ claim[s].kind = PoolOf[s]
       /\ pc[s] = "released" \/ cancelled[s] => ~Owns(claim[s])
  /\ NoOrphanLease
=============================================================================
