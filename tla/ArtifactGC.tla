----------------------------- MODULE ArtifactGC -----------------------------
(***************************************************************************)
(* Storage of artifacts: builds that pin, store and publish them, purges    *)
(* and failed builds that queue them for deletion, and the sweep that       *)
(* deletes them (rust/src/pins.rs, server/purge.rs, server/uploads.rs,      *)
(* settle and discard of server/worker.rs, and the artifact tables of       *)
(* control/sqlite.rs).                                                      *)
(*                                                                          *)
(* An artifact is a content hash, shared by every build and repository that *)
(* produces the same bytes.  Time is the store's clock in whole seconds.    *)
(* The sweep treats the artifacts of a batch in parallel, each in the order *)
(* of sweep_one.  The queue of builds is BuildWorkers'; here a build is     *)
(* only fenced when its repository is purged.                               *)
(***************************************************************************)
EXTENDS Naturals, FiniteSets

CONSTANTS
  Repo,       \* repositories
  Hash,       \* artifacts
  Build,      \* builds at a time
  NoRepo,       \* no build, no repository
  Ttl,        \* lifetime of a signed URL
  Batch,      \* SWEEP_BATCH
  LateDelete, \* whether the bucket may carry out a DELETE after its connection was dropped
  MaxTime,    \* bound: the clock stops here
  MaxBuilds,  \* bound: builds in a behaviour
  MaxErrors,  \* bound: failed sweeps in a behaviour
  MaxRefused, \* bound: deletions the store refused to queue in a behaviour
  MaxCrashes  \* bound: restarts in a behaviour

ASSUME GCAssumption ==
  /\ NoRepo \notin Repo
  /\ Ttl \in Nat /\ Batch \in Nat \ {0} /\ LateDelete \in BOOLEAN
  /\ MaxTime \in Nat /\ MaxBuilds \in Nat /\ MaxErrors \in Nat
  /\ MaxRefused \in Nat /\ MaxCrashes \in Nat

VARIABLES
  now,      \* the clock
  refs,     \* artifact_refs: the <<repo, hash>> pairs of published outputs
  queued,   \* the hashes of `deletions`
  due,      \* due[h]: due_at of a queued hash
  cas,      \* the hashes in the local cache
  bucket,   \* the hashes in storage
  phase,    \* phase[b]: "idle", "running", "settled" or "discarded"
  repo,     \* repo[b]: the repository build b is for
  fenced,   \* fenced[b]: b's lease went with its repository
  pins,     \* pins[b]: the PinSet of build b
  stored,   \* stored[b]: the pinned hashes b knows to be in storage
  keep,     \* keep[b]: what the published output names
  stage,    \* stage[h]: where sweep_one is with h
  sweep,    \* "idle" or "sweeping"
  sweepNow, \* the time the sweep read when it took its batch
  todo,     \* the hashes of the batch not yet looked at
  done,     \* `settled` of sweep: hashes to dequeue
  late,     \* DELETEs the bucket may still carry out
  until,    \* until[h]: the last second in which a signed URL of h is valid, 0 for none
  builds, errors, refused, crashes

queueVars == <<refs, queued, due>>
buildVars == <<phase, repo, fenced, pins, stored, keep>>
sweepVars == <<stage, sweep, sweepNow, todo, done>>
bounds == <<builds, errors, refused, crashes>>
gcVars == <<now, refs, queued, due, cas, bucket, phase, repo, fenced, pins, stored, keep,
            stage, sweep, sweepNow, todo, done, late, until, builds, errors, refused, crashes>>

Named(h) == \E p \in Repo : <<p, h>> \in refs

Pinned(h) == \E b \in Build : h \in pins[b]

\* Pins::deleting
Deleting(h) == stage[h] # "none"

\* Bug: queueing again overwrites the due time.
QueueOverwrites(S, t) ==
  /\ queued' = queued \cup S
  /\ due' = [h \in Hash |-> IF h \in S THEN t ELSE due[h]]

\* INSERT INTO deletions ... KEEP_LATER_DUE
Queue(S, t) ==
  /\ queued' = queued \cup S
  /\ due' = [h \in Hash |->
       IF h \in S /\ (h \notin queued \/ t > due[h]) THEN t ELSE due[h]]

-----------------------------------------------------------------------------
(* Builds.                                                                  *)

Start(b, p) ==
  /\ phase[b] = "idle" /\ builds < MaxBuilds
  /\ builds' = builds + 1
  /\ phase' = [phase EXCEPT ![b] = "running"]
  /\ repo' = [repo EXCEPT ![b] = p]
  /\ fenced' = [fenced EXCEPT ![b] = FALSE]
  /\ UNCHANGED <<now, queueVars, cas, bucket, pins, stored, keep, sweepVars, late, until,
                 errors, refused, crashes>>

\* PinSet::pin waits while the artifact is being deleted.
Pin(b, h) ==
  /\ phase[b] = "running" /\ h \notin pins[b]
  /\ ~Deleting(h)
  /\ pins' = [pins EXCEPT ![b] = @ \cup {h}]
  /\ UNCHANGED <<now, queueVars, cas, bucket, phase, repo, fenced, stored, keep, sweepVars,
                 late, until, bounds>>

\* The CAS keeps an intact object or writes it, and the upload skips what the
\* bucket has or sends it: afterwards both have it.
Upload(b, h) ==
  /\ phase[b] = "running" /\ h \in pins[b] \ stored[b]
  /\ cas' = cas \cup {h}
  /\ bucket' = bucket \cup {h}
  /\ stored' = [stored EXCEPT ![b] = @ \cup {h}]
  /\ UNCHANGED <<now, queueVars, phase, repo, fenced, pins, keep, sweepVars, late, until, bounds>>

\* publish, once Uploads::finish has waited for every upload.  The output
\* names what the build did not merge away; a fenced build names nothing.
Publish(b, names) ==
  /\ phase[b] = "running" /\ stored[b] = pins[b] /\ pins[b] # {}
  /\ LET applied == IF fenced[b] THEN {} ELSE names
     IN  /\ refs' = refs \cup {<<repo[b], h>> : h \in applied}
         /\ keep' = [keep EXCEPT ![b] = applied]
  /\ phase' = [phase EXCEPT ![b] = "settled"]
  /\ UNCHANGED <<now, queued, due, cas, bucket, repo, fenced, pins, stored, sweepVars, late,
                 until, bounds>>

\* The build fails, is cancelled, or its publish is refused, with any part of
\* its artifacts stored.  A panic after a publish discards as if nothing was
\* named.
Abort(b) ==
  /\ phase[b] \in {"running", "settled"}
  /\ keep' = [keep EXCEPT ![b] = {}]
  /\ phase' = [phase EXCEPT ![b] = "settled"]
  /\ UNCHANGED <<now, queueVars, cas, bucket, repo, fenced, pins, stored, sweepVars, late,
                 until, bounds>>

\* discard: queue_unnamed while the pins are still held.
Discard(b) ==
  /\ phase[b] = "settled"
  /\ Queue(pins[b] \ keep[b], now)
  /\ phase' = [phase EXCEPT ![b] = "discarded"]
  /\ UNCHANGED <<now, refs, cas, bucket, repo, fenced, pins, stored, keep, sweepVars, late,
                 until, bounds>>

\* The store refuses to queue: only a warning is logged.
DiscardFails(b) ==
  /\ phase[b] = "settled" /\ refused < MaxRefused
  /\ refused' = refused + 1
  /\ phase' = [phase EXCEPT ![b] = "discarded"]
  /\ UNCHANGED <<now, queueVars, cas, bucket, repo, fenced, pins, stored, keep, sweepVars,
                 late, until, builds, errors, crashes>>

\* Bug: the pins of a build outlive it.
UnpinForgotten(b) ==
  /\ phase[b] = "discarded"
  /\ phase' = [phase EXCEPT ![b] = "idle"]
  /\ repo' = [repo EXCEPT ![b] = NoRepo]
  /\ fenced' = [fenced EXCEPT ![b] = FALSE]
  /\ keep' = [keep EXCEPT ![b] = {}]
  /\ UNCHANGED <<now, queueVars, cas, bucket, pins, stored, sweepVars, late, until, bounds>>

\* The PinSet is dropped with the build.
Unpin(b) ==
  /\ phase[b] = "discarded"
  /\ phase' = [phase EXCEPT ![b] = "idle"]
  /\ repo' = [repo EXCEPT ![b] = NoRepo]
  /\ fenced' = [fenced EXCEPT ![b] = FALSE]
  /\ pins' = [pins EXCEPT ![b] = {}]
  /\ stored' = [stored EXCEPT ![b] = {}]
  /\ keep' = [keep EXCEPT ![b] = {}]
  /\ UNCHANGED <<now, queueVars, cas, bucket, sweepVars, late, until, bounds>>

-----------------------------------------------------------------------------
(* Repositories and clones.                                                 *)

\* purge: the references go, and what no other repository names is queued
\* for twice the lifetime of a signed URL.
Purge(p) ==
  /\ refs' = {x \in refs : x[1] # p}
  /\ Queue({h \in Hash : <<p, h>> \in refs /\ \A q \in Repo \ {p} : <<q, h>> \notin refs},
           now + 2 * Ttl)
  /\ fenced' = [b \in Build |-> fenced[b] \/ repo[b] = p]
  /\ UNCHANGED <<now, cas, bucket, phase, repo, pins, stored, keep, sweepVars, late, until, bounds>>

\* A clone gets a signed URL of a published artifact.
Sign(h) ==
  /\ Named(h)
  /\ until' = [until EXCEPT ![h] = now + Ttl]
  /\ UNCHANGED <<now, queueVars, cas, bucket, buildVars, sweepVars, late, bounds>>

-----------------------------------------------------------------------------
(* The sweep.                                                               *)

DueNow == {h \in queued : due[h] < now}

\* due_deletions: the oldest SWEEP_BATCH.
TakeBatch(D) ==
  /\ sweep = "idle" /\ D # {}
  /\ D \subseteq DueNow /\ Cardinality(D) <= Batch
  /\ D = DueNow \/ Cardinality(D) = Batch
  /\ \A d \in D, h \in DueNow \ D : due[d] <= due[h]
  /\ sweep' = "sweeping"
  /\ sweepNow' = now
  /\ todo' = D
  /\ UNCHANGED <<now, queueVars, cas, bucket, buildVars, stage, done, late, until, bounds>>

\* Bug: begin_delete does not look at the pins.
BeginDeletePinned(h) ==
  /\ h \in todo
  /\ todo' = todo \ {h}
  /\ stage' = [stage EXCEPT ![h] = "marked"]
  /\ UNCHANGED <<now, queueVars, cas, bucket, buildVars, sweep, sweepNow, done, late, until,
                 bounds>>

\* begin_delete: a pinned artifact is left for the next sweep.
BeginDelete(h) ==
  /\ h \in todo
  /\ todo' = todo \ {h}
  /\ stage' = [stage EXCEPT ![h] = IF Pinned(h) THEN "none" ELSE "marked"]
  /\ UNCHANGED <<now, queueVars, cas, bucket, buildVars, sweep, sweepNow, done, late,
                 until, bounds>>

\* deletable, once the artifact is marked: still due and named by nobody.
Check(h) ==
  /\ stage[h] = "marked"
  /\ \/ /\ h \in queued /\ due[h] < sweepNow /\ ~Named(h)
        /\ stage' = [stage EXCEPT ![h] = "checked"]
        /\ UNCHANGED done
     \/ /\ ~(h \in queued /\ due[h] < sweepNow /\ ~Named(h))
        /\ stage' = [stage EXCEPT ![h] = "none"]
        /\ done' = done \cup {h}
  /\ UNCHANGED <<now, queueVars, cas, bucket, buildVars, sweep, sweepNow, todo, late,
                 until, bounds>>

\* cas.remove, and the DELETE is sent.
RemoveLocal(h) ==
  /\ stage[h] = "checked"
  /\ stage' = [stage EXCEPT ![h] = "sent"]
  /\ cas' = cas \ {h}
  /\ UNCHANGED <<now, queueVars, bucket, buildVars, sweep, sweepNow, todo, done, late,
                 until, bounds>>

\* The DELETE is answered; the guard of the deletion is dropped.
DeleteAnswered(h) ==
  /\ stage[h] = "sent"
  /\ bucket' = bucket \ {h}
  /\ stage' = [stage EXCEPT ![h] = "none"]
  /\ done' = done \cup {h}
  /\ UNCHANGED <<now, queueVars, cas, buildVars, sweep, sweepNow, todo, late, until, bounds>>

Sent == {h \in Hash : stage[h] = "sent"}

\* The first failure drops every other deletion of the batch.  Of the DELETEs
\* that were sent some have been carried out.
SweepFails(S) ==
  /\ sweep = "sweeping" /\ errors < MaxErrors
  /\ \E h \in Hash : stage[h] # "none"
  /\ errors' = errors + 1
  /\ S \subseteq Sent
  /\ bucket' = bucket \ S
  /\ late' = IF LateDelete THEN late \cup (Sent \ S) ELSE late
  /\ stage' = [h \in Hash |-> "none"]
  /\ todo' = {}
  /\ UNCHANGED <<now, queueVars, cas, buildVars, sweep, sweepNow, done, until, builds,
                 refused, crashes>>

LateDeleteLands(h) ==
  /\ h \in late
  /\ bucket' = bucket \ {h}
  /\ late' = late \ {h}
  /\ UNCHANGED <<now, queueVars, cas, buildVars, sweepVars, until, bounds>>

\* Bug: the whole batch is dequeued, whatever was queued again meanwhile.
DequeueAll ==
  /\ sweep = "sweeping" /\ todo = {} /\ \A h \in Hash : stage[h] = "none"
  /\ queued' = queued \ done
  /\ due' = [h \in Hash |-> IF h \in queued' THEN due[h] ELSE 0]
  /\ sweep' = "idle"
  /\ sweepNow' = 0
  /\ done' = {}
  /\ UNCHANGED <<now, refs, cas, bucket, buildVars, stage, todo, late, until, bounds>>

\* dequeue_deletions: only rows due before this sweep's time, so that one
\* queued again meanwhile stays.  A full batch is followed by another one;
\* here that is the next sweep.
Dequeue ==
  /\ sweep = "sweeping" /\ todo = {} /\ \A h \in Hash : stage[h] = "none"
  /\ queued' = {h \in queued : h \notin done \/ due[h] >= sweepNow}
  /\ due' = [h \in Hash |-> IF h \in queued' THEN due[h] ELSE 0]
  /\ sweep' = "idle"
  /\ sweepNow' = 0
  /\ done' = {}
  /\ UNCHANGED <<now, refs, cas, bucket, buildVars, stage, todo, late, until, bounds>>

-----------------------------------------------------------------------------
(* The clock and the process.                                               *)

Tick ==
  /\ now < MaxTime
  /\ now' = now + 1
  /\ UNCHANGED <<queueVars, cas, bucket, buildVars, sweepVars, late, until, bounds>>

\* A restart: pins and the sweep are in memory.  DELETEs that were sent may
\* have been carried out.
Crash(S) ==
  /\ crashes < MaxCrashes
  /\ crashes' = crashes + 1
  /\ S \subseteq Sent
  /\ bucket' = bucket \ S
  /\ late' = IF LateDelete THEN late \cup (Sent \ S) ELSE late
  /\ phase' = [b \in Build |-> "idle"]
  /\ repo' = [b \in Build |-> NoRepo]
  /\ fenced' = [b \in Build |-> FALSE]
  /\ pins' = [b \in Build |-> {}]
  /\ stored' = [b \in Build |-> {}]
  /\ keep' = [b \in Build |-> {}]
  /\ stage' = [h \in Hash |-> "none"]
  /\ sweep' = "idle"
  /\ sweepNow' = 0
  /\ todo' = {}
  /\ done' = {}
  /\ UNCHANGED <<now, queueVars, cas, until, builds, errors, refused>>

Init ==
  /\ now = 0
  /\ refs = {} /\ queued = {} /\ due = [h \in Hash |-> 0]
  /\ cas = {} /\ bucket = {}
  /\ phase = [b \in Build |-> "idle"]
  /\ repo = [b \in Build |-> NoRepo]
  /\ fenced = [b \in Build |-> FALSE]
  /\ pins = [b \in Build |-> {}]
  /\ stored = [b \in Build |-> {}]
  /\ keep = [b \in Build |-> {}]
  /\ stage = [h \in Hash |-> "none"]
  /\ sweep = "idle" /\ sweepNow = 0 /\ todo = {} /\ done = {}
  /\ late = {}
  /\ until = [h \in Hash |-> 0]
  /\ builds = 0 /\ errors = 0 /\ refused = 0 /\ crashes = 0

BuildStep(b) ==
  \/ \E p \in Repo : Start(b, p)
  \/ \E h \in Hash : Pin(b, h) \/ Upload(b, h)
  \/ \E names \in SUBSET pins[b] : Publish(b, names)
  \/ Abort(b)
  \/ Discard(b)
  \/ DiscardFails(b)
  \/ Unpin(b)

SweepStep(h) ==
  \/ BeginDelete(h)
  \/ Check(h)
  \/ RemoveLocal(h)
  \/ DeleteAnswered(h)
  \/ LateDeleteLands(h)

Next ==
  \/ \E b \in Build : BuildStep(b)
  \/ \E p \in Repo : Purge(p)
  \/ \E h \in Hash : Sign(h)
  \/ \E D \in SUBSET Hash : TakeBatch(D)
  \/ \E h \in Hash : SweepStep(h)
  \/ \E S \in SUBSET Hash : SweepFails(S) \/ Crash(S)
  \/ Dequeue
  \/ Tick

Spec == Init /\ [][Next]_gcVars

\* The sweeper runs at every interval and a build ends.
Fairness ==
  /\ \A h \in Hash : /\ WF_gcVars(BeginDelete(h))
                     /\ WF_gcVars(Check(h))
                     /\ WF_gcVars(RemoveLocal(h))
                     /\ WF_gcVars(DeleteAnswered(h))
  /\ WF_gcVars(\E D \in SUBSET Hash : TakeBatch(D))
  /\ WF_gcVars(Dequeue)
  /\ \A b \in Build : /\ WF_gcVars(Abort(b) \/ \E names \in SUBSET pins[b] : Publish(b, names))
                      /\ WF_gcVars(Discard(b))
                      /\ WF_gcVars(Unpin(b))

LiveSpec == Spec /\ Fairness

-----------------------------------------------------------------------------
(* Properties.                                                              *)

\* Whatever a published output names is in storage, although other builds
\* discard the same artifacts, their repositories are purged, and sweeps
\* decide on what they read before a build pinned or published it.
NamedIsStored == \A h \in Hash : Named(h) => h \in bucket

\* What a build found stored, or stored itself, stays stored until the build
\* has published: the skipped upload was safe to skip.
StoredStays == \A b \in Build : stored[b] \subseteq bucket

\* A clone that was handed a signed URL can read the artifact for as long as
\* the URL is valid, also when its repository is purged right after.
ReadersServed == \A h \in Hash : until[h] # 0 /\ now <= until[h] => h \in bucket

\* Nothing is left behind: an artifact in storage is named, or a build relies
\* on it, or it is queued for deletion.  For a server that neither crashes
\* nor has the store refuse a discard, whose pins are only in memory.
NothingLeaks == \A h \in bucket : Named(h) \/ Pinned(h) \/ h \in queued

\* An artifact that is due is deleted or found in use again: a batch full of
\* pinned artifacts, a failed sweep and a build that keeps pinning it only
\* delay it.
DueIsSwept ==
  \A h \in Hash : (h \in DueNow) ~> (h \notin DueNow)

\* The inductive strengthening the proof uses: a deletion is past its check
\* only for an artifact nobody names, and never while a build pins it.
GCInv ==
  /\ NamedIsStored
  /\ StoredStays
  /\ \A h \in Hash : Deleting(h) => ~Pinned(h)
  /\ \A h \in Hash : stage[h] \in {"checked", "sent"} => ~Named(h)
  /\ ~LateDelete => late = {}

\* A signed URL of h that can still be used.
Readable(h) == until[h] # 0 /\ now <= until[h]

\* The strengthening for readers: what a clone can still read is named, or it
\* is queued and not due before its URL ends, so no deletion gets past its
\* check.
ReaderInv ==
  /\ ReadersServed
  /\ sweepNow <= now
  /\ \A h \in Hash : until[h] <= now + Ttl
  /\ \A h \in Hash : Readable(h) => Named(h) \/ (h \in queued /\ due[h] >= until[h])
  /\ \A h \in Hash : stage[h] \in {"checked", "sent"} => ~Readable(h)

\* A build that has yet to publish h, or to hand it to the queue.
Carried(h) ==
  \E b \in Build : /\ h \in pins[b]
                   /\ phase[b] = "running" \/ (phase[b] = "settled" /\ h \notin keep[b])

\* The strengthening for leaks: pins of a build that has discarded do not
\* count, and a hash the sweep is about to dequeue is only safe in the queue
\* when it was queued again since the sweep read the clock.
LeakInv ==
  /\ sweepNow <= now
  /\ sweep = "idle" => todo = {} /\ done = {} /\ \A h \in Hash : stage[h] = "none"
  /\ \A h \in bucket : Named(h) \/ Carried(h) \/ h \in queued
  /\ \A h \in bucket \cap done : Named(h) \/ Carried(h) \/ (h \in queued /\ due[h] >= sweepNow)
=============================================================================
