-------------------------- MODULE ArtifactGCProofs --------------------------
(***************************************************************************)
(* Theorem about ArtifactGC: published artifacts stay in storage, for every *)
(* number of repositories, artifacts and builds, provided no DELETE lands   *)
(* after its sweep gave it up.                                              *)
(***************************************************************************)
EXTENDS ArtifactGC, TLAPS

\* The part of the type invariant the proof needs.
SetsOK ==
  /\ refs \subseteq Repo \X Hash
  /\ pins \in [Build -> SUBSET Hash]
  /\ stored \in [Build -> SUBSET Hash]
  /\ \A b \in Build : stored[b] \subseteq pins[b]
  /\ stage \in [Hash -> {"none", "marked", "checked", "sent"}]
  /\ repo \in [Build -> Repo \cup {NoRepo}]
  /\ \A b \in Build : phase[b] # "idle" => repo[b] \in Repo
  /\ phase \in [Build -> {"idle", "running", "settled", "discarded"}]

Safe == SetsOK /\ GCInv

\* Steps of a build keep the invariant: a pin waits for the deletion, and only
\* what is pinned and stored is published.
LEMMA BuildStepSafe ==
  ASSUME Safe, NEW b \in Build, BuildStep(b)
  PROVE  Safe'
<1> USE DEF Safe, SetsOK, GCInv, NamedIsStored, StoredStays, Named, Pinned, Deleting
<1>1. ASSUME NEW p \in Repo, Start(b, p) PROVE Safe'
  BY <1>1 DEF Start, queueVars, sweepVars
<1>2. ASSUME NEW h \in Hash, Pin(b, h) PROVE Safe'
  <2>1. /\ pins' = [pins EXCEPT ![b] = @ \cup {h}] /\ stage[h] = "none"
        /\ UNCHANGED <<refs, bucket, phase, repo, stored, stage, late>>
    BY <1>2 DEF Pin, queueVars, sweepVars
  <2>2. /\ pins' \in [Build -> SUBSET Hash]
        /\ \A d \in Build : pins[d] \subseteq pins'[d]
        /\ \A g \in Hash : Pinned(g)' => Pinned(g) \/ g = h
    BY <2>1
  <2>3. \A d \in Build : stored'[d] \subseteq pins'[d]
    BY <2>1, <2>2
  <2>4. SetsOK'
    BY <2>1, <2>2, <2>3
  <2>5. NamedIsStored' /\ StoredStays'
    BY <2>1
  <2>6. \A g \in Hash : stage'[g] # "none" => ~Pinned(g)'
    BY <2>1, <2>2
  <2> QED
    BY <2>1, <2>4, <2>5, <2>6
<1>3. ASSUME NEW h \in Hash, Upload(b, h) PROVE Safe'
  <2>1. /\ bucket' = bucket \cup {h} /\ h \in pins[b]
        /\ stored' = [stored EXCEPT ![b] = @ \cup {h}]
        /\ UNCHANGED <<refs, phase, repo, pins, stage, late>>
    BY <1>3 DEF Upload, queueVars, sweepVars
  <2>2. stored' \in [Build -> SUBSET Hash] /\ \A d \in Build : stored'[d] \subseteq pins[d] /\ stored'[d] \subseteq bucket'
    BY <2>1
  <2>3. SetsOK'
    BY <2>1, <2>2
  <2> QED
    BY <2>1, <2>2, <2>3
<1>4. ASSUME NEW names \in SUBSET pins[b], Publish(b, names) PROVE Safe'
  <2> DEFINE applied == IF fenced[b] THEN {} ELSE names
  <2>1. /\ refs' = refs \cup {<<repo[b], h>> : h \in applied}
        /\ applied \subseteq stored[b] /\ applied \subseteq pins[b] /\ applied \subseteq Hash
        /\ repo[b] \in Repo
        /\ UNCHANGED <<bucket, repo, pins, stored, stage, late>>
        /\ phase' = [phase EXCEPT ![b] = "settled"]
    BY <1>4 DEF Publish, sweepVars
  <2> HIDE DEF applied
  <2>2. \A h \in Hash : Named(h)' => Named(h) \/ h \in applied
    BY <2>1
  <2>3. refs' \subseteq Repo \X Hash
    BY <2>1
  <2>4. NamedIsStored'
    BY <2>1, <2>2
  <2>5. \A h \in Hash : stage'[h] \in {"checked", "sent"} => ~Named(h)'
    BY <2>1, <2>2
  <2>6. SetsOK'
    BY <2>1, <2>3
  <2> QED
    BY <2>1, <2>4, <2>5, <2>6
<1>5. CASE Abort(b)
  BY <1>5 DEF Abort, queueVars, sweepVars
<1>6. CASE Discard(b)
  BY <1>6 DEF Discard, sweepVars
<1>7. CASE DiscardFails(b)
  BY <1>7 DEF DiscardFails, queueVars, sweepVars
<1>8. CASE Unpin(b)
  BY <1>8 DEF Unpin, queueVars, sweepVars
<1> QED
  BY <1>1, <1>2, <1>3, <1>4, <1>5, <1>6, <1>7, <1>8 DEF BuildStep

\* Steps of the sweep keep it: what is removed is marked, so not pinned, and
\* checked after the mark, so not named.
LEMMA SweepStepSafe ==
  ASSUME Safe, ~LateDelete, NEW h \in Hash, SweepStep(h)
  PROVE  Safe'
<1> USE DEF Safe, SetsOK, GCInv, NamedIsStored, StoredStays, Named, Pinned, Deleting
<1>1. CASE BeginDelete(h)
  BY <1>1 DEF BeginDelete, queueVars, buildVars
<1>2. CASE Check(h)
  BY <1>2 DEF Check, queueVars, buildVars
<1>3. CASE RemoveLocal(h)
  BY <1>3 DEF RemoveLocal, queueVars, buildVars
<1>4. CASE DeleteAnswered(h)
  BY <1>4 DEF DeleteAnswered, queueVars, buildVars
<1>5. CASE LateDeleteLands(h)
  BY <1>5 DEF LateDeleteLands
<1> QED
  BY <1>1, <1>2, <1>3, <1>4, <1>5 DEF SweepStep

\* DELETEs carried out when a sweep fails or the process dies are of
\* artifacts nobody names or pins.
LEMMA FailureSafe ==
  ASSUME Safe, ~LateDelete, NEW S \in SUBSET Hash, SweepFails(S) \/ Crash(S)
  PROVE  Safe'
<1> USE DEF Safe, SetsOK, GCInv, NamedIsStored, StoredStays, Named, Pinned, Deleting, Sent
<1>1. CASE SweepFails(S)
  BY <1>1 DEF SweepFails, queueVars, buildVars
<1>2. CASE Crash(S)
  BY <1>2 DEF Crash, queueVars
<1> QED
  BY <1>1, <1>2

\* Nothing is stored, pinned or published at the start.
LEMMA SafeInit == Init => Safe
BY DEF Init, Safe, SetsOK, GCInv, NamedIsStored, StoredStays, Named, Pinned, Deleting

\* Every step keeps the invariant.
LEMMA SafeStep ==
  ASSUME ~LateDelete, Safe, [Next]_gcVars
  PROVE  Safe'
<1> DEFINE Same == UNCHANGED <<refs, bucket, phase, repo, pins, stored, stage, late>>
<1>1. Same => Safe'
  BY DEF Safe, SetsOK, GCInv, NamedIsStored, StoredStays, Named, Pinned, Deleting
<1> HIDE DEF Same
<1>2. ASSUME NEW b \in Build, BuildStep(b) PROVE Safe'
  BY <1>2, BuildStepSafe
<1>3. ASSUME NEW p \in Repo, Purge(p) PROVE Safe'
  BY <1>3 DEF Purge, sweepVars, Safe, SetsOK, GCInv, NamedIsStored, StoredStays, Named,
              Pinned, Deleting
<1>4. ASSUME NEW h \in Hash, Sign(h) PROVE Same
  BY <1>4 DEF Sign, queueVars, buildVars, sweepVars, Same
<1>5. ASSUME NEW D \in SUBSET Hash, TakeBatch(D) PROVE Same
  BY <1>5 DEF TakeBatch, queueVars, buildVars, Same
<1>6. ASSUME NEW h \in Hash, SweepStep(h) PROVE Safe'
  BY <1>6, SweepStepSafe
<1>7. ASSUME NEW S \in SUBSET Hash, SweepFails(S) \/ Crash(S) PROVE Safe'
  BY <1>7, FailureSafe
<1>8. Dequeue => Same
  BY DEF Dequeue, buildVars, Same
<1>9. Tick => Same
  BY DEF Tick, queueVars, buildVars, sweepVars, Same
<1>10. UNCHANGED gcVars => Same
  BY DEF gcVars, Same
<1> QED
  BY <1>1, <1>2, <1>3, <1>4, <1>5, <1>6, <1>7, <1>8, <1>9, <1>10 DEF Next

\* Whatever a published output names is in storage and whatever a build found
\* stored stays there until it has published.
THEOREM PublishedStaysStored == ~LateDelete => (Spec => []GCInv)
<1> SUFFICES ASSUME ~LateDelete PROVE Spec => []GCInv
  OBVIOUS
<1>1. Safe /\ [Next]_gcVars => Safe'
  BY SafeStep
<1>2. Safe => GCInv
  BY DEF Safe
<1> QED
  BY SafeInit, <1>1, <1>2, PTL DEF Spec

\* purge, discard and sweep never delete what a published output names.
THEOREM NamedStaysStored == ~LateDelete => (Spec => []NamedIsStored)
BY PublishedStaysStored, PTL DEF GCInv

-----------------------------------------------------------------------------
(* Readers.                                                                 *)

\* The clock and the queue hold what they should.
TimesOK ==
  /\ now \in Nat /\ sweepNow \in Nat
  /\ queued \subseteq Hash
  /\ due \in [Hash -> Nat]
  /\ until \in [Hash -> Nat]

\* KEEP_LATER_DUE: queueing never brings a deletion forward.
LEMMA QueueKeepsLater ==
  ASSUME TimesOK, NEW S \in SUBSET Hash, NEW t \in Nat, Queue(S, t)
  PROVE  /\ queued' = queued \cup S
         /\ queued' \subseteq Hash
         /\ due' \in [Hash -> Nat]
         /\ \A h \in S : due'[h] >= t
         /\ \A h \in queued : due'[h] >= due[h]
         /\ \A h \in Hash \ S : due'[h] = due[h]
BY DEF TimesOK, Queue

\* Steps that leave the clock, the signed URLs and the sweep's time alone,
\* name no less and bring no deletion forward keep what a reader relies on.
LEMMA ReadersKept ==
  ASSUME TimesOK, ReaderInv,
         UNCHANGED <<now, until, sweepNow>>, UNCHANGED stage,
         queued \subseteq queued', queued' \subseteq Hash, due' \in [Hash -> Nat],
         \A h \in queued : due'[h] >= due[h],
         \A h \in Hash : Named(h) => Named(h)',
         bucket \subseteq bucket'
  PROVE  TimesOK' /\ ReaderInv'
<1>1. TimesOK'
  BY DEF TimesOK
<1>2. ReadersServed'
  BY DEF ReaderInv, ReadersServed
<1>3. \A h \in Hash : Readable(h)' <=> Readable(h)
  BY DEF Readable
<1>4. \A h \in Hash : h \in queued /\ due[h] >= until[h] => h \in queued' /\ due'[h] >= until'[h]
  BY <1>1 DEF TimesOK
<1> QED
  BY <1>1, <1>2, <1>3, <1>4 DEF ReaderInv

\* A purge queues what it stops naming for longer than any URL of it lasts.
LEMMA PurgeServesReaders ==
  ASSUME SetsOK, TimesOK, ReaderInv, NEW p \in Repo, Purge(p)
  PROVE  TimesOK' /\ ReaderInv'
<1> DEFINE S == {h \in Hash : <<p, h>> \in refs /\ \A q \in Repo \ {p} : <<q, h>> \notin refs}
<1>0. Ttl \in Nat
  BY GCAssumption
<1>1. /\ refs' = {x \in refs : x[1] # p}
      /\ Queue(S, now + 2 * Ttl)
      /\ UNCHANGED <<now, until, sweepNow, stage, bucket>>
  BY DEF Purge, sweepVars
<1>2. S \in SUBSET Hash /\ now + 2 * Ttl \in Nat
  BY <1>0 DEF TimesOK
<1>3. \A h \in Hash : Named(h) => Named(h)' \/ h \in S
  BY <1>1 DEF Named, SetsOK
<1>4. \A h \in Hash : Named(h)' => Named(h)
  BY <1>1 DEF Named
<1> HIDE DEF S
<1>5. /\ queued' = queued \cup S /\ queued' \subseteq Hash /\ due' \in [Hash -> Nat]
      /\ \A h \in S : due'[h] >= now + 2 * Ttl
      /\ \A h \in queued : due'[h] >= due[h]
  BY <1>1, <1>2, QueueKeepsLater
<1>6. TimesOK'
  BY <1>1, <1>5 DEF TimesOK
<1>7. \A h \in Hash : Readable(h)' <=> Readable(h)
  BY <1>1 DEF Readable
<1>8. \A h \in S : due'[h] >= until[h]
  <2> SUFFICES ASSUME NEW h \in S PROVE due'[h] >= until[h]
    OBVIOUS
  <2>1. until[h] \in Nat /\ due'[h] \in Nat /\ now \in Nat
    BY <1>2, <1>5 DEF TimesOK
  <2>2. until[h] <= now + Ttl /\ due'[h] >= now + 2 * Ttl
    BY <1>2, <1>5 DEF ReaderInv
  <2> QED
    BY <1>0, <2>1, <2>2
<1>9. \A h \in queued : due[h] >= until[h] => due'[h] >= until[h]
  <2> SUFFICES ASSUME NEW h \in queued, due[h] >= until[h] PROVE due'[h] >= until[h]
    OBVIOUS
  <2>1. until[h] \in Nat /\ due'[h] \in Nat /\ due[h] \in Nat /\ due'[h] >= due[h]
    BY <1>5 DEF TimesOK
  <2> QED
    BY <2>1
<1>10. \A h \in Hash : Readable(h)' => Named(h)' \/ (h \in queued' /\ due'[h] >= until'[h])
  BY <1>1, <1>3, <1>5, <1>7, <1>8, <1>9 DEF ReaderInv
<1>11. ReadersServed'
  BY <1>1 DEF ReaderInv, ReadersServed
<1> QED
  BY <1>1, <1>6, <1>7, <1>10, <1>11 DEF ReaderInv

\* A new URL ends before any deletion a later purge could queue.
LEMMA SignServesReaders ==
  ASSUME Safe, TimesOK, ReaderInv, NEW g \in Hash, Sign(g)
  PROVE  TimesOK' /\ ReaderInv'
<1>0. Ttl \in Nat
  BY GCAssumption
<1>1. /\ Named(g)
      /\ until' = [until EXCEPT ![g] = now + Ttl]
      /\ UNCHANGED <<now, refs, queued, due, bucket, stage, sweepNow>>
  BY DEF Sign, queueVars, sweepVars
<1>2. TimesOK'
  BY <1>0, <1>1 DEF TimesOK
<1>3. \A h \in Hash : Named(h)' <=> Named(h)
  BY <1>1 DEF Named
<1>4. \A h \in Hash \ {g} : Readable(h)' <=> Readable(h)
  BY <1>1 DEF Readable, TimesOK
<1>5. g \in bucket /\ stage[g] \notin {"checked", "sent"}
  BY <1>1 DEF Safe, GCInv, NamedIsStored
<1>6. ReadersServed'
  BY <1>1, <1>5 DEF ReadersServed, ReaderInv, TimesOK
<1>7. \A h \in Hash : until'[h] <= now' + Ttl
  BY <1>0, <1>1 DEF TimesOK, ReaderInv
<1>8. \A h \in Hash : Readable(h)' => Named(h)' \/ (h \in queued' /\ due'[h] >= until'[h])
  BY <1>1, <1>3, <1>4 DEF ReaderInv, TimesOK
<1>9. \A h \in Hash : stage'[h] \in {"checked", "sent"} => ~Readable(h)'
  BY <1>1, <1>4, <1>5 DEF ReaderInv
<1> QED
  BY <1>1, <1>2, <1>6, <1>7, <1>8, <1>9 DEF ReaderInv

\* The check of a marked artifact finds it in use while a URL of it is valid.
LEMMA CheckServesReaders ==
  ASSUME SetsOK, TimesOK, ReaderInv, NEW g \in Hash, Check(g)
  PROVE  TimesOK' /\ ReaderInv'
<1>1. /\ UNCHANGED <<now, until, sweepNow, refs, queued, due, bucket>>
      /\ \/ /\ g \in queued /\ due[g] < sweepNow /\ ~Named(g)
            /\ stage' = [stage EXCEPT ![g] = "checked"]
         \/ stage' = [stage EXCEPT ![g] = "none"]
  BY DEF Check, queueVars
<1>2. TimesOK'
  BY <1>1 DEF TimesOK
<1>3. \A h \in Hash : (Readable(h)' <=> Readable(h)) /\ (Named(h)' <=> Named(h))
  BY <1>1 DEF Readable, Named
<1>4. g \in queued /\ due[g] < sweepNow /\ ~Named(g) => ~Readable(g)
  <2> SUFFICES ASSUME g \in queued, due[g] < sweepNow, ~Named(g), Readable(g) PROVE FALSE
    OBVIOUS
  <2>1. due[g] >= until[g] /\ now <= until[g] /\ sweepNow <= now
    BY DEF ReaderInv, Readable
  <2>2. due[g] \in Nat /\ until[g] \in Nat /\ now \in Nat /\ sweepNow \in Nat
    BY DEF TimesOK
  <2> QED
    BY <2>1, <2>2
<1>5. \A h \in Hash : stage'[h] \in {"checked", "sent"} => ~Readable(h)'
  BY <1>1, <1>3, <1>4 DEF ReaderInv, SetsOK
<1>6. ReadersServed'
  BY <1>1 DEF ReadersServed, ReaderInv
<1> QED
  BY <1>1, <1>2, <1>3, <1>5, <1>6 DEF ReaderInv

\* What is removed from storage has been sent for deletion.
LEMMA RemovalServesReaders ==
  ASSUME SetsOK, TimesOK, ReaderInv,
         UNCHANGED <<now, until, refs, queued, due>>,
         sweepNow' \in Nat, sweepNow' <= now,
         \A h \in Hash : stage'[h] \in {"checked", "sent"} => stage[h] \in {"checked", "sent"},
         \A h \in Hash : h \in bucket => h \in bucket' \/ stage[h] = "sent"
  PROVE  TimesOK' /\ ReaderInv'
<1>1. TimesOK'
  BY DEF TimesOK
<1>2. \A h \in Hash : (Readable(h)' <=> Readable(h)) /\ (Named(h)' <=> Named(h))
  BY DEF Readable, Named
<1>3. \A h \in Hash : Readable(h) => h \in bucket'
  BY DEF ReaderInv, ReadersServed, Readable
<1>4. ReadersServed'
  BY <1>3 DEF ReadersServed, Readable
<1> QED
  BY <1>1, <1>2, <1>4 DEF ReaderInv

\* Dequeuing what was due before the sweep began drops no reader's guard.
LEMMA DequeueServesReaders ==
  ASSUME TimesOK, ReaderInv, Dequeue
  PROVE  TimesOK' /\ ReaderInv'
<1>1. /\ queued' = {h \in queued : h \notin done \/ due[h] >= sweepNow}
      /\ due' = [h \in Hash |-> IF h \in queued' THEN due[h] ELSE 0]
      /\ sweepNow' = 0
      /\ UNCHANGED <<now, until, refs, bucket, stage>>
  BY DEF Dequeue
<1>2. TimesOK'
  BY <1>1 DEF TimesOK
<1>3. \A h \in Hash : (Readable(h)' <=> Readable(h)) /\ (Named(h)' <=> Named(h))
  BY <1>1 DEF Readable, Named
<1>4. ASSUME NEW h \in Hash, Readable(h), h \in queued, due[h] >= until[h]
      PROVE  h \in queued' /\ due'[h] >= until'[h]
  <2>1. due[h] \in Nat /\ until[h] \in Nat /\ now \in Nat /\ sweepNow \in Nat
    BY DEF TimesOK
  <2>2. now <= until[h] /\ sweepNow <= now
    BY <1>4 DEF ReaderInv, Readable
  <2>3. due[h] >= sweepNow
    BY <1>4, <2>1, <2>2
  <2> QED
    BY <1>1, <1>4, <2>3
<1>5. ReadersServed'
  BY <1>1 DEF ReadersServed, ReaderInv
<1>6. sweepNow' <= now'
  BY <1>1 DEF TimesOK
<1> QED
  BY <1>1, <1>2, <1>3, <1>4, <1>5, <1>6 DEF ReaderInv

\* Time only ends URLs.
LEMMA TickServesReaders ==
  ASSUME TimesOK, ReaderInv, Tick
  PROVE  TimesOK' /\ ReaderInv'
<1>0. Ttl \in Nat
  BY GCAssumption
<1>1. now' = now + 1 /\ UNCHANGED <<until, sweepNow, refs, queued, due, bucket, stage>>
  BY DEF Tick, queueVars, sweepVars
<1>2. TimesOK'
  BY <1>1 DEF TimesOK
<1>3. \A h \in Hash : (Readable(h)' => Readable(h)) /\ (Named(h)' <=> Named(h))
  BY <1>1 DEF Readable, Named, TimesOK
<1>4. ReadersServed'
  BY <1>1, <1>3 DEF ReadersServed, ReaderInv, Readable
<1>5. sweepNow' <= now' /\ \A h \in Hash : until'[h] <= now' + Ttl
  BY <1>0, <1>1 DEF TimesOK, ReaderInv
<1> QED
  BY <1>1, <1>2, <1>3, <1>4, <1>5 DEF ReaderInv

\* Every step keeps a reader's artifact in storage.
LEMMA ReaderStep ==
  ASSUME Safe, TimesOK, ReaderInv, ~LateDelete, [Next]_gcVars
  PROVE  TimesOK' /\ ReaderInv'
<1> DEFINE Goal == TimesOK' /\ ReaderInv'
<1> DEFINE Grows ==
      /\ UNCHANGED <<now, until, sweepNow>> /\ UNCHANGED stage
      /\ queued \subseteq queued' /\ queued' \subseteq Hash /\ due' \in [Hash -> Nat]
      /\ \A h \in queued : due'[h] >= due[h]
      /\ \A h \in Hash : Named(h) => Named(h)'
      /\ bucket \subseteq bucket'
<1> DEFINE Shrinks ==
      /\ UNCHANGED <<now, until, refs, queued, due>>
      /\ sweepNow' \in Nat /\ sweepNow' <= now
      /\ \A h \in Hash : stage'[h] \in {"checked", "sent"} => stage[h] \in {"checked", "sent"}
      /\ \A h \in Hash : h \in bucket => h \in bucket' \/ stage[h] = "sent"
<1>1. Grows => Goal
  BY ReadersKept
<1>2. Shrinks => Goal
  BY RemovalServesReaders DEF Safe
<1>3. UNCHANGED <<now, until, sweepNow, stage, refs, queued, due, bucket>> => Grows
  BY DEF Named, TimesOK
<1>4. ASSUME NEW b \in Build, BuildStep(b) PROVE Grows
  <2> HIDE DEF Grows
  <2>1. ASSUME NEW p \in Repo, Start(b, p) PROVE Grows
    BY <1>3, <2>1 DEF Start, queueVars, sweepVars
  <2>2. ASSUME NEW h \in Hash, Pin(b, h) PROVE Grows
    BY <1>3, <2>2 DEF Pin, queueVars, sweepVars
  <2>3. ASSUME NEW h \in Hash, Upload(b, h) PROVE Grows
    BY <2>3 DEF Upload, queueVars, sweepVars, Named, TimesOK, Grows
  <2>4. ASSUME NEW names \in SUBSET pins[b], Publish(b, names) PROVE Grows
    <3>1. UNCHANGED <<now, until, sweepNow, stage, queued, due, bucket>> /\ refs \subseteq refs'
      BY <2>4 DEF Publish, sweepVars
    <3> QED
      BY <3>1 DEF Named, TimesOK, Grows
  <2>5. CASE Abort(b)
    BY <1>3, <2>5 DEF Abort, queueVars, sweepVars
  <2>6. CASE Discard(b)
    <3>1. /\ Queue(pins[b] \ keep[b], now)
          /\ UNCHANGED <<now, until, sweepNow, stage, refs, bucket>>
      BY <2>6 DEF Discard, sweepVars
    <3>2. pins[b] \ keep[b] \in SUBSET Hash /\ now \in Nat
      BY DEF Safe, SetsOK, TimesOK
    <3> QED
      BY <3>1, <3>2, QueueKeepsLater DEF Named, Grows
  <2>7. CASE DiscardFails(b)
    BY <1>3, <2>7 DEF DiscardFails, queueVars, sweepVars
  <2>8. CASE Unpin(b)
    BY <1>3, <2>8 DEF Unpin, queueVars, sweepVars
  <2> QED
    BY <1>4, <2>1, <2>2, <2>3, <2>4, <2>5, <2>6, <2>7, <2>8 DEF BuildStep
<1>5. ASSUME NEW D \in SUBSET Hash, TakeBatch(D) PROVE Shrinks
  BY <1>5 DEF TakeBatch, queueVars, TimesOK
<1>6. ASSUME NEW h \in Hash, BeginDelete(h) \/ RemoveLocal(h) \/ DeleteAnswered(h) PROVE Shrinks
  BY <1>6 DEF BeginDelete, RemoveLocal, DeleteAnswered, queueVars, TimesOK, ReaderInv, Safe, SetsOK
<1>7. ASSUME NEW h \in Hash, LateDeleteLands(h) PROVE FALSE
  BY <1>7 DEF LateDeleteLands, Safe, GCInv
<1>8. ASSUME NEW S \in SUBSET Hash, SweepFails(S) PROVE Shrinks
  BY <1>8 DEF SweepFails, Sent, queueVars, TimesOK, ReaderInv
<1>9. ASSUME NEW S \in SUBSET Hash, Crash(S) PROVE Shrinks
  BY <1>9 DEF Crash, Sent, queueVars, TimesOK
<1>10. UNCHANGED gcVars => Grows
  BY <1>3 DEF gcVars
<1> HIDE DEF Grows, Shrinks, Goal
<1>11. ASSUME NEW h \in Hash, Sign(h) PROVE Goal
  BY <1>11, SignServesReaders DEF Goal
<1>12. ASSUME NEW p \in Repo, Purge(p) PROVE Goal
  BY <1>12, PurgeServesReaders DEF Goal, Safe
<1>13. ASSUME NEW h \in Hash, Check(h) PROVE Goal
  BY <1>13, CheckServesReaders DEF Goal, Safe
<1>14. Dequeue => Goal
  BY DequeueServesReaders DEF Goal
<1>15. Tick => Goal
  BY TickServesReaders DEF Goal
<1>16. Next => Goal
  BY <1>1, <1>2, <1>4, <1>5, <1>6, <1>7, <1>8, <1>9, <1>11, <1>12, <1>13, <1>14, <1>15
     DEF Next, SweepStep
<1> QED
  BY <1>1, <1>10, <1>16 DEF Goal

\* A clone can read what it was handed a signed URL for as long as the URL is
\* valid: a purge queues its artifacts for longer than any URL lasts, and
\* neither discards nor sweeps bring that deletion forward.
THEOREM SignedStaysReadable == ~LateDelete => (Spec => []ReadersServed)
<1> SUFFICES ASSUME ~LateDelete PROVE Spec => []ReadersServed
  OBVIOUS
<1>1. Init => Safe /\ TimesOK /\ ReaderInv
  BY SafeInit, GCAssumption DEF Init, TimesOK, ReaderInv, ReadersServed, Readable
<1>2. (Safe /\ TimesOK /\ ReaderInv) /\ [Next]_gcVars => (Safe /\ TimesOK /\ ReaderInv)'
  BY SafeStep, ReaderStep
<1>3. ReaderInv => ReadersServed
  BY DEF ReaderInv
<1> QED
  BY <1>1, <1>2, <1>3, PTL DEF Spec

-----------------------------------------------------------------------------
(* Leaks.                                                                   *)

\* The types the argument about leaks needs.
LeakTypes ==
  /\ now \in Nat /\ sweepNow \in Nat
  /\ queued \subseteq Hash /\ due \in [Hash -> Nat]
  /\ bucket \subseteq Hash /\ done \subseteq Hash
  /\ refs \subseteq Repo \X Hash
  /\ pins \in [Build -> SUBSET Hash]
  /\ keep \in [Build -> SUBSET Hash]
  /\ phase \in [Build -> {"idle", "running", "settled", "discarded"}]
  /\ stage \in [Hash -> {"none", "marked", "checked", "sent"}]
  /\ repo \in [Build -> Repo \cup {NoRepo}]
  /\ \A b \in Build : phase[b] # "idle" => repo[b] \in Repo
  /\ until \in [Hash -> Nat]
  /\ refused \in Nat /\ crashes \in Nat

NoLeak == LeakTypes /\ LeakInv

\* Accounted for in the queue, and past the sweep that is running.
Requeued(h) == h \in queued /\ due[h] >= sweepNow

\* Queueing leaves everything that was queued in the queue, and what is
\* queued now is not dequeued by a sweep that began before.
LEMMA QueueAccounts ==
  ASSUME NoLeak, UNCHANGED <<now, sweepNow>>,
         NEW S \in SUBSET Hash, NEW t \in Nat, t >= now, Queue(S, t)
  PROVE  /\ queued' \subseteq Hash /\ due' \in [Hash -> Nat]
         /\ \A h \in Hash : h \in queued \/ h \in S => h \in queued'
         /\ \A h \in Hash : Requeued(h) \/ h \in S => Requeued(h)'
<1>1. /\ queued' = queued \cup S /\ queued' \subseteq Hash /\ due' \in [Hash -> Nat]
      /\ \A h \in S : due'[h] >= t
      /\ \A h \in queued : due'[h] >= due[h]
  BY DEF Queue, NoLeak, LeakTypes
<1>2. sweepNow \in Nat /\ now \in Nat /\ sweepNow <= now
  BY DEF NoLeak, LeakTypes, LeakInv
<1>3. ASSUME NEW h \in S PROVE Requeued(h)'
  <2>1. due'[h] \in Nat /\ due'[h] >= t
    BY <1>1
  <2> QED
    BY <1>1, <1>2, <2>1 DEF Requeued
<1>4. ASSUME NEW h \in Hash, Requeued(h) PROVE Requeued(h)'
  <2>1. due'[h] \in Nat /\ due[h] \in Nat /\ due'[h] >= due[h] /\ due[h] >= sweepNow
    BY <1>1, <1>4 DEF NoLeak, LeakTypes, Requeued
  <2> QED
    BY <1>1, <1>2, <1>4, <2>1 DEF Requeued
<1> QED
  BY <1>1, <1>3, <1>4

\* Steps that put no new artifact in storage or on the sweep's list, and keep
\* or replace what accounts for the rest, leave nothing behind.
LEMMA AccountsKept ==
  ASSUME NoLeak, LeakTypes', sweepNow' <= now',
         bucket' \subseteq bucket, done' \subseteq done,
         sweep' = "idle" => todo' = {} /\ done' = {} /\ \A h \in Hash : stage'[h] = "none",
         \A h \in Hash : Named(h) => Named(h)' \/ Requeued(h)',
         \A h \in Hash : Carried(h) => Named(h)' \/ Carried(h)' \/ Requeued(h)',
         \A h \in bucket' : h \in queued => h \in queued' \/ Named(h)' \/ Carried(h)',
         \A h \in Hash : h \in done' /\ Requeued(h) => Requeued(h)'
  PROVE  NoLeak'
<1>1. \A h \in Hash : Requeued(h)' => h \in queued'
  BY DEF Requeued
<1>2. \A h \in bucket' : Named(h)' \/ Carried(h)' \/ h \in queued'
  BY <1>1 DEF NoLeak, LeakInv, LeakTypes
<1>3. \A h \in bucket' \cap done' : Named(h)' \/ Carried(h)' \/ Requeued(h)'
  BY DEF NoLeak, LeakInv, LeakTypes, Requeued
<1> QED
  BY <1>2, <1>3 DEF NoLeak, LeakInv, Requeued

\* A build accounts for its artifacts until it has named or queued them.
LEMMA BuildLeaksNothing ==
  ASSUME NoLeak, MaxRefused = 0, NEW b \in Build, BuildStep(b)
  PROVE  NoLeak'
<1>0. LeakTypes /\ LeakInv
  BY DEF NoLeak
<1> DEFINE Still ==
      UNCHANGED <<now, sweepNow, sweep, todo, done, stage, until, refused, crashes>>
<1>1. ASSUME NEW p \in Repo, Start(b, p) PROVE NoLeak'
  <2>1. /\ phase[b] = "idle" /\ phase' = [phase EXCEPT ![b] = "running"]
        /\ repo' = [repo EXCEPT ![b] = p]
        /\ Still /\ UNCHANGED <<refs, queued, due, bucket, pins, keep>>
    BY <1>1 DEF Start, queueVars, sweepVars
  <2>2. \A h \in Hash : Named(h)' <=> Named(h)
    BY <2>1 DEF Named
  <2>3. \A h \in Hash : Carried(h) => Carried(h)'
    BY <1>0, <2>1 DEF Carried, LeakTypes
  <2>4. LeakTypes'
    BY <1>0, <2>1 DEF LeakTypes
  <2> QED
    BY <1>0, <2>1, <2>2, <2>3, <2>4 DEF NoLeak, LeakInv, LeakTypes
<1>2. ASSUME NEW g \in Hash, Pin(b, g) PROVE NoLeak'
  <2>1. /\ pins' = [pins EXCEPT ![b] = @ \cup {g}]
        /\ Still /\ UNCHANGED <<refs, queued, due, bucket, phase, repo, keep>>
    BY <1>2 DEF Pin, queueVars, sweepVars, bounds
  <2>2. \A h \in Hash : Named(h)' <=> Named(h)
    BY <2>1 DEF Named
  <2>3. \A h \in Hash : Carried(h) => Carried(h)'
    BY <1>0, <2>1 DEF Carried, LeakTypes
  <2>4. LeakTypes'
    BY <1>0, <2>1 DEF LeakTypes
  <2> QED
    BY <1>0, <2>1, <2>2, <2>3, <2>4 DEF NoLeak, LeakInv, LeakTypes
<1>3. ASSUME NEW g \in Hash, Upload(b, g) PROVE NoLeak'
  <2>1. /\ phase[b] = "running" /\ g \in pins[b] /\ bucket' = bucket \cup {g}
        /\ Still /\ UNCHANGED <<refs, queued, due, pins, phase, repo, keep>>
    BY <1>3 DEF Upload, queueVars, sweepVars, bounds
  <2>2. \A h \in Hash : Named(h)' <=> Named(h)
    BY <2>1 DEF Named
  <2>3. (\A h \in Hash : Carried(h) => Carried(h)') /\ Carried(g)'
    BY <2>1 DEF Carried
  <2>4. LeakTypes'
    BY <1>0, <2>1 DEF LeakTypes
  <2> QED
    BY <1>0, <2>1, <2>2, <2>3, <2>4 DEF NoLeak, LeakInv, LeakTypes
<1>4. ASSUME NEW names \in SUBSET pins[b], Publish(b, names) PROVE NoLeak'
  <2> DEFINE applied == IF fenced[b] THEN {} ELSE names
  <2>1. /\ refs' = refs \cup {<<repo[b], h>> : h \in applied}
        /\ keep' = [keep EXCEPT ![b] = applied]
        /\ applied \in SUBSET Hash
        /\ repo[b] \in Repo
        /\ phase[b] = "running" /\ phase' = [phase EXCEPT ![b] = "settled"]
        /\ Still /\ UNCHANGED <<queued, due, bucket, pins, repo>>
    BY <1>0, <1>4 DEF Publish, sweepVars, bounds, LeakTypes
  <2> HIDE DEF applied
  <2>2. (\A h \in Hash : Named(h) => Named(h)') /\ (\A h \in applied : Named(h)')
    BY <2>1 DEF Named
  <2>3. \A h \in Hash : Carried(h) => Carried(h)' \/ h \in applied
    BY <1>0, <2>1 DEF Carried, LeakTypes
  <2>4. LeakTypes'
    BY <1>0, <2>1 DEF LeakTypes
  <2> QED
    BY <1>0, <2>1, <2>2, <2>3, <2>4 DEF NoLeak, LeakInv, LeakTypes
<1>5. CASE Abort(b)
  <2>1. /\ phase[b] \in {"running", "settled"} /\ phase' = [phase EXCEPT ![b] = "settled"]
        /\ keep' = [keep EXCEPT ![b] = {}]
        /\ Still /\ UNCHANGED <<refs, queued, due, bucket, pins, repo>>
    BY <1>5 DEF Abort, queueVars, sweepVars, bounds
  <2>2. \A h \in Hash : Named(h)' <=> Named(h)
    BY <2>1 DEF Named
  <2>3. \A h \in Hash : Carried(h) => Carried(h)'
    BY <1>0, <2>1 DEF Carried, LeakTypes
  <2>4. LeakTypes'
    BY <1>0, <2>1 DEF LeakTypes
  <2> QED
    BY <1>0, <2>1, <2>2, <2>3, <2>4 DEF NoLeak, LeakInv, LeakTypes
<1>6. CASE Discard(b)
  <2> DEFINE S == pins[b] \ keep[b]
  <2>1. /\ phase[b] = "settled" /\ phase' = [phase EXCEPT ![b] = "discarded"]
        /\ Queue(S, now)
        /\ Still /\ UNCHANGED <<refs, bucket, pins, keep, repo>>
    BY <1>6 DEF Discard, sweepVars, bounds
  <2>2. S \in SUBSET Hash /\ now \in Nat /\ now >= now
    BY <1>0 DEF LeakTypes
  <2>3. \A h \in Hash : Carried(h) => Carried(h)' \/ h \in S
    BY <1>0, <2>1 DEF Carried, LeakTypes
  <2> HIDE DEF S
  <2>4. /\ queued' \subseteq Hash /\ due' \in [Hash -> Nat]
        /\ \A h \in Hash : h \in queued \/ h \in S => h \in queued'
        /\ \A h \in Hash : Requeued(h) \/ h \in S => Requeued(h)'
    BY <2>1, <2>2, QueueAccounts
  <2>5. \A h \in Hash : Named(h)' <=> Named(h)
    BY <2>1 DEF Named
  <2>6. LeakTypes'
    BY <1>0, <2>1, <2>4 DEF LeakTypes
  <2> QED
    BY <1>0, <2>1, <2>3, <2>4, <2>5, <2>6, AccountsKept DEF LeakInv, LeakTypes
<1>7. CASE DiscardFails(b)
  BY <1>0, <1>7 DEF DiscardFails, LeakTypes
<1>8. CASE Unpin(b)
  <2>1. /\ phase[b] = "discarded" /\ phase' = [phase EXCEPT ![b] = "idle"]
        /\ pins' = [pins EXCEPT ![b] = {}] /\ keep' = [keep EXCEPT ![b] = {}]
        /\ repo' = [repo EXCEPT ![b] = NoRepo]
        /\ Still /\ UNCHANGED <<refs, queued, due, bucket>>
    BY <1>8 DEF Unpin, queueVars, sweepVars, bounds
  <2>2. \A h \in Hash : Named(h)' <=> Named(h)
    BY <2>1 DEF Named
  <2>3. \A h \in Hash : Carried(h) => Carried(h)'
    BY <1>0, <2>1 DEF Carried, LeakTypes
  <2>4. LeakTypes'
    BY <1>0, <2>1 DEF LeakTypes
  <2> QED
    BY <1>0, <2>1, <2>2, <2>3, <2>4 DEF NoLeak, LeakInv, LeakTypes
<1> QED
  BY <1>1, <1>2, <1>3, <1>4, <1>5, <1>6, <1>7, <1>8 DEF BuildStep

\* What a purge stops naming it queues.
LEMMA PurgeLeaksNothing ==
  ASSUME NoLeak, NEW p \in Repo, Purge(p)
  PROVE  NoLeak'
<1>0. LeakTypes /\ LeakInv /\ Ttl \in Nat
  BY GCAssumption DEF NoLeak
<1> DEFINE S == {h \in Hash : <<p, h>> \in refs /\ \A q \in Repo \ {p} : <<q, h>> \notin refs}
<1>1. /\ refs' = {x \in refs : x[1] # p}
      /\ Queue(S, now + 2 * Ttl)
      /\ UNCHANGED <<now, sweepNow, sweep, todo, done, stage, until, refused, crashes, bucket,
                     phase, repo, pins, keep>>
  BY DEF Purge, sweepVars, bounds
<1>2. \A h \in Hash : Named(h) => Named(h)' \/ h \in S
  BY <1>0, <1>1 DEF Named, LeakTypes
<1>3. S \in SUBSET Hash /\ now + 2 * Ttl \in Nat /\ now + 2 * Ttl >= now
  BY <1>0 DEF LeakTypes
<1> HIDE DEF S
<1>4. /\ queued' \subseteq Hash /\ due' \in [Hash -> Nat]
      /\ \A h \in Hash : h \in queued \/ h \in S => h \in queued'
      /\ \A h \in Hash : Requeued(h) \/ h \in S => Requeued(h)'
  BY <1>1, <1>3, QueueAccounts
<1>5. \A h \in Hash : Carried(h)' <=> Carried(h)
  BY <1>1 DEF Carried
<1>6. LeakTypes'
  BY <1>0, <1>1, <1>4 DEF LeakTypes
<1> QED
  BY <1>0, <1>1, <1>2, <1>4, <1>5, <1>6, AccountsKept DEF LeakInv, LeakTypes

\* A sweep lists for dequeuing what it deleted, and what is named, held or
\* queued again.
LEMMA SweepLeaksNothing ==
  ASSUME NoLeak, NEW g \in Hash, SweepStep(g)
  PROVE  NoLeak'
<1>0. LeakTypes /\ LeakInv
  BY DEF NoLeak
<1>1. /\ UNCHANGED <<now, sweepNow, sweep, until, refused, crashes, refs, queued, due>>
      /\ UNCHANGED <<phase, repo, pins, keep>>
  BY DEF SweepStep, BeginDelete, Check, RemoveLocal, DeleteAnswered, LateDeleteLands,
         queueVars, buildVars, sweepVars, bounds
<1>2. \A h \in Hash : /\ Named(h)' <=> Named(h)
                      /\ Carried(h)' <=> Carried(h)
                      /\ Requeued(h)' <=> Requeued(h)
  BY <1>1 DEF Named, Carried, Requeued
<1>3. CASE LateDeleteLands(g)
  <2>1. bucket' = bucket \ {g} /\ UNCHANGED <<stage, todo, done>>
    BY <1>3 DEF LateDeleteLands, sweepVars
  <2>2. LeakTypes'
    BY <1>0, <1>1, <2>1 DEF LeakTypes
  <2> QED
    BY <1>0, <1>1, <1>2, <2>1, <2>2 DEF NoLeak, LeakInv, LeakTypes
<1>4. CASE BeginDelete(g) \/ RemoveLocal(g)
  <2>1. /\ UNCHANGED <<bucket, done>>
        /\ stage' \in [Hash -> {"none", "marked", "checked", "sent"}]
        /\ g \in todo \/ stage[g] # "none"
    BY <1>0, <1>4 DEF BeginDelete, RemoveLocal, LeakTypes
  <2>2. sweep # "idle"
    BY <1>0, <2>1 DEF LeakInv
  <2>3. LeakTypes'
    BY <1>0, <1>1, <2>1 DEF LeakTypes
  <2> QED
    BY <1>0, <1>1, <1>2, <2>1, <2>2, <2>3 DEF NoLeak, LeakInv, LeakTypes
<1>5. CASE Check(g)
  <2>1. /\ UNCHANGED bucket
        /\ stage' \in [Hash -> {"none", "marked", "checked", "sent"}]
        /\ stage[g] # "none"
        /\ \/ UNCHANGED done
           \/ done' = done \cup {g} /\ ~(g \in queued /\ due[g] < sweepNow /\ ~Named(g))
    BY <1>0, <1>5 DEF Check, LeakTypes
  <2>2. sweep # "idle"
    BY <1>0, <2>1 DEF LeakInv
  <2>3. LeakTypes'
    BY <1>0, <1>1, <2>1 DEF LeakTypes
  <2>4. ~(g \in queued /\ due[g] < sweepNow /\ ~Named(g)) /\ g \in queued => Named(g) \/ Requeued(g)
    BY <1>0 DEF Requeued, LeakTypes
  <2>5. \A h \in bucket' : Named(h)' \/ Carried(h)' \/ h \in queued'
    BY <1>0, <1>1, <1>2, <2>1 DEF LeakInv, LeakTypes
  <2>6. \A h \in bucket' \cap done' : Named(h)' \/ Carried(h)' \/ Requeued(h)'
    BY <1>0, <1>2, <2>1, <2>4 DEF LeakInv, LeakTypes, Requeued
  <2> QED
    BY <1>0, <1>1, <2>2, <2>3, <2>5, <2>6 DEF NoLeak, LeakInv, Requeued
<1>6. CASE DeleteAnswered(g)
  <2>1. /\ bucket' = bucket \ {g} /\ done' = done \cup {g}
        /\ stage' \in [Hash -> {"none", "marked", "checked", "sent"}]
        /\ stage[g] # "none"
    BY <1>0, <1>6 DEF DeleteAnswered, LeakTypes
  <2>2. sweep # "idle"
    BY <1>0, <2>1 DEF LeakInv
  <2>3. LeakTypes'
    BY <1>0, <1>1, <2>1 DEF LeakTypes
  <2> QED
    BY <1>0, <1>1, <1>2, <2>1, <2>2, <2>3 DEF NoLeak, LeakInv, LeakTypes
<1> QED
  BY <1>3, <1>4, <1>5, <1>6 DEF SweepStep

\* The queue drops a listed artifact only when something else accounts for it.
LEMMA DequeueLeaksNothing ==
  ASSUME NoLeak, Dequeue
  PROVE  NoLeak'
<1>0. LeakTypes /\ LeakInv
  BY DEF NoLeak
<1>1. /\ queued' = {h \in queued : h \notin done \/ due[h] >= sweepNow}
      /\ due' = [h \in Hash |-> IF h \in queued' THEN due[h] ELSE 0]
      /\ sweepNow' = 0 /\ done' = {} /\ todo' = {}
      /\ \A h \in Hash : stage'[h] = "none"
      /\ UNCHANGED <<now, until, refused, crashes, refs, bucket, stage, phase, repo, pins, keep>>
  BY DEF Dequeue, buildVars, bounds
<1>2. \A h \in Hash : (Named(h)' <=> Named(h)) /\ (Carried(h)' <=> Carried(h))
  BY <1>1 DEF Named, Carried
<1>3. LeakTypes'
  BY <1>0, <1>1 DEF LeakTypes
<1>4. \A h \in bucket' : Named(h)' \/ Carried(h)' \/ h \in queued'
  BY <1>0, <1>1, <1>2 DEF LeakInv, LeakTypes
<1>5. sweepNow' <= now'
  BY <1>0, <1>1 DEF LeakTypes
<1> QED
  BY <1>1, <1>3, <1>4, <1>5 DEF NoLeak, LeakInv

\* Every step of a server that neither crashes nor has a discard refused
\* leaves nothing behind.
LEMMA LeakStep ==
  ASSUME NoLeak, MaxRefused = 0, MaxCrashes = 0, [Next]_gcVars
  PROVE  NoLeak'
<1>0. LeakTypes /\ LeakInv /\ Ttl \in Nat
  BY GCAssumption DEF NoLeak
<1>1. ASSUME NEW h \in Hash, Sign(h) PROVE NoLeak'
  <2>1. /\ UNCHANGED <<now, sweepNow, sweep, todo, done, stage, refused, crashes, refs, queued,
                       due, bucket, phase, repo, pins, keep>>
        /\ until' \in [Hash -> Nat]
    BY <1>0, <1>1 DEF Sign, queueVars, buildVars, sweepVars, bounds, LeakTypes
  <2> QED
    BY <1>0, <2>1 DEF NoLeak, LeakTypes, LeakInv, Named, Carried
<1>2. ASSUME NEW D \in SUBSET Hash, TakeBatch(D) PROVE NoLeak'
  <2>1. /\ sweep = "idle" /\ sweep' # "idle" /\ sweepNow' = now
        /\ UNCHANGED <<now, done, stage, until, refused, crashes, refs, queued, due, bucket,
                       phase, repo, pins, keep>>
    BY <1>2 DEF TakeBatch, queueVars, buildVars, bounds
  <2>2. done' = {} /\ sweepNow' \in Nat /\ sweepNow' <= now'
    BY <1>0, <2>1 DEF LeakInv, LeakTypes
  <2>3. LeakTypes'
    BY <1>0, <2>1, <2>2 DEF LeakTypes
  <2> QED
    BY <1>0, <2>1, <2>2, <2>3 DEF NoLeak, LeakInv, Named, Carried
<1>3. ASSUME NEW S \in SUBSET Hash, SweepFails(S) PROVE NoLeak'
  <2>1. /\ bucket' = bucket \ S /\ todo' = {} /\ stage' = [h \in Hash |-> "none"]
        /\ UNCHANGED <<now, sweepNow, sweep, done, until, refused, crashes, refs, queued, due,
                       phase, repo, pins, keep>>
    BY <1>3 DEF SweepFails, queueVars, buildVars
  <2>2. LeakTypes'
    BY <1>0, <2>1 DEF LeakTypes
  <2> QED
    BY <1>0, <2>1, <2>2 DEF NoLeak, LeakInv, Named, Carried
<1>4. ASSUME NEW S \in SUBSET Hash, Crash(S) PROVE NoLeak'
  BY <1>0, <1>4 DEF Crash, LeakTypes
<1>5. CASE Tick
  <2>1. /\ now' = now + 1
        /\ UNCHANGED <<sweepNow, sweep, todo, done, stage, until, refused, crashes, refs, queued,
                       due, bucket, phase, repo, pins, keep>>
    BY <1>5 DEF Tick, queueVars, buildVars, sweepVars, bounds
  <2>2. LeakTypes' /\ sweepNow' <= now'
    BY <1>0, <2>1 DEF LeakTypes, LeakInv
  <2> QED
    BY <1>0, <2>1, <2>2 DEF NoLeak, LeakInv, Named, Carried
<1>6. CASE UNCHANGED gcVars
  BY <1>6 DEF gcVars, NoLeak, LeakTypes, LeakInv, Named, Carried
<1> QED
  BY <1>1, <1>2, <1>3, <1>4, <1>5, <1>6, BuildLeaksNothing, PurgeLeaksNothing,
     SweepLeaksNothing, DequeueLeaksNothing DEF Next

\* On a server that neither crashes nor has the store refuse a discard, an
\* artifact in storage is named, pinned or queued: no order of publishes,
\* purges, discards and sweeps forgets one, whatever DELETEs arrive late.
THEOREM StorageNeverLeaks == MaxRefused = 0 /\ MaxCrashes = 0 => (Spec => []NothingLeaks)
<1> SUFFICES ASSUME MaxRefused = 0, MaxCrashes = 0 PROVE Spec => []NothingLeaks
  OBVIOUS
<1>1. Init => NoLeak
  BY DEF Init, NoLeak, LeakTypes, LeakInv
<1>2. NoLeak /\ [Next]_gcVars => NoLeak'
  BY LeakStep
<1>3. NoLeak => NothingLeaks
  BY DEF NoLeak, LeakInv, NothingLeaks, Carried, Pinned
<1> QED
  BY <1>1, <1>2, <1>3, PTL DEF Spec
=============================================================================
