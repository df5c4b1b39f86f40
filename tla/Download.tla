------------------------------ MODULE Download ------------------------------
(***************************************************************************)
(* The artifact downloads of one clone (rust/src/client/download.rs): tries, *)
(* resumed streams, big files in ranges, and the signed URLs that all of     *)
(* them share and refresh.                                                   *)
(*                                                                          *)
(* Byte i of an artifact is the number i, so an artifact is <<1, ..., n>>;   *)
(* 0 is a byte that the server got wrong.  The hash of a body is the body.   *)
(***************************************************************************)
EXTENDS Naturals, Sequences, FiniteSets, FiniteSetsExt

CONSTANTS
  Artifact,      \* the artifacts that are downloaded
  Size,          \* Size[a]: its bytes
  Known,         \* the ones whose length the manifest promised
  TempFile,      \* the ones that go to a file, the others to memory
  Signed,        \* the ones with a signed URL, the others use the gateway
  Cached,        \* the ones that the client's cache may hold
  Part,          \* range_part_bytes
  RANGE_PARALLEL,
  FETCH_MAX_ATTEMPTS,
  Unlocked,       \* nobody holds the refresh lock
  MaxFaults,     \* bound: answers that fail, and bodies that are cut
  MaxExpiries,   \* bound: how often the signatures expire
  MaxLies        \* bound: wrong answers of the server

ASSUME DownloadAssumption ==
  /\ Size \in [Artifact -> Nat]
  /\ Known \subseteq Artifact /\ TempFile \subseteq Artifact
  /\ Signed \subseteq Artifact /\ Cached \subseteq Artifact \ TempFile
  /\ Part \in Nat \ {0} /\ RANGE_PARALLEL \in Nat \ {0}
  /\ FETCH_MAX_ATTEMPTS \in Nat \ {0}
  /\ {MaxFaults, MaxExpiries, MaxLies} \subseteq Nat

\* The files that are fetched as ranges, and their number of parts.
Ranged(a) == a \in TempFile \cap Known /\ Size[a] >= 4 * Part
Parts(a) == IF Ranged(a) THEN (Size[a] + Part - 1) \div Part ELSE 0

\* The bytes of part i, and of the artifact.
Smaller(m, n) == IF m < n THEN m ELSE n
PartOf(a, i) ==
  LET from == (i - 1) * Part
  IN  [k \in 1..(Smaller(i * Part, Size[a]) - from) |-> from + k]
Whole(a) == [k \in 1..Size[a] |-> k]

\* A request loop: the stream of an artifact, or one of its ranges.
Stream(a) == <<a, 0>>
Range_(a) == {<<a, i>> : i \in 1..Parts(a)}
Loop == UNION {{Stream(a)} \cup Range_(a) : a \in Artifact}

VARIABLES
  result,   \* result[a]: where the download of a stands
  body,     \* body[a]: received
  written,  \* written[a]: the ranges that have been written
  progress, \* the bytes counted for the artifacts of known length
  loop,     \* loop[t]: where a loop is, its attempt, the generation of its URL,
            \* and the byte that the body of its response goes on with
  generation, \* how many refreshes produced the current URLs
  expired,  \* the newest generation whose signatures have expired plus 1
  refused,  \* the generations that a 401 or 403 was answered to
  owner,    \* who holds the refresh lock
  cache,    \* what the client's cache holds
  faults, lies

urlVars == <<generation, expired, refused, owner>>
bodyVars == <<body, written, progress>>
dlVars == <<result, body, written, progress, loop, generation, expired,
            refused, owner, cache, faults, lies>>

Art(t) == t[1]
IsStream(t) == t[2] = 0
Goto(t, l) == loop' = [loop EXCEPT ![t].pc = l]
Becomes(t, l, attempt, seen, next) ==
  loop' = [loop EXCEPT ![t] = [pc |-> l, attempt |-> attempt, seen |-> seen, next |-> next]]
TryNext(t, l) == Becomes(t, l, loop[t].attempt + 1, loop[t].seen, loop[t].next)
SendWith(t, seen) == Becomes(t, "send", loop[t].attempt, seen, loop[t].next)
ReadFrom(t, next) == Becomes(t, "body", loop[t].attempt, loop[t].seen, next)

\* A loop before its first try, and one that has come to its result.
At(l) == [pc |-> l, attempt |-> 0, seen |-> 0, next |-> 0]
Return(t, l) == loop' = [loop EXCEPT ![t] = At(l)]

\* One more byte or part is received (Received::write) ...
Written(a, bytes) ==
  /\ body' = [body EXCEPT ![a] = @ \o bytes]
  /\ progress' = IF a \in Known THEN progress + Len(bytes) ELSE progress

\* ... or dropped, for a server that ignored Range (Received::restart).
Restarted(a) ==
  /\ body' = [body EXCEPT ![a] = <<>>]
  /\ progress' = IF a \in Known THEN progress - Len(body[a]) ELSE progress

\* Bug: only the length is compared.
VerifiedLength(a) == Len(body[a]) = Size[a]

\* verify_artifact: the promised length, then the content.
Verified(a) ==
  /\ a \in Known => Len(body[a]) = Size[a]
  /\ body[a] = Whole(a)

\* Received::finish, and the cache for what went to memory.
Finished(a) ==
  /\ result' = [result EXCEPT ![a] = IF Verified(a) THEN "done" ELSE "corrupt"]
  /\ cache' = IF Verified(a) /\ a \in Cached THEN cache \cup {a} ELSE cache

-----------------------------------------------------------------------------
(* Client::download.                                                        *)

\* The cache answers.
Hit(a) ==
  /\ result[a] = "new" /\ a \in cache
  /\ result' = [result EXCEPT ![a] = "done"]
  /\ Written(a, Whole(a))
  /\ UNCHANGED <<written, loop, urlVars, cache, faults, lies>>

\* The start of a download, which is ranged or one stream.
Begin(a) ==
  /\ result[a] = "new" /\ a \notin cache
  /\ result' = [result EXCEPT ![a] = IF Ranged(a) THEN "ranges" ELSE "stream"]
  /\ UNCHANGED <<bodyVars, loop, urlVars, cache, faults, lies>>

\* The first try of a loop reads the current URL.  The stream starts when the
\* download comes to it, a range when it is one of the next RANGE_PARALLEL.
StartLoop(t) ==
  LET a == Art(t) IN
  /\ loop[t].pc = "off"
  /\ IF IsStream(t) THEN result[a] = "stream"
                    ELSE result[a] = "ranges" /\ t[2] <= written[a] + RANGE_PARALLEL
  /\ Becomes(t, "send", 1, generation, 0)
  /\ UNCHANGED <<result, bodyVars, urlVars, cache, faults, lies>>

\* Dropping a download drops its loops, and with them the refresh lock.
DropLoops(a) ==
  /\ loop' = [t \in Loop |-> IF Art(t) = a THEN At("end") ELSE loop[t]]
  /\ owner' = IF owner # Unlocked /\ Art(owner) = a THEN Unlocked ELSE owner

\* An error that is not tried again.
FailDownload(a) ==
  /\ result' = [result EXCEPT ![a] = "failed"]
  /\ DropLoops(a)
  /\ cache' = cache

\* A failure that ends the loop.  A range that failed is noticed when its turn
\* to be written comes.
Permanent(t) ==
  IF IsStream(t) THEN FailDownload(Art(t))
                 ELSE Return(t, "failed") /\ UNCHANGED <<result, owner, cache>>

\* A failed try.  The loop waits and tries again, until its last try.
Retry(t) ==
  IF loop[t].attempt < FETCH_MAX_ATTEMPTS
  THEN /\ TryNext(t, "send")
       /\ UNCHANGED <<result, owner, cache>>
  ELSE Permanent(t)

\* A stream that has every promised byte sends no further request.
AllHere(t) ==
  /\ IsStream(t) /\ Art(t) \in Known
  /\ Len(body[Art(t)]) > 0 /\ Len(body[Art(t)]) = Size[Art(t)]

Break(t) ==
  /\ loop[t].pc = "send" /\ AllHere(t)
  /\ Return(t, "end") /\ Finished(Art(t))
  /\ UNCHANGED <<bodyVars, urlVars, faults, lies>>

\* A request is on its way, and its answer is one of those that follow.
Asks(t) == loop[t].pc = "send" /\ ~AllHere(t)

\* The signature of a signed URL counts when the request arrives.
Refused(t) == Art(t) \in Signed /\ loop[t].seen < expired

\* The first byte that a request asks for.
Offset(t) == IF IsStream(t) THEN Len(body[Art(t)]) ELSE (t[2] - 1) * Part

\* A transport error, 408, 429 or 5xx, or the body of a range that is cut or
\* too short.
Unavailable(t) ==
  /\ Asks(t) /\ faults < MaxFaults
  /\ faults' = faults + 1
  /\ Retry(t)
  /\ UNCHANGED <<bodyVars, generation, expired, refused, lies>>

\* 401 or 403 from a signed URL: refresh it, unless this was the last try.
Expired(t) ==
  /\ Asks(t) /\ Refused(t)
  /\ refused' = refused \cup {loop[t].seen}
  /\ IF loop[t].attempt < FETCH_MAX_ATTEMPTS
     THEN /\ TryNext(t, "lock")
          /\ UNCHANGED <<result, owner, cache>>
     ELSE Permanent(t)
  /\ UNCHANGED <<bodyVars, generation, expired, faults, lies>>

\* 404, a Content-Range that is not the one asked for, or a status that no
\* request expects.  A range past the last byte of an artifact of unknown
\* length is answered with 416.
Rejected(t) ==
  /\ Asks(t)
  /\ \/ lies < MaxLies /\ lies' = lies + 1
     \/ /\ ~Refused(t) /\ Offset(t) = Size[Art(t)] /\ Offset(t) > 0
        /\ lies' = lies
  /\ Permanent(t)
  /\ UNCHANGED <<bodyVars, generation, expired, refused, faults>>

\* 200.  A stream starts over, a range gives up its download's ranges.
Answered(t) ==
  /\ Asks(t) /\ ~Refused(t)
  /\ IF IsStream(t)
     THEN /\ ReadFrom(t, 1)
          /\ IF Len(body[Art(t)]) > 0 THEN Restarted(Art(t)) ELSE UNCHANGED <<body, progress>>
     ELSE Return(t, "ignored") /\ UNCHANGED <<body, progress>>
  /\ UNCHANGED <<result, written, urlVars, cache, faults, lies>>

\* 206 with the range that was asked for.  A range is read as a whole.
AnsweredRange(t) ==
  /\ Asks(t) /\ ~Refused(t)
  /\ IsStream(t) => Offset(t) > 0 /\ Offset(t) < Size[Art(t)]
  /\ IF IsStream(t)
     THEN ReadFrom(t, Offset(t) + 1)
     ELSE Return(t, "fetched")
  /\ UNCHANGED <<result, bodyVars, urlVars, cache, faults, lies>>

\* One chunk of a stream's body.  More than the promised length fails at once.
Chunk(t) ==
  LET a == Art(t) IN
  /\ loop[t].pc = "body"
  /\ \/ loop[t].next <= Size[a] /\ lies' = lies /\ Written(a, <<loop[t].next>>)
     \/ lies < MaxLies /\ lies' = lies + 1 /\ Written(a, <<0>>)
  /\ IF a \in Known /\ Len(body[a]) + 1 > Size[a]
     THEN FailDownload(a)
     ELSE loop' = [loop EXCEPT ![t].next = @ + 1] /\ UNCHANGED <<result, owner, cache>>
  /\ UNCHANGED <<written, generation, expired, refused, faults>>

\* The connection is cut inside the body, or after it.
Cut(t) ==
  /\ loop[t].pc = "body" /\ faults < MaxFaults
  /\ faults' = faults + 1
  /\ Retry(t)
  /\ UNCHANGED <<bodyVars, generation, expired, refused, lies>>

\* The body ends, in a lie too early.
EndOfBody(t) ==
  /\ loop[t].pc = "body"
  /\ \/ loop[t].next > Size[Art(t)] /\ lies' = lies
     \/ loop[t].next <= Size[Art(t)] /\ lies < MaxLies /\ lies' = lies + 1
  /\ Return(t, "end") /\ Finished(Art(t))
  /\ UNCHANGED <<bodyVars, urlVars, faults>>

-----------------------------------------------------------------------------
(* Client::download_ranges: the ranges are written in order.                *)

NextRange(a) == <<a, written[a] + 1>>
InRanges(a) == result[a] = "ranges" /\ written[a] < Parts(a)

WriteRange(a) ==
  /\ InRanges(a) /\ loop[NextRange(a)].pc = "fetched"
  /\ Return(NextRange(a), "end")
  /\ \/ Written(a, PartOf(a, written[a] + 1)) /\ lies' = lies
     \/ /\ lies < MaxLies /\ lies' = lies + 1
        /\ Written(a, [k \in DOMAIN PartOf(a, written[a] + 1) |-> 0])
  /\ written' = [written EXCEPT ![a] = @ + 1]
  /\ UNCHANGED <<result, urlVars, cache, faults>>

\* All of them are written.
EndRanges(a) ==
  /\ result[a] = "ranges" /\ written[a] = Parts(a)
  /\ Finished(a)
  /\ UNCHANGED <<bodyVars, loop, urlVars, faults, lies>>

\* The next one failed.
RangeFails(a) ==
  /\ InRanges(a) /\ loop[NextRange(a)].pc = "failed"
  /\ FailDownload(a)
  /\ UNCHANGED <<bodyVars, generation, expired, refused, faults, lies>>

\* The next one got the whole artifact: the ranges are dropped, and the
\* artifact is fetched in one stream.
RangeIgnored(a) ==
  /\ InRanges(a) /\ loop[NextRange(a)].pc = "ignored"
  /\ result' = [result EXCEPT ![a] = "stream"]
  /\ Restarted(a)
  /\ loop' = [t \in Loop |-> IF t \in Range_(a) THEN At("end") ELSE loop[t]]
  /\ owner' = IF owner \in Range_(a) THEN Unlocked ELSE owner
  /\ UNCHANGED <<written, generation, expired, refused, cache, faults, lies>>

-----------------------------------------------------------------------------
(* OutputUrls::refresh.                                                     *)

\* The lock is free.  A newer generation than the one that was refused is
\* used; otherwise the server is asked.
TakeLock(t) ==
  /\ loop[t].pc = "lock" /\ owner = Unlocked
  /\ IF generation > loop[t].seen
     THEN SendWith(t, generation) /\ owner' = owner
     ELSE Goto(t, "refresh") /\ owner' = t
  /\ UNCHANGED <<result, bodyVars, generation, expired, refused, cache, faults, lies>>

\* The same output, signed again.
Refreshed(t) ==
  /\ loop[t].pc = "refresh" /\ owner = t
  /\ generation' = generation + 1
  /\ SendWith(t, generation + 1)
  /\ owner' = Unlocked
  /\ UNCHANGED <<result, bodyVars, expired, refused, cache, faults, lies>>

\* The request fails, or the output is gone, is another one, or has no URL
\* for this artifact, which another's refresh may show as well.
RefreshFails(t) ==
  /\ \/ loop[t].pc = "refresh" /\ owner = t
     \/ loop[t].pc = "lock" /\ owner = Unlocked /\ generation > loop[t].seen
  /\ faults < MaxFaults /\ faults' = faults + 1
  /\ IF IsStream(t)
     THEN FailDownload(Art(t))
     ELSE Return(t, "failed") /\ owner' = Unlocked /\ UNCHANGED <<result, cache>>
  /\ UNCHANGED <<bodyVars, generation, expired, refused, lies>>

\* Every signature so far runs out.
Expire ==
  /\ expired < MaxExpiries /\ expired <= generation
  /\ expired' = generation + 1
  /\ UNCHANGED <<result, bodyVars, loop, generation, refused, owner, cache, faults, lies>>

-----------------------------------------------------------------------------
Init ==
  /\ result = [a \in Artifact |-> "new"]
  /\ body = [a \in Artifact |-> <<>>]
  /\ written = [a \in Artifact |-> 0]
  /\ progress = 0
  /\ loop = [t \in Loop |-> At("off")]
  /\ generation = 0 /\ expired = 0 /\ refused = {} /\ owner = Unlocked
  /\ cache \in SUBSET Cached
  /\ faults = 0 /\ lies = 0

LoopStep(t) ==
  \/ StartLoop(t) \/ Break(t) \/ Unavailable(t) \/ Expired(t) \/ Rejected(t)
  \/ Answered(t) \/ AnsweredRange(t) \/ Chunk(t) \/ Cut(t) \/ EndOfBody(t)
  \/ TakeLock(t) \/ Refreshed(t) \/ RefreshFails(t)

DownloadStep(a) ==
  \/ Hit(a) \/ Begin(a) \/ WriteRange(a) \/ EndRanges(a) \/ RangeFails(a) \/ RangeIgnored(a)

Next ==
  \/ \E t \in Loop : LoopStep(t)
  \/ \E a \in Artifact : DownloadStep(a)
  \/ Expire

Spec == Init /\ [][Next]_dlVars

\* One task polls a download and its loops: a request ends by its timeout, a
\* body by its last byte or its error, and the refresh lock is fair.
Fairness ==
  \A a \in Artifact :
    WF_dlVars(DownloadStep(a) \/ \E t \in {Stream(a)} \cup Range_(a) : LoopStep(t))

LiveSpec == Spec /\ Fairness

-----------------------------------------------------------------------------
(* Properties.                                                              *)

Ends == {"done", "failed", "corrupt"}

\* What a download returned, and what the cache got from it, is the artifact,
\* whatever the server sent.  When the server sends what it should, resumed
\* bodies, restarts and ranges mix no bytes up: nothing ends in a mismatch.
NothingWrongIsUsed ==
  \A a \in Artifact : /\ result[a] = "done" => body[a] = Whole(a)
                      /\ lies = 0 => result[a] # "corrupt"

\* What NothingWrongIsUsed rests on, of one artifact: only the loops of the
\* way it is on run, the ranges that have been written have ended, and while
\* the server lies about nothing the body is a beginning of the artifact, as
\* long as the ranges that have been written, with which the stream goes on.
Runs(t) == loop[t].pc \notin {"off", "end"}

DownloadGood(a) ==
  /\ result[a] # "stream" => ~Runs(Stream(a))
  /\ result[a] # "ranges" => \A t \in Range_(a) : ~Runs(t)
  /\ result[a] = "ranges" => /\ Ranged(a) /\ written[a] <= Parts(a)
                             /\ \A t \in Range_(a) : t[2] <= written[a] => loop[t].pc = "end"
  /\ result[a] = "new" => body[a] = <<>> /\ written[a] = 0
  /\ result[a] = "done" => body[a] = Whole(a)
  /\ lies = 0 =>
       /\ result[a] # "corrupt"
       /\ Len(body[a]) <= Size[a] /\ \A k \in 1..Len(body[a]) : body[a][k] = k
       /\ result[a] = "ranges" => Len(body[a]) = Smaller(written[a] * Part, Size[a])
       /\ loop[Stream(a)].pc = "body" => loop[Stream(a)].next = Len(body[a]) + 1

DownloadInv ==
  /\ result \in [Artifact -> {"new", "stream", "ranges"} \cup Ends]
  /\ body \in [Artifact -> Seq(Nat)] /\ written \in [Artifact -> Nat]
  /\ loop \in [Loop -> [pc : {"off", "send", "lock", "refresh", "body",
                              "fetched", "ignored", "failed", "end"},
                        attempt : Nat, seen : Nat, next : Nat]]
  /\ generation \in Nat /\ lies \in Nat
  /\ \A t \in Loop : loop[t].pc = "body" => IsStream(t)
  /\ \A a \in Artifact : DownloadGood(a)

\* Every download ends, with the artifact or an error, and so does the last one
\* that waits for another's refresh.
EveryDownloadEnds == \A a \in Artifact : <>(result[a] \in Ends)
=============================================================================
