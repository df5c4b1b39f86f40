--------------------------- MODULE ArchiveExtract ---------------------------
(***************************************************************************)
(* A Files clone writes its working tree while the archive downloads        *)
(* (materialize_files in rust/src/client/install.rs, rust/src/extract.rs,   *)
(* worktree_writer.rs).                                                     *)
(*                                                                          *)
(* The downloader sends chunks to a bridge thread, the bridge to the        *)
(* extractor's fetcher threads, which cut them into frames for the writer   *)
(* threads; all of it over bounded channels.  A writer finds the files with *)
(* bytes in its frame; a file that is spread over frames is written by the  *)
(* writer that brings its last fragment.                                    *)
(*                                                                          *)
(* What a stage holds is dropped with it: a receiver that is gone fails the *)
(* next send, and a channel whose senders are all gone ends its receivers   *)
(* once it is empty.  An abort takes effect at once.                        *)
(***************************************************************************)
EXTENDS Integers, FiniteSets, Sequences

CONSTANTS
  ChunkOf,       \* ChunkOf[k]: the archive chunk frame k is in, from 1 up
  Frags,         \* Frags[f]: the frames that hold the fragments of file f
  Fetcher,       \* the fetcher threads
  Writer,        \* the writer threads
  Depth,         \* depth of the chunk channels
  QueueDepth,    \* queue_depth, of the frame channel
  FetchConc,     \* archive_fetch_concurrency
  WriteBatch,    \* PACK_WRITE_BATCH_FILES
  MaxTrouble     \* bound: failures and cancellations

Frame == DOMAIN ChunkOf
File == DOMAIN Frags
ArchiveChunk == {ChunkOf[k] : k \in Frame}

ASSUME ExtractAssumption ==
  /\ ChunkOf \in Seq(Nat) /\ ArchiveChunk = 1..Cardinality(ArchiveChunk)
  /\ \A k \in Frame \ {1} : ChunkOf[k] - ChunkOf[k - 1] \in {0, 1}
  /\ Frags \in Seq(Seq(Frame)) /\ \A f \in File : Frags[f] # <<>>
  /\ Fetcher # {} /\ Writer # {}
  /\ Fetcher \cap Writer = {} /\ "bridge" \notin Fetcher \cup Writer
  /\ Depth \in Nat \ {0} /\ QueueDepth \in Nat \ {0}
  /\ FetchConc \in Nat \ {0} /\ WriteBatch \in Nat \ {0} /\ MaxTrouble \in Nat

VARIABLES
  clone,      \* where materialize_files is
  manifest,   \* "coming", "here" or "failed"; the downloader waits for it
  downloads,  \* [state, next, busy, held]: held chunks wait for room
  asyncq,     \* the channel to the bridge
  bridge,     \* the chunk the bridge holds, or 0
  chunkq,     \* the channel to the fetchers
  extractor,  \* where the extractor is
  cutting,    \* cutting[t]: the frames fetcher t still sends
  frameq,     \* the channel to the writers
  writing,    \* writing[w]: what writer w does
  pieces,     \* pieces[f]: fragments of f that are in; f leaves when complete
  collected,  \* [results, files, failed]: what the extractor's loop got
  tree,       \* tree[f]: how often f was written, and whether always rightly
  ended,      \* the threads that have ended, "bridge" the bridge's
  spoilt,     \* frames whose bytes are not what the files table says
  troubles    \* how many failures and cancellations happened

extractVars == <<clone, manifest, downloads, asyncq, bridge, chunkq, extractor, cutting,
                 frameq, writing, pieces, collected, tree, ended, spoilt, troubles>>

Trouble == troubles < MaxTrouble /\ troubles' = troubles + 1

-----------------------------------------------------------------------------
(* materialize_files: its own steps.                                        *)

CloneOver == clone \in {"done", "failed"}
DownloadsOver == downloads.state \in {"ok", "failed"}
ExtractorOver == extractor \in {"ok", "failed"}

Idle == [frame |-> 0, todo |-> {}, batch |-> <<>>, files |-> 0]

ExtractInit ==
  /\ clone = "fetching" /\ manifest = "coming"
  /\ downloads = [state |-> "waiting", next |-> 1, busy |-> {}, held |-> {}]
  /\ asyncq = <<>> /\ bridge = 0 /\ chunkq = <<>>
  /\ extractor = "none"
  /\ cutting = [t \in Fetcher |-> {}]
  /\ frameq = <<>>
  /\ writing = [w \in Writer |-> Idle]
  /\ pieces = [f \in {g \in File : Len(Frags[g]) > 1} |-> {}]
  /\ collected = [results |-> 0, files |-> 0, failed |-> FALSE]
  /\ ended = {}
  /\ tree = [f \in File |-> [times |-> 0, right |-> TRUE]]
  /\ spoilt \in {{}} \cup {{k} : k \in Frame}
  /\ troubles = IF spoilt = {} THEN 0 ELSE 1

\* Dropping the clone's future aborts the downloads; the bridge and the
\* extractor are blocking tasks and go on until they end by themselves.
Stopped == [downloads EXCEPT !.state = IF DownloadsOver THEN @ ELSE "failed", !.busy = {}, !.held = {}]

FailClone == clone' = "failed" /\ downloads' = Stopped

\* The manifest task ends.
ManifestHere ==
  /\ clone = "fetching" /\ manifest = "coming"
  /\ \/ manifest' = "here" /\ UNCHANGED <<clone, downloads, troubles>>
     \/ Trouble /\ manifest' = "failed" /\ FailClone
  /\ UNCHANGED <<asyncq, bridge, chunkq, extractor, cutting, frameq, writing, pieces, collected, tree, ended, spoilt>>

\* The metadata is in, the clone is staged and the extractor starts; any of
\* it may fail.
StartExtractor ==
  /\ clone = "fetching" /\ manifest = "here"
  /\ \/ clone' = "downloads" /\ extractor' = "preparing" /\ UNCHANGED <<downloads, troubles>>
     \/ Trouble /\ FailClone /\ UNCHANGED extractor
  /\ UNCHANGED <<manifest, asyncq, bridge, chunkq, cutting, frameq, writing, pieces, collected, tree, ended, spoilt>>

\* The downloads are joined first, then the bridge, then the extractor.
JoinNext ==
  /\ \/ clone = "downloads" /\ downloads.state = "ok" /\ clone' = "bridge"
     \/ clone = "downloads" /\ downloads.state = "failed" /\ clone' = "failed"
     \/ clone = "bridge" /\ "bridge" \in ended /\ clone' = "extractor"
     \/ clone = "extractor" /\ extractor = "ok" /\ clone' = "done"
     \/ clone = "extractor" /\ extractor = "failed" /\ clone' = "failed"
  /\ UNCHANGED <<manifest, downloads, asyncq, bridge, chunkq, extractor, cutting, frameq, writing, pieces,
                 collected, tree, ended, spoilt, troubles>>

CancelClone ==
  /\ ~CloneOver /\ Trouble /\ FailClone
  /\ UNCHANGED <<manifest, asyncq, bridge, chunkq, extractor, cutting, frameq, writing, pieces, collected, tree, ended, spoilt>>

-----------------------------------------------------------------------------
(* spawn_archive_downloads and the bridge.                                  *)

BeginDownloads ==
  /\ downloads.state = "waiting" /\ manifest # "coming"
  /\ downloads' = [downloads EXCEPT !.state = IF manifest = "here" /\ ArchiveChunk # {} THEN "running" ELSE "ok"]
  /\ UNCHANGED <<clone, manifest, asyncq, bridge, chunkq, extractor, cutting, frameq, writing, pieces, collected,
                 tree, ended, spoilt, troubles>>

DownloadChunk ==
  /\ downloads.state = "running"
  /\ \/ /\ downloads.next \in ArchiveChunk
        /\ Cardinality(downloads.busy \cup downloads.held) < FetchConc
        /\ downloads' = [downloads EXCEPT !.busy = @ \cup {downloads.next}, !.next = @ + 1]
        /\ UNCHANGED troubles
     \/ \E c \in downloads.busy :
          \/ /\ downloads' = [downloads EXCEPT !.busy = @ \ {c}, !.held = @ \cup {c}]
             /\ UNCHANGED troubles
          \/ Trouble /\ downloads' = [Stopped EXCEPT !.state = "failed"]
  /\ UNCHANGED <<clone, manifest, asyncq, bridge, chunkq, extractor, cutting, frameq, writing, pieces, collected,
                 tree, ended, spoilt>>

AfterSend(c) ==
  LET rest == [downloads EXCEPT !.held = @ \ {c}]
  IN  IF rest.next \notin ArchiveChunk /\ rest.busy \cup rest.held = {}
      THEN [rest EXCEPT !.state = "ok"] ELSE rest

SendChunk ==
  /\ \E c \in downloads.held :
       \/ /\ "bridge" \notin ended /\ Len(asyncq) < Depth
          /\ asyncq' = Append(asyncq, c)
          /\ downloads' = AfterSend(c)
       \/ /\ "bridge" \in ended
          /\ downloads' = [Stopped EXCEPT !.state = "failed"] /\ UNCHANGED asyncq
  /\ UNCHANGED <<clone, manifest, bridge, chunkq, extractor, cutting, frameq, writing, pieces, collected, tree,
                 ended, spoilt, troubles>>

\* Whether anyone can still take from chunkq.
ChunksWanted ==
  \/ clone = "fetching" \/ extractor = "preparing"
  \/ extractor # "none" /\ ~(Fetcher \subseteq ended)

BridgeStep ==
  /\ "bridge" \notin ended
  /\ \/ /\ bridge = 0 /\ asyncq # <<>>
        /\ bridge' = Head(asyncq) /\ asyncq' = Tail(asyncq) /\ UNCHANGED <<chunkq, ended>>
     \/ /\ bridge = 0 /\ asyncq = <<>> /\ DownloadsOver
        /\ ended' = ended \cup {"bridge"} /\ UNCHANGED <<asyncq, bridge, chunkq>>
     \/ /\ bridge # 0 /\ ChunksWanted /\ Len(chunkq) < Depth
        /\ bridge' = 0 /\ chunkq' = Append(chunkq, bridge) /\ UNCHANGED <<asyncq, ended>>
     \/ /\ bridge # 0 /\ ~ChunksWanted
        /\ ended' = ended \cup {"bridge"} /\ bridge' = 0 /\ asyncq' = <<>> /\ UNCHANGED chunkq
  /\ UNCHANGED <<clone, manifest, downloads, extractor, cutting, frameq, writing, pieces, collected, tree,
                 spoilt, troubles>>

-----------------------------------------------------------------------------
(* The extractor and its threads.                                           *)

\* The table is checked and the directories made before any thread starts.
PrepareTree ==
  /\ extractor = "preparing"
  /\ \/ extractor' = "collecting" /\ UNCHANGED <<chunkq, ended, troubles>>
     \/ /\ Trouble /\ extractor' = "failed" /\ chunkq' = <<>>
        /\ ended' = ended \cup Fetcher \cup Writer
  /\ UNCHANGED <<clone, manifest, downloads, asyncq, bridge, cutting, frameq, writing, pieces, collected, tree,
                 spoilt>>

\* compute_chunks: the frames of a chunk, which are sent in their order.
FramesOf(c) == {k \in Frame : ChunkOf[k] = c}
First(frames) == CHOOSE k \in frames : \A other \in frames : k <= other

Started == extractor \notin {"none", "preparing"}
WritersGone == Writer \subseteq ended

\* A fetcher takes a chunk, sends its frames one by one, and ends with the
\* channel.
FetcherStep(t) ==
  /\ Started /\ t \notin ended
  /\ \/ /\ cutting[t] = {} /\ chunkq # <<>>
        /\ cutting' = [cutting EXCEPT ![t] = FramesOf(Head(chunkq))]
        /\ chunkq' = Tail(chunkq) /\ UNCHANGED <<frameq, ended>>
     \/ /\ cutting[t] # {} /\ Len(frameq) < QueueDepth
        /\ frameq' = Append(frameq, First(cutting[t]))
        /\ cutting' = [cutting EXCEPT ![t] = @ \ {First(cutting[t])}] /\ UNCHANGED <<chunkq, ended>>
     \/ /\ cutting[t] = {} /\ chunkq = <<>> /\ "bridge" \in ended
        /\ ended' = ended \cup {t} /\ UNCHANGED <<chunkq, cutting, frameq>>
  /\ UNCHANGED <<clone, manifest, downloads, asyncq, bridge, extractor, writing, pieces, collected, tree,
                 spoilt, troubles>>

\* fragments_by_frame: the fragments in frame k, by file and number; they are
\* taken in this order.
Pairs(k) == UNION {{f} \X {i \in DOMAIN Frags[f] : Frags[f][i] = k} : f \in File}
NextPair(todo) ==
  CHOOSE p \in todo : \A q \in todo : p[1] < q[1] \/ (p[1] = q[1] /\ p[2] <= q[2])

\* A writer's result of a frame; the extractor's loop takes it, unless it is
\* over, which ends the writer.
Result(w, files, failed) ==
  /\ writing' = [writing EXCEPT ![w] = Idle]
  /\ IF ExtractorOver
     THEN ended' = ended \cup {w} /\ UNCHANGED collected
     ELSE /\ UNCHANGED ended
          /\ collected' = [results |-> collected.results + 1, files |-> collected.files + files,
                           failed |-> collected.failed \/ failed]

TakeFrame(w) ==
  /\ Started /\ w \notin ended /\ writing[w] = Idle /\ frameq # <<>>
  /\ frameq' = Tail(frameq)
  /\ \/ /\ writing' = [writing EXCEPT ![w].frame = Head(frameq), ![w].todo = Pairs(Head(frameq))]
        /\ UNCHANGED <<collected, ended>>
     \/ \* it does not decompress to its length
        Head(frameq) \in spoilt /\ Result(w, 0, TRUE)
  /\ UNCHANGED <<clone, manifest, downloads, asyncq, bridge, chunkq, extractor, cutting, pieces, tree, spoilt, troubles>>

\* Whether the bytes of f are those of its blob.
Sound(f) == \A i \in DOMAIN Frags[f] : Frags[f][i] \notin spoilt

\* Bug: the blob id of what was read is not checked.
UncheckedBlob(f) == TRUE

\* The sha1 of the file's bytes is compared with its blob id.
BlobMatches(f) == Sound(f)

Full(w) == Len(writing[w].batch) >= WriteBatch

\* The file joins the batch, or its blob id fails the frame.
Place(w, f) ==
  IF BlobMatches(f)
  THEN /\ writing' = [writing EXCEPT ![w].todo = @ \ {NextPair(@)}, ![w].batch = Append(@, f)]
       /\ UNCHANGED <<collected, ended>>
  ELSE Result(w, 0, TRUE)

\* Bug: the last fragment of the table, not the last to come in, completes
\* its file.
CompletesByIndex(f, i) == i = Len(Frags[f])

\* Fragment i is the last of f to come in.
Completes(f, i) == pieces[f] \cup {i} = DOMAIN Frags[f]

\* One fragment of the frame, under the lock of the pending files: a file
\* that is not pending, or a fragment that is in, fails the frame.
TakeFragment(w) ==
  /\ writing[w].todo # {} /\ ~Full(w)
  /\ LET f == NextPair(writing[w].todo)[1]
         i == NextPair(writing[w].todo)[2]
     IN  IF Len(Frags[f]) = 1 THEN Place(w, f) /\ UNCHANGED pieces
         ELSE IF f \notin DOMAIN pieces THEN Result(w, 0, TRUE) /\ UNCHANGED pieces
         ELSE IF i \in pieces[f] THEN Result(w, 0, TRUE) /\ UNCHANGED pieces
         ELSE IF Completes(f, i)
         THEN pieces' = [g \in DOMAIN pieces \ {f} |-> pieces[g]] /\ Place(w, f)
         ELSE /\ pieces' = [pieces EXCEPT ![f] = @ \cup {i}]
              /\ writing' = [writing EXCEPT ![w].todo = @ \ {NextPair(@)}]
              /\ UNCHANGED <<collected, ended>>
  /\ UNCHANGED <<clone, manifest, downloads, asyncq, bridge, chunkq, extractor, cutting, frameq, tree, spoilt, troubles>>

Wrote(fs) ==
  [f \in File |-> IF f \in fs THEN [times |-> tree[f].times + 1, right |-> tree[f].right /\ Sound(f)]
                  ELSE tree[f]]
FilesIn(batch) == {batch[n] : n \in DOMAIN batch}

\* A full batch is flushed, and what is left when the frame is through.
Due(w) ==
  IF Full(w) THEN "flush"
  ELSE IF writing[w].todo # {} THEN "none"
  ELSE IF writing[w].batch # <<>> THEN "flush" ELSE "result"

\* write_owned_entries: the batch is written; a write that fails leaves some
\* of it and fails the frame.  A frame that is through has its result.
WriteBatchOut(w) ==
  /\ writing[w] # Idle
  /\ \/ /\ Due(w) = "flush"
        /\ writing' = [writing EXCEPT ![w].batch = <<>>, ![w].files = @ + Len(writing[w].batch)]
        /\ tree' = Wrote(FilesIn(writing[w].batch))
        /\ UNCHANGED <<collected, ended, troubles>>
     \/ /\ Due(w) = "flush" /\ Trouble /\ Result(w, 0, TRUE)
        /\ \E fs \in SUBSET FilesIn(writing[w].batch) : tree' = Wrote(fs)
     \/ /\ Due(w) = "result" /\ Result(w, writing[w].files, FALSE)
        /\ UNCHANGED <<tree, troubles>>
  /\ UNCHANGED <<clone, manifest, downloads, asyncq, bridge, chunkq, extractor, cutting, frameq, pieces, spoilt>>

\* All senders of the frame channel are gone, with the fetchers.
FramesOver == frameq = <<>> /\ \A t \in Fetcher : t \in ended

WriterEnds(w) ==
  /\ Started /\ w \notin ended
  /\ writing[w] = Idle /\ FramesOver
  /\ ended' = ended \cup {w}
  /\ UNCHANGED <<clone, manifest, downloads, asyncq, bridge, chunkq, extractor, cutting, frameq, writing, pieces,
                 collected, tree, spoilt, troubles>>

\* Bug: the first failure ends the loop.
EndsOnFailure == collected.results = Len(ChunkOf) \/ WritersGone \/ collected.failed

\* The loop takes one result per frame, or stops when all writers are gone.
CollectorEnds == collected.results = Len(ChunkOf) \/ WritersGone

\* The files written must be as many as the table lists.
EndExtractor ==
  /\ extractor = "collecting" /\ CollectorEnds
  /\ extractor' = IF /\ collected.results = Len(ChunkOf) /\ ~collected.failed
                     /\ collected.files = Cardinality(File)
                  THEN "ok" ELSE "failed"
  /\ UNCHANGED <<clone, manifest, downloads, asyncq, bridge, chunkq, cutting, frameq, writing, pieces, collected,
                 tree, ended, spoilt, troubles>>

WriterStep(w) == TakeFrame(w) \/ TakeFragment(w) \/ WriteBatchOut(w) \/ WriterEnds(w)

ExtractNext ==
  \/ ManifestHere \/ StartExtractor \/ JoinNext \/ CancelClone
  \/ BeginDownloads \/ DownloadChunk \/ SendChunk \/ BridgeStep
  \/ PrepareTree \/ EndExtractor
  \/ \E t \in Fetcher : FetcherStep(t)
  \/ \E w \in Writer : WriterStep(w)

\* Tasks and threads run, and downloads end (EveryDownloadEnds of Download).
ExtractFairness ==
  /\ WF_extractVars(ManifestHere) /\ WF_extractVars(StartExtractor) /\ WF_extractVars(JoinNext)
  /\ WF_extractVars(BeginDownloads) /\ WF_extractVars(DownloadChunk) /\ WF_extractVars(SendChunk)
  /\ WF_extractVars(BridgeStep) /\ WF_extractVars(PrepareTree) /\ WF_extractVars(EndExtractor)
  /\ \A t \in Fetcher : WF_extractVars(FetcherStep(t))
  /\ \A w \in Writer : WF_extractVars(WriterStep(w))

ExtractSpec == ExtractInit /\ [][ExtractNext]_extractVars /\ ExtractFairness

-----------------------------------------------------------------------------
(* Properties.                                                              *)

\* A Files clone that succeeds has written every file once, with the bytes of
\* its blob, whichever writers its fragments came to and in whatever order.
TreeIsWhole ==
  clone = "done" => \A f \in File : tree[f] = [times |-> 1, right |-> TRUE]

\* A Files clone fails only when something went wrong: no order of the
\* threads makes the pending-fragment checks, the file count or a closed
\* channel fail it.
NoFalseFailure == clone = "failed" => troubles > 0

\* Once the extractor has returned, with an error too, no writer writes into
\* the staging directory, which is removed next.
QuietOnReturn ==
  ExtractorOver => \A w \in Writer : writing[w] = Idle

\* Whatever fails or is cancelled, the clone ends and so do the bridge and
\* the extractor it leaves behind: nobody waits for ever on a full or an
\* empty channel.
PipelineEnds ==
  <>[](CloneOver /\ DownloadsOver /\ "bridge" \in ended /\ extractor \in {"none", "ok", "failed"})
-----------------------------------------------------------------------------
(* The inductive invariant that the proofs rest on.                         *)

Items(q) == {q[n] : n \in DOMAIN q}
Once(q) == \A m, n \in DOMAIN q : q[m] = q[n] => m = n

\* The types of the variables.
Downloads == [state : {"waiting", "running", "ok", "failed"}, next : Nat \ {0},
              busy : SUBSET ArchiveChunk, held : SUBSET ArchiveChunk]
Work == [frame : Frame \cup {0}, todo : SUBSET (File \X Nat), batch : Seq(File), files : Nat]
PipeTypes ==
  /\ clone \in {"fetching", "downloads", "bridge", "extractor", "done", "failed"}
  /\ manifest \in {"coming", "here", "failed"} /\ downloads \in Downloads
  /\ asyncq \in Seq(ArchiveChunk) /\ bridge \in ArchiveChunk \cup {0} /\ chunkq \in Seq(ArchiveChunk)
  /\ extractor \in {"none", "preparing", "collecting", "ok", "failed"}
  /\ cutting \in [Fetcher -> SUBSET Frame] /\ frameq \in Seq(Frame)
  /\ ended \subseteq Fetcher \cup Writer \cup {"bridge"} /\ troubles \in Nat
WorkTypes ==
  /\ writing \in [Writer -> Work]
  /\ DOMAIN pieces \subseteq File /\ pieces = [f \in DOMAIN pieces |-> pieces[f]]
  /\ collected \in [results : Nat, files : Nat, failed : BOOLEAN]
  /\ tree \in [File -> [times : Nat, right : BOOLEAN]]
  /\ spoilt \subseteq Frame

\* Where the chunks are that no fetcher has taken: they are to be downloaded,
\* in a download, held for room, in a channel or with the bridge.
Coming == {c \in ArchiveChunk : downloads.next <= c}
Bridged == {bridge} \ {0}
ChunksLeft ==
  Coming \cup downloads.busy \cup downloads.held \cup Items(asyncq) \cup Bridged \cup Items(chunkq)

\* No chunk is in two of these places, or in one of them twice.
ChunksApart ==
  /\ Once(asyncq) /\ Once(chunkq)
  /\ downloads.busy \cap Coming = {}
  /\ downloads.held \cap (Coming \cup downloads.busy) = {}
  /\ Items(asyncq) \cap (Coming \cup downloads.busy \cup downloads.held) = {}
  /\ Bridged \cap (Coming \cup downloads.busy \cup downloads.held \cup Items(asyncq)) = {}
  /\ Items(chunkq) \cap (Coming \cup downloads.busy \cup downloads.held \cup Items(asyncq) \cup Bridged) = {}

\* The frames that no writer has taken.
Fresh == {k \in Frame : ChunkOf[k] \in ChunksLeft}
BeingCut == UNION {cutting[t] : t \in Fetcher}
Untaken == Fresh \cup BeingCut \cup Items(frameq)

FramesApart ==
  /\ Once(frameq)
  /\ BeingCut \cap Fresh = {}
  /\ \A t, u \in Fetcher : t # u => cutting[t] \cap cutting[u] = {}
  /\ Items(frameq) \cap (Fresh \cup BeingCut) = {}

\* What a clone without trouble never is, and in which order its tasks end.
Undisturbed ==
  /\ manifest # "failed" /\ clone # "failed" /\ extractor # "failed"
  /\ downloads.state # "failed" /\ ~collected.failed /\ spoilt = {}
  /\ extractor = "none" => clone = "fetching"
  /\ downloads.state = "ok" => Coming = {}
  /\ "bridge" \in ended => DownloadsOver /\ asyncq = <<>> /\ bridge = 0
  /\ \A t \in Fetcher \cap ended : "bridge" \in ended /\ chunkq = <<>> /\ cutting[t] = {}
  /\ \A w \in Writer \cap ended : Fetcher \subseteq ended /\ frameq = <<>>

PipeInv ==
  /\ downloads.state # "running" => downloads.busy = {} /\ downloads.held = {}
  /\ ChunksApart /\ FramesApart
  /\ troubles = 0 => Undisturbed

\* What writers have: different frames, fragments of their frame to do, and
\* no thread that has ended has any.
WritersInv ==
  /\ \A w \in Writer :
       /\ writing[w].frame = 0 => writing[w] = Idle
       /\ w \in ended => writing[w] = Idle
       /\ writing[w].frame \notin Untaken
       /\ writing[w].todo \subseteq Pairs(writing[w].frame)
       /\ \A v \in Writer : v # w /\ writing[w].frame = writing[v].frame => writing[w].frame = 0

\* Fragment i of f is still to be read.
Unread(f, i) ==
  \/ Frags[f][i] \in Untaken
  \/ \E w \in Writer : <<f, i>> \in writing[w].todo

InBatch(f) == \E w \in Writer : f \in FilesIn(writing[w].batch)

\* Every file is in one place: pending, in the batch of one writer, or
\* written, once and rightly.
FilesApart ==
  /\ \A f \in File : tree[f].times \in {0, 1} /\ tree[f].right
  /\ \A w \in Writer :
       /\ Once(writing[w].batch)
       /\ \A f \in FilesIn(writing[w].batch) :
            /\ Sound(f) /\ tree[f].times = 0 /\ f \notin DOMAIN pieces
            /\ \A v \in Writer : f \in FilesIn(writing[v].batch) => v = w
  /\ \A f \in DOMAIN pieces :
       /\ tree[f].times = 0 /\ Len(Frags[f]) > 1
       /\ pieces[f] \subseteq DOMAIN Frags[f] /\ pieces[f] # DOMAIN Frags[f]

\* A fragment that is to be read is not in.
UnreadIsOut ==
  \A f \in File : \A i \in DOMAIN Frags[f] :
    Unread(f, i) => IF Len(Frags[f]) = 1 THEN tree[f].times = 0 /\ ~InBatch(f)
                    ELSE f \in DOMAIN pieces /\ i \notin pieces[f]

Placed(f) == tree[f].times = 1 \/ InBatch(f)

\* While no frame has failed, a fragment that was read is in, and a file with
\* all its fragments in is placed.
ReadIsIn(done) ==
  ~collected.failed =>
    \A f \in File :
      /\ Len(Frags[f]) > 1 /\ f \notin DOMAIN pieces => Placed(f)
      /\ \A i \in DOMAIN Frags[f] :
           ~Unread(f, i) /\ (Frags[f][i] \in done \/ \E w \in Writer : writing[w].frame = Frags[f][i])
           => IF Len(Frags[f]) = 1 THEN Placed(f) ELSE f \in DOMAIN pieces => i \in pieces[f]

\* done: the frames that have their result.
DoneInv(done) ==
  /\ IsFiniteSet(done) /\ Cardinality(done) = collected.results
  /\ done \cap Untaken = {}
  /\ \A w \in Writer : writing[w].frame \notin done
  /\ troubles = 0 => Frame \subseteq done \cup Untaken \cup {writing[w].frame : w \in Writer}
  /\ ReadIsIn(done)

\* got: the files of the results that came in; own[w]: the files writer w
\* has written of its frame.
CountInv(got, own) ==
  /\ Cardinality(got) = collected.files
  /\ \A w \in Writer :
       /\ Cardinality(own[w]) = writing[w].files
       /\ own[w] \cap got = {}
       /\ \A v \in Writer : v # w => own[w] \cap own[v] = {}
  /\ \A f \in File : tree[f].times = 1 <=> f \in got \/ \E w \in Writer : f \in own[w]

OverInv ==
  /\ clone = "fetching" => extractor = "none"
  /\ ~Started => \A w \in Writer : writing[w] = Idle
  /\ ExtractorOver => \A w \in Writer : writing[w] = Idle
  /\ ExtractorOver => Writer \subseteq ended \/ Untaken = {}
  /\ extractor = "ok" => collected.results = Len(ChunkOf) /\ ~collected.failed
  /\ clone = "done" => extractor = "ok"

ExtractInv ==
  /\ PipeTypes /\ WorkTypes /\ PipeInv /\ WritersInv /\ FilesApart /\ UnreadIsOut /\ OverInv
  /\ \E done \in SUBSET Frame : DoneInv(done)
  /\ troubles = 0 => \E got \in SUBSET File : \E own \in [Writer -> SUBSET File] : CountInv(got, own)
=============================================================================
