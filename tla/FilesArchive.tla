---------------------------- MODULE FilesArchive ----------------------------
(***************************************************************************)
(* The Files output: the archive of a commit's working tree, as             *)
(* build_files_result builds it on the Files of an ancestor                 *)
(* (rust/src/server/builder.rs, archive.rs, manifest.rs).                   *)
(*                                                                          *)
(* The tree's blobs, in tree order, are one stream of bytes, cut by content *)
(* into frames; frames are grouped by content into bundles.  A build is a   *)
(* tail on its base (the blobs the base lacks in bundles after the base's), *)
(* or compact: the frames of the base's compact archive that lie in runs of *)
(* unchanged files, and new ones between them.  Its files table, which says *)
(* where the bytes of each file are, is stored whole or as a delta on an    *)
(* earlier table.                                                           *)
(*                                                                          *)
(* Abstractions.  A byte is a number; compression changes no length, so a   *)
(* bundle is the bytes of its frames, and since bundles are named by their  *)
(* hash, a reused bundle is the bundle with the same bytes.  A file's mode  *)
(* is part of its blob, and gitlinks, which hold no bytes, are left out.    *)
(* Whether a delta is small enough to store is left open, as is whether the *)
(* base's table can be read.                                                *)
(***************************************************************************)
EXTENDS CommitHistory, Sequences, SequencesExt

CONSTANTS
  Tree,        \* Tree[c]: the files of c in tree order, as <<path, blob>>
  Content,     \* Content[b]: the bytes of blob b
  MinFrame,    \* CDC.min
  MaxFrame,    \* CDC.max
  BundleSize,  \* DEFAULT_ARCHIVE_CHUNK_SIZE
  TailPercent, \* FILES_TAIL_PERCENT
  MaxTails     \* MAX_FILES_TAILS

\* Whether content-defined chunking ends a frame after this byte, and whether
\* cuts_after ends a bundle after a frame: both depend on the bytes alone.
CutByte(u) == u % 3 = 0

ASSUME ArchiveAssumption ==
  /\ MinFrame \in Nat \ {0} /\ MaxFrame \in Nat /\ MinFrame <= MaxFrame
  /\ BundleSize \in Nat \ {0} /\ TailPercent \in Nat /\ MaxTails \in Nat
  /\ \A c \in Commit :
       /\ Tree[c] \in Seq(ToSet(Tree[c])) /\ \A e \in ToSet(Tree[c]) : e = <<e[1], e[2]>>
       /\ \A i, j \in DOMAIN Tree[c] : i # j => Tree[c][i][1] # Tree[c][j][1]

VARIABLES
  files   \* files[c]: the ready Files result of c, or None

Sum(s) == FoldLeft(LAMBDA a, n : a + n, 0, s)
Lens(s) == [i \in DOMAIN s |-> Len(s[i])]
\* Where each element of s starts when they are laid end to end.
Starts(s) == [i \in DOMAIN s |-> Sum(SubSeq(Lens(s), 1, i - 1))]
Slice(s, from, len) == SubSeq(s, from + 1, from + len)
\* The elements of s that are in S, in order.
Within(s, S) == FoldLeft(LAMBDA kept, x : IF x \in S THEN Append(kept, x) ELSE kept, <<>>, s)
\* The numbers up to n that are in S, in order.
Ascending(S, n) == SelectSeq([i \in 1..(n + 1) |-> i - 1], LAMBDA i : i \in S)

-----------------------------------------------------------------------------
(* Frames and bundles.                                                      *)

\* Appends u to the last group of gs, or to a new one when that is closed.
Grouped(gs, u, closed) ==
  IF closed THEN Append(gs, <<u>>)
  ELSE [gs EXCEPT ![Len(gs)] = Append(@, u)]

\* StreamCDC and FastCDC: the frames of a stream.
CutFrames(s) ==
  LET Closed(f) == Len(f) >= MaxFrame \/ (Len(f) >= MinFrame /\ CutByte(Last(f)))
  IN FoldLeft(LAMBDA gs, u : Grouped(gs, u, gs = <<>> \/ Closed(Last(gs))), <<>>, s)

CutsAfter(frame) == frame # <<>> /\ CutByte(Last(frame))

\* Bundler: frames into groups of half the bundle size to twice it.
CutBundles(frames) ==
  LET GroupSize(g) == Sum(Lens(g))
      Add(gs, f) ==
        LET Closed(g) == \/ GroupSize(g) + Len(f) > 2 * BundleSize
                         \/ GroupSize(g) >= 2 * BundleSize
                         \/ (2 * GroupSize(g) >= BundleSize /\ CutsAfter(Last(g)))
        IN Grouped(gs, f, gs = <<>> \/ Closed(Last(gs)))
  IN FoldLeft(Add, <<>>, frames)

\* The bundles of groups of frames, and where each frame is in them: the
\* frame's bundle, its offset in it and its length.
BundlesOf(groups) == [i \in DOMAIN groups |-> FlattenSeq(groups[i])]
InfosOf(groups) ==
  FlattenSeq([i \in DOMAIN groups |->
    [j \in DOMAIN groups[i] |->
      [bundle |-> i, at |-> Starts(groups[i])[j], len |-> Len(groups[i][j])]]])

Contents(tree) == [i \in DOMAIN tree |-> Content[tree[i][2]]]

\* fragments_for: the range of the stream that a file takes, over the frames.
\* An empty file points at the frame that holds its place, or at the last.
FragmentsOf(frames, start, len) ==
  LET at == Starts(frames)
      end(k) == at[k] + Len(frames[k])
      over == {k \in DOMAIN frames : at[k] < start + len /\ end(k) > start}
      home == {k \in DOMAIN frames : end(k) > start} \cup {Len(frames)}
      From(k) == IF at[k] > start THEN at[k] ELSE start
      To(k) == IF end(k) < start + len THEN end(k) ELSE start + len
      first == CHOOSE k \in home : \A j \in home : k <= j
  IN IF len = 0
     THEN <<[frame |-> first, off |-> start - at[first], len |-> 0]>>
     ELSE LET ks == Ascending(over, Len(frames))
          IN [i \in DOMAIN ks |->
               [frame |-> ks[i], off |-> From(ks[i]) - at[ks[i]],
                len |-> To(ks[i]) - From(ks[i])]]

\* An entry for every file of tree.
EntriesOf(tree, frags) ==
  [i \in DOMAIN tree |-> [path |-> tree[i][1], blob |-> tree[i][2], frags |-> frags[i]]]

\* Layout.files_table
TableOf(tree, frames) ==
  EntriesOf(tree, [i \in DOMAIN tree |->
    FragmentsOf(frames, Starts(Contents(tree))[i], Len(Content[tree[i][2]]))])

\* An archive of tree made of these frames.
ArchiveOf(tree, frames, tail) ==
  LET groups == CutBundles(frames)
  IN [bundles |-> BundlesOf(groups), frames |-> frames, tail |-> tail,
      table |-> [frames |-> InfosOf(groups), files |-> TableOf(tree, frames)]]

\* stream_frames: the frames of the whole working tree.  One of empty files
\* only gets one empty frame.
StreamFrames(tree) ==
  LET cut == CutFrames(FlattenSeq(Contents(tree)))
  IN IF cut = <<>> /\ tree # <<>> THEN <<<<>>>> ELSE cut

-----------------------------------------------------------------------------
(* Compact archives.                                                        *)

\* BaseIndex.files: where the base's table says each path lies in its stream.
\* The files of the table are taken to be in stream order.
BaseFiles(table) ==
  LET FileLen(f) == Sum([j \in DOMAIN f.frags |-> f.frags[j].len])
      lens == [i \in DOMAIN table.files |-> FileLen(table.files[i])]
  IN {[path |-> table.files[i].path, blob |-> table.files[i].blob,
       start |-> Sum(SubSeq(lens, 1, i - 1)), len |-> lens[i]] : i \in DOMAIN table.files}

\* The runs of unchanged files that are adjacent in the base's stream too.
SegmentsOf(tree, base) ==
  LET news == Starts(Contents(tree))
      Add(segs, i) ==
        LET olds == {f \in base : f.path = tree[i][1] /\ f.blob = tree[i][2]}
            old == CHOOSE f \in olds : TRUE
            extends == /\ segs # <<>>
                       /\ Last(segs).old + Last(segs).len = old.start
                       /\ Last(segs).new + Last(segs).len = news[i]
        IN IF olds = {} THEN segs
           ELSE IF extends
                THEN [segs EXCEPT ![Len(segs)].len = @ + old.len]
                ELSE Append(segs, [old |-> old.start, new |-> news[i], len |-> old.len])
  IN FoldLeft(Add, <<>>, [i \in DOMAIN tree |-> i])

\* The base's frames inside one such run, at their new places, in order;
\* those that would leave a gap shorter than a frame are dropped.
KeptFrames(segs, frames, total) ==
  LET at == Starts(frames)
      Inside(j, k) == /\ frames[k] # <<>>
                      /\ segs[j].old <= at[k]
                      /\ at[k] + Len(frames[k]) <= segs[j].old + segs[j].len
      Place(j, k) == LET from == segs[j].new + (at[k] - segs[j].old)
                     IN [from |-> from, to |-> from + Len(frames[k]), frame |-> k]
      inside == {Place(p[1], p[2]) : p \in {q \in (DOMAIN segs) \X (DOMAIN frames) : Inside(q[1], q[2])}}
      places == Ascending({f.from : f \in inside}, total)
      reused == [n \in DOMAIN places |-> CHOOSE f \in inside : f.from = places[n]]
      End(kept) == IF kept = <<>> THEN 0 ELSE Last(kept).to
      KeepFrame(kept, f) ==
        IF f.from - End(kept) \in 1..(MinFrame - 1) THEN kept ELSE Append(kept, f)
      kept == FoldLeft(KeepFrame, <<>>, reused)
      \* Frames at the end that leave less than a frame after them go too.
      fits == {n \in 1..Len(kept) : total - kept[n].to \notin 1..(MinFrame - 1)}
  IN SubSeq(kept, 1, IF fits = {} THEN 0 ELSE CHOOSE n \in fits : \A m \in fits : m <= n)

\* The byte ranges between the kept frames.
GapsOf(kept, total) ==
  LET from(n) == IF n = 1 THEN 0 ELSE kept[n - 1].to
      to(n) == IF n > Len(kept) THEN total ELSE kept[n].from
  IN SelectSeq([n \in 1..(Len(kept) + 1) |-> <<from(n), to(n)>>], LAMBDA g : g[1] < g[2])

\* The kept frames and those cut from the gaps, in stream order.
Incremental(bytes, kept, gaps, frames) ==
  LET cut(g) == LET new == CutFrames(Slice(bytes, g[1], g[2] - g[1]))
                IN {<<g[1] + Starts(new)[i], new[i]>> : i \in DOMAIN new}
      placed == {<<kept[n].from, frames[kept[n].frame]>> : n \in DOMAIN kept}
                  \cup UNION {cut(gaps[n]) : n \in DOMAIN gaps}
      order == Ascending({p[1] : p \in placed}, Len(bytes))
  IN [i \in DOMAIN order |-> (CHOOSE p \in placed : p[1] = order[i])[2]]

\* build_into_cas with a base: plan_incremental and build_gaps.  More than
\* half of the bytes in gaps, or nothing kept, streams the whole tree.
Compacted(tree, base, frames) ==
  LET bytes == FlattenSeq(Contents(tree))
      Frames(kept, gaps) ==
        IF \/ kept = <<>>
           \/ 2 * Sum([n \in DOMAIN gaps |-> gaps[n][2] - gaps[n][1]]) > Len(bytes)
        THEN StreamFrames(tree) ELSE Incremental(bytes, kept, gaps, frames)
      From(kept) == ArchiveOf(tree, Frames(kept, GapsOf(kept, Len(bytes))), FALSE)
  IN From(KeptFrames(SegmentsOf(tree, BaseFiles(base)), frames, Len(bytes)))

-----------------------------------------------------------------------------
(* Tails.                                                                   *)

\* build_tail_into_cas: files whose blob the base holds keep the base's
\* fragments; base bundles with no used frame are dropped and the frames of
\* the others numbered again; the other blobs are streamed, each once, into
\* bundles of their own after them.  An empty blob takes no bytes: it points
\* at the first frame, unless there would be none.
Tailed(tree, base, bundles, frames) ==
  LET held(b) == {n \in DOMAIN base.files : base.files[n].blob = b /\ base.files[n].frags # <<>>}
      Keeps(i) == held(tree[i][2]) # {}
      Kept(i) == base.files[CHOOSE n \in held(tree[i][2]) : \A m \in held(tree[i][2]) : m <= n].frags
      used == UNION {{x.frame : x \in ToSet(Kept(i))} : i \in {j \in DOMAIN tree : Keeps(j)}}
      live == {base.frames[k].bundle : k \in used}
      liveBundles == Ascending(live, Len(bundles))
      liveFrames == Ascending({k \in DOMAIN base.frames : base.frames[k].bundle \in live}, Len(frames))
      Renumber(seq, x) == CHOOSE n \in DOMAIN seq : seq[n] = x
      firsts == {i \in DOMAIN tree : ~Keeps(i) /\ \A j \in 1..(i - 1) : tree[j][2] # tree[i][2]}
      anyBytes == liveFrames # <<>> \/ \E i \in firsts : Content[tree[i][2]] # <<>>
      streamed == {i \in firsts : ~anyBytes \/ Content[tree[i][2]] # <<>>}
      order == Ascending(streamed, Len(tree))
      tailTree == [n \in DOMAIN order |-> tree[order[n]]]
      new == ArchiveOf(tailTree, StreamFrames(tailTree), TRUE)
      Shift(x) == [x EXCEPT !.frame = @ + Len(liveFrames)]
      InTail(b) == \E n \in DOMAIN tailTree : tailTree[n][2] = b
      TailFrags(b) ==
        LET f == new.table.files[CHOOSE n \in DOMAIN tailTree : tailTree[n][2] = b].frags
        IN IF InTail(b) THEN [j \in DOMAIN f |-> Shift(f[j])]
           ELSE <<[frame |-> 1, off |-> 0, len |-> 0]>>
      FragsAt(i) ==
        IF Keeps(i)
        THEN [j \in DOMAIN Kept(i) |->
               [Kept(i)[j] EXCEPT !.frame = Renumber(liveFrames, @)]]
        ELSE TailFrags(tree[i][2])
  IN [bundles |-> [n \in DOMAIN liveBundles |-> bundles[liveBundles[n]]] \o new.bundles,
      frames |-> [n \in DOMAIN liveFrames |-> frames[liveFrames[n]]] \o new.frames,
      tail |-> TRUE,
      table |->
        [frames |->
           [n \in DOMAIN liveFrames |->
             [base.frames[liveFrames[n]] EXCEPT !.bundle = Renumber(liveBundles, @)]]
           \o [n \in DOMAIN new.table.frames |->
                [new.table.frames[n] EXCEPT !.bundle = @ + Len(liveBundles)]],
         files |-> EntriesOf(tree, [i \in DOMAIN tree |-> FragsAt(i)])]]

-----------------------------------------------------------------------------
(* Files tables.                                                            *)

\* frame_map: for each frame of from, the frame of to at the same place of
\* the same bundle, or 0.
FrameMap(from, fromBundles, to, toBundles) ==
  LET same(i) == {j \in DOMAIN to : /\ toBundles[to[j].bundle] = fromBundles[from[i].bundle]
                                    /\ to[j].at = from[i].at}
  IN [i \in DOMAIN from |->
       IF same(i) = {} THEN 0 ELSE CHOOSE j \in same(i) : \A k \in same(i) : k <= j]

\* compose_frame_maps
ComposeMaps(first, second) ==
  [i \in DOMAIN first |-> IF first[i] = 0 THEN 0 ELSE second[first[i]]]

MapFrags(frags, map) == [j \in DOMAIN frags |-> [frags[j] EXCEPT !.frame = map[@]]]

\* Bug: a file with the same path and blob is kept wherever its frames are.
BetweenByBlob(base, map, table) ==
  LET Kept(f) == \E o \in ToSet(base.files) : o.path = f.path /\ o.blob = f.blob
  IN [frames |-> table.frames, map |-> map,
      files |-> Within(table.files, {f \in ToSet(table.files) : ~Kept(f)}),
      removed |-> {f.path : f \in ToSet(base.files)} \ {f.path : f \in ToSet(table.files)}]

\* MetadataDelta::between
Between(base, map, table) ==
  LET Kept(f) == \E o \in ToSet(base.files) :
                   /\ o.path = f.path /\ o.blob = f.blob
                   /\ MapFrags(o.frags, map) = f.frags
  IN [frames |-> table.frames, map |-> map,
      files |-> Within(table.files, {f \in ToSet(table.files) : ~Kept(f)}),
      removed |-> {f.path : f \in ToSet(base.files)} \ {f.path : f \in ToSet(table.files)}]

\* MetadataChunk::validate_geometry: paths are listed once, fragments lie in
\* frames that exist, and the frames fill their bundles in order.
ValidGeometry(table) ==
  /\ \A i, j \in DOMAIN table.files : i # j => table.files[i].path # table.files[j].path
  /\ \A f \in ToSet(table.files) : \A x \in ToSet(f.frags) :
       /\ x.frame \in DOMAIN table.frames
       /\ x.off + x.len <= table.frames[x.frame].len
  /\ \A k \in DOMAIN table.frames :
       LET x == table.frames[k]
           prev == table.frames[k - 1]
       IN IF k = 1 THEN x.bundle = 1 /\ x.at = 0
          ELSE \/ x.bundle = prev.bundle /\ x.at = prev.at + prev.len
               \/ x.bundle = prev.bundle + 1 /\ x.at = 0

\* MetadataDelta::apply: the base's files at their places in the base's table,
\* changed or not, and the files the base lacks after them; None when the
\* table does not check.
Apply(delta, base) ==
  LET news == ToSet(delta.files)
      Changed(f) == {n \in news : n.path = f.path}
      Entry(f) == IF Changed(f) # {} THEN CHOOSE n \in Changed(f) : TRUE
                  ELSE [f EXCEPT !.frags = MapFrags(@, delta.map)]
      stay == Within(base.files, {f \in ToSet(base.files) : f.path \notin delta.removed})
      paths == {f.path : f \in ToSet(stay)}
      fresh == Within(delta.files, {f \in news : f.path \notin paths})
      table == [frames |-> delta.frames,
                files |-> [n \in DOMAIN stay |-> Entry(stay[n])] \o fresh]
  IN IF ValidGeometry(table) THEN table ELSE None

\* load_metadata
Loaded(result) == IF result.delta = None THEN result.chunk ELSE Apply(result.delta, result.chunk)

\* store_table: the whole table, or a delta on the table that the previous
\* result's is a delta on.
StoredTables(table, bundles, previous) ==
  LET base == previous.chunk
      toPrevious == IF previous.delta = None THEN [i \in DOMAIN base.frames |-> i]
                    ELSE previous.delta.map
      frames == IF previous.delta = None THEN base.frames ELSE previous.delta.frames
      toTable == FrameMap(frames, previous.bundles, table.frames, bundles)
  IN {[chunk |-> table, delta |-> None]}
       \cup (IF previous = None THEN {}
             ELSE {[chunk |-> base,
                    delta |-> Between(base, ComposeMaps(toPrevious, toTable), table)]})

-----------------------------------------------------------------------------
(* The build.                                                               *)

\* files_tail_fits
TailFits(parent, compact) ==
  LET Bytes(r) == Sum(Lens(r.frames))
  IN /\ Bytes(parent) * 100 < Bytes(compact) * (100 + TailPercent)
     /\ Len(SelectSeq(parent.bundles, LAMBDA b : b \notin ToSet(compact.bundles))) < MaxTails

\* ArchiveBuilder::build_into_cas without a base.
Cold(tree) == ArchiveOf(tree, StreamFrames(tree), FALSE)

\* The compact archive under a result.
CompactOf(previous) == IF previous.compact = None THEN previous ELSE previous.compact

\* The archive of c on the result previous.  A base whose table cannot be read
\* is not used, and a tail that fails streams the whole tree.
Archives(c, previous) ==
  LET compact == CompactOf(previous)
      tail == TailFits(previous, compact)
      base == IF tail THEN previous ELSE compact
      table == Loaded(base)
  IN {Cold(Tree[c])}
       \cup (IF previous = None \/ table = None THEN {}
             ELSE {IF tail THEN Tailed(Tree[c], table, base.bundles, base.frames)
                   ELSE Compacted(Tree[c], table, base.frames)})

\* build_files_result on the Files of a newest ancestor, or on none.
BuildFiles(c) ==
  /\ files[c] = None
  /\ \E b \in BasesOf(c, {p \in Commit : files[p] # None}) :
       LET previous == IF b = None THEN None ELSE files[b]
       IN \E a \in Archives(c, previous) :
            \E t \in StoredTables(a.table, a.bundles, previous) :
              files' = [files EXCEPT ![c] =
                [bundles |-> a.bundles, frames |-> a.frames, chunk |-> t.chunk, delta |-> t.delta,
                 compact |-> IF a.tail THEN CompactOf(previous) ELSE None]]

FilesInit == files = [c \in Commit |-> None]

FilesNext == \E c \in Commit : BuildFiles(c)

FilesSpec == FilesInit /\ [][FilesNext]_files

-----------------------------------------------------------------------------
(* Properties.                                                              *)

\* What the client reads for a file: its fragments, each out of the bundle its
\* frame is in.
ReadFile(result, table, f) ==
  FlattenSeq([j \in DOMAIN f.frags |->
    LET x == table.frames[f.frags[j].frame]
    IN Slice(result.bundles[x.bundle], x.at + f.frags[j].off, f.frags[j].len)])

\* The Files of a commit, if its table loads, lists exactly the files of its
\* tree, each once, whatever bases, tails, compactions and deltas it was built
\* on (build_files_result, MetadataDelta::apply).
FilesListTree ==
  \A c \in Commit : files[c] # None /\ Loaded(files[c]) # None =>
    LET listed == Loaded(files[c]).files
    IN {<<f.path, f.blob>> : f \in ToSet(listed)} = ToSet(Tree[c]) /\ Len(listed) = Len(Tree[c])

\* The Files of every commit loads, lists exactly its tree, and reads each file
\* as its blob.
FilesReadBlobs ==
  /\ FilesListTree
  /\ \A c \in Commit : files[c] # None =>
       LET table == Loaded(files[c])
       IN table # None /\ \A f \in ToSet(table.files) : ReadFile(files[c], table, f) = Content[f.blob]
=============================================================================
