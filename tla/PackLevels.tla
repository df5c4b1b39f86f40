----------------------------- MODULE PackLevels -----------------------------
(***************************************************************************)
(* The packs of the Head and Full outputs (rust/src/server/builder.rs,      *)
(* rust/src/pack.rs).                                                       *)
(*                                                                          *)
(* A Head is base packs and levels: the Head of an ancestor and the objects *)
(* of the commit's tree it lacks.  A Full is history levels, each the       *)
(* objects of a range of commits, and may pack a new Head base for later    *)
(* Heads and the commit's own history against another commit.  Builds come  *)
(* in any order, a retried older commit after a younger one too.            *)
(*                                                                          *)
(* Abstractions.  A pack is the set of its objects and is as long as they   *)
(* are.  Whether packs built earlier can be read, and whether a history     *)
(* range can be listed, is left open.                                       *)
(***************************************************************************)
EXTENDS CommitHistory, Sequences, SequencesExt

CONSTANTS
  Pushed,        \* the commits whose Head and Full are asked for
  HeadObjects,   \* HeadObjects[c]: the objects of c's tree, and c itself (so that no
                 \* ancestor has all of them)
  ObjectSize,    \* ObjectSize[o]: the bytes of object o
  PackTarget,    \* head_target
  RebaseBytes,   \* RIPCLONE_HEAD_REBASE_BYTES
  MaxHeadLevels, \* MAX_HEAD_LEVEL_PACKS
  MaxLevels      \* lsm_max_levels

ASSUME PackAssumption ==
  /\ Pushed \subseteq Commit
  /\ ObjectSize \in Seq(Nat)
  /\ \A c \in Commit :
       /\ HeadObjects[c] \subseteq DOMAIN ObjectSize
       /\ \E o \in HeadObjects[c] : \A a \in Ancestors[c] : o \notin HeadObjects[a]
  /\ PackTarget \in Nat /\ RebaseBytes \in Nat /\ MaxHeadLevels \in Nat /\ MaxLevels \in Nat

VARIABLES
  head,  \* head[c]: the ready Head of c, or None
  full   \* full[c]: the ready Full of c, or None

packVars == <<head, full>>

Bytes(pack) == FoldSet(LAMBDA o, n : n + ObjectSize[o], 0, pack)
PackBytes(packs) == FoldLeft(LAMBDA n, p : n + Bytes(p), 0, packs)
ObjectsIn(packs) == UNION ToSet(packs)

\* The objects of c's history, and git's range of tip without exclude.
History(c) == UNION {HeadObjects[a] : a \in Ancestors[c] \cup {c}}
HistoryRange(tip, exclude) == History(tip) \ (IF exclude = None THEN {} ELSE History(exclude))

-----------------------------------------------------------------------------
(* Head packs.                                                              *)

\* build_packs_from_oids: packs of about PackTarget bytes, in object order.
Batches(oids) ==
  LET Add(packs, o) ==
        IF o \notin oids THEN packs
        ELSE IF packs = <<>> \/ Bytes(Last(packs)) + ObjectSize[o] > PackTarget
             THEN Append(packs, {o})
             ELSE [packs EXCEPT ![Len(packs)] = @ \cup {o}]
  IN FoldLeft(Add, <<>>, [o \in DOMAIN ObjectSize |-> o])

\* What a Head on b starts from: the base b's Full packed, or b's Head.
HeadBase(b) ==
  IF full[b] # None /\ full[b].headBase # None
  THEN [commit |-> b, packs |-> full[b].headBase, levels |-> <<>>]
  ELSE [commit |-> head[b].baseCommit, packs |-> head[b].base, levels |-> head[b].levels]

\* Bug: the level holds what the base packs lack, its earlier levels aside.
LevelOnBaseOnly(c, b) ==
  LET base == HeadBase(b)
  IN [baseCommit |-> base.commit, base |-> base.packs,
      levels |-> base.levels \o Batches(HeadObjects[c] \ ObjectsIn(base.packs))]

\* build_head_packs, and build_head_level on packs with the objects have.
HeadPacks(c) == Batches(HeadObjects[c])
HeadLevel(c, have) == Batches(HeadObjects[c] \ have)

ColdHead(c) == [baseCommit |-> c, base |-> HeadPacks(c), levels |-> <<>>]

LeveledHead(c, b) ==
  LET base == HeadBase(b)
      have == ObjectsIn(base.packs \o base.levels)
  IN [baseCommit |-> base.commit, base |-> base.packs,
      levels |-> base.levels \o HeadLevel(c, have)]

\* build_head and head_output.  A base whose idx files cannot be read is not
\* used.
BuildHead(c) ==
  /\ head[c] = None
  /\ \E b \in BasesOf(c, {p \in Commit : head[p] # None}) :
       \E result \in {ColdHead(c)} \cup (IF b = None THEN {} ELSE {LeveledHead(c, b)}) :
         head' = [head EXCEPT ![c] = result]
  /\ UNCHANGED full

-----------------------------------------------------------------------------
(* Full: history levels, the next Head base, the commit's own history.      *)

LevelBytes(levels, i) == Bytes(levels[i].pack)

\* Bug: the merged range starts at the tip of its own first level.
MergeFromOwnTip(levels) ==
  LET last == Len(levels)
      merged == [tip |-> levels[last].tip,
                 pack |-> HistoryRange(levels[last].tip, levels[last - 1].tip)]
  IN Append(SubSeq(levels, 1, last - 2), merged)

\* compact_levels, one merge: the first adjacent pair with the fewest bytes
\* becomes the level of both ranges.
MergeSmallest(levels) ==
  LET pairs == 1..(Len(levels) - 1)
      Pair(i) == LevelBytes(levels, i) + LevelBytes(levels, i + 1)
      best == CHOOSE i \in pairs : \A j \in pairs : Pair(i) < Pair(j) \/ (Pair(i) = Pair(j) /\ i <= j)
      start == IF best = 1 THEN None ELSE levels[best - 1].tip
      merged == [tip |-> levels[best + 1].tip, pack |-> HistoryRange(levels[best + 1].tip, start)]
  IN SubSeq(levels, 1, best - 1) \o <<merged>> \o SubSeq(levels, best + 2, Len(levels))

LevelLimit == IF MaxLevels = 0 THEN 1 ELSE MaxLevels

CompactLevels(levels) ==
  FoldLeft(LAMBDA ls, l : IF Len(ls) > LevelLimit THEN MergeSmallest(ls) ELSE ls, levels, levels)

\* seal_and_compact after build_history_tail from the last sealed tip.
SealAndCompact(c, levels) ==
  LET sealed == IF levels = <<>> THEN None ELSE Last(levels).tip
      tail == HistoryRange(c, sealed)
  IN CompactLevels(IF sealed # c /\ tail # {} THEN Append(levels, [tip |-> c, pack |-> tail])
                   ELSE levels)

\* assemble_head_packs, manifest_pack_tuples: the packs of a Head's manifest.
ManifestPacks(h) == h.base \o h.levels

\* Whether the Full packs a new Head base.
Rebases(h) ==
  LET delta == PackBytes(h.levels)
      quarter == PackBytes(h.base) \div 4
  IN /\ h.levels # <<>>
     /\ \/ delta >= (IF RebaseBytes < quarter THEN RebaseBytes ELSE quarter)
        \/ Len(h.levels) > MaxHeadLevels

\* rebase_head_packs: base packs with at most a tenth of dead bytes stay, the
\* rest of the tree is packed again.
MostlyAlive(c, p) == Bytes(p \ HeadObjects[c]) * 10 <= Bytes(p)
KeptPacks(c, base) ==
  FoldLeft(LAMBDA kept, p : IF MostlyAlive(c, p) THEN Append(kept, p) ELSE kept, <<>>, base)
Rebased(c, base) ==
  LET kept == KeptPacks(c, base)
  IN kept \o Batches(HeadObjects[c] \ ObjectsIn(kept))

\* Bug: the clone is not told to install the Head levels.
OwnHistoryAlone(c, base, levels, first) ==
  [base |-> base, heads |-> {},
   pack |-> IF IsAncestor(c, base) THEN {} ELSE HistoryRange(c, base) \ ObjectsIn(levels)]

\* build_own_history
OwnPack(c, base, have) == HistoryRange(c, base) \ have

\* own_history of c against base, given the levels of the Head packs that the
\* Full names; first is the place of the first of them.
OwnHistory(c, base, levels, first) ==
  IF IsAncestor(c, base) THEN [base |-> base, pack |-> {}, heads |-> {}]
  ELSE [base |-> base, pack |-> OwnPack(c, base, ObjectsIn(levels)),
        heads |-> {first + i : i \in DOMAIN levels}]

\* The histories a Full of c on the Full of b may have.  A tail that cannot be
\* listed from the base's last tip builds the history cold.
Histories(c, b) ==
  {SealAndCompact(c, <<>>)} \cup (IF b = None THEN {} ELSE {SealAndCompact(c, full[b].levels)})

\* The Head bases a Full of c may pack: none, or, when a rebase is due, the
\* rebased packs, packed whole when the idx files cannot be read.
HeadBases(c) ==
  IF Rebases(head[c]) THEN {Rebased(c, head[c].base), HeadPacks(c)} ELSE {None}

\* The own histories against ownBase; one that cannot be built is left out.
OwnHistories(c, ownBase, levels, first) ==
  {None} \cup (IF ownBase \in {None, c} THEN {} ELSE {OwnHistory(c, ownBase, levels, first)})

\* build_full and build_full_result.  ownBase is what own_history_base finds,
\* a refs base or the base's commit.
BuildFull(c, ownBase) ==
  /\ full[c] = None
  /\ head[c] # None
  /\ \E b \in BasesOf(c, {p \in Commit : full[p] # None}) :
     \E history \in Histories(c, b), rebased \in HeadBases(c) :
       LET levels == IF rebased = None THEN head[c].levels ELSE <<>>
           packs == IF rebased = None THEN ManifestPacks(head[c]) ELSE rebased
       IN \E own \in OwnHistories(c, ownBase, levels, Len(head[c].base)) :
            full' = [full EXCEPT ![c] =
              [levels |-> history, headPacks |-> packs, headBase |-> rebased, own |-> own]]
  /\ UNCHANGED head

PackInit == head = [c \in Commit |-> None] /\ full = [c \in Commit |-> None]

PackNext ==
  \E c \in Pushed : BuildHead(c) \/ \E ownBase \in Pushed \cup {None} : BuildFull(c, ownBase)

PackSpec == PackInit /\ [][PackNext]_packVars

-----------------------------------------------------------------------------
(* Properties.                                                              *)

\* The Head packs of every Head, of every Full and of every new base hold the
\* objects of the commit's tree, no object twice (a blob in two packs would be
\* written twice into the worktree), and nothing the commit cannot reach.
HeadPacksExact ==
  LET Exact(c, packs) ==
        /\ HeadObjects[c] \subseteq ObjectsIn(packs)
        /\ ObjectsIn(packs) \subseteq History(c)
        /\ \A i, j \in DOMAIN packs : i # j => packs[i] \cap packs[j] = {}
  IN \A c \in Commit :
       /\ head[c] # None => Exact(c, ManifestPacks(head[c]))
       /\ full[c] # None => Exact(c, full[c].headPacks)

\* The history levels of every Full hold exactly the commit's history in a
\* bounded number of levels, in whatever order the Fulls of its ancestors
\* were built, merged, or lost.
LevelsHoldHistory ==
  \A c \in Commit : full[c] # None =>
    LET levels == full[c].levels
    IN /\ UNION {levels[i].pack : i \in DOMAIN levels} = History(c)
       /\ Len(levels) <= LevelLimit
       /\ Last(levels).tip = c

\* A clone of c that installs the history of any commit that holds the base of
\* c's own history, the own history's pack and the Head packs it names has the
\* whole history of c.
OwnHistoryCompletes ==
  \A c \in Commit : full[c] # None /\ full[c].own # None =>
    LET own == full[c].own
    IN \A b \in Commit : IsAncestor(own.base, b) =>
         History(c) \subseteq
           History(b) \cup own.pack \cup UNION {full[c].headPacks[i] : i \in own.heads}
-----------------------------------------------------------------------------
(* The inductive invariant that the proofs rest on.                         *)

\* Packs that hold the objects, none of them twice.
Apart(packs) == \A i, j \in DOMAIN packs : i # j => packs[i] \cap packs[j] = {}
Packed(packs, objects) ==
  packs \in Seq(SUBSET DOMAIN ObjectSize) /\ ObjectsIn(packs) = objects /\ Apart(packs)

\* The objects of packs from which c's tree can be written.
Holds(c, objects) == HeadObjects[c] \subseteq objects /\ objects \subseteq History(c)

HeadInv ==
  \A c \in Commit : head[c] # None =>
    \E base, levels : /\ Packed(head[c].base, base) /\ Packed(head[c].levels, levels)
                      /\ base \cap levels = {} /\ Holds(c, base \cup levels)

\* Every level holds the objects from the tip of the one before it, and the
\* last one ends at c.
Chained(c, levels) ==
  /\ levels \in Seq([tip : Commit, pack : SUBSET DOMAIN ObjectSize]) /\ levels # <<>>
  /\ levels[Len(levels)].tip = c
  /\ \A i \in DOMAIN levels :
       /\ IsAncestor(levels[i].tip, c)
       /\ levels[i].pack = HistoryRange(levels[i].tip, IF i = 1 THEN None ELSE levels[i - 1].tip)

OwnCompletes(c, own, packs) ==
  \A b \in Commit : IsAncestor(own.base, b) =>
    History(c) \subseteq History(b) \cup own.pack \cup UNION {packs[i] : i \in own.heads}

FullInv ==
  \A c \in Commit : full[c] # None =>
    /\ \E objects : Packed(full[c].headPacks, objects) /\ Holds(c, objects)
    /\ full[c].headBase # None => \E objects : Packed(full[c].headBase, objects) /\ Holds(c, objects)
    /\ Chained(c, full[c].levels) /\ Len(full[c].levels) <= LevelLimit
    /\ full[c].own # None => OwnCompletes(c, full[c].own, full[c].headPacks)

PackInv ==
  /\ head = [c \in Commit |-> head[c]] /\ full = [c \in Commit |-> full[c]]
  /\ HeadInv /\ FullInv
=============================================================================
