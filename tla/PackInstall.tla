---------------------------- MODULE PackInstall ----------------------------
(***************************************************************************)
(* Clones of one process install their packs and write their working trees  *)
(* from them (install_editable_packs in rust/src/client/install.rs,         *)
(* rust/src/client/tuning.rs, extract_blobs_from_pack_bytes).               *)
(*                                                                          *)
(* Downloads and parses are two stages with a width each.  A pack that is   *)
(* read for the working tree is buffered, under permits of one memory       *)
(* budget that all clones share, from before its download until its parse   *)
(* ends; a history pack streams to a file.                                  *)
(*                                                                          *)
(* The multi-pack-index only makes lookups fast, and is left out.           *)
(***************************************************************************)
EXTENDS Integers, FiniteSets, Sequences, FiniteSetsExt

CONSTANTS
  Install,       \* the installs that run in the process
  Lists,         \* Lists[c]: the packs of its manifest, in order
  PackLen,       \* PackLen[p]: the bytes of pack p
  HistoryOnly,   \* packs that hold no blob of the working tree
  Bundled,       \* packs whose idx is in the idx bundle
  Blobs,         \* Blobs[p]: the blobs of pack p
  Paths,         \* Paths[c]: the blob of each path of its files table
  Keep,          \* Keep[c]: the HEAD packs that a Full keeps beside its base's history
  MemoryPermits, \* EDITABLE_PACK_MEMORY_PERMITS
  UnitBytes,     \* EDITABLE_PACK_MEMORY_UNIT_BYTES
  DownloadConc,  \* editable_download_concurrency
  ParseConc,     \* pack_parse_threads
  MaxMishaps     \* bound: failures and cancellations

Listed(c) == {Lists[c][i] : i \in DOMAIN Lists[c]}
PackId == UNION {Listed(c) : c \in Install}

\* The packs of a manifest have no blob in common (HeadPacksExact of
\* PackLevels, for those the server builds), and a Full has no idx bundle.
ASSUME InstallAssumption ==
  /\ IsFiniteSet(Install)
  /\ \A c \in Install : \A p, q \in Listed(c) \ HistoryOnly : p # q => Blobs[p] \cap Blobs[q] = {}
  /\ \A c \in Install : \A f \in DOMAIN Paths[c] : \E p \in Listed(c) \ HistoryOnly : Paths[c][f] \in Blobs[p]
  /\ \A c \in Install : Listed(c) \cap HistoryOnly # {} => Listed(c) \cap Bundled = {}
  /\ MemoryPermits \in Nat \ {0} /\ UnitBytes \in Nat \ {0}
  /\ DownloadConc \in Nat \ {0} /\ ParseConc \in Nat \ {0} /\ MaxMishaps \in Nat

VARIABLES
  mode,      \* mode[c]: what the clone makes of the packs
  installs,  \* installs[c]: where install c is
  stage,     \* stage[c][p]: where pack p of it is
  line,      \* line[w]: who waits for permits and asked before w
  free,      \* the permits nobody holds
  onDisk,    \* onDisk[c]: the packs and idx files in its pack directory
  filesOut,  \* filesOut[c]: the files the finished parses counted
  worktree,  \* worktree[c][f]: how often path f was written
  mishaps    \* how many failures and cancellations happened

installVars == <<installs, stage, line, free, onDisk, filesOut, worktree, mishaps>>

Mishap == mishaps < MaxMishaps /\ mishaps' = mishaps + 1

IsFull(c) == Listed(c) \cap HistoryOnly # {}

\* materialize_tree writes a tree only; materialize_git a .git too, without
\* the history packs ("base") when the history comes with the base's Full.
Modes(c) == IF IsFull(c) THEN {"git", "base"} ELSE {"git", "tree"}
HasPackDir(c) == mode[c] # "tree"
WantsHistory(c) == mode[c] = "git"

\* What install c downloads, keeps and indexes.
Wanted(c) == {p \in Listed(c) : p \notin HistoryOnly \/ WantsHistory(c)}
Kept(c, p) == HasPackDir(c) /\ (~IsFull(c) \/ (mode[c] = "base" /\ p \in Keep[c]))

\* Bug: only a history pack brings its idx.
HistoryOwnIdx(c, p) == p \in HistoryOnly

OwnIdx(c, p) == p \in HistoryOnly \/ (Kept(c, p) /\ p \notin Bundled)

HasBundle(c) == HasPackDir(c) /\ ~IsFull(c) /\ Listed(c) \cap Bundled # {}
HasIdx(c, p) == OwnIdx(c, p) \/ HasBundle(c)

\* Bug: a pack larger than the budget asks for more than there is.
PermitsUncapped(len) == Max({(len + UnitBytes - 1) \div UnitBytes, 1})

\* permits_for_len
PermitsFor(len) == Max({Min({(len + UnitBytes - 1) \div UnitBytes, MemoryPermits}), 1})

Weight(p) == IF p \in HistoryOnly THEN 0 ELSE PermitsFor(PackLen[p])

In(c, labels) == {p \in Wanted(c) : stage[c][p] \in labels}

\* The line for permits, and who leaves it.
Waiter == Install \X PackId
Waiting == {w \in Waiter : stage[w[1]][w[2]] = "asking"}
Leave(ws) == line' = [w \in Waiter |-> IF w \in ws THEN {} ELSE line[w] \ ws]

MoveTo(c, p, label) == stage' = [stage EXCEPT ![c][p] = label]

InstallInit ==
  /\ mode \in {f \in [Install -> {"git", "base", "tree"}] : \A c \in Install : f[c] \in Modes(c)}
  /\ installs = [c \in Install |-> "index"]
  /\ stage = [c \in Install |-> [p \in PackId |-> "todo"]]
  /\ line = [w \in Waiter |-> {}] /\ free = MemoryPermits
  /\ onDisk = [c \in Install |-> [packs |-> {}, idxs |-> {}]]
  /\ filesOut = [c \in Install |-> 0]
  /\ worktree = [c \in Install |-> [f \in DOMAIN Paths[c] |-> 0]]
  /\ mishaps = 0

\* An install that fails, or is cancelled: its downloads are aborted and drop
\* their permits, its running parses go on and keep theirs.
DropInstall(c, through) ==
  /\ installs' = [installs EXCEPT ![c] = "failed"]
  /\ stage' = [stage EXCEPT ![c] = [p \in PackId |-> IF p \in through THEN "parsing" ELSE "todo"]]
  /\ Leave({c} \X PackId)

\* The permits that go back with them.
FreedBy(c) == free + MapThenSumSet(Weight, In(c, {"loading", "landed"}))

FailInstall(c) ==
  /\ installs[c] \in {"index", "running"} /\ Mishap
  /\ DropInstall(c, In(c, {"parsing"}))
  /\ free' = FreedBy(c)
  /\ UNCHANGED <<onDisk, filesOut, worktree>>

\* The idx bundle is in and the directories are made.
BeginPacks(c) ==
  /\ installs[c] = "index"
  /\ installs' = [installs EXCEPT ![c] = "running"]
  /\ UNCHANGED <<stage, line, free, onDisk, filesOut, worktree, mishaps>>

\* A download starts, in the manifest's order, while both stages have room.
StartDownload(c, p) ==
  /\ installs[c] = "running" /\ p \in In(c, {"todo"})
  /\ \A i, j \in DOMAIN Lists[c] :
       Lists[c][j] = p /\ i < j => Lists[c][i] \notin In(c, {"todo"})
  /\ Cardinality(In(c, {"asking", "loading", "landed"})) < DownloadConc
  /\ Cardinality(In(c, {"parsing"})) < ParseConc
  /\ IF p \in HistoryOnly THEN MoveTo(c, p, "loading") /\ UNCHANGED line
     ELSE MoveTo(c, p, "asking") /\ line' = [line EXCEPT ![<<c, p>>] = Waiting]
  /\ UNCHANGED <<installs, free, onDisk, filesOut, worktree, mishaps>>

\* acquire_editable_pack_memory: first come, first served.
GetMemory ==
  /\ \E w \in Waiting :
       /\ line[w] = {} /\ Weight(w[2]) <= free
       /\ free' = free - Weight(w[2])
       /\ MoveTo(w[1], w[2], "loading")
       /\ Leave({w})
  /\ UNCHANGED <<installs, onDisk, filesOut, worktree, mishaps>>

Land(c, p) ==
  /\ stage[c][p] = "loading" /\ MoveTo(c, p, "landed")
  /\ UNCHANGED <<installs, line, free, onDisk, filesOut, worktree, mishaps>>

StartParse(c, p) ==
  /\ stage[c][p] = "landed" /\ Cardinality(In(c, {"parsing"})) < ParseConc
  /\ MoveTo(c, p, "parsing")
  /\ UNCHANGED <<installs, line, free, onDisk, filesOut, worktree, mishaps>>

\* build_blob_path_map: every path of a blob.
PathsOf(c, blob) == {f \in DOMAIN Paths[c] : Paths[c][f] = blob}

\* extract_blobs_from_pack_bytes: the paths of the blobs in the pack.
PathsIn(c, p) == IF p \in HistoryOnly THEN {} ELSE UNION {PathsOf(c, blob) : blob \in Blobs[p]}

Laid(c, p) ==
  [onDisk EXCEPT ![c] =
    [packs |-> @.packs \cup (IF Kept(c, p) \/ p \in HistoryOnly THEN {p} ELSE {}),
     idxs |-> @.idxs \cup (IF HasPackDir(c) /\ HasIdx(c, p) THEN {p} ELSE {})]]

\* A parse ends: the pack and its idx are written, then its files.
EndParse(c, p) ==
  /\ stage[c][p] = "parsing"
  /\ free' = free + Weight(p)
  /\ onDisk' = Laid(c, p)
  /\ worktree' = [worktree EXCEPT ![c] = [f \in DOMAIN @ |-> IF f \in PathsIn(c, p) THEN @[f] + 1 ELSE @[f]]]
  /\ MoveTo(c, p, IF installs[c] = "running" THEN "in" ELSE "todo")
  /\ filesOut' = IF installs[c] = "running" THEN [filesOut EXCEPT ![c] = @ + Cardinality(PathsIn(c, p))]
                 ELSE filesOut
  /\ UNCHANGED <<installs, line, mishaps>>

\* A parse fails, with some of its files written.
ParseFails(c, p) ==
  /\ stage[c][p] = "parsing" /\ installs[c] = "running" /\ Mishap
  /\ DropInstall(c, In(c, {"parsing"}) \ {p})
  /\ free' = FreedBy(c) + Weight(p)
  /\ \E fs \in SUBSET PathsIn(c, p) :
       worktree' = [worktree EXCEPT ![c] = [f \in DOMAIN @ |-> IF f \in fs THEN @[f] + 1 ELSE @[f]]]
  /\ UNCHANGED <<onDisk, filesOut>>

\* Every pack is in, and the files written are as many as the table lists.
AllIn(c) == In(c, {"in"}) = Wanted(c)

EndInstall(c) ==
  /\ installs[c] = "running" /\ AllIn(c)
  /\ installs' = [installs EXCEPT ![c] =
                   IF filesOut[c] = Cardinality(DOMAIN Paths[c]) THEN "done" ELSE "failed"]
  /\ UNCHANGED <<stage, line, free, onDisk, filesOut, worktree, mishaps>>

InstallStep(c, p) == Land(c, p) \/ StartParse(c, p) \/ EndParse(c, p)

InstallNext ==
  /\ UNCHANGED mode
  /\ \/ GetMemory
     \/ \E c \in Install :
          \/ BeginPacks(c) \/ EndInstall(c) \/ FailInstall(c)
          \/ \E p \in Listed(c) : StartDownload(c, p) \/ InstallStep(c, p) \/ ParseFails(c, p)

\* Tasks and threads run, and downloads end (EveryDownloadEnds of Download).
InstallFairness ==
  /\ WF_installVars(GetMemory)
  /\ \A c \in Install :
       /\ WF_installVars(BeginPacks(c)) /\ WF_installVars(EndInstall(c))
       /\ \A p \in PackId : WF_installVars(StartDownload(c, p)) /\ WF_installVars(InstallStep(c, p))

InstallSpec == InstallInit /\ [][InstallNext]_<<mode, installVars>> /\ InstallFairness

-----------------------------------------------------------------------------
(* Properties.                                                              *)

\* An install that succeeds has written every path once, and each pack it
\* keeps is there with its idx.
InstalledWhole ==
  \A c \in Install : installs[c] = "done" =>
    /\ \A f \in DOMAIN Paths[c] : worktree[c][f] = 1
    /\ onDisk[c].packs \subseteq onDisk[c].idxs
    /\ \A p \in Wanted(c) : Kept(c, p) \/ (p \in HistoryOnly) => p \in onDisk[c].packs

\* What InstalledWhole rests on, of one install: a file is written when the
\* parse of its pack has ended and not before, nothing has moved before the
\* packs begin or is left to move after they end.
InstallGood(c) ==
  /\ mode[c] \in Modes(c)
  /\ worktree[c] \in [DOMAIN Paths[c] -> Nat]
  /\ onDisk[c].packs \subseteq onDisk[c].idxs
  /\ \A p \in Listed(c) \ Wanted(c) : stage[c][p] = "todo"
  /\ installs[c] = "index" => \A p \in Listed(c) : stage[c][p] = "todo"
  /\ installs[c] = "done" => AllIn(c)
  /\ installs[c] # "failed" =>
       \A p \in Listed(c) :
         /\ \A f \in PathsIn(c, p) : worktree[c][f] = IF stage[c][p] = "in" THEN 1 ELSE 0
         /\ stage[c][p] = "in" /\ (Kept(c, p) \/ p \in HistoryOnly) => p \in onDisk[c].packs

InstallInv ==
  /\ mode \in [Install -> {"git", "base", "tree"}]
  /\ installs \in [Install -> {"index", "running", "done", "failed"}]
  /\ stage \in [Install -> [PackId -> {"todo", "asking", "loading", "landed", "parsing", "in"}]]
  /\ onDisk \in [Install -> [packs : SUBSET PackId, idxs : SUBSET PackId]]
  /\ worktree = [c \in Install |-> worktree[c]]
  /\ \A c \in Install : InstallGood(c)

\* Every install ends, whatever the others do, hold or wait for.
InstallsEnd == \A c \in Install : <>(installs[c] \in {"done", "failed"})
=============================================================================
