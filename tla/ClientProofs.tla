---------------------------- MODULE ClientProofs ----------------------------
(***************************************************************************)
(* Proofs about the client: an install that succeeds is whole, whatever     *)
(* installs run beside it (PackInstall), a download returns the artifact or *)
(* fails, whatever the server sends (Download), and a Files clone writes    *)
(* every file of its table once, whatever order its threads and channels    *)
(* bring the frames in (ArchiveExtract).                                    *)
(***************************************************************************)
EXTENDS Download, PackInstall, ArchiveExtract, FiniteSetTheorems, WellFoundedInduction, TLAPS

-----------------------------------------------------------------------------
(* PackInstall.                                                             *)

\* The packs of a manifest write different files, a history pack none
\* (extract_blobs_from_pack_bytes).
LEMMA PathsApart ==
  ASSUME NEW c \in Install, NEW p \in Listed(c), NEW q \in Listed(c), p # q
  PROVE  PathsIn(c, p) \cap PathsIn(c, q) = {}
BY InstallAssumption DEF PathsIn, PathsOf

\* Every path of the files table is in a pack that every mode reads.
LEMMA PathsCovered ==
  ASSUME NEW c \in Install, NEW f \in DOMAIN Paths[c]
  PROVE  \E p \in Wanted(c) : p \in Listed(c) /\ f \in PathsIn(c, p)
<1>1. PICK p \in Listed(c) \ HistoryOnly : Paths[c][f] \in Blobs[p]
  BY InstallAssumption
<1> QED
  BY <1>1 DEF PathsIn, PathsOf, Wanted

\* The files of a pack are files of the table.
LEMMA PathsInTable == \A c \in Install : \A p : PathsIn(c, p) \subseteq DOMAIN Paths[c]
BY DEF PathsIn, PathsOf

\* A pack that is laid down has its idx laid down with it, bundled or its own.
LEMMA PacksHaveIdx ==
  ASSUME NEW c \in Install, NEW p \in Listed(c), mode[c] \in Modes(c),
         Kept(c, p) \/ p \in HistoryOnly
  PROVE  HasPackDir(c) /\ HasIdx(c, p)
<1>1. CASE p \in HistoryOnly
  <2>1. IsFull(c)
    BY <1>1 DEF IsFull
  <2> QED
    BY <1>1, <2>1 DEF Modes, HasPackDir, HasIdx, OwnIdx
<1>2. CASE p \notin HistoryOnly /\ Kept(c, p)
  <2>1. p \in Bundled => ~IsFull(c)
    BY InstallAssumption DEF IsFull
  <2> QED
    BY <1>2, <2>1 DEF Kept, HasIdx, OwnIdx, HasBundle
<1> QED
  BY <1>1, <1>2

\* What is said of an install is about its own state.
LEMMA InstallFrame ==
  ASSUME InstallInv, NEW c \in Install, UNCHANGED mode,
         installs'[c] = installs[c], stage'[c] = stage[c],
         onDisk'[c] = onDisk[c], worktree'[c] = worktree[c]
  PROVE  InstallGood(c)'
<1>1. InstallGood(c)
  BY DEF InstallInv
<1>2. /\ HasPackDir(c)' = HasPackDir(c) /\ WantsHistory(c)' = WantsHistory(c)
      /\ Modes(c)' = Modes(c) /\ Listed(c)' = Listed(c) /\ IsFull(c)' = IsFull(c)
  BY DEF HasPackDir, WantsHistory, Modes, Listed, IsFull
<1>3. Wanted(c)' = Wanted(c) /\ \A p : Kept(c, p)' = Kept(c, p) /\ PathsIn(c, p)' = PathsIn(c, p)
  BY <1>2 DEF Wanted, Kept, PathsIn, PathsOf
<1>4. AllIn(c)' = AllIn(c)
  BY <1>3 DEF AllIn, In
<1> QED
  BY <1>1, <1>2, <1>3, <1>4 DEF InstallGood

LEMMA InstallInit_ == InstallInit => InstallInv
<1> SUFFICES ASSUME InstallInit PROVE InstallInv
  OBVIOUS
<1>1. \A c \in Install : InstallGood(c)
  <2> TAKE c \in Install
  <2>1. \A p \in Listed(c) : stage[c][p] = "todo"
    BY DEF InstallInit, PackId
  <2>2. worktree[c] = [f \in DOMAIN Paths[c] |-> 0] /\ installs[c] = "index" /\ mode[c] \in Modes(c)
        /\ onDisk[c] = [packs |-> {}, idxs |-> {}]
    BY DEF InstallInit
  <2> QED
    BY <2>1, <2>2, PathsInTable DEF InstallGood
<1> QED
  BY <1>1 DEF InstallInit, InstallInv

Labels == {"todo", "asking", "loading", "landed", "parsing", "in"}

\* A pack that moves on before it is in changes nothing that is promised
\* (GetMemory, StartDownload, Land and StartParse).
LEMMA MoveKeeps ==
  ASSUME InstallInv, UNCHANGED <<mode, installs, onDisk, worktree>>,
         NEW c \in Install, NEW p \in PackId, NEW l \in Labels \ {"todo", "in"},
         MoveTo(c, p, l), stage[c][p] # "in",
         stage[c][p] # "todo" \/ (p \in Wanted(c) /\ installs[c] = "running")
  PROVE  InstallInv'
<1>1. stage' \in [Install -> [PackId -> Labels]]
  BY DEF InstallInv, MoveTo, Labels
<1>2. \A d \in Install \ {c} : InstallGood(d)'
  BY InstallFrame DEF InstallInv, MoveTo
<1>3. /\ stage'[c][p] = l
      /\ \A q \in PackId \ {p} : stage'[c][q] = stage[c][q]
  BY DEF InstallInv, MoveTo
<1>4. /\ HasPackDir(c)' = HasPackDir(c) /\ WantsHistory(c)' = WantsHistory(c)
      /\ Modes(c)' = Modes(c) /\ Listed(c)' = Listed(c) /\ IsFull(c)' = IsFull(c)
  BY DEF HasPackDir, WantsHistory, Modes, Listed, IsFull
<1>5. Wanted(c)' = Wanted(c) /\ \A q : Kept(c, q)' = Kept(c, q) /\ PathsIn(c, q)' = PathsIn(c, q)
  BY <1>4 DEF Wanted, Kept, PathsIn, PathsOf
<1>6. Listed(c) \subseteq PackId /\ Wanted(c) \subseteq Listed(c)
  BY DEF PackId, Wanted
<1>7. InstallGood(c)
  BY DEF InstallInv
<1>8. p \in Listed(c) => p \in Wanted(c) /\ installs[c] # "index" /\ installs[c] # "done"
  BY <1>7 DEF InstallGood, AllIn, In
<1>9. installs[c] = "done" => AllIn(c)'
  <2>1. SUFFICES ASSUME installs[c] = "done" PROVE In(c, {"in"})' = Wanted(c)'
    BY DEF AllIn
  <2>2. \A q \in Wanted(c) : stage[c][q] = "in"
    BY <2>1, <1>7 DEF InstallGood, AllIn, In
  <2> QED
    BY <2>1, <2>2, <1>3, <1>5, <1>6, <1>8 DEF In
<1>10. InstallGood(c)'
  BY <1>3, <1>4, <1>5, <1>6, <1>7, <1>8, <1>9 DEF InstallGood
<1> QED
  BY <1>1, <1>2, <1>10 DEF InstallInv, Labels

\* An install that fails promises no more than the idx of what it laid down.
LEMMA DropKeeps ==
  ASSUME InstallInv, UNCHANGED <<mode, onDisk>>, NEW c \in Install,
         NEW through, through \subseteq Wanted(c), DropInstall(c, through),
         worktree' = [d \in Install |-> worktree'[d]],
         worktree'[c] \in [DOMAIN Paths[c] -> Nat],
         \A d \in Install \ {c} : worktree'[d] = worktree[d]
  PROVE  InstallInv'
<1>1. stage' \in [Install -> [PackId -> Labels]] /\ installs' \in [Install -> {"index", "running", "done", "failed"}]
  BY DEF InstallInv, DropInstall, Labels
<1>2. \A d \in Install \ {c} : InstallGood(d)'
  BY InstallFrame DEF InstallInv, DropInstall
<1>3. /\ installs'[c] = "failed"
      /\ \A q \in PackId \ through : stage'[c][q] = "todo"
  BY DEF InstallInv, DropInstall
<1>4. Modes(c)' = Modes(c) /\ Listed(c)' = Listed(c) /\ Wanted(c)' = Wanted(c)
  BY DEF WantsHistory, Modes, Listed, IsFull, Wanted
<1>5. Listed(c) \subseteq PackId
  BY DEF PackId
<1>6. onDisk[c].packs \subseteq onDisk[c].idxs /\ mode[c] \in Modes(c)
  BY DEF InstallInv, InstallGood
<1>7. \A p \in Listed(c) \ Wanted(c) : stage'[c][p] = "todo"
  BY <1>3, <1>5
<1>8. InstallGood(c)'
  BY <1>3, <1>4, <1>6, <1>7 DEF InstallGood
<1> QED
  BY <1>1, <1>2, <1>8 DEF InstallInv, Labels

\* The end of a parse writes the files of its pack, which no other pack
\* writes, and lays the pack down with its idx.
LEMMA ParseKeeps ==
  ASSUME InstallInv, UNCHANGED mode, NEW c \in Install, NEW p \in Listed(c), EndParse(c, p)
  PROVE  InstallInv'
<1> DEFINE wt == [f \in DOMAIN worktree[c] |-> IF f \in PathsIn(c, p) THEN worktree[c][f] + 1 ELSE worktree[c][f]]
           packs == onDisk[c].packs \cup (IF Kept(c, p) \/ p \in HistoryOnly THEN {p} ELSE {})
           idxs == onDisk[c].idxs \cup (IF HasPackDir(c) /\ HasIdx(c, p) THEN {p} ELSE {})
           l == IF installs[c] = "running" THEN "in" ELSE "todo"
<1>1. /\ stage[c][p] = "parsing" /\ installs' = installs
      /\ stage' = [stage EXCEPT ![c][p] = l]
      /\ worktree' = [worktree EXCEPT ![c] = wt]
      /\ onDisk' = Laid(c, p)
  BY DEF EndParse, MoveTo
<1>2. p \in PackId /\ Listed(c) \subseteq PackId /\ Wanted(c) \subseteq Listed(c)
  BY DEF PackId, Wanted
<1>3. /\ onDisk' \in [Install -> [packs : SUBSET PackId, idxs : SUBSET PackId]]
      /\ onDisk'[c].packs = packs /\ onDisk'[c].idxs = idxs
      /\ \A d \in Install \ {c} : onDisk'[d] = onDisk[d]
  <2>1. onDisk \in [Install -> [packs : SUBSET PackId, idxs : SUBSET PackId]]
    BY DEF InstallInv
  <2>2. packs \in SUBSET PackId /\ idxs \in SUBSET PackId
    BY <1>2, <2>1
  <2>3. onDisk' = [onDisk EXCEPT ![c] = [packs |-> packs, idxs |-> idxs]]
    BY <1>1, <2>1 DEF Laid
  <2> HIDE DEF packs, idxs
  <2> QED
    BY <2>1, <2>2, <2>3
<1>4. InstallGood(c)
  BY DEF InstallInv
<1>5. wt \in [DOMAIN Paths[c] -> Nat]
  BY <1>4 DEF InstallGood
<1>6. /\ stage' \in [Install -> [PackId -> Labels]]
      /\ worktree' = [d \in Install |-> worktree'[d]]
      /\ stage'[c][p] = l /\ worktree'[c] = wt
      /\ \A q \in PackId \ {p} : stage'[c][q] = stage[c][q]
      /\ \A d \in Install \ {c} : stage'[d] = stage[d] /\ worktree'[d] = worktree[d]
  BY <1>1, <1>2 DEF InstallInv, Labels
<1> HIDE DEF wt, packs, idxs, l
<1>7. \A d \in Install \ {c} : InstallGood(d)'
  BY <1>1, <1>3, <1>6, InstallFrame
<1>8. /\ HasPackDir(c)' = HasPackDir(c) /\ WantsHistory(c)' = WantsHistory(c)
      /\ Modes(c)' = Modes(c) /\ Listed(c)' = Listed(c) /\ IsFull(c)' = IsFull(c)
  BY DEF HasPackDir, WantsHistory, Modes, Listed, IsFull
<1>9. Wanted(c)' = Wanted(c) /\ \A q : Kept(c, q)' = Kept(c, q) /\ PathsIn(c, q)' = PathsIn(c, q)
  BY <1>8 DEF Wanted, Kept, PathsIn, PathsOf
<1>10. onDisk'[c].packs \subseteq onDisk'[c].idxs
  BY <1>3, <1>4, PacksHaveIdx DEF InstallGood, packs, idxs
<1>11. p \in Wanted(c) /\ installs[c] # "index" /\ installs[c] # "done"
  BY <1>1, <1>4 DEF InstallGood, AllIn, In
<1>12. installs[c] # "failed" =>
         /\ \A q \in Listed(c) : \A f \in PathsIn(c, q) : wt[f] = IF stage'[c][q] = "in" THEN 1 ELSE 0
         /\ \A q \in Listed(c) : stage'[c][q] = "in" /\ (Kept(c, q) \/ q \in HistoryOnly) => q \in packs
  <2> SUFFICES ASSUME installs[c] # "failed", NEW q \in Listed(c)
               PROVE  /\ \A f \in PathsIn(c, q) : wt[f] = IF stage'[c][q] = "in" THEN 1 ELSE 0
                      /\ stage'[c][q] = "in" /\ (Kept(c, q) \/ q \in HistoryOnly) => q \in packs
    OBVIOUS
  <2>1. installs[c] = "running" /\ l = "in"
    BY <1>11 DEF InstallInv, l
  <2>2. \A f \in PathsIn(c, q) : worktree[c][f] = IF stage[c][q] = "in" THEN 1 ELSE 0
    BY <1>4 DEF InstallGood
  <2>3. PathsIn(c, q) \subseteq DOMAIN worktree[c]
    BY <1>4, PathsInTable DEF InstallGood
  <2>4. CASE q = p
    BY <1>1, <1>6, <2>1, <2>2, <2>3, <2>4 DEF wt, packs
  <2>5. CASE q # p
    <3>1. PathsIn(c, q) \cap PathsIn(c, p) = {}
      BY <2>5, PathsApart
    <3>2. stage'[c][q] = stage[c][q]
      BY <1>2, <1>6, <2>5
    <3> QED
      BY <1>4, <2>2, <2>3, <3>1, <3>2 DEF wt, packs, InstallGood
  <2> QED
    BY <2>4, <2>5
<1>13. \A q \in Listed(c) \ Wanted(c) : stage'[c][q] = "todo"
  BY <1>2, <1>4, <1>6, <1>11 DEF InstallGood
<1>14. InstallGood(c)'
  BY <1>1, <1>3, <1>4, <1>5, <1>6, <1>8, <1>9, <1>10, <1>11, <1>12, <1>13 DEF InstallGood
<1> QED
  BY <1>1, <1>3, <1>6, <1>7, <1>14 DEF InstallInv, Labels

LEMMA InstallKeeps == InstallInv /\ [InstallNext]_<<mode, installVars>> => InstallInv'
<1> SUFFICES ASSUME InstallInv, [InstallNext]_<<mode, installVars>> PROVE InstallInv'
  OBVIOUS
<1>1. CASE UNCHANGED <<mode, installVars>>
  <2>1. \A c \in Install : InstallGood(c)'
    BY <1>1, InstallFrame DEF installVars
  <2> QED
    BY <1>1, <2>1 DEF InstallInv, installVars
<1>2. CASE UNCHANGED mode /\ GetMemory
  <2>1. PICK w \in Waiting : MoveTo(w[1], w[2], "loading")
    BY <1>2 DEF GetMemory
  <2>2. w[1] \in Install /\ w[2] \in PackId /\ stage[w[1]][w[2]] = "asking"
    BY DEF Waiting, Waiter
  <2> QED
    BY <1>2, <2>1, <2>2, MoveKeeps DEF GetMemory, Labels
<1>3. ASSUME NEW c \in Install, UNCHANGED mode, BeginPacks(c) \/ EndInstall(c)
      PROVE  InstallInv'
  <2>1. /\ installs[c] # "done" /\ installs[c] # "failed"
        /\ UNCHANGED <<stage, onDisk, worktree>>
        /\ installs' \in [Install -> {"index", "running", "done", "failed"}]
        /\ \A d \in Install \ {c} : installs'[d] = installs[d]
        /\ installs'[c] # "index" /\ (installs'[c] = "done" => AllIn(c))
    BY <1>3 DEF BeginPacks, EndInstall, InstallInv
  <2>2. \A d \in Install \ {c} : InstallGood(d)'
    BY <1>3, <2>1, InstallFrame
  <2>3. /\ HasPackDir(c)' = HasPackDir(c) /\ WantsHistory(c)' = WantsHistory(c)
        /\ Modes(c)' = Modes(c) /\ Listed(c)' = Listed(c) /\ IsFull(c)' = IsFull(c)
    BY <1>3 DEF HasPackDir, WantsHistory, Modes, Listed, IsFull
  <2>4. Wanted(c)' = Wanted(c) /\ \A q : Kept(c, q)' = Kept(c, q) /\ PathsIn(c, q)' = PathsIn(c, q)
    BY <1>3, <2>3 DEF Wanted, Kept, PathsIn, PathsOf
  <2>5. AllIn(c)' = AllIn(c)
    BY <2>1, <2>4 DEF AllIn, In
  <2>6. InstallGood(c)
    BY DEF InstallInv
  <2>7. InstallGood(c)'
    BY <1>3, <2>1, <2>3, <2>4, <2>5, <2>6 DEF InstallGood
  <2> QED
    BY <1>3, <2>1, <2>2, <2>7 DEF InstallInv
<1>4. ASSUME NEW c \in Install, UNCHANGED mode, FailInstall(c)
      PROVE  InstallInv'
  <2>1. worktree' = worktree /\ onDisk' = onDisk /\ DropInstall(c, In(c, {"parsing"}))
    BY <1>4 DEF FailInstall
  <2>2. worktree[c] \in [DOMAIN Paths[c] -> Nat] /\ worktree = [d \in Install |-> worktree[d]]
    BY DEF InstallInv, InstallGood
  <2>3. In(c, {"parsing"}) \subseteq Wanted(c)
    BY DEF In
  <2> QED
    BY <1>4, <2>1, <2>2, <2>3, DropKeeps
<1>5. ASSUME NEW c \in Install, NEW p \in Listed(c), UNCHANGED mode, ParseFails(c, p)
      PROVE  InstallInv'
  <2>1. onDisk' = onDisk /\ DropInstall(c, In(c, {"parsing"}) \ {p})
    BY <1>5 DEF ParseFails
  <2>2. PICK fs \in SUBSET PathsIn(c, p) :
          worktree' = [worktree EXCEPT ![c] = [f \in DOMAIN @ |-> IF f \in fs THEN @[f] + 1 ELSE @[f]]]
    BY <1>5 DEF ParseFails
  <2>3. worktree[c] \in [DOMAIN Paths[c] -> Nat] /\ worktree = [d \in Install |-> worktree[d]]
    BY DEF InstallInv, InstallGood
  <2>4. /\ worktree'[c] \in [DOMAIN Paths[c] -> Nat]
        /\ worktree' = [d \in Install |-> worktree'[d]]
        /\ \A d \in Install \ {c} : worktree'[d] = worktree[d]
    BY <2>2, <2>3
  <2>5. In(c, {"parsing"}) \ {p} \subseteq Wanted(c)
    BY DEF In
  <2> QED
    BY <1>5, <2>1, <2>4, <2>5, DropKeeps
<1>6. ASSUME NEW c \in Install, NEW p \in Listed(c), UNCHANGED mode, StartDownload(c, p)
      PROVE  InstallInv'
  <2>1. /\ UNCHANGED <<installs, onDisk, worktree>> /\ p \in Wanted(c)
        /\ stage[c][p] = "todo" /\ installs[c] = "running"
    BY <1>6 DEF StartDownload, In
  <2>2. \E l \in {"loading", "asking"} : MoveTo(c, p, l)
    BY <1>6 DEF StartDownload
  <2>3. p \in PackId
    BY DEF PackId
  <2> QED
    BY <1>6, <2>1, <2>2, <2>3, MoveKeeps DEF Labels
<1>7. ASSUME NEW c \in Install, NEW p \in Listed(c), UNCHANGED mode, Land(c, p) \/ StartParse(c, p)
      PROVE  InstallInv'
  <2>1. /\ UNCHANGED <<installs, onDisk, worktree>>
        /\ stage[c][p] \in {"loading", "landed"}
        /\ \E l \in {"landed", "parsing"} : MoveTo(c, p, l)
    BY <1>7 DEF Land, StartParse
  <2>2. p \in PackId
    BY DEF PackId
  <2> QED
    BY <1>7, <2>1, <2>2, MoveKeeps DEF Labels
<1> QED
  BY <1>1, <1>2, <1>3, <1>4, <1>5, <1>6, <1>7, ParseKeeps DEF InstallNext, InstallStep

\* The promise follows from the invariant, where every pack is in.
LEMMA InstallSuffices == InstallInv => InstalledWhole
<1> SUFFICES ASSUME InstallInv, NEW c \in Install, installs[c] = "done"
             PROVE  /\ \A f \in DOMAIN Paths[c] : worktree[c][f] = 1
                    /\ onDisk[c].packs \subseteq onDisk[c].idxs
                    /\ \A p \in Wanted(c) : Kept(c, p) \/ (p \in HistoryOnly) => p \in onDisk[c].packs
  BY DEF InstalledWhole
<1>1. InstallGood(c)
  BY DEF InstallInv
<1>2. \A p \in Wanted(c) : stage[c][p] = "in" /\ p \in Listed(c)
  BY <1>1 DEF InstallGood, AllIn, In, Wanted
<1>3. ASSUME NEW f \in DOMAIN Paths[c] PROVE worktree[c][f] = 1
  BY <1>1, <1>2, PathsCovered DEF InstallGood
<1> QED
  BY <1>1, <1>2, <1>3 DEF InstallGood

\* An install that install_editable_packs reports as done has written every
\* path of its files table exactly once and laid down each pack it keeps with
\* its idx, for any packs, sizes, widths and memory budget, whatever other
\* installs hold, fail or are cancelled at.
THEOREM InstallsAreWhole == InstallSpec => []InstalledWhole
<1>1. InstallInit => InstallInv
  BY InstallInit_
<1> QED
  BY <1>1, InstallKeeps, InstallSuffices, PTL DEF InstallSpec

-----------------------------------------------------------------------------
(* Download.                                                                *)

\* The last part is the first that reaches the end (download_ranges).
LEMMA PartsCover ==
  ASSUME NEW s \in Nat, NEW p \in Nat \ {0}, NEW q, q = (s + p - 1) \div p
  PROVE  q \in Nat /\ q * p >= s /\ (q - 1) * p < s
BY SMT

LEMMA PartsOrder ==
  ASSUME NEW q \in Nat, NEW w \in Nat, NEW p \in Nat \ {0}, w < q
  PROVE  w * p \in Nat /\ w * p <= (q - 1) * p
BY SMT

LEMMA PartsFacts ==
  ASSUME NEW a \in Artifact
  PROVE  /\ Parts(a) \in Nat
         /\ Ranged(a) => Parts(a) * Part >= Size[a]
         /\ Ranged(a) => \A w \in Nat : w < Parts(a) => w * Part \in Nat /\ w * Part < Size[a]
<1>1. Size[a] \in Nat /\ Part \in Nat \ {0}
  BY DownloadAssumption
<1> DEFINE q == (Size[a] + Part - 1) \div Part
<1>2. q \in Nat /\ q * Part >= Size[a] /\ (q - 1) * Part < Size[a]
  BY <1>1, PartsCover
<1>3. Parts(a) = IF Ranged(a) THEN q ELSE 0
  BY DEF Parts
<1> HIDE DEF q
<1>4. ASSUME NEW w \in Nat, w < q PROVE w * Part \in Nat /\ w * Part < Size[a]
  <2>1. w * Part \in Nat /\ w * Part <= (q - 1) * Part
    BY <1>1, <1>2, <1>4, PartsOrder
  <2>2. (q - 1) * Part \in Int
    BY <1>1, <1>2
  <2> QED
    BY <1>1, <1>2, <2>1, <2>2
<1> QED
  BY <1>2, <1>3, <1>4

\* Every loop is the stream or a range of one artifact.
LEMMA LoopsOfArtifact ==
  /\ \A a \in Artifact : Stream(a) \in Loop /\ Range_(a) \subseteq Loop /\ Stream(a) \notin Range_(a)
  /\ \A a \in Artifact : Art(Stream(a)) = a /\ IsStream(Stream(a))
  /\ \A a \in Artifact : \A t \in Range_(a) : Art(t) = a /\ ~IsStream(t)
  /\ \A t \in Loop : /\ Art(t) \in Artifact
                     /\ IsStream(t) => t = Stream(Art(t))
                     /\ ~IsStream(t) => t \in Range_(Art(t))
<1>1. \A a \in Artifact : Parts(a) \in Nat
  BY PartsFacts
<1>2. ASSUME NEW a \in Artifact, NEW t \in Range_(a)
      PROVE  Art(t) = a /\ t[2] \in 1..Parts(a) /\ t[2] # 0
  <2>1. PICK i \in 1..Parts(a) : t = <<a, i>>
    BY DEF Range_
  <2> QED
    BY <1>1, <2>1 DEF Art
<1> QED
  BY <1>1, <1>2 DEF Loop, Art, IsStream, Stream

\* What is said of a download is about its own state.
LEMMA DownloadFrame ==
  ASSUME NEW a \in Artifact, DownloadGood(a),
         result'[a] = result[a], body'[a] = body[a], written'[a] = written[a],
         \A t \in Loop : Art(t) = a => loop'[t] = loop[t],
         lies' = 0 => lies = 0
  PROVE  DownloadGood(a)'
BY LoopsOfArtifact DEF DownloadGood, Runs, Stream, Range_, Ranged, Parts, Whole, Smaller

LoopState == [pc : {"off", "send", "lock", "refresh", "body", "fetched", "ignored", "failed", "end"},
              attempt : Nat, seen : Nat, next : Nat]

\* A loop runs only on the way that its download is on.
LEMMA RunningLoop ==
  ASSUME DownloadInv, NEW t \in Loop, Runs(t)
  PROVE  /\ Art(t) \in Artifact /\ loop[t].pc # "end"
         /\ result[Art(t)] = IF IsStream(t) THEN "stream" ELSE "ranges"
BY LoopsOfArtifact DEF DownloadInv, DownloadGood, Runs

\* A step of one loop that leaves the body alone: a request, a retry, a
\* refresh, or the headers of an answer.
LEMMA LoopMoves ==
  ASSUME DownloadInv, NEW t \in Loop, UNCHANGED <<result, body, written>>,
         generation' \in Nat, lies' \in Nat, lies' = 0 => lies = 0,
         loop' \in [Loop -> LoopState], \A u \in Loop \ {t} : loop'[u] = loop[u],
         loop[t].pc # "end", result[Art(t)] = IF IsStream(t) THEN "stream" ELSE "ranges",
         loop'[t].pc = "body" => IsStream(t) /\ (lies' = 0 => loop'[t].next = Len(body[Art(t)]) + 1)
  PROVE  DownloadInv'
<1>1. \A b \in Artifact : b # Art(t) => DownloadGood(b)'
  BY DownloadFrame DEF DownloadInv
<1>2. DownloadGood(Art(t))'
  <2> DEFINE a == Art(t)
  <2>1. a \in Artifact /\ DownloadGood(a) /\ Stream(a) \in Loop /\ Range_(a) \subseteq Loop /\ Stream(a) \notin Range_(a)
    BY LoopsOfArtifact DEF DownloadInv
  <2>2. /\ Stream(a)' = Stream(a) /\ Range_(a)' = Range_(a) /\ Ranged(a)' = Ranged(a)
        /\ Parts(a)' = Parts(a) /\ Whole(a)' = Whole(a)
    BY DEF Stream, Range_, Ranged, Parts, Whole
  <2>3. CASE IsStream(t)
    <3>1. t = Stream(a) /\ \A u \in Range_(a) : loop'[u] = loop[u]
      BY <2>1, <2>3, LoopsOfArtifact
    <3> HIDE DEF a
    <3> QED
      BY <2>1, <2>2, <2>3, <3>1 DEF DownloadGood, Runs, a, Smaller
  <2>4. CASE ~IsStream(t)
    <3>1. t \in Range_(a) /\ loop'[Stream(a)] = loop[Stream(a)]
      BY <2>1, <2>4, LoopsOfArtifact
    <3> HIDE DEF a
    <3> QED
      BY <2>1, <2>2, <2>4, <3>1 DEF DownloadGood, Runs, a, Smaller
  <2> QED
    BY <2>3, <2>4
<1>3. \A u \in Loop : loop'[u].pc = "body" => IsStream(u)
  BY DEF DownloadInv
<1> QED
  BY <1>1, <1>2, <1>3 DEF DownloadInv, LoopState, Ends, IsStream

\* A download that fails: its loops are dropped, whatever the body holds.
LEMMA FailKeeps ==
  ASSUME DownloadInv, NEW a \in Artifact, FailDownload(a), UNCHANGED written,
         generation' \in Nat, lies' \in Nat, lies' = 0 => lies = 0,
         NEW b \in Seq(Nat), body' = [body EXCEPT ![a] = b],
         lies' = 0 => Len(b) <= Size[a] /\ \A k \in 1..Len(b) : b[k] = k
  PROVE  DownloadInv'
<1>1. /\ loop' = [t \in Loop |-> IF Art(t) = a THEN At("end") ELSE loop[t]]
      /\ result' = [result EXCEPT ![a] = "failed"]
  BY DEF FailDownload, DropLoops
<1>2. At("end") \in LoopState /\ At("end").pc = "end"
  BY DEF At, LoopState
<1>3. loop' \in [Loop -> LoopState]
  BY <1>1, <1>2 DEF DownloadInv, LoopState
<1>4. \A d \in Artifact : d # a => DownloadGood(d)'
  BY <1>1, DownloadFrame DEF DownloadInv
<1>5. \A t \in Loop : Art(t) = a => loop'[t].pc = "end"
  BY <1>1, <1>2
<1>6. loop'[Stream(a)].pc = "end" /\ \A t \in Range_(a) : loop'[t].pc = "end"
  BY <1>5, LoopsOfArtifact
<1>7. result'[a] = "failed" /\ body'[a] = b
  BY <1>1 DEF DownloadInv
<1>8. DownloadGood(a)'
  BY <1>6, <1>7 DEF DownloadGood, Runs, Stream, Range_, Parts, Ranged
<1>9. \A t \in Loop : loop'[t].pc = "body" => IsStream(t)
  BY <1>1, <1>2 DEF DownloadInv
<1> QED
  BY <1>1, <1>3, <1>4, <1>8, <1>9 DEF DownloadInv, LoopState, Ends, IsStream

\* A download that verifies its body (Received::finish): what is returned is
\* the artifact.
LEMMA FinishKeeps ==
  ASSUME DownloadInv, NEW a \in Artifact, Finished(a), UNCHANGED <<body, written>>,
         generation' \in Nat, lies' \in Nat, lies' = 0 => lies = 0 /\ Verified(a),
         loop' \in [Loop -> LoopState],
         \A t \in Loop : Art(t) # a => loop'[t] = loop[t],
         \A t \in Loop : Art(t) = a => loop'[t].pc \in {"off", "end"}
  PROVE  DownloadInv'
<1>0. \A t \in Loop : loop'[t].pc = "body" => IsStream(t)
  BY DEF DownloadInv
<1>1. result' = [result EXCEPT ![a] = IF Verified(a) THEN "done" ELSE "corrupt"]
  BY DEF Finished
<1>2. \A d \in Artifact : d # a => DownloadGood(d)'
  BY <1>1, DownloadFrame DEF DownloadInv
<1>3. loop'[Stream(a)].pc \in {"off", "end"} /\ \A t \in Range_(a) : loop'[t].pc \in {"off", "end"}
  BY LoopsOfArtifact
<1>4. result'[a] = IF Verified(a) THEN "done" ELSE "corrupt"
  BY <1>1 DEF DownloadInv
<1>5. DownloadGood(a)
  BY DEF DownloadInv
<1>6. DownloadGood(a)'
  BY <1>3, <1>4, <1>5 DEF DownloadGood, Runs, Stream, Range_, Parts, Ranged, Verified, Whole
<1> QED
  BY <1>0, <1>1, <1>2, <1>6 DEF DownloadInv, LoopState, Ends, IsStream

\* The record of a loop keeps its type.
LEMMA LoopTyped ==
  ASSUME DownloadInv, NEW t \in Loop
  PROVE  loop[t].attempt \in Nat /\ loop[t].seen \in Nat /\ loop[t].next \in Nat
BY DEF DownloadInv

LEMMA LoopExtends ==
  ASSUME NEW r \in LoopState
  PROVE  [r EXCEPT !.next = r.next + 1] \in LoopState /\ [r EXCEPT !.next = r.next + 1].next = r.next + 1
BY DEF LoopState

LEMMA BecomesTyped ==
  ASSUME DownloadInv, NEW t \in Loop, NEW attempt \in Nat, NEW seen \in Nat, NEW next \in Nat,
         NEW l \in {"off", "send", "lock", "refresh", "body", "fetched", "ignored", "failed", "end"},
         Becomes(t, l, attempt, seen, next)
  PROVE  /\ loop' \in [Loop -> LoopState] /\ \A u \in Loop \ {t} : loop'[u] = loop[u]
         /\ loop'[t].pc = l /\ loop'[t].next = next
<1> DEFINE r == [pc |-> l, attempt |-> attempt, seen |-> seen, next |-> next]
<1>1. r \in LoopState /\ r.pc = l /\ r.next = next
  BY DEF LoopState
<1>2. loop' = [loop EXCEPT ![t] = r] /\ loop \in [Loop -> LoopState]
  BY DEF Becomes, DownloadInv, LoopState
<1> HIDE DEF r
<1> QED
  BY <1>1, <1>2

\* An error that ends the loop, and one that is tried again.
LEMMA PermanentKeeps ==
  ASSUME DownloadInv, NEW t \in Loop, Runs(t), Permanent(t), UNCHANGED <<body, written>>,
         generation' \in Nat, lies' \in Nat, lies' = 0 => lies = 0
  PROVE  DownloadInv'
<1>1. Art(t) \in Artifact /\ loop[t].pc # "end" /\ result[Art(t)] = IF IsStream(t) THEN "stream" ELSE "ranges"
  BY RunningLoop
<1>2. CASE IsStream(t)
  <2>1. FailDownload(Art(t))
    BY <1>2 DEF Permanent
  <2>2. /\ body[Art(t)] \in Seq(Nat) /\ body' = [body EXCEPT ![Art(t)] = body[Art(t)]]
        /\ lies' = 0 => Len(body[Art(t)]) <= Size[Art(t)] /\ \A k \in 1..Len(body[Art(t)]) : body[Art(t)][k] = k
    BY <1>1 DEF DownloadInv, DownloadGood
  <2> QED
    BY <1>1, <2>1, <2>2, FailKeeps
<1>3. CASE ~IsStream(t)
  <2>1. result' = result /\ Becomes(t, "failed", 0, 0, 0)
    BY <1>3 DEF Permanent, Return, Becomes, At
  <2>2. /\ loop' \in [Loop -> LoopState] /\ \A u \in Loop \ {t} : loop'[u] = loop[u]
        /\ loop'[t].pc = "failed"
    BY <2>1, BecomesTyped
  <2> QED
    BY <1>1, <1>3, <2>1, <2>2, LoopMoves
<1> QED
  BY <1>2, <1>3

LEMMA RetryKeeps ==
  ASSUME DownloadInv, NEW t \in Loop, Runs(t), Retry(t), UNCHANGED <<body, written>>,
         generation' \in Nat, lies' \in Nat, lies' = 0 => lies = 0
  PROVE  DownloadInv'
<1>1. CASE loop[t].attempt < FETCH_MAX_ATTEMPTS
  <2>1. result' = result /\ Becomes(t, "send", loop[t].attempt + 1, loop[t].seen, loop[t].next)
    BY <1>1 DEF Retry, TryNext
  <2>2. /\ loop' \in [Loop -> LoopState] /\ \A u \in Loop \ {t} : loop'[u] = loop[u]
        /\ loop'[t].pc = "send"
    BY <2>1, LoopTyped, BecomesTyped, loop[t].attempt + 1 \in Nat
  <2> QED
    BY <2>1, <2>2, RunningLoop, LoopMoves
<1>2. CASE ~(loop[t].attempt < FETCH_MAX_ATTEMPTS)
  BY <1>2, PermanentKeeps DEF Retry
<1> QED
  BY <1>1, <1>2

\* A body with every byte is the artifact, when the server sent what it should.
LEMMA FullPrefix ==
  ASSUME DownloadInv, NEW a \in Artifact, lies = 0, Len(body[a]) >= Size[a]
  PROVE  Verified(a)
<1>1. /\ body[a] \in Seq(Nat) /\ Size[a] \in Nat /\ Len(body[a]) <= Size[a]
      /\ \A k \in 1..Len(body[a]) : body[a][k] = k
  BY DownloadAssumption DEF DownloadInv, DownloadGood
<1>2. Len(body[a]) = Size[a]
  BY <1>1
<1>3. body[a] = [k \in 1..Size[a] |-> k]
  BY <1>1, <1>2
<1> QED
  BY <1>2, <1>3 DEF Verified, Whole

\* A stream that ends.
LEMMA StreamEnds ==
  ASSUME DownloadInv, NEW t \in Loop, IsStream(t), Runs(t), Return(t, "end"), Finished(Art(t)),
         UNCHANGED <<body, written>>, generation' \in Nat, lies' \in Nat,
         lies' = 0 => lies = 0 /\ Len(body[Art(t)]) >= Size[Art(t)]
  PROVE  DownloadInv'
<1>1. /\ Art(t) \in Artifact /\ result[Art(t)] = "stream" /\ t = Stream(Art(t))
      /\ \A u \in Loop : Art(u) = Art(t) /\ u # t => u \in Range_(Art(t))
  BY RunningLoop, LoopsOfArtifact
<1>2. \A u \in Range_(Art(t)) : loop[u].pc \in {"off", "end"}
  BY <1>1 DEF DownloadInv, DownloadGood, Runs
<1>3. Becomes(t, "end", 0, 0, 0)
  BY DEF Return, Becomes, At
<1>4. /\ loop' \in [Loop -> LoopState] /\ \A u \in Loop \ {t} : loop'[u] = loop[u]
      /\ loop'[t].pc = "end"
  BY <1>3, BecomesTyped
<1>5. lies' = 0 => lies = 0 /\ Verified(Art(t))
  BY <1>1, FullPrefix
<1> QED
  BY <1>1, <1>2, <1>4, <1>5, FinishKeeps

\* A stream whose body changes: a chunk, or a start over.
LEMMA StreamWrites ==
  ASSUME DownloadInv, NEW t \in Loop, IsStream(t), result[Art(t)] = "stream",
         UNCHANGED <<result, written>>, generation' \in Nat, lies' \in Nat,
         loop' \in [Loop -> LoopState], \A u \in Loop \ {t} : loop'[u] = loop[u],
         NEW b \in Seq(Nat), body' = [body EXCEPT ![Art(t)] = b],
         lies' = 0 => /\ lies = 0 /\ Len(b) <= Size[Art(t)] /\ \A k \in 1..Len(b) : b[k] = k
                      /\ loop'[t].next = Len(b) + 1
  PROVE  DownloadInv'
<1> DEFINE a == Art(t)
<1>1. /\ a \in Artifact /\ t = Stream(a)
      /\ \A u \in Range_(a) : loop'[u] = loop[u]
      /\ \A d \in Artifact \ {a} : \A u \in Loop : Art(u) = d => loop'[u] = loop[u]
  BY LoopsOfArtifact
<1>2. body' \in [Artifact -> Seq(Nat)] /\ body'[a] = b /\ \A d \in Artifact \ {a} : body'[d] = body[d]
  BY <1>1 DEF DownloadInv
<1>3. DownloadGood(a)
  BY <1>1 DEF DownloadInv
<1> HIDE DEF a
<1>4. \A d \in Artifact \ {a} : DownloadGood(d)'
  BY <1>1, <1>2, DownloadFrame DEF DownloadInv
<1>5. DownloadGood(a)'
  BY <1>1, <1>2, <1>3 DEF DownloadGood, Runs, Stream, Range_, Parts, Ranged, a
<1>6. \A u \in Loop : loop'[u].pc = "body" => IsStream(u)
  BY DEF DownloadInv
<1> QED
  BY <1>2, <1>4, <1>5, <1>6 DEF DownloadInv, LoopState, IsStream

LEMMA ChunkKeeps ==
  ASSUME DownloadInv, NEW t \in Loop, Chunk(t) PROVE DownloadInv'
<1> DEFINE a == Art(t)
           s == body[a]
<1>1. loop[t].pc = "body" /\ UNCHANGED <<written, generation>>
  BY DEF Chunk
<1>2. IsStream(t) /\ Runs(t)
  BY <1>1 DEF DownloadInv, Runs
<1>3. a \in Artifact /\ result[a] = "stream" /\ t = Stream(a)
  BY <1>2, RunningLoop, LoopsOfArtifact
<1>4. /\ s \in Seq(Nat) /\ Size[a] \in Nat /\ loop[t].next \in Nat
      /\ lies = 0 => /\ Len(s) <= Size[a] /\ \A k \in 1..Len(s) : s[k] = k
                     /\ loop[t].next = Len(s) + 1
  BY <1>1, <1>3, LoopTyped, DownloadAssumption DEF DownloadInv, DownloadGood
<1>5. \E n \in Nat : /\ body' = [body EXCEPT ![a] = s \o <<n>>]
                     /\ \/ n = loop[t].next /\ n <= Size[a] /\ lies' = lies
                        \/ lies' = lies + 1
  BY <1>4 DEF Chunk, Written
<1>6. PICK n \in Nat : /\ body' = [body EXCEPT ![a] = s \o <<n>>]
                       /\ \/ n = loop[t].next /\ n <= Size[a] /\ lies' = lies
                          \/ lies' = lies + 1
  BY <1>5
<1> DEFINE b == s \o <<n>>
<1>7. b \in Seq(Nat) /\ Len(b) = Len(s) + 1 /\ b[Len(s) + 1] = n /\ \A k \in 1..Len(s) : b[k] = s[k]
  BY <1>4
<1>8. lies' \in Nat /\ (lies' = 0 => lies = 0 /\ n = Len(s) + 1 /\ n <= Size[a])
  BY <1>4, <1>6 DEF DownloadInv
<1>9. CASE FailDownload(a)
  <2> HIDE DEF s, b
  <2>1. lies' = 0 => Len(b) <= Size[a] /\ \A k \in 1..Len(b) : b[k] = k
    BY <1>4, <1>7, <1>8
  <2> QED
    BY <1>1, <1>3, <1>6, <1>7, <1>8, <1>9, <2>1, FailKeeps DEF DownloadInv, b
<1>10. CASE loop' = [loop EXCEPT ![t].next = @ + 1] /\ result' = result
  <2>1. /\ loop' \in [Loop -> LoopState] /\ \A u \in Loop \ {t} : loop'[u] = loop[u]
        /\ loop'[t].next = loop[t].next + 1
    <3> DEFINE r == [loop[t] EXCEPT !.next = loop[t].next + 1]
    <3>1. loop[t] \in LoopState /\ loop \in [Loop -> LoopState]
      BY DEF DownloadInv, LoopState
    <3>2. r \in LoopState /\ r.next = loop[t].next + 1
      BY <3>1, LoopExtends
    <3>3. loop' = [loop EXCEPT ![t] = r]
      BY <1>10, <3>1
    <3> HIDE DEF r
    <3> QED
      BY <3>1, <3>2, <3>3
  <2> HIDE DEF s, b
  <2>2. lies' = 0 => /\ lies = 0 /\ Len(b) <= Size[a] /\ \A k \in 1..Len(b) : b[k] = k
                     /\ loop'[t].next = Len(b) + 1
    BY <1>4, <1>7, <1>8, <2>1
  <2> HIDE DEF a
  <2>3. body' = [body EXCEPT ![Art(t)] = b]
    BY <1>6 DEF b, a
  <2> QED
    BY <1>1, <1>2, <1>3, <1>7, <1>8, <1>10, <2>1, <2>2, <2>3, StreamWrites DEF DownloadInv, a
<1> QED
  BY <1>9, <1>10 DEF Chunk

\* 200 in answer to a stream: what came before is dropped.
LEMMA AnsweredKeeps ==
  ASSUME DownloadInv, NEW t \in Loop, Answered(t) PROVE DownloadInv'
<1> DEFINE a == Art(t)
<1>1. /\ loop[t].pc = "send" /\ UNCHANGED <<result, written, generation, lies>>
  BY DEF Answered, Asks, urlVars
<1>2. Runs(t)
  BY <1>1 DEF Runs
<1>3. a \in Artifact /\ loop[t].pc # "end" /\ result[a] = IF IsStream(t) THEN "stream" ELSE "ranges"
  BY <1>2, RunningLoop
<1>4. generation' \in Nat /\ lies' \in Nat
  BY <1>1 DEF DownloadInv
<1>5. CASE IsStream(t)
  <2>1. Becomes(t, "body", loop[t].attempt, loop[t].seen, 1)
    BY <1>5 DEF Answered, ReadFrom
  <2>2. /\ loop' \in [Loop -> LoopState] /\ \A u \in Loop \ {t} : loop'[u] = loop[u]
        /\ loop'[t].next = 1
    BY <2>1, LoopTyped, BecomesTyped
  <2>3. body' = [body EXCEPT ![a] = <<>>]
    <3>1. CASE Len(body[a]) > 0
      BY <1>5, <3>1 DEF Answered, Restarted
    <3>2. CASE ~(Len(body[a]) > 0)
      <4>1. body' = body
        BY <1>5, <3>2 DEF Answered
      <4>2. body[a] = <<>> /\ body \in [Artifact -> Seq(Nat)]
        BY <1>3, <3>2 DEF DownloadInv
      <4> QED
        BY <1>3, <4>1, <4>2
    <3> QED
      BY <3>1, <3>2
  <2>4. Size[a] \in Nat /\ <<>> \in Seq(Nat)
    BY <1>3, DownloadAssumption
  <2>5. lies' = 0 => /\ lies = 0 /\ Len(<<>>) <= Size[a] /\ \A k \in 1..Len(<<>>) : <<>>[k] = k
                     /\ loop'[t].next = Len(<<>>) + 1
    BY <1>1, <2>2, <2>4
  <2> HIDE DEF a
  <2>6. body' = [body EXCEPT ![Art(t)] = <<>>]
    BY <2>3 DEF a
  <2> QED
    BY <1>1, <1>3, <1>4, <1>5, <2>2, <2>4, <2>5, <2>6, StreamWrites DEF a
<1>6. CASE ~IsStream(t)
  <2>1. Becomes(t, "ignored", 0, 0, 0) /\ body' = body
    BY <1>6 DEF Answered, Return, Becomes, At
  <2>2. /\ loop' \in [Loop -> LoopState] /\ \A u \in Loop \ {t} : loop'[u] = loop[u]
        /\ loop'[t].pc = "ignored"
    BY <2>1, BecomesTyped
  <2> QED
    BY <1>1, <1>3, <1>4, <1>6, <2>1, <2>2, LoopMoves
<1> QED
  BY <1>5, <1>6

\* The body of a range starts where the ranges before it end.
LEMMA PartExtends ==
  ASSUME NEW a \in Artifact, Ranged(a), NEW w \in Nat, w < Parts(a)
  PROVE  /\ w * Part \in Nat /\ Smaller(w * Part, Size[a]) = w * Part
         /\ PartOf(a, w + 1) \in Seq(Nat)
         /\ w * Part + Len(PartOf(a, w + 1)) = Smaller((w + 1) * Part, Size[a])
         /\ \A k \in 1..Len(PartOf(a, w + 1)) : PartOf(a, w + 1)[k] = w * Part + k
         /\ Smaller((w + 1) * Part, Size[a]) <= Size[a]
         /\ [k \in DOMAIN PartOf(a, w + 1) |-> 0] \in Seq(Nat)
<1>1. Size[a] \in Nat /\ Part \in Nat \ {0}
  BY DownloadAssumption
<1>2. w * Part \in Nat /\ w * Part < Size[a]
  BY PartsFacts
<1>3. (w + 1) * Part = w * Part + Part
  BY <1>1
<1> DEFINE from == w * Part
           n == Smaller((w + 1) * Part, Size[a]) - from
<1>4. n \in Nat /\ from + n = Smaller((w + 1) * Part, Size[a])
  BY <1>1, <1>2, <1>3 DEF Smaller
<1>5. PartOf(a, w + 1) = [k \in 1..n |-> from + k]
  <2>1. (w + 1) - 1 = w
    OBVIOUS
  <2> QED
    BY <2>1 DEF PartOf
<1>6. Smaller(w * Part, Size[a]) = w * Part /\ Smaller((w + 1) * Part, Size[a]) <= Size[a]
  BY <1>1, <1>2, <1>3 DEF Smaller
<1> HIDE DEF n, from
<1>7. from \in Nat
  BY <1>2 DEF from
<1>8. /\ PartOf(a, w + 1) \in Seq(Nat) /\ Len(PartOf(a, w + 1)) = n
      /\ \A k \in 1..n : PartOf(a, w + 1)[k] = from + k
      /\ [k \in DOMAIN PartOf(a, w + 1) |-> 0] \in Seq(Nat)
  BY <1>4, <1>5, <1>7
<1> QED
  BY <1>2, <1>4, <1>6, <1>8 DEF from

\* The ranges are written in order, each where the one before it ended.
LEMMA WriteKeeps ==
  ASSUME DownloadInv, NEW a \in Artifact, WriteRange(a) PROVE DownloadInv'
<1> DEFINE w == written[a]
           t == NextRange(a)
           p == PartOf(a, w + 1)
           z == [k \in DOMAIN p |-> 0]
           s == body[a]
<1>1. /\ result[a] = "ranges" /\ w < Parts(a) /\ UNCHANGED <<result, generation>>
      /\ Becomes(t, "end", 0, 0, 0) /\ written' = [written EXCEPT ![a] = w + 1]
  BY DEF WriteRange, InRanges, Return, Becomes, At, urlVars
<1>2. \/ lies' = lies /\ body' = [body EXCEPT ![a] = s \o p]
      \/ lies' = lies + 1 /\ body' = [body EXCEPT ![a] = s \o z]
  BY DEF WriteRange, Written
<1>3. /\ DownloadGood(a) /\ w \in Nat /\ s \in Seq(Nat) /\ lies \in Nat /\ generation \in Nat
      /\ Parts(a) \in Nat /\ Size[a] \in Nat
  BY DownloadAssumption, PartsFacts DEF DownloadInv
<1>4. Ranged(a)
  BY <1>1, <1>3 DEF DownloadGood
<1>5. t \in Range_(a) /\ t \in Loop /\ t[2] = w + 1 /\ Stream(a) # t /\ Stream(a) \in Loop /\ Range_(a) \subseteq Loop
      /\ \A u \in Loop : Art(u) # a => u # t
  <2>1. t \in Range_(a)
    BY <1>1, <1>3 DEF Range_, NextRange
  <2> QED
    BY <2>1, LoopsOfArtifact DEF NextRange
<1>6. /\ w * Part \in Nat /\ Smaller(w * Part, Size[a]) = w * Part
      /\ p \in Seq(Nat) /\ z \in Seq(Nat)
      /\ w * Part + Len(p) = Smaller((w + 1) * Part, Size[a])
      /\ \A k \in 1..Len(p) : p[k] = w * Part + k
      /\ Smaller((w + 1) * Part, Size[a]) <= Size[a]
  BY <1>1, <1>3, <1>4, PartExtends
<1> HIDE DEF w, t, p, z, s
<1>7. /\ loop' \in [Loop -> LoopState] /\ \A u \in Loop \ {t} : loop'[u] = loop[u]
      /\ loop'[t].pc = "end"
  BY <1>1, <1>5, BecomesTyped
<1>8. \E b \in Seq(Nat) : /\ body' = [body EXCEPT ![a] = b]
                          /\ lies' \in Nat /\ (lies' = 0 => lies = 0 /\ b = s \o p)
  <2>1. s \o p \in Seq(Nat) /\ s \o z \in Seq(Nat)
    BY <1>3, <1>6
  <2>2. CASE lies' = lies /\ body' = [body EXCEPT ![a] = s \o p]
    BY <1>3, <2>1, <2>2
  <2>3. CASE lies' = lies + 1 /\ body' = [body EXCEPT ![a] = s \o z]
    <3>1. lies' \in Nat /\ lies' # 0
      BY <1>3, <2>3
    <3> QED
      BY <2>1, <2>3, <3>1
  <2> QED
    BY <1>2, <2>2, <2>3
<1>9. PICK b \in Seq(Nat) : /\ body' = [body EXCEPT ![a] = b]
                            /\ lies' \in Nat /\ (lies' = 0 => lies = 0 /\ b = s \o p)
  BY <1>8
<1>10. /\ body' \in [Artifact -> Seq(Nat)] /\ body'[a] = b
       /\ written' \in [Artifact -> Nat] /\ written'[a] = w + 1
       /\ \A d \in Artifact \ {a} : body'[d] = body[d] /\ written'[d] = written[d]
  BY <1>1, <1>3, <1>9 DEF DownloadInv
<1>11. \A d \in Artifact \ {a} : DownloadGood(d)'
  BY <1>1, <1>5, <1>7, <1>9, <1>10, DownloadFrame DEF DownloadInv
<1>12. lies' = 0 => /\ Len(b) = Smaller((w + 1) * Part, Size[a]) /\ Len(b) <= Size[a]
                    /\ \A k \in 1..Len(b) : b[k] = k
  <2> SUFFICES ASSUME lies' = 0
               PROVE  /\ Len(b) = Smaller((w + 1) * Part, Size[a]) /\ Len(b) <= Size[a]
                      /\ \A k \in 1..Len(b) : b[k] = k
    OBVIOUS
  <2>1. b = s \o p /\ lies = 0
    BY <1>9
  <2>2. Len(s) = w * Part /\ \A k \in 1..Len(s) : s[k] = k
    BY <1>1, <1>3, <1>6, <2>1 DEF DownloadGood, w, s
  <2>3. Len(b) = Len(s) + Len(p) /\ \A k \in 1..Len(b) : b[k] = IF k <= Len(s) THEN s[k] ELSE p[k - Len(s)]
    BY <1>3, <1>6, <2>1
  <2>4. Len(s) \in Nat /\ Len(p) \in Nat
    BY <1>3, <1>6
  <2>5. ASSUME NEW k \in 1..Len(b) PROVE b[k] = k
    <3>1. CASE k <= Len(s)
      BY <2>2, <2>3, <2>4, <2>5, <3>1
    <3>2. CASE ~(k <= Len(s))
      <4>1. k - Len(s) \in 1..Len(p)
        BY <2>3, <2>4, <2>5, <3>2
      <4>2. p[k - Len(s)] = w * Part + (k - Len(s))
        BY <1>6, <4>1
      <4>3. p[k - Len(s)] = Len(s) + (k - Len(s))
        BY <2>2, <4>2
      <4>4. b[k] = p[k - Len(s)]
        BY <2>3, <2>5, <3>2
      <4> QED
        BY <2>4, <2>5, <4>3, <4>4
    <3> QED
      BY <3>1, <3>2
  <2> QED
    BY <1>6, <2>2, <2>3, <2>5
<1>13. \A u \in Range_(a) : u[2] <= w + 1 => loop'[u].pc = "end"
  <2>1. \A u \in Range_(a) : u[2] \in Nat /\ (u[2] = w + 1 => u = t)
    BY <1>3 DEF Range_, t, NextRange, w
  <2>2. \A u \in Range_(a) : u[2] <= w => loop[u].pc = "end"
    BY <1>1, <1>3 DEF DownloadGood, w
  <2> TAKE u \in Range_(a)
  <2>3. CASE u = t
    BY <1>7, <2>3
  <2>4. CASE u # t
    <3>1. u[2] <= w + 1 => u[2] <= w
      BY <1>3, <2>1, <2>4
    <3>2. loop'[u] = loop[u]
      BY <1>5, <1>7, <2>4
    <3> QED
      BY <2>2, <3>1, <3>2
  <2> QED
    BY <2>3, <2>4
<1>14. DownloadGood(a)'
  <2>1. ~(Runs(Stream(a))) /\ loop'[Stream(a)] = loop[Stream(a)]
    BY <1>1, <1>3, <1>5, <1>7 DEF DownloadGood
  <2>2. /\ Stream(a)' = Stream(a) /\ Range_(a)' = Range_(a) /\ Ranged(a)' = Ranged(a)
        /\ Parts(a)' = Parts(a) /\ Smaller(written[a] * Part, Size[a])' = Smaller((w + 1) * Part, Size[a])
    BY <1>10 DEF Stream, Range_, Ranged, Parts, Smaller
  <2>3. w + 1 <= Parts(a)
    BY <1>1, <1>3
  <2> QED
    BY <1>1, <1>4, <1>10, <1>12, <1>13, <2>1, <2>2, <2>3 DEF DownloadGood, Runs
<1>15. \A u \in Loop : loop'[u].pc = "body" => IsStream(u)
  BY <1>7 DEF DownloadInv
<1> QED
  BY <1>1, <1>3, <1>7, <1>9, <1>10, <1>11, <1>14, <1>15 DEF DownloadInv, LoopState, IsStream

\* The last range is written: the body is as long as the artifact.
LEMMA EndRangesKeeps ==
  ASSUME DownloadInv, NEW a \in Artifact, EndRanges(a) PROVE DownloadInv'
<1>1. /\ result[a] = "ranges" /\ written[a] = Parts(a) /\ Finished(a)
      /\ UNCHANGED <<body, written, loop, generation, lies>>
  BY DEF EndRanges, bodyVars, urlVars
<1>2. /\ DownloadGood(a) /\ Size[a] \in Nat /\ Part \in Nat /\ Parts(a) \in Nat
  BY DownloadAssumption, PartsFacts DEF DownloadInv
<1>3. \A t \in Loop : Art(t) = a => loop[t].pc \in {"off", "end"}
  <2>1. \A t \in Range_(a) : t[2] <= Parts(a)
    BY <1>2 DEF Range_
  <2>2. \A t \in Range_(a) : loop[t].pc = "end"
    BY <1>1, <1>2, <2>1 DEF DownloadGood
  <2>3. loop[Stream(a)].pc \in {"off", "end"}
    BY <1>1, <1>2 DEF DownloadGood, Runs
  <2> QED
    BY <2>2, <2>3, LoopsOfArtifact
<1>4. lies = 0 => Verified(a)
  <2> SUFFICES ASSUME lies = 0 PROVE Verified(a)
    OBVIOUS
  <2>1. Ranged(a) /\ Len(body[a]) = Smaller(Parts(a) * Part, Size[a])
    BY <1>1, <1>2 DEF DownloadGood
  <2>2. Parts(a) * Part >= Size[a] /\ Parts(a) * Part \in Int
    BY <1>2, <2>1, PartsFacts
  <2>3. Smaller(Parts(a) * Part, Size[a]) = Size[a]
    BY <1>2, <2>2 DEF Smaller
  <2> QED
    BY <1>2, <2>1, <2>3, FullPrefix
<1>5. loop' \in [Loop -> LoopState] /\ generation' \in Nat /\ lies' \in Nat
  BY <1>1 DEF DownloadInv, LoopState
<1> QED
  BY <1>1, <1>3, <1>4, <1>5, FinishKeeps

\* The ranges are given up for one stream, which starts with nothing.
LEMMA IgnoredKeeps ==
  ASSUME DownloadInv, NEW a \in Artifact, RangeIgnored(a) PROVE DownloadInv'
<1>1. /\ result[a] = "ranges" /\ result' = [result EXCEPT ![a] = "stream"]
      /\ body' = [body EXCEPT ![a] = <<>>] /\ UNCHANGED <<written, generation, lies>>
      /\ loop' = [t \in Loop |-> IF t \in Range_(a) THEN At("end") ELSE loop[t]]
  BY DEF RangeIgnored, InRanges, Restarted
<1>2. At("end") \in LoopState /\ At("end").pc = "end"
  BY DEF At, LoopState
<1>3. /\ loop' \in [Loop -> LoopState]
      /\ \A t \in Range_(a) : loop'[t].pc = "end"
      /\ loop'[Stream(a)] = loop[Stream(a)]
      /\ \A t \in Loop : Art(t) # a => loop'[t] = loop[t]
  BY <1>1, <1>2, LoopsOfArtifact DEF DownloadInv, LoopState
<1>4. /\ body' \in [Artifact -> Seq(Nat)] /\ body'[a] = <<>>
      /\ result'[a] = "stream"
      /\ \A d \in Artifact \ {a} : body'[d] = body[d] /\ result'[d] = result[d]
  BY <1>1 DEF DownloadInv
<1>5. \A d \in Artifact \ {a} : DownloadGood(d)'
  BY <1>1, <1>3, <1>4, DownloadFrame DEF DownloadInv
<1>6. loop[Stream(a)].pc \in {"off", "end"} /\ Size[a] \in Nat
  BY <1>1, DownloadAssumption DEF DownloadInv, DownloadGood, Runs
<1>7. DownloadGood(a)'
  <2>1. Len(body'[a]) = 0 /\ 1..0 = {}
    BY <1>4
  <2>2. Stream(a)' = Stream(a) /\ Range_(a)' = Range_(a)
    BY DEF Stream, Range_, Parts, Ranged
  <2> QED
    BY <1>3, <1>4, <1>6, <2>1, <2>2 DEF DownloadGood, Runs
<1>8. \A t \in Loop : loop'[t].pc = "body" => IsStream(t)
  BY <1>1, <1>2 DEF DownloadInv
<1> QED
  BY <1>1, <1>3, <1>4, <1>5, <1>7, <1>8 DEF DownloadInv, LoopState, IsStream, Ends

\* The start of a download, and an answer of the cache.
LEMMA BeginKeeps ==
  ASSUME DownloadInv, NEW a \in Artifact, Begin(a) PROVE DownloadInv'
<1> DEFINE l == IF Ranged(a) THEN "ranges" ELSE "stream"
<1>1. /\ result[a] = "new" /\ result' = [result EXCEPT ![a] = l]
      /\ UNCHANGED <<body, written, loop, generation, lies>>
  BY DEF Begin, bodyVars, urlVars
<1>2. /\ DownloadGood(a) /\ Size[a] \in Nat /\ Part \in Nat \ {0} /\ Parts(a) \in Nat
  BY DownloadAssumption, PartsFacts DEF DownloadInv
<1>3. /\ body[a] = <<>> /\ written[a] = 0 /\ ~Runs(Stream(a)) /\ \A t \in Range_(a) : ~Runs(t) /\ t[2] > 0
  BY <1>1, <1>2 DEF DownloadGood, Range_
<1>4. result'[a] = l /\ \A d \in Artifact \ {a} : result'[d] = result[d]
  BY <1>1 DEF DownloadInv
<1>5. \A d \in Artifact \ {a} : DownloadGood(d)'
  BY <1>1, <1>4, DownloadFrame DEF DownloadInv
<1>6. DownloadGood(a)'
  <2>1. Len(body[a]) = 0 /\ 1..0 = {} /\ Smaller(written[a] * Part, Size[a]) = 0
    BY <1>2, <1>3 DEF Smaller
  <2>2. /\ Stream(a)' = Stream(a) /\ Range_(a)' = Range_(a) /\ Ranged(a)' = Ranged(a) /\ Parts(a)' = Parts(a)
        /\ Smaller(written[a] * Part, Size[a])' = Smaller(written[a] * Part, Size[a])
    BY <1>1 DEF Stream, Range_, Parts, Ranged, Smaller
  <2>3. \A t \in Range_(a) : ~(t[2] <= 0)
    BY <1>2, <1>3 DEF Range_
  <2>4. \A t : Runs(t)' = Runs(t)
    BY <1>1 DEF Runs
  <2>5. loop[Stream(a)].pc # "body"
    BY <1>3 DEF Runs
  <2> QED
    BY <1>1, <1>2, <1>3, <1>4, <2>1, <2>2, <2>3, <2>4, <2>5 DEF DownloadGood
<1> QED
  BY <1>1, <1>5, <1>6 DEF DownloadInv, Ends, IsStream

LEMMA HitKeeps ==
  ASSUME DownloadInv, NEW a \in Artifact, Hit(a) PROVE DownloadInv'
<1>1. /\ result[a] = "new" /\ result' = [result EXCEPT ![a] = "done"]
      /\ body' = [body EXCEPT ![a] = body[a] \o Whole(a)]
      /\ UNCHANGED <<written, loop, generation, lies>>
  BY DEF Hit, Written, urlVars
<1>2. /\ DownloadGood(a) /\ Size[a] \in Nat
  BY DownloadAssumption DEF DownloadInv
<1>3. /\ body[a] = <<>> /\ ~Runs(Stream(a)) /\ \A t \in Range_(a) : ~Runs(t)
  BY <1>1, <1>2 DEF DownloadGood
<1>4. /\ Whole(a) \in Seq(Nat) /\ Len(Whole(a)) = Size[a] /\ \A k \in 1..Size[a] : Whole(a)[k] = k
  BY <1>2 DEF Whole
<1>5. body[a] \o Whole(a) = Whole(a)
  BY <1>3, <1>4
<1>6. /\ result'[a] = "done" /\ body'[a] = Whole(a) /\ body' \in [Artifact -> Seq(Nat)]
      /\ \A d \in Artifact \ {a} : result'[d] = result[d] /\ body'[d] = body[d]
  BY <1>1, <1>4, <1>5 DEF DownloadInv
<1>7. \A d \in Artifact \ {a} : DownloadGood(d)'
  BY <1>1, <1>6, DownloadFrame DEF DownloadInv
<1>8. DownloadGood(a)'
  <2>1. Stream(a)' = Stream(a) /\ Range_(a)' = Range_(a) /\ Whole(a)' = Whole(a)
    BY DEF Stream, Range_, Parts, Ranged, Whole
  <2>2. \A t : Runs(t)' = Runs(t)
    BY <1>1 DEF Runs
  <2>3. loop[Stream(a)].pc # "body"
    BY <1>3 DEF Runs
  <2> QED
    BY <1>1, <1>2, <1>3, <1>4, <1>6, <2>1, <2>2, <2>3 DEF DownloadGood
<1> QED
  BY <1>1, <1>6, <1>7, <1>8 DEF DownloadInv, Ends, IsStream

\* The steps of one request loop.
LEMMA LoopStepKeeps ==
  ASSUME DownloadInv, NEW t \in Loop, LoopStep(t) PROVE DownloadInv'
<1>0. /\ generation \in Nat /\ lies \in Nat /\ lies + 1 \in Nat /\ lies + 1 # 0 /\ generation + 1 \in Nat
      /\ loop[t].attempt \in Nat /\ loop[t].attempt + 1 \in Nat /\ loop[t].seen \in Nat /\ loop[t].next \in Nat
      /\ Art(t) \in Artifact /\ body[Art(t)] \in Seq(Nat) /\ Len(body[Art(t)]) \in Nat /\ Size[Art(t)] \in Nat
  <2>1. loop[t].attempt \in Nat /\ loop[t].seen \in Nat /\ loop[t].next \in Nat
    BY LoopTyped
  <2>2. Art(t) \in Artifact
    BY LoopsOfArtifact
  <2>3. generation \in Nat /\ lies \in Nat /\ body[Art(t)] \in Seq(Nat) /\ Size[Art(t)] \in Nat
    BY <2>2, DownloadAssumption DEF DownloadInv
  <2> QED
    BY <2>1, <2>2, <2>3
<1>1. CASE StartLoop(t)
  <2>1. /\ loop[t].pc = "off" /\ result[Art(t)] = IF IsStream(t) THEN "stream" ELSE "ranges"
        /\ Becomes(t, "send", 1, generation, 0) /\ UNCHANGED <<result, body, written, generation, lies>>
    BY <1>1 DEF StartLoop, bodyVars, urlVars
  <2>2. /\ loop' \in [Loop -> LoopState] /\ \A u \in Loop \ {t} : loop'[u] = loop[u]
        /\ loop'[t].pc = "send"
    BY <1>0, <2>1, BecomesTyped
  <2> QED
    BY <1>0, <2>1, <2>2, LoopMoves
<1>2. CASE Break(t)
  <2>1. /\ IsStream(t) /\ Runs(t) /\ Len(body[Art(t)]) = Size[Art(t)]
        /\ Return(t, "end") /\ Finished(Art(t)) /\ UNCHANGED <<body, written, generation, lies>>
    BY <1>2 DEF Break, AllHere, Runs, bodyVars, urlVars
  <2> QED
    BY <1>0, <2>1, StreamEnds
<1>3. CASE EndOfBody(t)
  <2>1. /\ loop[t].pc = "body" /\ Return(t, "end") /\ Finished(Art(t)) /\ UNCHANGED <<body, written, generation>>
        /\ \/ loop[t].next > Size[Art(t)] /\ lies' = lies
           \/ lies' = lies + 1
    BY <1>3 DEF EndOfBody, bodyVars, urlVars
  <2>2. IsStream(t) /\ Runs(t)
    BY <2>1 DEF DownloadInv, Runs
  <2>3. t = Stream(Art(t))
    BY <2>2, LoopsOfArtifact
  <2>4. lies = 0 => loop[t].next = Len(body[Art(t)]) + 1
    BY <1>0, <2>1, <2>3 DEF DownloadInv, DownloadGood
  <2>5. lies' \in Nat /\ (lies' = 0 => lies = 0 /\ Len(body[Art(t)]) >= Size[Art(t)])
    BY <1>0, <2>1, <2>4
  <2> QED
    BY <1>0, <2>1, <2>2, <2>5, StreamEnds
<1>4. CASE Unavailable(t)
  <2>1. Runs(t) /\ Retry(t) /\ UNCHANGED <<body, written, generation, lies>>
    BY <1>4 DEF Unavailable, Asks, Runs, bodyVars
  <2> QED
    BY <1>0, <2>1, RetryKeeps
<1>5. CASE Cut(t)
  <2>1. Runs(t) /\ Retry(t) /\ UNCHANGED <<body, written, generation, lies>>
    BY <1>5 DEF Cut, Runs, bodyVars
  <2> QED
    BY <1>0, <2>1, RetryKeeps
<1>6. CASE Expired(t)
  <2>1. Runs(t) /\ UNCHANGED <<body, written, generation, lies>>
    BY <1>6 DEF Expired, Asks, Runs, bodyVars
  <2>2. CASE loop[t].attempt < FETCH_MAX_ATTEMPTS
    <3>1. result' = result /\ Becomes(t, "lock", loop[t].attempt + 1, loop[t].seen, loop[t].next)
      BY <1>6, <2>2 DEF Expired, TryNext
    <3>2. /\ loop' \in [Loop -> LoopState] /\ \A u \in Loop \ {t} : loop'[u] = loop[u]
          /\ loop'[t].pc = "lock"
      BY <1>0, <3>1, BecomesTyped
    <3> QED
      BY <1>0, <2>1, <3>1, <3>2, RunningLoop, LoopMoves
  <2>3. CASE ~(loop[t].attempt < FETCH_MAX_ATTEMPTS)
    BY <1>0, <1>6, <2>1, <2>3, PermanentKeeps DEF Expired
  <2> QED
    BY <2>2, <2>3
<1>7. CASE Rejected(t)
  <2>1. /\ Runs(t) /\ Permanent(t) /\ UNCHANGED <<body, written, generation>>
        /\ lies' = lies \/ lies' = lies + 1
    BY <1>7 DEF Rejected, Asks, Runs, bodyVars
  <2> QED
    BY <1>0, <2>1, PermanentKeeps
<1>8. CASE Answered(t)
  BY <1>8, AnsweredKeeps
<1>9. CASE AnsweredRange(t)
  <2>1. Runs(t) /\ UNCHANGED <<result, body, written, generation, lies>>
    BY <1>9 DEF AnsweredRange, Asks, Runs, bodyVars, urlVars
  <2>2. CASE IsStream(t)
    <3>1. Becomes(t, "body", loop[t].attempt, loop[t].seen, Len(body[Art(t)]) + 1)
      BY <1>9, <2>2 DEF AnsweredRange, ReadFrom, Offset
    <3>2. /\ loop' \in [Loop -> LoopState] /\ \A u \in Loop \ {t} : loop'[u] = loop[u]
          /\ loop'[t].next = Len(body[Art(t)]) + 1
      BY <1>0, <3>1, BecomesTyped, Len(body[Art(t)]) + 1 \in Nat
    <3> QED
      BY <1>0, <2>1, <2>2, <3>2, RunningLoop, LoopMoves
  <2>3. CASE ~IsStream(t)
    <3>1. Becomes(t, "fetched", 0, 0, 0)
      BY <1>9, <2>3 DEF AnsweredRange, Return, Becomes, At
    <3>2. /\ loop' \in [Loop -> LoopState] /\ \A u \in Loop \ {t} : loop'[u] = loop[u]
          /\ loop'[t].pc = "fetched"
      BY <3>1, BecomesTyped
    <3> QED
      BY <1>0, <2>1, <3>2, RunningLoop, LoopMoves
  <2> QED
    BY <2>2, <2>3
<1>10. CASE Chunk(t)
  BY <1>10, ChunkKeeps
<1>11. CASE TakeLock(t)
  <2>1. Runs(t) /\ UNCHANGED <<result, body, written, generation, lies>>
    BY <1>11 DEF TakeLock, Runs, bodyVars
  <2>2. \E l \in {"send", "refresh"} : \E n \in Nat : Becomes(t, l, loop[t].attempt, n, loop[t].next)
    <3>1. CASE generation > loop[t].seen
      BY <1>0, <1>11, <3>1 DEF TakeLock, SendWith
    <3>2. CASE ~(generation > loop[t].seen)
      <4>1. loop' = [loop EXCEPT ![t].pc = "refresh"]
        BY <1>11, <3>2 DEF TakeLock, Goto
      <4>2. loop[t] \in LoopState
        BY DEF DownloadInv, LoopState
      <4>3. [loop[t] EXCEPT !.pc = "refresh"] =
              [pc |-> "refresh", attempt |-> loop[t].attempt, seen |-> loop[t].seen, next |-> loop[t].next]
        BY <4>2 DEF LoopState
      <4>4. Becomes(t, "refresh", loop[t].attempt, loop[t].seen, loop[t].next)
        BY <4>1, <4>3 DEF Becomes
      <4> QED
        BY <1>0, <4>4
    <3> QED
      BY <3>1, <3>2
  <2>3. /\ loop' \in [Loop -> LoopState] /\ \A u \in Loop \ {t} : loop'[u] = loop[u]
        /\ loop'[t].pc # "body"
    BY <1>0, <2>2, BecomesTyped
  <2> QED
    BY <1>0, <2>1, <2>3, RunningLoop, LoopMoves
<1>12. CASE Refreshed(t)
  <2>1. /\ Runs(t) /\ UNCHANGED <<result, body, written, lies>> /\ generation' = generation + 1
        /\ Becomes(t, "send", loop[t].attempt, generation + 1, loop[t].next)
    BY <1>12 DEF Refreshed, Runs, bodyVars, SendWith
  <2>2. /\ loop' \in [Loop -> LoopState] /\ \A u \in Loop \ {t} : loop'[u] = loop[u]
        /\ loop'[t].pc = "send"
    BY <1>0, <2>1, BecomesTyped
  <2> QED
    BY <1>0, <2>1, <2>2, RunningLoop, LoopMoves
<1>13. CASE RefreshFails(t)
  <2>1. Runs(t) /\ UNCHANGED <<body, written, generation, lies>>
    BY <1>13 DEF RefreshFails, Runs, bodyVars
  <2>2. CASE IsStream(t)
    <3>1. FailDownload(Art(t))
      BY <1>13, <2>2 DEF RefreshFails
    <3>2. Permanent(t)
      BY <2>2, <3>1 DEF Permanent
    <3> QED
      BY <1>0, <2>1, <3>2, PermanentKeeps
  <2>3. CASE ~IsStream(t)
    <3>1. result' = result /\ Becomes(t, "failed", 0, 0, 0)
      BY <1>13, <2>3 DEF RefreshFails, Return, Becomes, At
    <3>2. /\ loop' \in [Loop -> LoopState] /\ \A u \in Loop \ {t} : loop'[u] = loop[u]
          /\ loop'[t].pc = "failed"
      BY <3>1, BecomesTyped
    <3> QED
      BY <1>0, <2>1, <3>1, <3>2, RunningLoop, LoopMoves
  <2> QED
    BY <2>2, <2>3
<1> QED
  BY <1>1, <1>2, <1>3, <1>4, <1>5, <1>6, <1>7, <1>8, <1>9, <1>10, <1>11, <1>12, <1>13 DEF LoopStep

\* The steps of one download.
LEMMA DownloadStepKeeps ==
  ASSUME DownloadInv, NEW a \in Artifact, DownloadStep(a) PROVE DownloadInv'
<1>1. CASE RangeFails(a)
  <2>1. FailDownload(a) /\ UNCHANGED <<body, written, generation, lies>>
    BY <1>1 DEF RangeFails, bodyVars
  <2>2. /\ body[a] \in Seq(Nat) /\ body' = [body EXCEPT ![a] = body[a]]
        /\ lies' = 0 => Len(body[a]) <= Size[a] /\ \A k \in 1..Len(body[a]) : body[a][k] = k
    BY <2>1 DEF DownloadInv, DownloadGood
  <2>3. generation' \in Nat /\ lies' \in Nat
    BY <2>1 DEF DownloadInv
  <2> QED
    BY <2>1, <2>2, <2>3, FailKeeps
<1> QED
  BY <1>1, HitKeeps, BeginKeeps, WriteKeeps, EndRangesKeeps, IgnoredKeeps DEF DownloadStep

LEMMA DownloadInit_ == Init => DownloadInv
<1> SUFFICES ASSUME Init PROVE DownloadInv
  OBVIOUS
<1>1. At("off") \in LoopState /\ At("off").pc = "off"
  BY DEF At, LoopState
<1>2. loop \in [Loop -> LoopState] /\ \A t \in Loop : loop[t].pc = "off"
  BY <1>1 DEF Init
<1>3. ASSUME NEW a \in Artifact PROVE DownloadGood(a)
  <2>1. result[a] = "new" /\ body[a] = <<>> /\ written[a] = 0 /\ Size[a] \in Nat
    BY DownloadAssumption DEF Init
  <2>2. loop[Stream(a)].pc = "off" /\ \A t \in Range_(a) : loop[t].pc = "off"
    BY <1>2, LoopsOfArtifact
  <2>3. Len(body[a]) = 0 /\ 1..0 = {}
    BY <2>1
  <2> QED
    BY <2>1, <2>2, <2>3 DEF DownloadGood, Runs
<1> QED
  BY <1>2, <1>3 DEF Init, DownloadInv, LoopState

LEMMA DownloadKeeps == DownloadInv /\ [Next]_dlVars => DownloadInv'
<1> SUFFICES ASSUME DownloadInv, [Next]_dlVars PROVE DownloadInv'
  OBVIOUS
<1>1. CASE Expire \/ UNCHANGED dlVars
  <2>1. UNCHANGED <<result, body, written, loop, generation, lies>>
    BY <1>1 DEF Expire, dlVars, bodyVars
  <2>2. \A a \in Artifact : DownloadGood(a)'
    BY <2>1, DownloadFrame DEF DownloadInv
  <2> QED
    BY <2>1, <2>2 DEF DownloadInv, IsStream
<1> QED
  BY <1>1, LoopStepKeeps, DownloadStepKeeps DEF Next

\* What a download returns is the artifact, and unless the server lied no body
\* that was resumed, restarted or put together of ranges is refused: for any
\* artifacts, sizes, part size, width and number of tries.
THEOREM DownloadsAreRight == Spec => []NothingWrongIsUsed
<1>1. DownloadInv => NothingWrongIsUsed
  BY DEF DownloadInv, DownloadGood, NothingWrongIsUsed
<1> QED
  BY <1>1, DownloadInit_, DownloadKeeps, PTL DEF Spec

-----------------------------------------------------------------------------
(* ArchiveExtract: sequences and sets.                                      *)

\* Every non-empty set of naturals has a least element.
LEMMA LeastNatural ==
  ASSUME NEW S, S \subseteq Nat, S # {}
  PROVE  \E m \in S : \A n \in S : m <= n
<1> DEFINE R == OpToRel(<, Nat)
<1>1. \E m \in S : \A n \in S : <<n, m>> \notin R  BY NatLessThanWellFounded, WFMin
<1>2. \A m, n \in Nat : <<n, m>> \notin R => m <= n  BY DEF OpToRel
<1> QED  BY <1>1, <1>2

\* A fetcher sends a frame of the chunk it cuts.
LEMMA FirstIsIn ==
  ASSUME NEW S \in SUBSET Nat, S # {}
  PROVE  First(S) \in S
BY LeastNatural DEF First

\* A writer reads a fragment of those it has to do.
LEMMA NextPairIsIn ==
  ASSUME NEW S \in SUBSET (File \X Nat), S # {}
  PROVE  NextPair(S) \in S
<1> DEFINE firsts == {p[1] : p \in S}
<1>0. File \subseteq Nat  BY ExtractAssumption DEF File
<1>1. firsts \subseteq Nat /\ firsts # {}  BY <1>0
<1>2. PICK f \in firsts : \A g \in firsts : f <= g  BY <1>1, LeastNatural
<1> DEFINE seconds == {i \in Nat : <<f, i>> \in S}
<1>3. seconds \subseteq Nat /\ seconds # {}  BY <1>2
<1>4. PICK i \in seconds : \A j \in seconds : i <= j  BY <1>3, LeastNatural
<1>5. ASSUME NEW q \in S PROVE f < q[1] \/ (f = q[1] /\ i <= q[2])
  <2>0. q \in File \X Nat  BY <1>5
  <2>1. q[1] \in firsts /\ q[1] \in Nat /\ q[2] \in Nat /\ q = <<q[1], q[2]>>
    <3>1. q[1] \in File /\ q[2] \in Nat /\ q = <<q[1], q[2]>>  BY <2>0
    <3>2. q[1] \in firsts  BY <1>5
    <3> QED  BY <1>0, <3>1, <3>2
  <2>2. f <= q[1] /\ f \in Nat  BY <1>1, <1>2, <2>1
  <2>3. f = q[1] => q[2] \in seconds  BY <2>1
  <2> QED  BY <1>4, <2>1, <2>2, <2>3
<1>6. <<f, i>> \in S  BY <1>4
<1> HIDE DEF firsts, seconds
<1>7. \E p \in S : \A q \in S : p[1] < q[1] \/ (p[1] = q[1] /\ p[2] <= q[2])
  <2> DEFINE p == <<f, i>>
  <2>1. p \in S /\ p[1] = f /\ p[2] = i  BY <1>6
  <2> QED  BY <1>5, <2>1
<1> QED  BY <1>7 DEF NextPair

\* What a channel holds after a send.
LEMMA AppendHolds ==
  ASSUME NEW S, NEW q \in Seq(S), NEW x \in S
  PROVE  /\ Append(q, x) \in Seq(S)
         /\ Items(Append(q, x)) = Items(q) \cup {x}
         /\ Once(q) /\ x \notin Items(q) => Once(Append(q, x))
<1>1. /\ Append(q, x) \in Seq(S) /\ Len(q) \in Nat
      /\ DOMAIN q = 1..Len(q) /\ DOMAIN Append(q, x) = 1..(Len(q) + 1)
      /\ \A n \in 1..Len(q) : Append(q, x)[n] = q[n]
      /\ Append(q, x)[Len(q) + 1] = x
  OBVIOUS
<1> DEFINE r == Append(q, x)
<1> HIDE DEF r
<1>2. Items(r) = Items(q) \cup {x}
  <2>1. ASSUME NEW y \in Items(r) PROVE y \in Items(q) \cup {x}
    <3> PICK n \in DOMAIN r : y = r[n]  BY DEF Items
    <3>1. n \in 1..(Len(q) + 1)  BY <1>1 DEF r
    <3>2. CASE n = Len(q) + 1  BY <1>1, <3>2 DEF r
    <3>3. CASE n \in 1..Len(q)  BY <1>1, <3>3 DEF r, Items
    <3> QED  BY <1>1, <3>1, <3>2, <3>3
  <2>2. ASSUME NEW y \in Items(q) PROVE y \in Items(r)
    <3> PICK n \in DOMAIN q : y = q[n]  BY DEF Items
    <3>1. n \in DOMAIN r /\ r[n] = y  BY <1>1 DEF r
    <3> QED  BY <3>1 DEF Items
  <2>3. x \in Items(r)
    <3>1. Len(q) + 1 \in DOMAIN r /\ r[Len(q) + 1] = x  BY <1>1 DEF r
    <3> QED  BY <3>1 DEF Items
  <2> QED  BY <2>1, <2>2, <2>3
<1>3. ASSUME Once(q), x \notin Items(q) PROVE Once(r)
  <2> SUFFICES ASSUME NEW m \in DOMAIN r, NEW n \in DOMAIN r, r[m] = r[n] PROVE m = n
    BY DEF Once
  <2>1. m \in 1..(Len(q) + 1) /\ n \in 1..(Len(q) + 1)  BY <1>1 DEF r
  <2>2. \A k \in 1..Len(q) : r[k] \in Items(q) /\ r[k] = q[k]  BY <1>1 DEF r, Items
  <2>3. r[Len(q) + 1] = x  BY <1>1 DEF r
  <2>4. CASE m \in 1..Len(q) /\ n \in 1..Len(q)  BY <1>1, <1>3, <2>2, <2>4 DEF Once
  <2> QED  BY <1>1, <1>3, <2>1, <2>2, <2>3, <2>4
<1> QED  BY <1>1, <1>2, <1>3 DEF r

\* What a channel holds after a receive.
LEMMA TailHolds ==
  ASSUME NEW S, NEW q \in Seq(S), q # <<>>
  PROVE  /\ Head(q) \in S /\ Tail(q) \in Seq(S)
         /\ Items(q) = Items(Tail(q)) \cup {Head(q)}
         /\ Once(q) => Once(Tail(q)) /\ Head(q) \notin Items(Tail(q))
<1> DEFINE r == Tail(q)
<1>1. /\ r \in Seq(S) /\ Len(q) \in Nat /\ Len(q) > 0
      /\ DOMAIN q = 1..Len(q) /\ DOMAIN r = 1..(Len(q) - 1)
      /\ \A n \in 1..(Len(q) - 1) : r[n] = q[n + 1]
      /\ Head(q) = q[1] /\ Head(q) \in S
  OBVIOUS
<1> HIDE DEF r
<1>2. Items(q) = Items(r) \cup {Head(q)}
  <2>1. ASSUME NEW y \in Items(q) PROVE y \in Items(r) \cup {Head(q)}
    <3> PICK n \in DOMAIN q : y = q[n]  BY DEF Items
    <3>1. n # 1 => n - 1 \in DOMAIN r /\ r[n - 1] = y  BY <1>1
    <3> QED  BY <1>1, <3>1 DEF Items
  <2>2. ASSUME NEW y \in Items(r) PROVE y \in Items(q)
    <3> PICK n \in DOMAIN r : y = r[n]  BY DEF Items
    <3>1. n + 1 \in DOMAIN q /\ q[n + 1] = y  BY <1>1
    <3> QED  BY <3>1 DEF Items
  <2>3. Head(q) \in Items(q)
    <3>1. 1 \in DOMAIN q /\ q[1] = Head(q)  BY <1>1
    <3> QED  BY <3>1 DEF Items
  <2> QED  BY <2>1, <2>2, <2>3
<1>3. ASSUME Once(q) PROVE Once(r) /\ Head(q) \notin Items(r)
  <2>1. Once(r)
    <3> SUFFICES ASSUME NEW m \in DOMAIN r, NEW n \in DOMAIN r, r[m] = r[n] PROVE m = n
      BY DEF Once
    <3>1. m + 1 \in DOMAIN q /\ n + 1 \in DOMAIN q /\ q[m + 1] = q[n + 1] /\ m \in Nat /\ n \in Nat
      BY <1>1
    <3>2. m + 1 = n + 1  BY <1>3, <3>1 DEF Once
    <3> QED  BY <3>1, <3>2
  <2>2. ASSUME Head(q) \in Items(r) PROVE FALSE
    <3> PICK n \in DOMAIN r : Head(q) = r[n]  BY <2>2 DEF Items
    <3>1. n + 1 \in DOMAIN q /\ 1 \in DOMAIN q /\ q[n + 1] = q[1] /\ n \in Nat /\ n > 0  BY <1>1
    <3>2. n + 1 = 1  BY <1>3, <3>1 DEF Once
    <3> QED  BY <3>1, <3>2
  <2> QED  BY <2>1, <2>2
<1> QED  BY <1>1, <1>2, <1>3 DEF r

\* A batch without repetitions has as many files as entries.
LEMMA ItemsCount ==
  ASSUME NEW S, NEW q \in Seq(S), Once(q)
  PROVE  IsFiniteSet(Items(q)) /\ Cardinality(Items(q)) = Len(q)
<1>1. Len(q) \in Nat /\ DOMAIN q = 1..Len(q) /\ q \in [1..Len(q) -> S]  OBVIOUS
<1>2. q \in [1..Len(q) -> Items(q)]  BY <1>1 DEF Items
<1>3. q \in Bijection(1..Len(q), Items(q))
  BY <1>1, <1>2 DEF Bijection, Injection, IsInjective, Surjection, Once, Items
<1>4. ExistsBijection(1..Len(q), Items(q))  BY <1>3 DEF ExistsBijection
<1> QED  BY <1>1, <1>4, FS_CountingElements, FS_NatBijection

\* The empty channel.
LEMMA EmptyHolds == Items(<<>>) = {} /\ Once(<<>>)
BY DEF Items, Once

\* The frames of the archive are numbered and counted.
LEMMA FramesAre ==
  /\ Frame \subseteq Nat /\ 0 \notin Frame
  /\ IsFiniteSet(Frame) /\ Cardinality(Frame) = Len(ChunkOf)
<1>1. Frame = 1..Len(ChunkOf) /\ Len(ChunkOf) \in Nat  BY ExtractAssumption DEF Frame
<1>2. IsFiniteSet(1..Len(ChunkOf)) /\ Cardinality(1..Len(ChunkOf)) = Len(ChunkOf)
  <2>1. Len(ChunkOf) \in Int /\ 1 \in Int  BY <1>1
  <2>2. IsFiniteSet(1..Len(ChunkOf))
        /\ Cardinality(1..Len(ChunkOf)) = IF 1 > Len(ChunkOf) THEN 0 ELSE Len(ChunkOf) - 1 + 1
    BY ONLY <2>1, FS_Interval
  <2> QED  BY <1>1, <2>2
<1> QED  BY <1>1, <1>2

\* The chunks are numbered from 1.
LEMMA ChunksAre ==
  /\ ArchiveChunk \subseteq Nat /\ 0 \notin ArchiveChunk
  /\ \A c \in ArchiveChunk, n \in Nat \ {0} : n <= c => n \in ArchiveChunk
<1> DEFINE m == Cardinality(ArchiveChunk)
<1>0. ArchiveChunk = 1..m  BY ExtractAssumption
<1>1. IsFiniteSet(ArchiveChunk)
  <2>1. ChunkOf \in Surjection(Frame, ArchiveChunk)
    BY ExtractAssumption DEF Surjection, Frame, ArchiveChunk
  <2> QED  BY <2>1, FramesAre, FS_Surjection
<1>2. m \in Nat  BY <1>1, FS_CardinalityType
<1> HIDE DEF m
<1> QED  BY <1>0, <1>2

\* The files table is finite.
LEMMA FilesAreFinite == IsFiniteSet(File) /\ Cardinality(File) \in Nat
<1>1. File = 1..Len(Frags) /\ Len(Frags) \in Int /\ 1 \in Int  BY ExtractAssumption DEF File
<1>2. IsFiniteSet(1..Len(Frags))  BY ONLY <1>1, FS_Interval
<1> QED  BY <1>1, <1>2, FS_CardinalityType

\* Every file has fragments.
LEMMA FragsAre ==
  \A f \in File : /\ Len(Frags[f]) \in Nat \ {0} /\ DOMAIN Frags[f] = 1..Len(Frags[f])
                  /\ \A i \in DOMAIN Frags[f] : Frags[f][i] \in Frame
<1>1. \A f \in File : Frags[f] \in Seq(Frame) /\ Frags[f] # <<>>  BY ExtractAssumption DEF File
<1> QED  BY <1>1

\* A file of several fragments is not a file of one.
LEMMA FragsAreMore == \A f \in File : Len(Frags[f]) > 1 => Len(Frags[f]) # 1
<1>1. \A n \in Nat : n > 1 => n # 1  OBVIOUS
<1>2. \A f \in File : Len(Frags[f]) \in Nat  BY FragsAre
<1> QED  BY <1>1, <1>2, Zenon

\* The fragments in a frame.
LEMMA PairsAre ==
  ASSUME NEW k
  PROVE  /\ Pairs(k) \subseteq File \X Nat
         /\ \A f \in File : \A i : <<f, i>> \in Pairs(k) <=> i \in DOMAIN Frags[f] /\ Frags[f][i] = k
         /\ \A p \in Pairs(k) : /\ p = <<p[1], p[2]>> /\ p[1] \in File
                                /\ p[2] \in DOMAIN Frags[p[1]] /\ Frags[p[1]][p[2]] = k
<1>1. \A f \in File : Frags[f] \in Seq(Frame) /\ DOMAIN Frags[f] \subseteq Nat
  BY ExtractAssumption DEF File
<1> QED  BY <1>1 DEF Pairs

-----------------------------------------------------------------------------
(* ArchiveExtract: chunks and frames on their way to the writers.           *)

\* A step of the pipeline takes no frame from the writers that it does not
\* lose, and loses none without a trouble.
Feeds ==
  /\ Untaken' \subseteq Untaken
  /\ troubles' = 0 => Untaken' = Untaken

\* Frames stay apart when chunks only move, or are dropped.
LEMMA ChunksKeepFrames ==
  ASSUME FramesApart, ChunksLeft' \subseteq ChunksLeft, UNCHANGED <<cutting, frameq>>
  PROVE  /\ FramesApart' /\ Untaken' \subseteq Untaken
         /\ ChunksLeft' = ChunksLeft => Untaken' = Untaken
<1>1. Fresh' \subseteq Fresh /\ (ChunksLeft' = ChunksLeft => Fresh' = Fresh)  BY DEF Fresh
<1>2. BeingCut' = BeingCut  BY DEF BeingCut
<1> QED  BY <1>1, <1>2 DEF FramesApart, Untaken

\* The downloads are dropped with what they hold.
LEMMA StoppedKeeps ==
  ASSUME PipeTypes, PipeInv, downloads' = Stopped \/ downloads' = [Stopped EXCEPT !.state = "failed"],
         UNCHANGED <<asyncq, bridge, chunkq, cutting, frameq>>
  PROVE  /\ downloads' \in Downloads
         /\ downloads'.busy = {} /\ downloads'.held = {}
         /\ ChunksApart' /\ FramesApart' /\ Untaken' \subseteq Untaken
<1>1. /\ downloads'.state \in {"waiting", "running", "ok", "failed"}
      /\ downloads'.next = downloads.next /\ downloads'.busy = {} /\ downloads'.held = {}
      /\ downloads' \in Downloads
  BY DEF PipeTypes, Downloads, Stopped, DownloadsOver
<1>2. Coming' = Coming /\ Bridged' = Bridged  BY <1>1 DEF Coming, Bridged
<1>3. ChunksApart' /\ ChunksLeft' \subseteq ChunksLeft
  BY <1>1, <1>2 DEF PipeInv, ChunksApart, ChunksLeft
<1> QED  BY <1>1, <1>3, ChunksKeepFrames DEF PipeInv

\* The manifest comes in, or fails the clone.
LEMMA ManifestHerePipe ==
  ASSUME PipeTypes, PipeInv, ManifestHere
  PROVE  PipeTypes' /\ PipeInv' /\ Feeds
<1>1. CASE manifest' = "here" /\ UNCHANGED <<clone, downloads, troubles>>
  <2>1. ChunksApart' /\ ChunksLeft' = ChunksLeft
    BY <1>1 DEF ManifestHere, PipeInv, ChunksApart, ChunksLeft, Coming, Bridged
  <2>2. FramesApart' /\ Feeds  BY <2>1, ChunksKeepFrames DEF ManifestHere, PipeInv, Feeds
  <2>3. troubles' = 0 => Undisturbed'
    BY <1>1 DEF ManifestHere, PipeInv, Undisturbed, Coming, DownloadsOver
  <2>4. PipeTypes'  BY <1>1 DEF ManifestHere, PipeTypes
  <2> QED  BY <1>1, <2>1, <2>2, <2>3, <2>4 DEF PipeInv
<1>2. CASE Trouble /\ manifest' = "failed" /\ FailClone
  <2>1. downloads' = Stopped /\ UNCHANGED <<asyncq, bridge, chunkq, cutting, frameq>>
    BY <1>2 DEF ManifestHere, FailClone
  <2>2. troubles' # 0 /\ troubles' \in Nat  BY <1>2 DEF Trouble, PipeTypes
  <2>3. PipeTypes'  BY <1>2, <2>1, <2>2, StoppedKeeps DEF ManifestHere, PipeTypes, FailClone
  <2> QED  BY <2>1, <2>2, <2>3, StoppedKeeps DEF PipeInv, Feeds
<1> QED  BY <1>1, <1>2 DEF ManifestHere

\* The extractor starts, or the clone fails before it.
LEMMA StartExtractorPipe ==
  ASSUME PipeTypes, PipeInv, StartExtractor
  PROVE  PipeTypes' /\ PipeInv' /\ Feeds
<1>1. CASE clone' = "downloads" /\ extractor' = "preparing" /\ UNCHANGED <<downloads, troubles>>
  <2>1. ChunksApart' /\ ChunksLeft' = ChunksLeft
    BY <1>1 DEF StartExtractor, PipeInv, ChunksApart, ChunksLeft, Coming, Bridged
  <2>2. FramesApart' /\ Feeds  BY <2>1, ChunksKeepFrames DEF StartExtractor, PipeInv, Feeds
  <2>3. troubles' = 0 => Undisturbed'
    BY <1>1 DEF StartExtractor, PipeInv, Undisturbed, Coming, DownloadsOver
  <2>4. PipeTypes'  BY <1>1 DEF StartExtractor, PipeTypes
  <2> QED  BY <1>1, <2>1, <2>2, <2>3, <2>4 DEF PipeInv
<1>2. CASE Trouble /\ FailClone /\ UNCHANGED extractor
  <2>1. downloads' = Stopped /\ UNCHANGED <<asyncq, bridge, chunkq, cutting, frameq>>
    BY <1>2 DEF StartExtractor, FailClone
  <2>2. troubles' # 0 /\ troubles' \in Nat  BY <1>2 DEF Trouble, PipeTypes
  <2>3. PipeTypes'  BY <1>2, <2>1, <2>2, StoppedKeeps DEF StartExtractor, PipeTypes, FailClone
  <2> QED  BY <2>1, <2>2, <2>3, StoppedKeeps DEF PipeInv, Feeds
<1> QED  BY <1>1, <1>2 DEF StartExtractor

\* The clone is dropped.
LEMMA CancelClonePipe ==
  ASSUME PipeTypes, PipeInv, CancelClone
  PROVE  PipeTypes' /\ PipeInv' /\ Feeds
<1>1. downloads' = Stopped /\ UNCHANGED <<asyncq, bridge, chunkq, cutting, frameq>>
  BY DEF CancelClone, FailClone
<1>2. troubles' # 0 /\ troubles' \in Nat  BY DEF CancelClone, Trouble, PipeTypes
<1>3. PipeTypes'  BY <1>1, <1>2, StoppedKeeps DEF CancelClone, PipeTypes, FailClone
<1> QED  BY <1>1, <1>2, <1>3, StoppedKeeps DEF PipeInv, Feeds

\* The clone goes on to the next join.
LEMMA JoinNextPipe ==
  ASSUME PipeTypes, PipeInv, JoinNext
  PROVE  PipeTypes' /\ PipeInv' /\ Feeds
<1>0. PipeTypes'  BY DEF JoinNext, PipeTypes
<1>1. ChunksApart' /\ ChunksLeft' = ChunksLeft
  BY DEF JoinNext, PipeInv, ChunksApart, ChunksLeft, Coming, Bridged
<1>2. FramesApart' /\ Feeds  BY <1>1, ChunksKeepFrames DEF JoinNext, PipeInv, Feeds
<1>3. troubles' = 0 => Undisturbed'
  BY DEF JoinNext, PipeInv, Undisturbed, Coming, DownloadsOver
<1>4. (downloads.state # "running" => downloads.busy = {} /\ downloads.held = {})'
  BY DEF JoinNext, PipeInv
<1> QED  BY <1>0, <1>1, <1>2, <1>3, <1>4 DEF PipeInv

\* The downloads begin, or there is nothing to download.
LEMMA BeginDownloadsPipe ==
  ASSUME PipeTypes, PipeInv, BeginDownloads
  PROVE  PipeTypes' /\ PipeInv' /\ Feeds
<1>1. /\ downloads'.state = IF manifest = "here" /\ ArchiveChunk # {} THEN "running" ELSE "ok"
      /\ downloads'.next = downloads.next /\ downloads'.busy = downloads.busy
      /\ downloads'.held = downloads.held /\ downloads.busy = {} /\ downloads.held = {}
      /\ downloads' \in Downloads
  BY DEF BeginDownloads, PipeTypes, Downloads, PipeInv
<1>0. PipeTypes'  BY <1>1 DEF BeginDownloads, PipeTypes
<1>2. Coming' = Coming /\ Bridged' = Bridged  BY <1>1 DEF BeginDownloads, Coming, Bridged
<1>3. ChunksApart' /\ ChunksLeft' = ChunksLeft
  BY <1>1, <1>2 DEF BeginDownloads, PipeInv, ChunksApart, ChunksLeft
<1>4. FramesApart' /\ Feeds  BY <1>3, ChunksKeepFrames DEF BeginDownloads, PipeInv, Feeds
<1>5. ASSUME troubles' = 0 PROVE Undisturbed'
  <2>1. Undisturbed /\ troubles = 0  BY <1>5 DEF BeginDownloads, PipeInv
  <2>2. manifest = "here"  BY <2>1 DEF BeginDownloads, Undisturbed, PipeTypes
  <2>3. downloads'.state = "ok" => Coming' = {}  BY <1>1, <1>2, <2>2 DEF Coming
  <2>4. DownloadsOver => DownloadsOver'  BY DEF BeginDownloads, DownloadsOver
  <2> QED  BY <1>1, <2>1, <2>3, <2>4 DEF BeginDownloads, Undisturbed
<1>6. (downloads.state # "running" => downloads.busy = {} /\ downloads.held = {})'
  BY <1>1
<1> QED  BY <1>0, <1>3, <1>4, <1>5, <1>6 DEF PipeInv

\* A download begins, ends or fails.
LEMMA DownloadChunkPipe ==
  ASSUME PipeTypes, PipeInv, DownloadChunk
  PROVE  PipeTypes' /\ PipeInv' /\ Feeds
<1>1. CASE /\ downloads.next \in ArchiveChunk
           /\ downloads' = [downloads EXCEPT !.busy = @ \cup {downloads.next}, !.next = @ + 1]
           /\ UNCHANGED troubles
  <2>1. /\ downloads'.state = "running" /\ downloads'.next = downloads.next + 1
        /\ downloads'.busy = downloads.busy \cup {downloads.next}
        /\ downloads'.held = downloads.held /\ downloads.next \in Nat \ {0} /\ downloads' \in Downloads
    <3>1. downloads \in Downloads /\ downloads.state = "running"  BY DEF DownloadChunk, PipeTypes
    <3>2. downloads.next + 1 \in Nat \ {0} /\ downloads.next \in Nat \ {0}  BY <3>1 DEF Downloads
    <3>3. downloads.busy \cup {downloads.next} \in SUBSET ArchiveChunk  BY <1>1, <3>1 DEF Downloads
    <3> QED  BY <1>1, <3>1, <3>2, <3>3 DEF Downloads
  <2>2. Coming = Coming' \cup {downloads.next} /\ downloads.next \notin Coming'
    BY <1>1, <2>1, ChunksAre DEF Coming
  <2>3. Bridged' = Bridged  BY DEF DownloadChunk, Bridged
  <2>4. ChunksApart' /\ ChunksLeft' = ChunksLeft
    <3>1. UNCHANGED <<asyncq, chunkq>> /\ ChunksApart  BY DEF DownloadChunk, PipeInv
    <3> QED  BY <2>1, <2>2, <2>3, <3>1 DEF ChunksApart, ChunksLeft
  <2>5. FramesApart' /\ Feeds  BY <2>4, ChunksKeepFrames DEF DownloadChunk, PipeInv, Feeds
  <2>6. troubles' = 0 => Undisturbed'
    BY <1>1, <2>1 DEF DownloadChunk, PipeInv, Undisturbed, DownloadsOver
  <2>7. PipeTypes'  BY <1>1, <2>1 DEF DownloadChunk, PipeTypes
  <2> QED  BY <2>1, <2>4, <2>5, <2>6, <2>7 DEF PipeInv
<1>2. ASSUME NEW c \in downloads.busy, UNCHANGED troubles,
             downloads' = [downloads EXCEPT !.busy = @ \ {c}, !.held = @ \cup {c}]
      PROVE  PipeTypes' /\ PipeInv' /\ Feeds
  <2>1. /\ downloads'.state = "running" /\ downloads'.next = downloads.next
        /\ downloads'.busy = downloads.busy \ {c} /\ downloads'.held = downloads.held \cup {c}
        /\ downloads' \in Downloads
    BY <1>2 DEF DownloadChunk, PipeTypes, Downloads
  <2>2. Coming' = Coming /\ Bridged' = Bridged  BY <2>1 DEF DownloadChunk, Coming, Bridged
  <2>4. ChunksApart' /\ ChunksLeft' = ChunksLeft
    <3>1. UNCHANGED <<asyncq, chunkq>> /\ ChunksApart  BY DEF DownloadChunk, PipeInv
    <3> QED  BY <1>2, <2>1, <2>2, <3>1 DEF ChunksApart, ChunksLeft
  <2>5. FramesApart' /\ Feeds  BY <2>4, ChunksKeepFrames DEF DownloadChunk, PipeInv, Feeds
  <2>6. troubles' = 0 => Undisturbed'
    BY <1>2, <2>1 DEF DownloadChunk, PipeInv, Undisturbed, DownloadsOver
  <2>7. PipeTypes'  BY <1>2, <2>1 DEF DownloadChunk, PipeTypes
  <2> QED  BY <2>1, <2>4, <2>5, <2>6, <2>7 DEF PipeInv
<1>3. CASE Trouble /\ downloads' = [Stopped EXCEPT !.state = "failed"]
  <2>1. UNCHANGED <<asyncq, bridge, chunkq, cutting, frameq>>  BY DEF DownloadChunk
  <2>2. troubles' # 0 /\ troubles' \in Nat  BY <1>3 DEF Trouble, PipeTypes
  <2>3. PipeTypes'  BY <1>3, <2>1, <2>2, StoppedKeeps DEF DownloadChunk, PipeTypes
  <2> QED  BY <1>3, <2>1, <2>2, <2>3, StoppedKeeps DEF PipeInv, Feeds
<1> QED  BY <1>1, <1>2, <1>3 DEF DownloadChunk

\* A chunk goes to the bridge, or finds it gone.
LEMMA SendChunkPipe ==
  ASSUME PipeTypes, PipeInv, SendChunk
  PROVE  PipeTypes' /\ PipeInv' /\ Feeds
<1>1. PICK c \in downloads.held :
       \/ /\ "bridge" \notin ended /\ Len(asyncq) < Depth
          /\ asyncq' = Append(asyncq, c)
          /\ downloads' = AfterSend(c)
       \/ /\ "bridge" \in ended
          /\ downloads' = [Stopped EXCEPT !.state = "failed"] /\ UNCHANGED asyncq
  BY DEF SendChunk
<1>2. /\ UNCHANGED <<clone, manifest, bridge, chunkq, extractor, cutting, frameq, collected, ended, spoilt, troubles>>
      /\ downloads \in Downloads /\ c \in ArchiveChunk /\ asyncq \in Seq(ArchiveChunk) /\ ChunksApart
      /\ downloads.state = "running"
  BY DEF SendChunk, PipeTypes, Downloads, PipeInv
<1>3. CASE "bridge" \notin ended /\ asyncq' = Append(asyncq, c) /\ downloads' = AfterSend(c)
  <2>1. /\ downloads'.state \in {"running", "ok"} /\ downloads'.next = downloads.next
        /\ downloads'.busy = downloads.busy /\ downloads'.held = downloads.held \ {c}
        /\ downloads' \in Downloads
    BY <1>2, <1>3 DEF AfterSend, Downloads
  <2>2. downloads'.state = "ok" => /\ downloads'.next \notin ArchiveChunk
                                   /\ downloads'.busy = {} /\ downloads'.held = {}
    BY <1>2, <1>3 DEF AfterSend, Downloads
  <2>3. Coming' = Coming /\ Bridged' = Bridged  BY <1>2, <2>1 DEF Coming, Bridged
  <2>4. /\ asyncq' \in Seq(ArchiveChunk) /\ Items(asyncq') = Items(asyncq) \cup {c}
        /\ Once(asyncq')
    <3>1. c \notin Items(asyncq) /\ Once(asyncq)  BY <1>1, <1>2 DEF ChunksApart
    <3> QED  BY <1>2, <1>3, <3>1, AppendHolds
  <2>5. ChunksApart' /\ ChunksLeft' = ChunksLeft
    BY <1>1, <1>2, <2>1, <2>3, <2>4 DEF ChunksApart, ChunksLeft
  <2>6. FramesApart' /\ Feeds  BY <1>2, <2>5, ChunksKeepFrames DEF PipeInv, Feeds
  <2>7. ASSUME troubles' = 0 PROVE Undisturbed'
    <3>1. Undisturbed  BY <1>2, <2>7 DEF PipeInv
    <3>2. downloads'.state = "ok" => Coming' = {}
      <4>1. downloads'.next \in Nat \ {0}  BY <2>1 DEF Downloads
      <4> QED  BY <2>2, <4>1, ChunksAre DEF Coming
    <3> QED  BY <1>2, <1>3, <2>1, <3>1, <3>2 DEF Undisturbed
  <2>8. PipeTypes'  BY <1>2, <2>1, <2>4 DEF PipeTypes
  <2> QED  BY <2>1, <2>2, <2>5, <2>6, <2>7, <2>8 DEF PipeInv
<1>4. CASE "bridge" \in ended /\ downloads' = [Stopped EXCEPT !.state = "failed"] /\ UNCHANGED asyncq
  <2>1. troubles # 0  BY <1>2, <1>4 DEF PipeInv, Undisturbed, DownloadsOver
  <2>2. downloads' \in Downloads  BY <1>2, <1>4, StoppedKeeps
  <2>3. PipeTypes'  BY <1>2, <1>4, <2>2 DEF PipeTypes
  <2> QED  BY <1>2, <1>4, <2>1, <2>3, StoppedKeeps DEF PipeInv, Feeds
<1> QED  BY <1>1, <1>3, <1>4

\* The bridge passes a chunk on, or ends.
LEMMA BridgeStepPipe ==
  ASSUME PipeTypes, PipeInv, BridgeStep
  PROVE  PipeTypes' /\ PipeInv' /\ Feeds
<1>0. /\ UNCHANGED <<clone, manifest, downloads, extractor, cutting, frameq, collected, spoilt, troubles>>
      /\ bridge \in ArchiveChunk \cup {0} /\ asyncq \in Seq(ArchiveChunk) /\ chunkq \in Seq(ArchiveChunk)
      /\ ChunksApart /\ FramesApart /\ "bridge" \notin ended
  BY DEF BridgeStep, PipeTypes, PipeInv
<1>1. Coming' = Coming  BY <1>0 DEF Coming
<1>2. (downloads.state # "running" => downloads.busy = {} /\ downloads.held = {})'
  BY <1>0 DEF PipeInv
<1>3. CASE /\ bridge = 0 /\ asyncq # <<>>
           /\ bridge' = Head(asyncq) /\ asyncq' = Tail(asyncq) /\ UNCHANGED <<chunkq, ended>>
  <2>1. /\ bridge' \in ArchiveChunk /\ asyncq' \in Seq(ArchiveChunk)
        /\ Items(asyncq) = Items(asyncq') \cup {bridge'}
        /\ Once(asyncq') /\ bridge' \notin Items(asyncq')
    BY <1>0, <1>3, TailHolds DEF ChunksApart
  <2>2. Bridged = {} /\ Bridged' = {bridge'}  BY <1>3, <2>1, ChunksAre DEF Bridged
  <2>3. ChunksApart' /\ ChunksLeft' = ChunksLeft
    BY <1>0, <1>1, <1>3, <2>1, <2>2 DEF ChunksApart, ChunksLeft
  <2>4. FramesApart' /\ Feeds  BY <1>0, <2>3, ChunksKeepFrames DEF Feeds
  <2>5. troubles' = 0 => Undisturbed'
    BY <1>0, <1>1, <1>3 DEF PipeInv, Undisturbed, DownloadsOver
  <2>6. PipeTypes'  BY <1>0, <1>3, <2>1 DEF PipeTypes
  <2> QED  BY <1>2, <2>3, <2>4, <2>5, <2>6 DEF PipeInv
<1>4. CASE /\ bridge = 0 /\ asyncq = <<>> /\ DownloadsOver
           /\ ended' = ended \cup {"bridge"} /\ UNCHANGED <<asyncq, bridge, chunkq>>
  <2>2. Bridged' = Bridged  BY <1>4 DEF Bridged
  <2>3. ChunksApart' /\ ChunksLeft' = ChunksLeft
    BY <1>0, <1>1, <1>4, <2>2 DEF ChunksApart, ChunksLeft
  <2>4. FramesApart' /\ Feeds  BY <1>0, <2>3, ChunksKeepFrames DEF Feeds
  <2>5. troubles' = 0 => Undisturbed'
    BY <1>0, <1>1, <1>4, ExtractAssumption DEF PipeInv, Undisturbed, DownloadsOver
  <2>6. PipeTypes'  BY <1>0, <1>4 DEF PipeTypes
  <2> QED  BY <1>2, <2>3, <2>4, <2>5, <2>6 DEF PipeInv
<1>5. CASE /\ bridge # 0 /\ ChunksWanted
           /\ bridge' = 0 /\ chunkq' = Append(chunkq, bridge) /\ UNCHANGED <<asyncq, ended>>
  <2>1. bridge \in ArchiveChunk /\ bridge \in Bridged /\ bridge \notin Items(chunkq)
    BY <1>0, <1>5 DEF Bridged, ChunksApart
  <2>2. /\ chunkq' \in Seq(ArchiveChunk) /\ Items(chunkq') = Items(chunkq) \cup {bridge}
        /\ Once(chunkq')
    BY <1>0, <1>5, <2>1, AppendHolds DEF ChunksApart
  <2>3. Bridged = {bridge} /\ Bridged' = {}  BY <1>5 DEF Bridged
  <2>4. ChunksApart' /\ ChunksLeft' = ChunksLeft
    BY <1>0, <1>1, <1>5, <2>2, <2>3 DEF ChunksApart, ChunksLeft
  <2>5. FramesApart' /\ Feeds  BY <1>0, <2>4, ChunksKeepFrames DEF Feeds
  <2>6. troubles' = 0 => Undisturbed'
    BY <1>0, <1>1, <1>5 DEF PipeInv, Undisturbed, DownloadsOver
  <2>7. PipeTypes'  BY <1>0, <1>5, <2>2 DEF PipeTypes
  <2> QED  BY <1>2, <2>4, <2>5, <2>6, <2>7 DEF PipeInv
<1>6. CASE /\ bridge # 0 /\ ~ChunksWanted
           /\ ended' = ended \cup {"bridge"} /\ bridge' = 0 /\ asyncq' = <<>> /\ UNCHANGED chunkq
  <2>1. troubles # 0
    <3> SUFFICES ASSUME troubles = 0 PROVE FALSE  OBVIOUS
    <3>1. Undisturbed  BY DEF PipeInv
    <3>2. extractor # "none" /\ Fetcher \subseteq ended
      BY <1>6, <3>1 DEF ChunksWanted, Undisturbed
    <3>3. \A t \in Fetcher \cap ended : "bridge" \in ended  BY <3>1 DEF Undisturbed
    <3> QED  BY <1>0, <3>2, <3>3, ExtractAssumption
  <2>2. Bridged' = {} /\ Items(asyncq') = {} /\ Once(asyncq')
    BY <1>6, EmptyHolds DEF Bridged
  <2>3. ChunksApart' /\ ChunksLeft' \subseteq ChunksLeft
    BY <1>0, <1>1, <1>6, <2>2 DEF ChunksApart, ChunksLeft
  <2>4. FramesApart' /\ Feeds  BY <1>0, <2>1, <2>3, ChunksKeepFrames DEF Feeds
  <2>5. PipeTypes'
    <3>1. asyncq' \in Seq(ArchiveChunk)  BY <1>6
    <3> QED  BY <1>0, <1>6, <3>1 DEF PipeTypes
  <2> QED  BY <1>0, <1>2, <2>1, <2>3, <2>4, <2>5 DEF PipeInv
<1> QED  BY <1>3, <1>4, <1>5, <1>6 DEF BridgeStep

\* The threads start, or the preparation fails.
LEMMA PrepareTreePipe ==
  ASSUME PipeTypes, PipeInv, PrepareTree
  PROVE  PipeTypes' /\ PipeInv' /\ Feeds
<1>0. /\ UNCHANGED <<clone, manifest, downloads, asyncq, bridge, cutting, frameq, collected, spoilt>>
      /\ ChunksApart /\ FramesApart /\ Coming' = Coming /\ Bridged' = Bridged
  BY DEF PrepareTree, PipeInv, Coming, Bridged
<1>2. (downloads.state # "running" => downloads.busy = {} /\ downloads.held = {})'
  BY <1>0 DEF PipeInv
<1>3. CASE extractor' = "collecting" /\ UNCHANGED <<chunkq, ended, troubles>>
  <2>1. ChunksApart' /\ ChunksLeft' = ChunksLeft  BY <1>0, <1>3 DEF ChunksApart, ChunksLeft
  <2>2. FramesApart' /\ Feeds  BY <1>0, <2>1, ChunksKeepFrames DEF Feeds
  <2>3. troubles' = 0 => Undisturbed'
    BY <1>0, <1>3 DEF PrepareTree, PipeInv, Undisturbed, DownloadsOver
  <2>4. PipeTypes'  BY <1>0, <1>3 DEF PipeTypes
  <2> QED  BY <1>2, <2>1, <2>2, <2>3, <2>4 DEF PipeInv
<1>4. CASE Trouble /\ extractor' = "failed" /\ chunkq' = <<>> /\ ended' = ended \cup Fetcher \cup Writer
  <2>1. troubles' # 0 /\ troubles' \in Nat  BY <1>4 DEF Trouble, PipeTypes
  <2>2. Items(chunkq') = {} /\ Once(chunkq')  BY <1>4, EmptyHolds
  <2>3. ChunksApart' /\ ChunksLeft' \subseteq ChunksLeft
    BY <1>0, <2>2 DEF ChunksApart, ChunksLeft
  <2>4. FramesApart' /\ Feeds  BY <1>0, <2>1, <2>3, ChunksKeepFrames DEF Feeds
  <2>5. PipeTypes'
    <3>1. chunkq' \in Seq(ArchiveChunk)  BY <1>4
    <3> QED  BY <1>0, <1>4, <2>1, <3>1 DEF PipeTypes
  <2> QED  BY <1>2, <2>1, <2>3, <2>4, <2>5 DEF PipeInv
<1> QED  BY <1>3, <1>4 DEF PrepareTree

\* A fetcher takes a chunk, sends a frame or ends.
LEMMA FetcherStepPipe ==
  ASSUME PipeTypes, PipeInv, NEW t \in Fetcher, FetcherStep(t)
  PROVE  PipeTypes' /\ PipeInv' /\ Feeds
<1>0. /\ UNCHANGED <<clone, manifest, downloads, asyncq, bridge, extractor, collected, spoilt, troubles>>
      /\ chunkq \in Seq(ArchiveChunk) /\ frameq \in Seq(Frame) /\ cutting \in [Fetcher -> SUBSET Frame]
      /\ ChunksApart /\ FramesApart /\ t \notin ended
      /\ Coming' = Coming /\ Bridged' = Bridged
  BY DEF FetcherStep, PipeTypes, PipeInv, Coming, Bridged
<1>1. (downloads.state # "running" => downloads.busy = {} /\ downloads.held = {})'
  BY <1>0 DEF PipeInv
<1>2. CASE /\ cutting[t] = {} /\ chunkq # <<>>
           /\ cutting' = [cutting EXCEPT ![t] = FramesOf(Head(chunkq))]
           /\ chunkq' = Tail(chunkq) /\ UNCHANGED <<frameq, ended>>
  <2> DEFINE c == Head(chunkq)
  <2>1. /\ c \in ArchiveChunk /\ chunkq' \in Seq(ArchiveChunk)
        /\ Items(chunkq) = Items(chunkq') \cup {c} /\ Once(chunkq') /\ c \notin Items(chunkq')
    BY <1>0, <1>2, TailHolds DEF ChunksApart
  <2>2. cutting' = [cutting EXCEPT ![t] = FramesOf(c)]  BY <1>2
  <2> HIDE DEF c
  <2>3. ChunksApart' /\ ChunksLeft = ChunksLeft' \cup {c} /\ c \notin ChunksLeft'
    BY <1>0, <2>1 DEF ChunksApart, ChunksLeft
  <2>4. /\ FramesOf(c) \subseteq Frame /\ Fresh = Fresh' \cup FramesOf(c)
        /\ Fresh' \cap FramesOf(c) = {}
    BY <2>3 DEF Fresh, FramesOf
  <2>5. /\ cutting' \in [Fetcher -> SUBSET Frame] /\ cutting'[t] = FramesOf(c)
        /\ \A u \in Fetcher \ {t} : cutting'[u] = cutting[u]
    BY <1>0, <2>2, <2>4
  <2>6. BeingCut' = BeingCut \cup FramesOf(c)  BY <1>2, <2>5 DEF BeingCut
  <2>7. FramesApart'
    <3>1. Once(frameq') /\ (BeingCut' \cap Fresh' = {}) /\ Items(frameq') \cap (Fresh' \cup BeingCut') = {}
      BY <1>0, <1>2, <2>4, <2>6 DEF FramesApart
    <3>2. ASSUME NEW u \in Fetcher, u # t PROVE cutting'[u] \cap cutting'[t] = {}
      <4>1. cutting[u] \subseteq BeingCut  BY DEF BeingCut
      <4> QED  BY <1>0, <2>4, <2>5, <3>2, <4>1 DEF FramesApart
    <3>3. \A u, v \in Fetcher : u # v => cutting'[u] \cap cutting'[v] = {}
      BY <1>0, <2>5, <3>2 DEF FramesApart
    <3> QED  BY <3>1, <3>3 DEF FramesApart
  <2>8. Feeds  BY <1>2, <2>4, <2>6 DEF Untaken, Feeds
  <2>9. troubles' = 0 => Undisturbed'
    <3> SUFFICES ASSUME troubles' = 0 PROVE Undisturbed'  OBVIOUS
    <3>1. Undisturbed  BY <1>0 DEF PipeInv
    <3>2. Fetcher \cap ended = {}  BY <1>2, <3>1 DEF Undisturbed
    <3>3. Writer \cap ended = {}  BY <1>0, <3>1, <3>2 DEF Undisturbed
    <3> QED  BY <1>0, <1>2, <3>1, <3>2, <3>3 DEF Undisturbed, DownloadsOver
  <2>10. PipeTypes'  BY <1>0, <1>2, <2>1, <2>5 DEF PipeTypes
  <2> QED  BY <1>1, <2>3, <2>7, <2>8, <2>9, <2>10 DEF PipeInv
<1>3. CASE /\ cutting[t] # {} /\ frameq' = Append(frameq, First(cutting[t]))
           /\ cutting' = [cutting EXCEPT ![t] = @ \ {First(cutting[t])}] /\ UNCHANGED <<chunkq, ended>>
  <2> DEFINE k == First(cutting[t])
  <2>1. k \in cutting[t] /\ k \in Frame
    <3>1. cutting[t] \in SUBSET Nat /\ cutting[t] \subseteq Frame  BY <1>0, FramesAre
    <3> QED  BY <1>3, <3>1, FirstIsIn
  <2>2. frameq' = Append(frameq, k) /\ cutting' = [cutting EXCEPT ![t] = @ \ {k}]  BY <1>3
  <2> HIDE DEF k
  <2>3. ChunksApart' /\ ChunksLeft' = ChunksLeft /\ Fresh' = Fresh
    BY <1>0, <1>3 DEF ChunksApart, ChunksLeft, Fresh
  <2>4. k \in BeingCut  BY <2>1 DEF BeingCut
  <2>5. /\ frameq' \in Seq(Frame) /\ Items(frameq') = Items(frameq) \cup {k} /\ Once(frameq')
    BY <1>0, <2>1, <2>2, <2>4, AppendHolds DEF FramesApart
  <2>6. /\ cutting' \in [Fetcher -> SUBSET Frame] /\ cutting'[t] = cutting[t] \ {k}
        /\ \A u \in Fetcher \ {t} : cutting'[u] = cutting[u] /\ k \notin cutting[u]
    BY <1>0, <2>1, <2>2 DEF FramesApart
  <2>7. BeingCut' = BeingCut \ {k}  BY <2>6 DEF BeingCut
  <2>8. FramesApart'
    <3>1. BeingCut' \cap Fresh' = {} /\ Items(frameq') \cap (Fresh' \cup BeingCut') = {}
      BY <1>0, <2>3, <2>4, <2>5, <2>7 DEF FramesApart
    <3>2. \A u, v \in Fetcher : u # v => cutting'[u] \cap cutting'[v] = {}
      BY <1>0, <2>6 DEF FramesApart
    <3> QED  BY <2>5, <3>1, <3>2 DEF FramesApart
  <2>9. Feeds  BY <2>3, <2>4, <2>5, <2>7 DEF Untaken, Feeds
  <2>10. troubles' = 0 => Undisturbed'
    <3> SUFFICES ASSUME troubles' = 0 PROVE Undisturbed'  OBVIOUS
    <3>1. Undisturbed  BY <1>0 DEF PipeInv
    <3>2. Writer \cap ended = {}  BY <1>0, <3>1 DEF Undisturbed
    <3>3. \A u \in Fetcher \cap ended : cutting'[u] = cutting[u]  BY <1>0, <2>6
    <3> QED  BY <1>0, <1>3, <3>1, <3>2, <3>3 DEF Undisturbed, DownloadsOver
  <2>11. PipeTypes'  BY <1>0, <1>3, <2>5, <2>6 DEF PipeTypes
  <2> QED  BY <1>1, <2>3, <2>8, <2>9, <2>10, <2>11 DEF PipeInv
<1>4. CASE /\ cutting[t] = {} /\ chunkq = <<>> /\ "bridge" \in ended
           /\ ended' = ended \cup {t} /\ UNCHANGED <<chunkq, cutting, frameq>>
  <2>1. ChunksApart' /\ ChunksLeft' = ChunksLeft
    BY <1>0, <1>4 DEF ChunksApart, ChunksLeft
  <2>2. FramesApart' /\ Feeds  BY <1>0, <1>4, <2>1, ChunksKeepFrames DEF Feeds
  <2>3. troubles' = 0 => Undisturbed'
    <3> SUFFICES ASSUME troubles' = 0 PROVE Undisturbed'  OBVIOUS
    <3>1. Undisturbed  BY <1>0 DEF PipeInv
    <3>2. t \notin Writer /\ t # "bridge"  BY ExtractAssumption
    <3> QED  BY <1>0, <1>4, <3>1, <3>2 DEF Undisturbed, DownloadsOver
  <2>4. PipeTypes'  BY <1>0, <1>4 DEF PipeTypes
  <2> QED  BY <1>1, <2>1, <2>2, <2>3, <2>4 DEF PipeInv
<1> QED  BY <1>2, <1>3, <1>4 DEF FetcherStep

\* A writer ends.
LEMMA WriterEndsPipe ==
  ASSUME PipeTypes, PipeInv, NEW w \in Writer, WriterEnds(w)
  PROVE  PipeTypes' /\ PipeInv' /\ Feeds
<1>0. /\ UNCHANGED <<clone, manifest, downloads, asyncq, bridge, chunkq, extractor, cutting, frameq, collected,
                     spoilt, troubles>>
      /\ ended' = ended \cup {w} /\ FramesOver
      /\ ChunksApart /\ FramesApart /\ Coming' = Coming /\ Bridged' = Bridged
  BY DEF WriterEnds, PipeInv, Coming, Bridged
<1>1. ChunksApart' /\ ChunksLeft' = ChunksLeft  BY <1>0 DEF ChunksApart, ChunksLeft
<1>2. FramesApart' /\ Feeds  BY <1>0, <1>1, ChunksKeepFrames DEF Feeds
<1>3. troubles' = 0 => Undisturbed'
  <2> SUFFICES ASSUME troubles' = 0 PROVE Undisturbed'  OBVIOUS
  <2>1. Undisturbed  BY <1>0 DEF PipeInv
  <2>2. w \notin Fetcher /\ w # "bridge"  BY ExtractAssumption
  <2>3. frameq = <<>> /\ Fetcher \subseteq ended  BY <1>0 DEF FramesOver
  <2> QED  BY <1>0, <2>1, <2>2, <2>3 DEF Undisturbed, DownloadsOver
<1>4. PipeTypes'  BY <1>0 DEF PipeTypes
<1>5. (downloads.state # "running" => downloads.busy = {} /\ downloads.held = {})'
  BY <1>0 DEF PipeInv
<1> QED  BY <1>1, <1>2, <1>3, <1>4, <1>5 DEF PipeInv


-----------------------------------------------------------------------------
(* ArchiveExtract: what the writers do.                                     *)

\* Steps of the pipeline that leave the writers alone.
Resting ==
  /\ Feeds /\ (troubles' = 0 => troubles = 0)
  /\ UNCHANGED <<writing, pieces, collected, tree, spoilt>>
  /\ \A w \in Writer \cap ended' : writing[w] = Idle

\* They keep what is known of writers and files.
LEMMA RestingKeeps ==
  ASSUME WorkTypes, WritersInv, FilesApart, UnreadIsOut, Resting
  PROVE  /\ WorkTypes' /\ WritersInv' /\ FilesApart' /\ UnreadIsOut'
         /\ \A done \in SUBSET Frame : DoneInv(done) => DoneInv(done)'
         /\ \A got, own : CountInv(got, own) => CountInv(got, own)'
<1>0. /\ UNCHANGED <<writing, pieces, collected, tree, spoilt>> /\ Untaken' \subseteq Untaken
      /\ troubles' = 0 => troubles = 0 /\ Untaken' = Untaken
  BY DEF Resting, Feeds
<1>1. WorkTypes'  BY <1>0 DEF WorkTypes
<1>2. WritersInv'  BY <1>0 DEF Resting, WritersInv
<1>3. FilesApart'  BY <1>0 DEF FilesApart, Sound
<1>4. \A f, i : Unread(f, i)' => Unread(f, i)  BY <1>0 DEF Unread
<1>5. \A f : (InBatch(f)' <=> InBatch(f)) /\ (Placed(f)' <=> Placed(f))  BY <1>0 DEF InBatch, Placed
<1>6. UnreadIsOut'  BY <1>0, <1>4, <1>5 DEF UnreadIsOut
<1>7. ASSUME NEW done \in SUBSET Frame, DoneInv(done) PROVE DoneInv(done)'
  <2>1. ASSUME NEW f \in File, NEW i \in DOMAIN Frags[f], ~Unread(f, i)',
               Frags[f][i] \in done \/ \E w \in Writer : writing[w].frame = Frags[f][i]
        PROVE  ~Unread(f, i)
    <3>1. Frags[f][i] \notin Untaken  BY <1>7, <2>1 DEF DoneInv, WritersInv
    <3> QED  BY <1>0, <2>1, <3>1 DEF Unread
  <2>2. ReadIsIn(done)'
    <3>1. ReadIsIn(done)  BY <1>7 DEF DoneInv
    <3> QED  BY <1>0, <1>5, <2>1, <3>1 DEF ReadIsIn
  <2> QED  BY <1>0, <1>7, <2>2 DEF DoneInv
<1>8. ASSUME NEW got, NEW own, CountInv(got, own) PROVE CountInv(got, own)'
  BY <1>0, <1>8 DEF CountInv
<1> QED  BY <1>1, <1>2, <1>3, <1>6, <1>7, <1>8

\* A step of a writer that leaves the channels alone.
LEMMA WritingKeepsPipe ==
  ASSUME PipeTypes, PipeInv, troubles' \in Nat, troubles' = 0 => troubles = 0 /\ ~collected'.failed,
         UNCHANGED <<clone, manifest, downloads, asyncq, bridge, chunkq, extractor, cutting, frameq, ended, spoilt>>
  PROVE  PipeTypes' /\ PipeInv' /\ Untaken' = Untaken
<1>1. Coming' = Coming /\ Bridged' = Bridged  BY DEF Coming, Bridged
<1>2. ChunksApart' /\ ChunksLeft' = ChunksLeft  BY <1>1 DEF PipeInv, ChunksApart, ChunksLeft
<1>3. FramesApart' /\ Untaken' = Untaken  BY <1>2, ChunksKeepFrames DEF PipeInv
<1>4. troubles' = 0 => Undisturbed'
  BY <1>1 DEF PipeInv, Undisturbed, DownloadsOver
<1>5. PipeTypes'  BY DEF PipeTypes
<1>6. (downloads.state # "running" => downloads.busy = {} /\ downloads.held = {})'  BY DEF PipeInv
<1> QED  BY <1>2, <1>3, <1>4, <1>5, <1>6 DEF PipeInv

\* A writer receives a frame.
LEMMA ReceiveKeepsPipe ==
  ASSUME PipeTypes, PipeInv, frameq # <<>>, frameq' = Tail(frameq),
         troubles = 0 => ~collected'.failed,
         UNCHANGED <<clone, manifest, downloads, asyncq, bridge, chunkq, extractor, cutting, ended, spoilt, troubles>>
  PROVE  /\ PipeTypes' /\ PipeInv' /\ Untaken = Untaken' \cup {Head(frameq)} /\ Head(frameq) \notin Untaken'
         /\ Head(frameq) \in Frame
<1>1. Coming' = Coming /\ Bridged' = Bridged  BY DEF Coming, Bridged
<1>2. ChunksApart' /\ ChunksLeft' = ChunksLeft  BY <1>1 DEF PipeInv, ChunksApart, ChunksLeft
<1>3. Fresh' = Fresh /\ BeingCut' = BeingCut  BY <1>2 DEF Fresh, BeingCut
<1>4. frameq \in Seq(Frame) /\ FramesApart  BY DEF PipeTypes, PipeInv
<1>5. /\ Head(frameq) \in Frame /\ frameq' \in Seq(Frame) /\ Once(frameq')
      /\ Items(frameq) = Items(frameq') \cup {Head(frameq)} /\ Head(frameq) \notin Items(frameq')
  BY <1>4, TailHolds DEF FramesApart
<1>6. FramesApart'
  BY <1>3, <1>4, <1>5 DEF FramesApart
<1>7. Untaken = Untaken' \cup {Head(frameq)} /\ Head(frameq) \notin Untaken'
  BY <1>3, <1>4, <1>5 DEF Untaken, FramesApart
<1>8. troubles' = 0 => Undisturbed'
  BY <1>1 DEF PipeInv, Undisturbed, DownloadsOver
<1>9. PipeTypes'  BY <1>5 DEF PipeTypes
<1>10. (downloads.state # "running" => downloads.busy = {} /\ downloads.held = {})'  BY DEF PipeInv
<1> QED  BY <1>2, <1>5, <1>6, <1>7, <1>8, <1>9, <1>10 DEF PipeInv

\* What is on its way are frames, and 0 is none.
LEMMA NoFrameIsZero == PipeTypes => Untaken \subseteq Frame /\ 0 \notin Untaken
<1>1. PipeTypes => Items(frameq) \subseteq Frame  BY DEF PipeTypes, Items
<1>2. PipeTypes => Fresh \subseteq Frame /\ BeingCut \subseteq Frame  BY DEF PipeTypes, Fresh, BeingCut
<1> QED  BY <1>1, <1>2, FramesAre DEF Untaken

\* A frame that fails drops what its writer has: nothing else is disturbed.
LEMMA FailureKeepsWriters ==
  ASSUME PipeTypes, WorkTypes, WritersInv, NEW w \in Writer, NEW k \in Frame, NEW n \in Nat, NEW failed \in BOOLEAN,
         Result(w, n, failed), ~ExtractorOver, PipeTypes', Untaken' \subseteq Untaken, k \notin Untaken',
         NEW done \in SUBSET Frame, DoneInv(done),
         k \in Untaken \/ writing[w].frame = k
  PROVE  /\ writing' \in [Writer -> Work] /\ writing'[w] = Idle /\ ended' = ended
         /\ \A v \in Writer \ {w} : writing'[v] = writing[v]
         /\ collected' \in [results : Nat, files : Nat, failed : BOOLEAN]
         /\ collected'.failed = (collected.failed \/ failed) /\ collected'.files = collected.files + n
         /\ WritersInv'
         /\ \A f \in File : \A i \in DOMAIN Frags[f] : Unread(f, i)' => Unread(f, i)
         /\ \A f \in File : \A i : <<f, i>> \in writing[w].todo => ~Unread(f, i)'
         /\ done \cup {k} \in SUBSET Frame
         /\ IsFiniteSet(done \cup {k}) /\ Cardinality(done \cup {k}) = collected'.results
         /\ (done \cup {k}) \cap Untaken' = {}
         /\ \A v \in Writer : writing'[v].frame \notin done \cup {k}
<1>0. /\ writing' = [writing EXCEPT ![w] = Idle] /\ ended' = ended
      /\ collected' = [results |-> collected.results + 1, files |-> collected.files + n,
                       failed |-> collected.failed \/ failed]
  BY DEF Result
<1>1. /\ writing \in [Writer -> Work] /\ collected \in [results : Nat, files : Nat, failed : BOOLEAN]
  BY DEF WorkTypes
<1>2. Idle \in Work /\ Idle.frame = 0 /\ Idle.todo = {}  BY DEF Idle, Work
<1>3. /\ writing' \in [Writer -> Work] /\ writing'[w] = Idle
      /\ \A v \in Writer \ {w} : writing'[v] = writing[v]
  BY <1>0, <1>1, <1>2
<1>4. /\ collected' \in [results : Nat, files : Nat, failed : BOOLEAN]
      /\ collected'.results = collected.results + 1 /\ collected'.files = collected.files + n
      /\ collected'.failed = (collected.failed \/ failed)
  BY <1>0, <1>1
<1>5. 0 \notin Untaken' /\ 0 \notin Untaken /\ k # 0  BY NoFrameIsZero, FramesAre
<1>6. WritersInv'  BY <1>0, <1>2, <1>3, <1>5 DEF WritersInv
<1>7. \A f \in File : \A i \in DOMAIN Frags[f] : Unread(f, i)' => Unread(f, i)
  BY <1>2, <1>3 DEF Unread
<1>8. ASSUME NEW f \in File, NEW i, <<f, i>> \in writing[w].todo, Unread(f, i)' PROVE FALSE
  <2>1. <<f, i>> \in Pairs(writing[w].frame)  BY <1>8 DEF WritersInv
  <2>2. Frags[f][i] = writing[w].frame  BY <2>1, PairsAre
  <2>3. writing[w].frame \notin Untaken' /\ writing[w].frame # 0
    <3>1. writing[w].frame # 0  BY <1>2, <1>8 DEF WritersInv
    <3> QED  BY <3>1 DEF WritersInv
  <2>4. PICK v \in Writer : <<f, i>> \in writing'[v].todo  BY <1>8, <2>2, <2>3 DEF Unread
  <2>5. v # w /\ <<f, i>> \in writing[v].todo  BY <1>2, <1>3, <2>4
  <2>6. <<f, i>> \in Pairs(writing[v].frame)  BY <2>5 DEF WritersInv
  <2>7. Frags[f][i] = writing[v].frame  BY <2>6, PairsAre
  <2> QED  BY <2>2, <2>3, <2>5, <2>7 DEF WritersInv
<1>9. k \notin done  BY DEF DoneInv
<1>10. IsFiniteSet(done \cup {k}) /\ Cardinality(done \cup {k}) = collected'.results
  <2>1. IsFiniteSet(done) /\ Cardinality(done) = collected.results  BY DEF DoneInv
  <2> QED  BY <1>4, <1>9, <2>1, FS_AddElement
<1>11. (done \cup {k}) \cap Untaken' = {}  BY DEF DoneInv
<1>12. ASSUME NEW v \in Writer PROVE writing'[v].frame \notin done \cup {k}
  <2>0. 0 \notin done \cup {k}  BY <1>5, FramesAre
  <2>1. CASE v = w  BY <1>2, <1>3, <2>0, <2>1
  <2>2. CASE v # w
    <3>1. writing'[v].frame = writing[v].frame /\ writing[v].frame \notin done /\ writing[v].frame \notin Untaken
      BY <1>3, <2>2 DEF DoneInv, WritersInv
    <3>2. writing[w].frame = k => writing[v].frame # k  BY <1>5, <2>2 DEF WritersInv
    <3> QED  BY <3>1, <3>2
  <2> QED  BY <2>1, <2>2
<1> QED  BY <1>0, <1>3, <1>4, <1>6, <1>7, <1>8, <1>10, <1>11, <1>12

\* What is written of a batch, in part or in whole, is written once and right.
LEMMA WroteOnce ==
  ASSUME WorkTypes, FilesApart, NEW w \in Writer, NEW fs \in SUBSET FilesIn(writing[w].batch)
  PROVE  /\ Wrote(fs) \in [File -> [times : Nat, right : BOOLEAN]]
         /\ fs \subseteq File
         /\ \A f \in fs : Wrote(fs)[f].times = 1 /\ Wrote(fs)[f].right /\ tree[f].times = 0
         /\ \A f \in File \ fs : Wrote(fs)[f] = tree[f]
<1>1. /\ writing[w].batch \in Seq(File) /\ tree \in [File -> [times : Nat, right : BOOLEAN]]
  BY DEF WorkTypes, Work
<1>2. fs \subseteq File  BY <1>1 DEF FilesIn
<1>3. \A f \in fs : Sound(f) /\ tree[f].times = 0 /\ tree[f].right  BY <1>2 DEF FilesApart
<1>4. \A f \in File \ fs : Wrote(fs)[f] = tree[f]  BY DEF Wrote
<1>5. ASSUME NEW f \in fs PROVE /\ Wrote(fs)[f] = [times |-> tree[f].times + 1, right |-> tree[f].right /\ Sound(f)]
                                /\ Wrote(fs)[f].times = 1 /\ Wrote(fs)[f].right /\ tree[f].times = 0
                                /\ Wrote(fs)[f] \in [times : Nat, right : BOOLEAN]
  <2>1. Wrote(fs)[f] = [times |-> tree[f].times + 1, right |-> tree[f].right /\ Sound(f)]  BY <1>2 DEF Wrote
  <2>2. tree[f].times + 1 = 1 /\ (tree[f].right /\ Sound(f)) = TRUE  BY <1>3
  <2>3. Wrote(fs)[f] = [times |-> 1, right |-> TRUE]  BY <2>1, <2>2
  <2> QED  BY <1>3, <2>1, <2>3
<1>6. Wrote(fs) \in [File -> [times : Nat, right : BOOLEAN]]
  <2>1. Wrote(fs) = [f \in File |-> Wrote(fs)[f]]  BY DEF Wrote
  <2>2. \A f \in File : Wrote(fs)[f] \in [times : Nat, right : BOOLEAN]  BY <1>1, <1>4, <1>5
  <2> HIDE DEF Wrote
  <2> QED  BY <2>1, <2>2
<1> QED  BY <1>2, <1>4, <1>5, <1>6

\* Writing no file leaves the tree as it is.
LEMMA WroteNothing == WorkTypes => tree = Wrote({})
BY DEF WorkTypes, Wrote

\* A frame that fails leaves the files apart, whether some of its batch was
\* written or a file with all its fragments in was dropped.
LEMMA FailureKeepsFiles ==
  ASSUME PipeTypes, WorkTypes, WritersInv, FilesApart, UnreadIsOut,
         NEW w \in Writer, NEW k \in Frame, Result(w, 0, TRUE), ~ExtractorOver,
         PipeTypes', Untaken' \subseteq Untaken, k \notin Untaken',
         NEW done \in SUBSET Frame, DoneInv(done), k \in Untaken \/ writing[w].frame = k,
         NEW fs \in SUBSET FilesIn(writing[w].batch), tree' = Wrote(fs),
         NEW gone, pieces' = [g \in DOMAIN pieces \ gone |-> pieces[g]],
         \A f \in gone \cap DOMAIN pieces : \A i \in DOMAIN Frags[f] : ~Unread(f, i)',
         spoilt' = spoilt, troubles' # 0
  PROVE  /\ WorkTypes' /\ WritersInv' /\ FilesApart' /\ UnreadIsOut' /\ ended' = ended /\ writing'[w] = Idle
         /\ \A v \in Writer \ {w} : writing'[v] = writing[v]
         /\ \E d \in SUBSET Frame : DoneInv(d)'
<1>1. /\ writing' \in [Writer -> Work] /\ writing'[w] = Idle /\ ended' = ended
      /\ \A v \in Writer \ {w} : writing'[v] = writing[v]
      /\ collected' \in [results : Nat, files : Nat, failed : BOOLEAN]
      /\ collected'.failed = (collected.failed \/ TRUE)
      /\ WritersInv'
      /\ \A f \in File : \A i \in DOMAIN Frags[f] : Unread(f, i)' => Unread(f, i)
      /\ done \cup {k} \in SUBSET Frame
      /\ IsFiniteSet(done \cup {k}) /\ Cardinality(done \cup {k}) = collected'.results
      /\ (done \cup {k}) \cap Untaken' = {}
      /\ \A v \in Writer : writing'[v].frame \notin done \cup {k}
  BY FailureKeepsWriters
<1>2. collected'.failed = TRUE  BY <1>1
<1>3. /\ tree' \in [File -> [times : Nat, right : BOOLEAN]] /\ fs \subseteq File
      /\ \A f \in fs : tree'[f].times = 1 /\ tree'[f].right /\ tree[f].times = 0
      /\ \A f \in File \ fs : tree'[f] = tree[f]
  BY WroteOnce
<1>4. /\ DOMAIN pieces' = DOMAIN pieces \ gone /\ \A g \in DOMAIN pieces' : pieces'[g] = pieces[g]
      /\ pieces' = [f \in DOMAIN pieces' |-> pieces'[f]]
  OBVIOUS
<1>5. WorkTypes'  BY <1>1, <1>3, <1>4 DEF WorkTypes
<1>6. FilesIn(writing'[w].batch) = {} /\ Once(writing'[w].batch)
  BY <1>1 DEF Idle, FilesIn, Once
<1>7. \A f \in File : InBatch(f)' => InBatch(f)  BY <1>1, <1>6 DEF InBatch
<1>8. \A f : Sound(f)' <=> Sound(f)  BY DEF Sound
<1>9. FilesApart'
  <2>1. \A f \in File : tree'[f].times \in {0, 1} /\ tree'[f].right  BY <1>3 DEF FilesApart
  <2>2. ASSUME NEW v \in Writer, v # w, NEW f \in FilesIn(writing'[v].batch)
        PROVE  /\ Sound(f)' /\ tree'[f].times = 0 /\ f \notin DOMAIN pieces'
               /\ \A u \in Writer : f \in FilesIn(writing'[u].batch) => u = v
    <3>1. f \in FilesIn(writing[v].batch) /\ f \in File
      BY <1>1, <2>2 DEF WorkTypes, Work, FilesIn
    <3>2. f \notin fs  BY <2>2, <3>1 DEF FilesApart
    <3> QED  BY <1>1, <1>3, <1>4, <1>6, <1>8, <2>2, <3>1, <3>2 DEF FilesApart
  <2>3. \A v \in Writer : Once(writing'[v].batch)  BY <1>1, <1>6 DEF FilesApart
  <2>4. ASSUME NEW f \in DOMAIN pieces'
        PROVE  /\ tree'[f].times = 0 /\ Len(Frags[f]) > 1
               /\ pieces'[f] \subseteq DOMAIN Frags[f] /\ pieces'[f] # DOMAIN Frags[f]
    <3>1. f \in DOMAIN pieces /\ f \in File  BY <1>4 DEF WorkTypes
    <3>2. f \notin fs  BY <3>1 DEF FilesApart
    <3> QED  BY <1>3, <1>4, <3>1, <3>2 DEF FilesApart
  <2> QED  BY <1>6, <2>1, <2>2, <2>3, <2>4 DEF FilesApart
<1>10. UnreadIsOut'
  <2> SUFFICES ASSUME NEW f \in File, NEW i \in DOMAIN Frags[f], Unread(f, i)'
               PROVE  IF Len(Frags[f]) = 1 THEN tree'[f].times = 0 /\ ~InBatch(f)'
                      ELSE f \in DOMAIN pieces' /\ i \notin pieces'[f]
    BY DEF UnreadIsOut
  <2>1. Unread(f, i)  BY <1>1
  <2>2. CASE Len(Frags[f]) = 1
    <3>1. tree[f].times = 0 /\ ~InBatch(f)  BY <2>1, <2>2 DEF UnreadIsOut
    <3>2. f \notin fs  BY <3>1 DEF InBatch
    <3> QED  BY <1>3, <1>7, <2>2, <3>1, <3>2
  <2>3. CASE Len(Frags[f]) # 1
    <3>1. f \in DOMAIN pieces /\ i \notin pieces[f]  BY <2>1, <2>3 DEF UnreadIsOut
    <3> QED  BY <1>4, <2>3, <3>1
  <2> QED  BY <2>2, <2>3
<1>11. DoneInv(done \cup {k})'  BY <1>1, <1>2 DEF DoneInv, ReadIsIn
<1> QED  BY <1>1, <1>5, <1>9, <1>10, <1>11

\* A working extractor has its guards against ending open: nothing to show.
LEMMA WorkingIsNotOver ==
  ASSUME OverInv, Started, ~ExtractorOver, UNCHANGED <<clone, extractor>>
  PROVE  OverInv'
BY DEF OverInv, Started, ExtractorOver

\* A writer takes a frame, which may fail to decompress.
LEMMA TakeFrameKeeps ==
  ASSUME ExtractInv, NEW w \in Writer, TakeFrame(w)
  PROVE  ExtractInv'
<1> DEFINE k == Head(frameq)
<1>0. /\ Started /\ w \notin ended /\ writing[w] = Idle /\ frameq # <<>> /\ frameq' = Tail(frameq)
      /\ UNCHANGED <<clone, manifest, downloads, asyncq, bridge, chunkq, extractor, cutting, pieces, tree, spoilt, troubles>>
      /\ \/ writing' = [writing EXCEPT ![w].frame = k, ![w].todo = Pairs(k)] /\ UNCHANGED <<collected, ended>>
         \/ k \in spoilt /\ Result(w, 0, TRUE)
  BY DEF TakeFrame
<1>1. /\ PipeTypes /\ WorkTypes /\ PipeInv /\ WritersInv /\ FilesApart /\ UnreadIsOut /\ OverInv
  BY DEF ExtractInv
<1>2. k \in Untaken
  <2>1. k \in Items(frameq)  BY <1>0, <1>1, TailHolds DEF PipeTypes
  <2> QED  BY <2>1 DEF Untaken
<1>3. ~ExtractorOver  BY <1>0, <1>1, <1>2 DEF OverInv
<1>4. OverInv'  BY <1>0, <1>1, <1>3, WorkingIsNotOver
<1>5. PICK done \in SUBSET Frame : DoneInv(done)  BY DEF ExtractInv
<1>6. CASE k \in spoilt /\ Result(w, 0, TRUE)
  <2>1. ended' = ended  BY <1>3, <1>6 DEF Result
  <2>2. troubles # 0  BY <1>1, <1>6 DEF PipeInv, Undisturbed
  <2>3. /\ PipeTypes' /\ PipeInv' /\ Untaken = Untaken' \cup {k} /\ k \notin Untaken' /\ k \in Frame
    BY <1>0, <1>1, <2>1, <2>2, ReceiveKeepsPipe
  <2>4. tree' = Wrote({}) /\ pieces' = [g \in DOMAIN pieces \ {} |-> pieces[g]]
    BY <1>0, <1>1, WroteNothing DEF WorkTypes
  <2> HIDE DEF k
  <2>5. /\ WorkTypes' /\ WritersInv' /\ FilesApart' /\ UnreadIsOut'
        /\ \E d \in SUBSET Frame : DoneInv(d)'
    <3>1. \A f \in {} \cap DOMAIN pieces : \A i \in DOMAIN Frags[f] : ~Unread(f, i)'  OBVIOUS
    <3>2. Untaken' \subseteq Untaken /\ {} \in SUBSET FilesIn(writing[w].batch)  BY <2>3
    <3>3. spoilt' = spoilt /\ troubles' # 0  BY <1>0, <2>2
    <3> QED  BY <1>1, <1>2, <1>3, <1>5, <1>6, <2>3, <2>4, <3>1, <3>2, <3>3, FailureKeepsFiles
  <2> QED  BY <1>0, <1>4, <2>2, <2>3, <2>5 DEF ExtractInv
<1>7. CASE /\ writing' = [writing EXCEPT ![w].frame = k, ![w].todo = Pairs(k)]
           /\ UNCHANGED <<collected, ended>>
  <2>1. /\ PipeTypes' /\ PipeInv' /\ Untaken = Untaken' \cup {k} /\ k \notin Untaken' /\ k \in Frame
    <3>1. troubles = 0 => ~collected'.failed  BY <1>1, <1>7 DEF PipeInv, Undisturbed
    <3> QED  BY <1>0, <1>1, <1>7, <3>1, ReceiveKeepsPipe
  <2> HIDE DEF k
  <2>2. Pairs(k) \in SUBSET (File \X Nat)  BY PairsAre
  <2>3. /\ writing \in [Writer -> Work] /\ writing[w].frame = 0 /\ writing[w].todo = {}
        /\ writing[w].batch = <<>> /\ writing[w].files = 0
    BY <1>0, <1>1 DEF WorkTypes, Idle
  <2>4. /\ writing' \in [Writer -> Work]
        /\ writing'[w].frame = k /\ writing'[w].todo = Pairs(k)
        /\ writing'[w].batch = <<>> /\ writing'[w].files = 0
        /\ \A v \in Writer \ {w} : writing'[v] = writing[v]
    BY <1>7, <2>1, <2>2, <2>3 DEF Work
  <2>5. \A v \in Writer : writing'[v].batch = writing[v].batch /\ writing'[v].files = writing[v].files
    BY <2>3, <2>4
  <2>6. WorkTypes'  BY <1>0, <1>1, <1>7, <2>4 DEF WorkTypes
  <2>7. WritersInv'
    <3>0. k # 0  BY <2>1, FramesAre
    <3>1. \A v \in Writer \ {w} : writing[v].frame # k  BY <1>1, <1>2 DEF WritersInv
    <3> QED  BY <1>0, <1>1, <1>7, <2>1, <2>4, <3>0, <3>1 DEF WritersInv
  <2>8. FilesApart'  BY <1>0, <1>1, <2>5 DEF FilesApart, Sound
  <2>9. ASSUME NEW f \in File, NEW i \in DOMAIN Frags[f] PROVE Unread(f, i)' <=> Unread(f, i)
    <3>1. <<f, i>> \in Pairs(k) <=> Frags[f][i] = k  BY PairsAre
    <3>2. Frags[f][i] \in Untaken <=> Frags[f][i] \in Untaken' \/ Frags[f][i] = k  BY <2>1
    <3>3. (\E v \in Writer : <<f, i>> \in writing'[v].todo)
          <=> (<<f, i>> \in Pairs(k) \/ \E v \in Writer : <<f, i>> \in writing[v].todo)
      BY <2>3, <2>4
    <3> QED  BY <3>1, <3>2, <3>3 DEF Unread
  <2>10. \A f : (InBatch(f)' <=> InBatch(f)) /\ (Placed(f)' <=> Placed(f))
    BY <1>0, <2>5 DEF InBatch, Placed
  <2>11. UnreadIsOut'  BY <1>0, <1>1, <2>9, <2>10 DEF UnreadIsOut
  <2>12. DoneInv(done)'
    <3>1. k \notin done  BY <1>2, <1>5 DEF DoneInv
    <3>2. ReadIsIn(done)'
      <4>1. ASSUME NEW f \in File, NEW i \in DOMAIN Frags[f], ~Unread(f, i)',
                   Frags[f][i] \in done \/ \E v \in Writer : writing'[v].frame = Frags[f][i]
            PROVE  /\ ~Unread(f, i)
                   /\ Frags[f][i] \in done \/ \E v \in Writer : writing[v].frame = Frags[f][i]
        <5>1. Frags[f][i] # k  BY <1>2, <2>9, <4>1 DEF Unread
        <5> QED  BY <2>4, <2>9, <4>1, <5>1
      <4>2. ReadIsIn(done)  BY <1>5 DEF DoneInv
      <4> QED  BY <1>0, <1>7, <2>10, <4>1, <4>2 DEF ReadIsIn
    <3>3. troubles' = 0 => Frame \subseteq done \cup Untaken' \cup {writing'[v].frame : v \in Writer}
      <4> SUFFICES ASSUME troubles = 0, NEW j \in Frame, j \notin done, j \notin Untaken'
                   PROVE  \E v \in Writer : writing'[v].frame = j
        BY <1>0
      <4>1. j = k \/ \E v \in Writer : writing[v].frame = j  BY <1>5, <2>1 DEF DoneInv
      <4>2. j # 0  BY FramesAre
      <4> QED  BY <2>3, <2>4, <4>1, <4>2
    <3>4. \A v \in Writer : writing'[v].frame \notin done  BY <1>5, <2>4, <3>1 DEF DoneInv
    <3> QED  BY <1>5, <1>7, <2>1, <3>2, <3>3, <3>4 DEF DoneInv
  <2>13. ASSUME NEW got, NEW own, CountInv(got, own) PROVE CountInv(got, own)'
    BY <1>0, <1>7, <2>5, <2>13 DEF CountInv
  <2> QED  BY <1>0, <1>4, <2>1, <2>6, <2>7, <2>8, <2>11, <2>12, <2>13 DEF ExtractInv
<1> QED  BY <1>0, <1>6, <1>7

\* A writer reads a fragment of its frame: that one is no longer unread.
LEMMA ReadingKeepsWriters ==
  ASSUME WorkTypes, WritersInv, NEW w \in Writer, NEW f \in File, NEW i, <<f, i>> \in writing[w].todo,
         writing'[w].frame = writing[w].frame, writing'[w].todo = writing[w].todo \ {<<f, i>>},
         writing'[w].files = writing[w].files, \A v \in Writer \ {w} : writing'[v] = writing[v],
         UNCHANGED <<collected, ended, tree, troubles>>, Untaken' = Untaken
  PROVE  /\ WritersInv'
         /\ \A g \in File : \A j : Unread(g, j)' <=> Unread(g, j) /\ <<g, j>> # <<f, i>>
         /\ \A done \in SUBSET Frame : DoneInv(done) /\ ReadIsIn(done)' => DoneInv(done)'
         /\ \A got, own : CountInv(got, own) => CountInv(got, own)'
<1>1. writing[w].frame # 0 /\ w \notin ended
  <2>1. writing[w] # Idle  BY DEF Idle
  <2> QED  BY <2>1 DEF WritersInv
<1>2. WritersInv'  BY <1>1 DEF WritersInv
<1>3. Frags[f][i] = writing[w].frame
  <2>1. <<f, i>> \in Pairs(writing[w].frame)  BY DEF WritersInv
  <2> QED  BY <2>1, PairsAre
<1>4. ASSUME NEW v \in Writer, v # w PROVE <<f, i>> \notin writing[v].todo
  <2> SUFFICES ASSUME <<f, i>> \in writing[v].todo PROVE FALSE  OBVIOUS
  <2>1. <<f, i>> \in Pairs(writing[v].frame)  BY <1>4 DEF WritersInv
  <2>2. Frags[f][i] = writing[v].frame  BY <2>1, PairsAre
  <2> QED  BY <1>1, <1>3, <1>4, <2>2 DEF WritersInv
<1>5. Frags[f][i] \notin Untaken  BY <1>3 DEF WritersInv
<1>6. ASSUME NEW g \in File, NEW j PROVE Unread(g, j)' <=> Unread(g, j) /\ <<g, j>> # <<f, i>>
  <2>1. CASE <<g, j>> = <<f, i>>
    <3>1. ~Unread(f, i)'  BY <1>4, <1>5 DEF Unread
    <3>2. g = f /\ j = i  BY <2>1
    <3> QED  BY <2>1, <3>1, <3>2
  <2>2. CASE <<g, j>> # <<f, i>>
    <3>1. \A v \in Writer : <<g, j>> \in writing'[v].todo <=> <<g, j>> \in writing[v].todo
      BY <2>2
    <3> QED  BY <2>2, <3>1 DEF Unread
  <2> QED  BY <2>1, <2>2
<1>7. \A v \in Writer : writing'[v].frame = writing[v].frame /\ writing'[v].files = writing[v].files
  OBVIOUS
<1>8. ASSUME NEW done \in SUBSET Frame, DoneInv(done), ReadIsIn(done)' PROVE DoneInv(done)'
  BY <1>7, <1>8 DEF DoneInv
<1>9. ASSUME NEW got, NEW own, CountInv(got, own) PROVE CountInv(got, own)'
  BY <1>7, <1>9 DEF CountInv
<1> QED  BY <1>2, <1>6, <1>8, <1>9

\* A file with all its fragments in joins the batch.
LEMMA PlacingKeepsFiles ==
  ASSUME WorkTypes, WritersInv, FilesApart, UnreadIsOut,
         NEW w \in Writer, NEW f \in File, NEW i \in DOMAIN Frags[f], <<f, i>> \in writing[w].todo, Sound(f),
         writing' = [writing EXCEPT ![w].todo = @ \ {<<f, i>>}, ![w].batch = Append(@, f)],
         pieces' = [g \in DOMAIN pieces \ {f} |-> pieces[g]],
         tree[f].times = 0, ~InBatch(f), \A j \in DOMAIN Frags[f] : Unread(f, j) => j = i,
         UNCHANGED <<collected, ended, tree, spoilt, troubles>>, Untaken' = Untaken
  PROVE  /\ WorkTypes' /\ WritersInv' /\ FilesApart' /\ UnreadIsOut'
         /\ \A done \in SUBSET Frame : DoneInv(done) => DoneInv(done)'
         /\ \A got, own : CountInv(got, own) => CountInv(got, own)'
<1>1. writing \in [Writer -> Work] /\ writing[w].batch \in Seq(File)  BY DEF WorkTypes, Work
<1>2. Append(writing[w].batch, f) \in Seq(File)  BY <1>1
<1>3. /\ writing' \in [Writer -> Work]
      /\ writing'[w].frame = writing[w].frame /\ writing'[w].todo = writing[w].todo \ {<<f, i>>}
      /\ writing'[w].files = writing[w].files /\ writing'[w].batch = Append(writing[w].batch, f)
      /\ \A v \in Writer \ {w} : writing'[v] = writing[v]
  BY <1>1, <1>2 DEF Work
<1>4. /\ WritersInv'
      /\ \A g \in File : \A j : Unread(g, j)' <=> Unread(g, j) /\ <<g, j>> # <<f, i>>
      /\ \A done \in SUBSET Frame : DoneInv(done) /\ ReadIsIn(done)' => DoneInv(done)'
      /\ \A got, own : CountInv(got, own) => CountInv(got, own)'
  BY <1>3, ReadingKeepsWriters
<1>5. /\ DOMAIN pieces' = DOMAIN pieces \ {f} /\ \A g \in DOMAIN pieces' : pieces'[g] = pieces[g]
      /\ pieces' = [g \in DOMAIN pieces' |-> pieces'[g]]
  OBVIOUS
<1>6. WorkTypes'  BY <1>3, <1>5 DEF WorkTypes
<1>7. /\ FilesIn(writing'[w].batch) = FilesIn(writing[w].batch) \cup {f} /\ Once(writing'[w].batch)
      /\ f \notin FilesIn(writing[w].batch)
  <2>1. f \notin Items(writing[w].batch)  BY DEF InBatch, FilesIn, Items
  <2>2. Once(writing[w].batch)  BY DEF FilesApart
  <2>3. \A q : FilesIn(q) = Items(q)  BY DEF FilesIn, Items
  <2> QED  BY <1>1, <1>3, <2>1, <2>2, <2>3, AppendHolds
<1>8. /\ \A g : g # f => (InBatch(g)' <=> InBatch(g)) /\ (Placed(g)' <=> Placed(g))
      /\ InBatch(f)' /\ Placed(f)'
  BY <1>3, <1>7 DEF InBatch, Placed
<1>9. FilesApart'
  <2>1. \A g \in File : tree'[g].times \in {0, 1} /\ tree'[g].right  BY DEF FilesApart
  <2>2. ASSUME NEW v \in Writer, NEW g \in FilesIn(writing'[v].batch)
        PROVE  /\ Sound(g)' /\ tree'[g].times = 0 /\ g \notin DOMAIN pieces'
               /\ \A u \in Writer : g \in FilesIn(writing'[u].batch) => u = v
    <3>1. CASE g = f
      <4>1. \A u \in Writer : f \notin FilesIn(writing[u].batch)  BY DEF InBatch
      <4>2. \A u \in Writer : f \in FilesIn(writing'[u].batch) => u = w  BY <1>3, <4>1
      <4> QED  BY <1>5, <2>2, <3>1, <4>2 DEF Sound
    <3>2. CASE g # f
      <4>1. \A u \in Writer : g \in FilesIn(writing'[u].batch) <=> g \in FilesIn(writing[u].batch)
        BY <1>3, <1>7, <3>2
      <4>2. g \in FilesIn(writing[v].batch)  BY <2>2, <4>1
      <4>3. /\ Sound(g) /\ tree[g].times = 0 /\ g \notin DOMAIN pieces
            /\ \A u \in Writer : g \in FilesIn(writing[u].batch) => u = v
        BY <4>2 DEF FilesApart
      <4> QED  BY <1>5, <4>1, <4>3 DEF Sound
    <3> QED  BY <3>1, <3>2
  <2>3. \A v \in Writer : Once(writing'[v].batch)  BY <1>3, <1>7 DEF FilesApart
  <2>4. \A g \in DOMAIN pieces' :
          /\ tree'[g].times = 0 /\ Len(Frags[g]) > 1
          /\ pieces'[g] \subseteq DOMAIN Frags[g] /\ pieces'[g] # DOMAIN Frags[g]
    BY <1>5 DEF FilesApart
  <2> QED  BY <2>1, <2>2, <2>3, <2>4 DEF FilesApart
<1>10. ASSUME NEW j \in DOMAIN Frags[f] PROVE ~Unread(f, j)'  BY <1>4
<1>11. UnreadIsOut'
  <2> SUFFICES ASSUME NEW g \in File, NEW j \in DOMAIN Frags[g], Unread(g, j)'
               PROVE  IF Len(Frags[g]) = 1 THEN tree'[g].times = 0 /\ ~InBatch(g)'
                      ELSE g \in DOMAIN pieces' /\ j \notin pieces'[g]
    BY DEF UnreadIsOut
  <2>1. Unread(g, j) /\ g # f  BY <1>4, <1>10
  <2> QED  BY <1>5, <1>8, <2>1 DEF UnreadIsOut
<1>12. ASSUME NEW done \in SUBSET Frame, DoneInv(done) PROVE DoneInv(done)'
  <2>1. ReadIsIn(done)  BY <1>12 DEF DoneInv
  <2>2. ReadIsIn(done)'
    <3> SUFFICES ASSUME ~collected.failed, NEW g \in File
                 PROVE  /\ Len(Frags[g]) > 1 /\ g \notin DOMAIN pieces' => Placed(g)'
                        /\ \A j \in DOMAIN Frags[g] :
                             ~Unread(g, j)' /\ (Frags[g][j] \in done \/ \E v \in Writer : writing'[v].frame = Frags[g][j])
                             => IF Len(Frags[g]) = 1 THEN Placed(g)' ELSE g \in DOMAIN pieces' => j \in pieces'[g]
      BY DEF ReadIsIn
    <3>1. CASE g = f  BY <1>5, <1>8, <3>1
    <3>2. CASE g # f
      <4>1. \A j : Unread(g, j)' <=> Unread(g, j)  BY <1>4, <3>2
      <4>2. \A v \in Writer : writing'[v].frame = writing[v].frame  BY <1>3
      <4>3. /\ g \in DOMAIN pieces' <=> g \in DOMAIN pieces
            /\ g \in DOMAIN pieces => pieces'[g] = pieces[g]
            /\ Placed(g)' <=> Placed(g)
        BY <1>5, <1>8, <3>2
      <4>4. Len(Frags[g]) > 1 /\ g \notin DOMAIN pieces' => Placed(g)'
        BY <2>1, <4>3 DEF ReadIsIn
      <4>5. ASSUME NEW j \in DOMAIN Frags[g], ~Unread(g, j)',
                   Frags[g][j] \in done \/ \E v \in Writer : writing'[v].frame = Frags[g][j]
            PROVE  IF Len(Frags[g]) = 1 THEN Placed(g)' ELSE g \in DOMAIN pieces' => j \in pieces'[g]
        <5>1. IF Len(Frags[g]) = 1 THEN Placed(g) ELSE g \in DOMAIN pieces => j \in pieces[g]
          BY <2>1, <4>1, <4>2, <4>5 DEF ReadIsIn
        <5> QED  BY <4>3, <5>1
      <4> QED  BY <4>4, <4>5
    <3> QED  BY <3>1, <3>2
  <2> QED  BY <1>4, <1>12, <2>2
<1> QED  BY <1>4, <1>6, <1>9, <1>11, <1>12

\* A fragment that is not the last of its file to come in.
LEMMA PieceKeepsFiles ==
  ASSUME WorkTypes, WritersInv, FilesApart, UnreadIsOut,
         NEW w \in Writer, NEW f \in DOMAIN pieces, NEW i \in DOMAIN Frags[f], <<f, i>> \in writing[w].todo,
         writing' = [writing EXCEPT ![w].todo = @ \ {<<f, i>>}],
         pieces' = [pieces EXCEPT ![f] = @ \cup {i}], pieces[f] \cup {i} # DOMAIN Frags[f],
         UNCHANGED <<collected, ended, tree, spoilt, troubles>>, Untaken' = Untaken
  PROVE  /\ WorkTypes' /\ WritersInv' /\ FilesApart' /\ UnreadIsOut'
         /\ \A done \in SUBSET Frame : DoneInv(done) => DoneInv(done)'
         /\ \A got, own : CountInv(got, own) => CountInv(got, own)'
<1>0. f \in File /\ Len(Frags[f]) # 1
  <2>1. f \in File /\ Len(Frags[f]) > 1  BY DEF WorkTypes, FilesApart
  <2> QED  BY <2>1, FragsAreMore
<1>1. writing \in [Writer -> Work]  BY DEF WorkTypes
<1>2. /\ writing' \in [Writer -> Work]
      /\ writing'[w].frame = writing[w].frame /\ writing'[w].todo = writing[w].todo \ {<<f, i>>}
      /\ writing'[w].files = writing[w].files /\ writing'[w].batch = writing[w].batch
      /\ \A v \in Writer \ {w} : writing'[v] = writing[v]
  BY <1>1 DEF Work
<1>3. /\ WritersInv'
      /\ \A g \in File : \A j : Unread(g, j)' <=> Unread(g, j) /\ <<g, j>> # <<f, i>>
      /\ \A done \in SUBSET Frame : DoneInv(done) /\ ReadIsIn(done)' => DoneInv(done)'
      /\ \A got, own : CountInv(got, own) => CountInv(got, own)'
  BY <1>0, <1>2, ReadingKeepsWriters
<1>4. /\ DOMAIN pieces' = DOMAIN pieces /\ pieces'[f] = pieces[f] \cup {i}
      /\ \A g \in DOMAIN pieces \ {f} : pieces'[g] = pieces[g]
      /\ pieces' = [g \in DOMAIN pieces' |-> pieces'[g]]
  BY DEF WorkTypes
<1>5. WorkTypes'  BY <1>2, <1>4 DEF WorkTypes
<1>6. \A v \in Writer : writing'[v].batch = writing[v].batch /\ writing'[v].frame = writing[v].frame
  BY <1>2
<1>7. \A g : (InBatch(g)' <=> InBatch(g)) /\ (Placed(g)' <=> Placed(g))  BY <1>6 DEF InBatch, Placed
<1>8. FilesApart'
  <2>1. \A g \in DOMAIN pieces' :
          /\ tree'[g].times = 0 /\ Len(Frags[g]) > 1
          /\ pieces'[g] \subseteq DOMAIN Frags[g] /\ pieces'[g] # DOMAIN Frags[g]
    BY <1>4 DEF FilesApart
  <2>2. \A v \in Writer :
          /\ Once(writing'[v].batch)
          /\ \A g \in FilesIn(writing'[v].batch) :
               /\ Sound(g)' /\ tree'[g].times = 0 /\ g \notin DOMAIN pieces'
               /\ \A u \in Writer : g \in FilesIn(writing'[u].batch) => u = v
    BY <1>4, <1>6 DEF FilesApart, Sound
  <2> QED  BY <2>1, <2>2 DEF FilesApart
<1>9. UnreadIsOut'
  <2> SUFFICES ASSUME NEW g \in File, NEW j \in DOMAIN Frags[g], Unread(g, j)'
               PROVE  IF Len(Frags[g]) = 1 THEN tree'[g].times = 0 /\ ~InBatch(g)'
                      ELSE g \in DOMAIN pieces' /\ j \notin pieces'[g]
    BY DEF UnreadIsOut
  <2>1. Unread(g, j) /\ <<g, j>> # <<f, i>>  BY <1>3
  <2>2. g = f => j # i  BY <2>1
  <2> QED  BY <1>4, <1>7, <2>1, <2>2 DEF UnreadIsOut
<1>10. ASSUME NEW done \in SUBSET Frame, DoneInv(done) PROVE DoneInv(done)'
  <2>1. ReadIsIn(done)  BY <1>10 DEF DoneInv
  <2>2. ReadIsIn(done)'
    <3> SUFFICES ASSUME ~collected.failed, NEW g \in File
                 PROVE  /\ Len(Frags[g]) > 1 /\ g \notin DOMAIN pieces' => Placed(g)'
                        /\ \A j \in DOMAIN Frags[g] :
                             ~Unread(g, j)' /\ (Frags[g][j] \in done \/ \E v \in Writer : writing'[v].frame = Frags[g][j])
                             => IF Len(Frags[g]) = 1 THEN Placed(g)' ELSE g \in DOMAIN pieces' => j \in pieces'[g]
      BY DEF ReadIsIn
    <3>1. Len(Frags[g]) > 1 /\ g \notin DOMAIN pieces' => Placed(g)'  BY <1>4, <1>7, <2>1 DEF ReadIsIn
    <3>2. ASSUME NEW j \in DOMAIN Frags[g], ~Unread(g, j)',
                 Frags[g][j] \in done \/ \E v \in Writer : writing'[v].frame = Frags[g][j]
          PROVE  IF Len(Frags[g]) = 1 THEN Placed(g)' ELSE g \in DOMAIN pieces' => j \in pieces'[g]
      <4>1. CASE g = f /\ j = i  BY <1>0, <1>4, <4>1
      <4>2. CASE ~(g = f /\ j = i)
        <5>1. ~Unread(g, j)  BY <1>3, <3>2, <4>2
        <5>2. IF Len(Frags[g]) = 1 THEN Placed(g) ELSE g \in DOMAIN pieces => j \in pieces[g]
          BY <1>6, <2>1, <3>2, <5>1 DEF ReadIsIn
        <5> QED  BY <1>4, <1>7, <5>2
      <4> QED  BY <4>1, <4>2
    <3> QED  BY <3>1, <3>2
  <2> QED  BY <1>3, <1>10, <2>2
<1> QED  BY <1>3, <1>5, <1>8, <1>9, <1>10

\* A writer reads a fragment: it is a file, the last piece of one, a piece, or
\* the frame fails.
LEMMA TakeFragmentKeeps ==
  ASSUME ExtractInv, NEW w \in Writer, TakeFragment(w)
  PROVE  ExtractInv'
<1> DEFINE p == NextPair(writing[w].todo)
<1>1. /\ PipeTypes /\ WorkTypes /\ PipeInv /\ WritersInv /\ FilesApart /\ UnreadIsOut /\ OverInv
  BY DEF ExtractInv
<1>2. writing[w].todo # {} /\ writing[w].todo \in SUBSET (File \X Nat) /\ writing \in [Writer -> Work]
  BY <1>1 DEF TakeFragment, WorkTypes, Work
<1>5. p \in writing[w].todo  BY <1>2, NextPairIsIn
<1>6. p \in Pairs(writing[w].frame)  BY <1>1, <1>5 DEF WritersInv
<1>7. PICK f \in File, i \in Nat : p = <<f, i>> /\ i \in DOMAIN Frags[f] /\ Frags[f][i] = writing[w].frame
  <2>1. /\ p = <<p[1], p[2]>> /\ p[1] \in File /\ p[2] \in DOMAIN Frags[p[1]]
        /\ Frags[p[1]][p[2]] = writing[w].frame
    BY <1>6, PairsAre
  <2>2. p[2] \in Nat  BY <2>1, FragsAre
  <2> QED  BY <2>1, <2>2
<1>3. /\ UNCHANGED <<clone, manifest, downloads, asyncq, bridge, chunkq, extractor, cutting, frameq, tree, spoilt, troubles>>
      /\ IF Len(Frags[f]) = 1 THEN Place(w, f) /\ UNCHANGED pieces
         ELSE IF f \notin DOMAIN pieces THEN Result(w, 0, TRUE) /\ UNCHANGED pieces
         ELSE IF i \in pieces[f] THEN Result(w, 0, TRUE) /\ UNCHANGED pieces
         ELSE IF Completes(f, i)
         THEN pieces' = [g \in DOMAIN pieces \ {f} |-> pieces[g]] /\ Place(w, f)
         ELSE /\ pieces' = [pieces EXCEPT ![f] = @ \cup {i}]
              /\ writing' = [writing EXCEPT ![w].todo = @ \ {p}]
              /\ UNCHANGED <<collected, ended>>
  <2>1. p[1] = f /\ p[2] = i  BY <1>7
  <2> QED  BY <2>1 DEF TakeFragment
<1>4. Place(w, f) => \/ /\ BlobMatches(f)
                        /\ writing' = [writing EXCEPT ![w].todo = @ \ {p}, ![w].batch = Append(@, f)]
                        /\ UNCHANGED <<collected, ended>>
                     \/ ~BlobMatches(f) /\ Result(w, 0, TRUE)
  BY DEF Place
<1> HIDE DEF p
<1>8. <<f, i>> \in writing[w].todo /\ Unread(f, i)  BY <1>5, <1>7 DEF Unread
<1>9. writing[w] # Idle  BY <1>2 DEF Idle
<1>10. writing[w].frame \in Frame
  <2>1. writing[w].frame # 0 /\ writing[w].frame \in Frame \cup {0}  BY <1>1, <1>2, <1>9 DEF WritersInv, Work
  <2> QED  BY <2>1
<1>11. Started /\ ~ExtractorOver  BY <1>1, <1>9 DEF OverInv
<1>12. OverInv'  BY <1>1, <1>3, <1>11, WorkingIsNotOver
<1>13. PICK done \in SUBSET Frame : DoneInv(done)  BY DEF ExtractInv
<1>14. Len(Frags[f]) \in Nat /\ DOMAIN Frags[f] = 1..Len(Frags[f])  BY <1>7, FragsAre
<1>15. Len(Frags[f]) = 1 => tree[f].times = 0 /\ ~InBatch(f) /\ f \notin DOMAIN pieces
  <2>1. f \in DOMAIN pieces => Len(Frags[f]) > 1  BY <1>1 DEF FilesApart
  <2> QED  BY <1>1, <1>7, <1>8, <2>1 DEF UnreadIsOut
<1>16. Len(Frags[f]) # 1 => /\ f \in DOMAIN pieces /\ i \notin pieces[f]
                            /\ tree[f].times = 0 /\ ~InBatch(f)
  <2>1. Len(Frags[f]) # 1 => f \in DOMAIN pieces /\ i \notin pieces[f]
    BY <1>1, <1>7, <1>8 DEF UnreadIsOut
  <2>2. f \in DOMAIN pieces => tree[f].times = 0 /\ ~InBatch(f)  BY <1>1 DEF FilesApart, InBatch
  <2> QED  BY <2>1, <2>2
\* A file whose fragments are all in, this one the last.
<1>17. ASSUME Place(w, f), pieces' = [g \in DOMAIN pieces \ {f} |-> pieces[g]],
              \A j \in DOMAIN Frags[f] : Unread(f, j) => j = i
       PROVE  ExtractInv'
  <2>1. CASE /\ BlobMatches(f)
             /\ writing' = [writing EXCEPT ![w].todo = @ \ {p}, ![w].batch = Append(@, f)]
             /\ UNCHANGED <<collected, ended>>
    <3>1. troubles' \in Nat /\ (troubles' = 0 => troubles = 0 /\ ~collected'.failed)
      BY <1>1, <1>3, <2>1 DEF PipeTypes, PipeInv, Undisturbed
    <3>2. PipeTypes' /\ PipeInv' /\ Untaken' = Untaken  BY <1>1, <1>3, <2>1, <3>1, WritingKeepsPipe
    <3>3. Sound(f)  BY <2>1 DEF BlobMatches
    <3>4. tree[f].times = 0 /\ ~InBatch(f)  BY <1>15, <1>16
    <3>5. writing' = [writing EXCEPT ![w].todo = @ \ {<<f, i>>}, ![w].batch = Append(@, f)]
      BY <1>7, <2>1
    <3>6. UNCHANGED <<collected, ended, tree, spoilt, troubles>>  BY <1>3, <2>1
    <3>7. /\ WorkTypes' /\ WritersInv' /\ FilesApart' /\ UnreadIsOut' /\ DoneInv(done)'
          /\ \A got, own : CountInv(got, own) => CountInv(got, own)'
      BY <1>1, <1>7, <1>8, <1>13, <1>17, <3>2, <3>3, <3>4, <3>5, <3>6, PlacingKeepsFiles
    <3> QED  BY <1>3, <1>12, <3>2, <3>7 DEF ExtractInv
  <2>2. CASE ~BlobMatches(f) /\ Result(w, 0, TRUE)
    <3>1. troubles # 0
      <4>1. ~Sound(f)  BY <2>2 DEF BlobMatches
      <4>2. spoilt # {}  BY <4>1 DEF Sound
      <4> QED  BY <1>1, <4>2 DEF PipeInv, Undisturbed
    <3>2. ended' = ended  BY <1>11, <2>2 DEF Result
    <3>3. troubles' \in Nat /\ troubles' # 0  BY <1>1, <1>3, <3>1 DEF PipeTypes
    <3>4. PipeTypes' /\ PipeInv' /\ Untaken' = Untaken  BY <1>1, <1>3, <3>2, <3>3, WritingKeepsPipe
    <3>5. tree' = Wrote({})  BY <1>1, <1>3, WroteNothing
    <3>6. \A j \in DOMAIN Frags[f] : ~Unread(f, j)'
      <4>1. writing[w].frame \notin Untaken' /\ Untaken' \subseteq Untaken  BY <1>1, <3>4 DEF WritersInv
      <4>2. /\ \A g \in File : \A j \in DOMAIN Frags[g] : Unread(g, j)' => Unread(g, j)
            /\ \A g \in File : \A j : <<g, j>> \in writing[w].todo => ~Unread(g, j)'
        <5>1. 0 \in Nat /\ TRUE \in BOOLEAN  OBVIOUS
        <5> QED  BY <1>1, <1>10, <1>11, <1>13, <2>2, <3>4, <4>1, <5>1, FailureKeepsWriters
      <4> QED  BY <1>7, <1>8, <1>17, <4>2
    <3>7. \A h \in {f} \cap DOMAIN pieces : \A j \in DOMAIN Frags[h] : ~Unread(h, j)'  BY <3>6
    <3>8. /\ Untaken' \subseteq Untaken /\ {} \in SUBSET FilesIn(writing[w].batch)
          /\ writing[w].frame \notin Untaken' /\ spoilt' = spoilt
      BY <1>1, <1>3, <3>4 DEF WritersInv
    <3>9. /\ WorkTypes' /\ WritersInv' /\ FilesApart' /\ UnreadIsOut'
          /\ \E d \in SUBSET Frame : DoneInv(d)'
      BY <1>1, <1>10, <1>11, <1>13, <1>17, <2>2, <3>3, <3>4, <3>5, <3>7, <3>8, FailureKeepsFiles
    <3> QED  BY <1>12, <3>3, <3>4, <3>9 DEF ExtractInv
  <2> QED  BY <1>4, <1>17, <2>1, <2>2
<1>18. CASE Len(Frags[f]) = 1
  <2>1. \A j \in DOMAIN Frags[f] : j = i  BY <1>7, <1>14, <1>18
  <2>2. pieces' = [g \in DOMAIN pieces \ {f} |-> pieces[g]]
    <3>1. DOMAIN pieces \ {f} = DOMAIN pieces  BY <1>15, <1>18
    <3>2. pieces = [g \in DOMAIN pieces |-> pieces[g]]  BY <1>1 DEF WorkTypes
    <3> QED  BY <1>3, <1>18, <3>1, <3>2
  <2> QED  BY <1>3, <1>17, <1>18, <2>1, <2>2
<1>19. CASE Len(Frags[f]) # 1 /\ Completes(f, i)
  <2>1. ASSUME NEW j \in DOMAIN Frags[f], Unread(f, j) PROVE j = i
    <3>1. j \notin pieces[f]  BY <1>1, <1>7, <1>19, <2>1 DEF UnreadIsOut
    <3> QED  BY <1>19, <3>1 DEF Completes
  <2>2. pieces' = [g \in DOMAIN pieces \ {f} |-> pieces[g]] /\ Place(w, f)
    BY <1>3, <1>16, <1>19
  <2> QED  BY <1>17, <2>1, <2>2
<1>20. CASE Len(Frags[f]) # 1 /\ ~Completes(f, i)
  <2>1. /\ pieces' = [pieces EXCEPT ![f] = @ \cup {i}]
        /\ writing' = [writing EXCEPT ![w].todo = @ \ {p}]
        /\ UNCHANGED <<collected, ended>>
    BY <1>3, <1>16, <1>20
  <2>2. writing' = [writing EXCEPT ![w].todo = @ \ {<<f, i>>}]  BY <1>7, <2>1
  <2>3. troubles' \in Nat /\ (troubles' = 0 => troubles = 0 /\ ~collected'.failed)
    BY <1>1, <1>3, <2>1 DEF PipeTypes, PipeInv, Undisturbed
  <2>4. PipeTypes' /\ PipeInv' /\ Untaken' = Untaken  BY <1>1, <1>3, <2>1, <2>3, WritingKeepsPipe
  <2>5. UNCHANGED <<collected, ended, tree, spoilt, troubles>>  BY <1>3, <2>1
  <2>6. pieces[f] \cup {i} # DOMAIN Frags[f] /\ f \in DOMAIN pieces  BY <1>16, <1>20 DEF Completes
  <2>7. /\ WorkTypes' /\ WritersInv' /\ FilesApart' /\ UnreadIsOut' /\ DoneInv(done)'
        /\ \A got, own : CountInv(got, own) => CountInv(got, own)'
    BY <1>1, <1>7, <1>8, <1>13, <2>1, <2>2, <2>4, <2>5, <2>6, PieceKeepsFiles
  <2> QED  BY <1>3, <1>12, <2>4, <2>7 DEF ExtractInv
<1> QED  BY <1>18, <1>19, <1>20

\* A batch is written.
LEMMA FlushKeeps ==
  ASSUME ExtractInv, NEW w \in Writer, writing[w] # Idle,
         writing' = [writing EXCEPT ![w].batch = <<>>, ![w].files = @ + Len(writing[w].batch)],
         tree' = Wrote(FilesIn(writing[w].batch)),
         UNCHANGED <<collected, ended, troubles>>,
         UNCHANGED <<clone, manifest, downloads, asyncq, bridge, chunkq, extractor, cutting, frameq, pieces, spoilt>>
  PROVE  ExtractInv'
<1>0. PICK fs : fs = FilesIn(writing[w].batch)  OBVIOUS
<1>1. /\ PipeTypes /\ WorkTypes /\ PipeInv /\ WritersInv /\ FilesApart /\ UnreadIsOut /\ OverInv
  BY DEF ExtractInv
<1>2. troubles' \in Nat /\ (troubles' = 0 => troubles = 0 /\ ~collected'.failed)
  BY <1>1 DEF PipeTypes, PipeInv, Undisturbed
<1>3. PipeTypes' /\ PipeInv' /\ Untaken' = Untaken  BY <1>1, <1>2, WritingKeepsPipe
<1>4. OverInv'
  <2>1. Started /\ ~ExtractorOver  BY <1>1 DEF OverInv
  <2> QED  BY <1>1, <2>1, WorkingIsNotOver
<1>5. writing \in [Writer -> Work] /\ writing[w].batch \in Seq(File) /\ writing[w].files \in Nat
  BY <1>1 DEF WorkTypes, Work
<1>6. Len(writing[w].batch) \in Nat /\ <<>> \in Seq(File)  BY <1>5
<1>7. /\ writing' \in [Writer -> Work]
      /\ writing'[w].frame = writing[w].frame /\ writing'[w].todo = writing[w].todo
      /\ writing'[w].batch = <<>> /\ writing'[w].files = writing[w].files + Len(writing[w].batch)
      /\ \A v \in Writer \ {w} : writing'[v] = writing[v]
  <2>1. writing[w].files + Len(writing[w].batch) \in Nat  BY <1>5, <1>6
  <2> QED  BY <1>5, <1>6, <2>1 DEF Work
<1>8. /\ tree' \in [File -> [times : Nat, right : BOOLEAN]] /\ fs \subseteq File
      /\ \A f \in fs : tree'[f].times = 1 /\ tree'[f].right /\ tree[f].times = 0
      /\ \A f \in File \ fs : tree'[f] = tree[f]
  <2>1. fs \in SUBSET FilesIn(writing[w].batch) /\ tree' = Wrote(fs)  BY <1>0
  <2> QED  BY <1>1, <2>1, WroteOnce
<1>9. WorkTypes'  BY <1>1, <1>7, <1>8 DEF WorkTypes
<1>10. \A v \in Writer : writing'[v].frame = writing[v].frame /\ writing'[v].todo = writing[v].todo  BY <1>7
<1>11. WritersInv'
  <2>1. \A v \in Writer : writing'[v] = Idle <=> writing[v] = Idle
    <3>1. writing[w].frame # 0  BY <1>1 DEF WritersInv
    <3>2. Idle.frame = 0  BY DEF Idle
    <3> QED  BY <1>7, <3>1, <3>2
  <2>2. ASSUME NEW v \in Writer
        PROVE  /\ writing'[v].frame = 0 => writing'[v] = Idle
               /\ v \in ended' => writing'[v] = Idle
               /\ writing'[v].frame \notin Untaken'
               /\ writing'[v].todo \subseteq Pairs(writing'[v].frame)
               /\ \A u \in Writer : u # v /\ writing'[v].frame = writing'[u].frame => writing'[v].frame = 0
    <3>1. /\ writing[v].frame = 0 => writing[v] = Idle
          /\ v \in ended => writing[v] = Idle
          /\ writing[v].frame \notin Untaken
          /\ writing[v].todo \subseteq Pairs(writing[v].frame)
          /\ \A u \in Writer : u # v /\ writing[v].frame = writing[u].frame => writing[v].frame = 0
      BY <1>1 DEF WritersInv
    <3>2. /\ writing'[v].frame = writing[v].frame /\ writing'[v].todo = writing[v].todo
          /\ Untaken' = Untaken /\ ended' = ended
      BY <1>3, <1>10
    <3>3. writing'[v].todo \subseteq Pairs(writing'[v].frame)  BY <3>1, <3>2, Zenon
    <3>4. /\ writing'[v].frame = 0 => writing'[v] = Idle
          /\ v \in ended' => writing'[v] = Idle
          /\ writing'[v].frame \notin Untaken'
      <4>1. writing'[v] = Idle <=> writing[v] = Idle  BY <2>1
      <4> QED  BY <3>1, <3>2, <4>1
    <3>5. \A u \in Writer : u # v /\ writing'[v].frame = writing'[u].frame => writing'[v].frame = 0
      BY <1>10, <3>1, <3>2, Zenon
    <3> QED  BY <3>3, <3>4, <3>5
  <2> QED  BY <2>2 DEF WritersInv
<1>12. \A f, i : Unread(f, i)' <=> Unread(f, i)  BY <1>3, <1>10 DEF Unread
<1>13. FilesIn(writing'[w].batch) = {} /\ Once(writing'[w].batch)  BY <1>7 DEF FilesIn, Once
<1>14. /\ \A f \in File : Placed(f)' <=> Placed(f)
       /\ \A f \in File : InBatch(f)' => InBatch(f)
       /\ \A f \in fs : InBatch(f)
  <2>1. \A f \in fs : InBatch(f) /\ Placed(f) /\ Placed(f)'  BY <1>0, <1>8 DEF InBatch, Placed
  <2>2. \A f \in File \ fs : InBatch(f)' <=> InBatch(f)  BY <1>0, <1>7, <1>13 DEF InBatch
  <2>3. \A f \in File \ fs : Placed(f)' <=> Placed(f)  BY <1>8, <2>2 DEF Placed
  <2> QED  BY <2>1, <2>2, <2>3
<1>15. FilesApart'
  <2>1. \A f \in File : tree'[f].times \in {0, 1} /\ tree'[f].right  BY <1>1, <1>8 DEF FilesApart
  <2>2. ASSUME NEW v \in Writer, v # w, NEW f \in FilesIn(writing'[v].batch)
        PROVE  /\ Sound(f)' /\ tree'[f].times = 0 /\ f \notin DOMAIN pieces'
               /\ \A u \in Writer : f \in FilesIn(writing'[u].batch) => u = v
    <3>1. f \in FilesIn(writing[v].batch) /\ f \in File
      BY <1>1, <1>7, <2>2 DEF WorkTypes, Work, FilesIn
    <3>2. f \notin fs  BY <1>0, <1>1, <2>2, <3>1 DEF FilesApart
    <3> QED  BY <1>1, <1>7, <1>8, <1>13, <2>2, <3>1, <3>2 DEF FilesApart, Sound
  <2>3. \A v \in Writer : Once(writing'[v].batch)  BY <1>1, <1>7, <1>13 DEF FilesApart
  <2>4. ASSUME NEW f \in DOMAIN pieces'
        PROVE  /\ tree'[f].times = 0 /\ Len(Frags[f]) > 1
               /\ pieces'[f] \subseteq DOMAIN Frags[f] /\ pieces'[f] # DOMAIN Frags[f]
    <3>1. f \in DOMAIN pieces /\ f \in File  BY <1>1 DEF WorkTypes
    <3>2. f \notin fs  BY <1>0, <1>1, <3>1 DEF FilesApart
    <3> QED  BY <1>1, <1>8, <3>1, <3>2 DEF FilesApart
  <2> QED  BY <1>13, <2>1, <2>2, <2>3, <2>4 DEF FilesApart
<1>16. UnreadIsOut'
  <2> SUFFICES ASSUME NEW f \in File, NEW i \in DOMAIN Frags[f], Unread(f, i)'
               PROVE  IF Len(Frags[f]) = 1 THEN tree'[f].times = 0 /\ ~InBatch(f)'
                      ELSE f \in DOMAIN pieces' /\ i \notin pieces'[f]
    BY DEF UnreadIsOut
  <2>1. Unread(f, i)  BY <1>12
  <2>2. CASE Len(Frags[f]) = 1
    <3>1. tree[f].times = 0 /\ ~InBatch(f)  BY <1>1, <2>1, <2>2 DEF UnreadIsOut
    <3> QED  BY <1>8, <1>14, <2>2, <3>1
  <2>3. CASE Len(Frags[f]) # 1  BY <1>1, <2>1, <2>3 DEF UnreadIsOut
  <2> QED  BY <2>2, <2>3
<1>17. PICK done \in SUBSET Frame : DoneInv(done)  BY DEF ExtractInv
<1>18. DoneInv(done)'
  <2>1. ReadIsIn(done)  BY <1>17 DEF DoneInv
  <2>2. ReadIsIn(done)'  BY <1>10, <1>12, <1>14, <2>1 DEF ReadIsIn
  <2> QED  BY <1>3, <1>10, <1>17, <2>2 DEF DoneInv
<1>19. ASSUME NEW got \in SUBSET File, NEW own \in [Writer -> SUBSET File], CountInv(got, own)
       PROVE  \E o \in [Writer -> SUBSET File] : CountInv(got, o)'
  <2>0. PICK o : o = [own EXCEPT ![w] = @ \cup fs]  OBVIOUS
  <2>1. /\ o \in [Writer -> SUBSET File] /\ o[w] = own[w] \cup fs
        /\ \A v \in Writer \ {w} : o[v] = own[v]
    BY <1>8, <1>19, <2>0
  <2>2. \A v \in Writer : own[v] \cap fs = {}  BY <1>8, <1>19 DEF CountInv
  <2>3. got \cap fs = {}  BY <1>8, <1>19 DEF CountInv
  <2>4. Cardinality(o[w]) = writing'[w].files
    <3>1. IsFiniteSet(fs) /\ Cardinality(fs) = Len(writing[w].batch)
      <4>1. Once(writing[w].batch)  BY <1>1 DEF FilesApart
      <4>2. fs = Items(writing[w].batch)  BY <1>0 DEF FilesIn, Items
      <4> QED  BY <1>5, <4>1, <4>2, ItemsCount
    <3>2. IsFiniteSet(own[w]) /\ Cardinality(own[w]) = writing[w].files
      <4>1. own[w] \in SUBSET File  BY <1>19
      <4> QED  BY <1>19, <4>1, FilesAreFinite, FS_Subset DEF CountInv
    <3>3. Cardinality(own[w] \cap fs) = 0
      <4>1. own[w] \cap fs = {}  BY <2>2
      <4> QED  BY <4>1, FS_EmptySet
    <3>4. Cardinality(own[w] \cup fs) = writing[w].files + Len(writing[w].batch) - 0
      BY <3>1, <3>2, <3>3, FS_Union
    <3> QED  BY <1>5, <1>6, <1>7, <2>1, <3>4
  <2>5. ASSUME NEW f \in File
        PROVE  tree'[f].times = 1 <=> f \in got \/ \E v \in Writer : f \in o[v]
    <3>1. tree[f].times = 1 <=> f \in got \/ \E v \in Writer : f \in own[v]  BY <1>19 DEF CountInv
    <3>2. CASE f \in fs  BY <1>8, <2>1, <3>2
    <3>3. CASE f \notin fs
      <4>1. tree'[f] = tree[f]  BY <1>8, <3>3
      <4>2. \A v \in Writer : f \in o[v] <=> f \in own[v]  BY <2>1, <3>3
      <4> QED  BY <3>1, <4>1, <4>2
    <3> QED  BY <3>2, <3>3
  <2>6. ASSUME NEW v \in Writer
        PROVE  /\ Cardinality(o[v]) = writing'[v].files
               /\ o[v] \cap got = {}
               /\ \A u \in Writer : u # v => o[v] \cap o[u] = {}
    <3>1. /\ \A u \in Writer : Cardinality(own[u]) = writing[u].files /\ own[u] \cap got = {}
          /\ \A u, x \in Writer : x # u => own[u] \cap own[x] = {}
      BY <1>19 DEF CountInv
    <3>2. CASE v = w  BY <2>1, <2>2, <2>3, <2>4, <3>1, <3>2
    <3>3. CASE v # w
      <4>1. o[v] = own[v] /\ writing'[v] = writing[v]  BY <1>7, <2>1, <3>3
      <4> QED  BY <2>1, <2>2, <3>1, <3>3, <4>1
    <3> QED  BY <3>2, <3>3
  <2>7. CountInv(got, o)'  BY <1>19, <2>5, <2>6 DEF CountInv
  <2> QED  BY <2>1, <2>7
<1> QED  BY <1>3, <1>4, <1>9, <1>11, <1>15, <1>16, <1>18, <1>19 DEF ExtractInv

\* A frame that is through has its result.
LEMMA ThroughKeeps ==
  ASSUME ExtractInv, NEW w \in Writer, writing[w] # Idle, Due(w) = "result",
         Result(w, writing[w].files, FALSE), UNCHANGED <<tree, troubles>>,
         UNCHANGED <<clone, manifest, downloads, asyncq, bridge, chunkq, extractor, cutting, frameq, pieces, spoilt>>
  PROVE  ExtractInv'
<1>0. PICK k : k = writing[w].frame  OBVIOUS
<1>1. /\ PipeTypes /\ WorkTypes /\ PipeInv /\ WritersInv /\ FilesApart /\ UnreadIsOut /\ OverInv
  BY DEF ExtractInv
<1>2. Started /\ ~ExtractorOver  BY <1>1 DEF OverInv
<1>3. OverInv'  BY <1>1, <1>2, WorkingIsNotOver
<1>4. writing[w].todo = {} /\ writing[w].batch = <<>>  BY DEF Due
<1>5. writing[w] \in Work /\ writing[w].files \in Nat  BY <1>1 DEF WorkTypes, Work
<1>6. k \in Frame /\ k # 0 /\ k \notin Untaken
  <2>1. k # 0 /\ k \in Frame \cup {0}  BY <1>0, <1>1, <1>5 DEF WritersInv, Work
  <2> QED  BY <1>0, <1>1, <2>1 DEF WritersInv
<1>7. PICK done \in SUBSET Frame : DoneInv(done)  BY DEF ExtractInv
<1>8. ended' = ended /\ collected' = [results |-> collected.results + 1, files |-> collected.files + writing[w].files,
                                      failed |-> collected.failed \/ FALSE]
  BY <1>2 DEF Result
<1>9. collected'.failed = collected.failed  BY <1>1, <1>8 DEF WorkTypes
<1>10. troubles' \in Nat /\ (troubles' = 0 => troubles = 0 /\ ~collected'.failed)
  BY <1>1, <1>9 DEF PipeTypes, PipeInv, Undisturbed
<1>11. PipeTypes' /\ PipeInv' /\ Untaken' = Untaken  BY <1>1, <1>8, <1>10, WritingKeepsPipe
<1>12. /\ writing' \in [Writer -> Work] /\ writing'[w] = Idle
       /\ \A v \in Writer \ {w} : writing'[v] = writing[v]
       /\ collected' \in [results : Nat, files : Nat, failed : BOOLEAN]
       /\ collected'.files = collected.files + writing[w].files
       /\ WritersInv'
       /\ done \cup {k} \in SUBSET Frame
       /\ IsFiniteSet(done \cup {k}) /\ Cardinality(done \cup {k}) = collected'.results
       /\ (done \cup {k}) \cap Untaken' = {}
       /\ \A v \in Writer : writing'[v].frame \notin done \cup {k}
  <2>1. FALSE \in BOOLEAN /\ Untaken' \subseteq Untaken /\ k \notin Untaken'  BY <1>6, <1>11
  <2>2. PICK n \in Nat : n = writing[w].files  BY <1>5
  <2>3. Result(w, n, FALSE) /\ (k \in Untaken \/ writing[w].frame = k)  BY <1>0, <2>2
  <2>4. /\ writing' \in [Writer -> Work] /\ writing'[w] = Idle
        /\ \A v \in Writer \ {w} : writing'[v] = writing[v]
        /\ collected' \in [results : Nat, files : Nat, failed : BOOLEAN]
        /\ collected'.files = collected.files + n
        /\ WritersInv'
        /\ done \cup {k} \in SUBSET Frame
        /\ IsFiniteSet(done \cup {k}) /\ Cardinality(done \cup {k}) = collected'.results
        /\ (done \cup {k}) \cap Untaken' = {}
        /\ \A v \in Writer : writing'[v].frame \notin done \cup {k}
    BY <1>1, <1>2, <1>6, <1>7, <1>11, <2>1, <2>3, FailureKeepsWriters
  <2> QED  BY <2>2, <2>4
<1>13. WorkTypes'  BY <1>1, <1>12 DEF WorkTypes
<1>14. \A v \in Writer : writing'[v].batch = writing[v].batch /\ writing'[v].todo = writing[v].todo
  <2>1. Idle.todo = {} /\ Idle.batch = <<>>  BY DEF Idle
  <2> QED  BY <1>4, <1>12, <2>1
<1>15. /\ \A f, i : Unread(f, i)' <=> Unread(f, i)
       /\ \A f : (InBatch(f)' <=> InBatch(f)) /\ (Placed(f)' <=> Placed(f))
  BY <1>11, <1>14 DEF Unread, InBatch, Placed
<1>16. FilesApart'  BY <1>1, <1>14 DEF FilesApart, Sound
<1>17. UnreadIsOut'  BY <1>1, <1>15 DEF UnreadIsOut
<1>18. \E d \in SUBSET Frame : DoneInv(d)'
  <2>0. PICK d \in SUBSET Frame : d = done \cup {k}  BY <1>12
  <2>1. \A j \in Frame : j \in d \/ (\E v \in Writer : writing'[v].frame = j)
                         <=> j \in done \/ (\E v \in Writer : writing[v].frame = j)
    <3>1. 0 \notin Frame /\ Idle.frame = 0  BY FramesAre DEF Idle
    <3> QED  BY <1>0, <1>12, <2>0, <3>1
  <2>2. ReadIsIn(done)  BY <1>7 DEF DoneInv
  <2>3. ReadIsIn(d)'
    <3>1. \A f \in File : \A i \in DOMAIN Frags[f] : Frags[f][i] \in Frame  BY FragsAre
    <3> QED  BY <1>9, <1>15, <2>1, <2>2, <3>1 DEF ReadIsIn
  <2>4. troubles' = 0 => Frame \subseteq d \cup Untaken' \cup {writing'[v].frame : v \in Writer}
    <3> SUFFICES ASSUME troubles = 0, NEW j \in Frame, j \notin Untaken
                 PROVE  j \in d \/ \E v \in Writer : writing'[v].frame = j
      BY <1>11
    <3>1. j \in done \/ \E v \in Writer : writing[v].frame = j  BY <1>7 DEF DoneInv
    <3> QED  BY <2>1, <3>1
  <2>5. DoneInv(d)'
    <3>1. /\ IsFiniteSet(d) /\ Cardinality(d) = collected'.results /\ d \cap Untaken' = {}
          /\ \A v \in Writer : writing'[v].frame \notin d
      BY <1>12, <2>0
    <3> QED  BY <2>3, <2>4, <3>1 DEF DoneInv
  <2> QED  BY <2>5
<1>19. ASSUME NEW got \in SUBSET File, NEW own \in [Writer -> SUBSET File], CountInv(got, own)
       PROVE  \E g \in SUBSET File : \E o \in [Writer -> SUBSET File] : CountInv(g, o)'
  <2>1. PICK g, o : /\ g = got \cup own[w] /\ o = [own EXCEPT ![w] = {}]  OBVIOUS
  <2>2. /\ g \in SUBSET File /\ o \in [Writer -> SUBSET File] /\ o[w] = {}
        /\ \A v \in Writer \ {w} : o[v] = own[v]
    BY <1>19, <2>1
  <2>3. Cardinality(g) = collected'.files
    <3>1. IsFiniteSet(own[w]) /\ IsFiniteSet(got)
      <4>1. own[w] \in SUBSET File  BY <1>19
      <4> QED  BY <1>19, <4>1, FilesAreFinite, FS_Subset
    <3>2. Cardinality(got \cap own[w]) = 0
      <4>1. got \cap own[w] = {}  BY <1>19 DEF CountInv
      <4> QED  BY <4>1, FS_EmptySet
    <3>3. Cardinality(got \cup own[w]) = Cardinality(got) + Cardinality(own[w]) - 0
      BY <3>1, <3>2, FS_Union
    <3>4. Cardinality(got) = collected.files /\ Cardinality(own[w]) = writing[w].files
      BY <1>19 DEF CountInv
    <3>5. collected.files \in Nat  BY <1>1 DEF WorkTypes
    <3> QED  BY <1>5, <1>12, <2>1, <3>3, <3>4, <3>5
  <2>4. \A f : (f \in g \/ \E v \in Writer : f \in o[v]) <=> (f \in got \/ \E v \in Writer : f \in own[v])
    BY <2>1, <2>2
  <2>5. ASSUME NEW v \in Writer
        PROVE  /\ Cardinality(o[v]) = writing'[v].files
               /\ o[v] \cap g = {}
               /\ \A u \in Writer : u # v => o[v] \cap o[u] = {}
    <3>0. Idle.files = 0 /\ Cardinality({}) = 0  BY FS_EmptySet DEF Idle
    <3>1. CASE v = w
      <4>1. o[v] = {} /\ writing'[v].files = 0  BY <1>12, <2>2, <3>0, <3>1
      <4> QED  BY <3>0, <4>1
    <3>2. CASE v # w  BY <1>12, <1>19, <2>1, <2>2, <3>2 DEF CountInv
    <3> QED  BY <3>1, <3>2
  <2>6. \A f \in File : tree'[f].times = 1 <=> f \in g \/ \E v \in Writer : f \in o[v]
    BY <1>19, <2>4 DEF CountInv
  <2>7. CountInv(g, o)'  BY <2>3, <2>5, <2>6 DEF CountInv
  <2> QED  BY <2>2, <2>7
<1> QED  BY <1>3, <1>11, <1>12, <1>13, <1>16, <1>17, <1>18, <1>19 DEF ExtractInv

\* A batch is written, or the frame's result is sent.
LEMMA WriteBatchOutKeeps ==
  ASSUME ExtractInv, NEW w \in Writer, WriteBatchOut(w)
  PROVE  ExtractInv'
<1>1. /\ writing[w] # Idle
      /\ UNCHANGED <<clone, manifest, downloads, asyncq, bridge, chunkq, extractor, cutting, frameq, pieces, spoilt>>
  BY DEF WriteBatchOut
<1>2. CASE /\ writing' = [writing EXCEPT ![w].batch = <<>>, ![w].files = @ + Len(writing[w].batch)]
           /\ tree' = Wrote(FilesIn(writing[w].batch))
           /\ UNCHANGED <<collected, ended, troubles>>
  BY <1>1, <1>2, FlushKeeps
<1>3. CASE /\ Trouble /\ Result(w, 0, TRUE)
           /\ \E fs \in SUBSET FilesIn(writing[w].batch) : tree' = Wrote(fs)
  <2>1. /\ PipeTypes /\ WorkTypes /\ PipeInv /\ WritersInv /\ FilesApart /\ UnreadIsOut /\ OverInv
    BY DEF ExtractInv
  <2>2. Started /\ ~ExtractorOver  BY <1>1, <2>1 DEF OverInv
  <2>3. OverInv'  BY <1>1, <2>1, <2>2, WorkingIsNotOver
  <2>4. troubles' \in Nat /\ troubles' # 0  BY <1>3, <2>1 DEF Trouble, PipeTypes
  <2>5. ended' = ended  BY <1>3, <2>2 DEF Result
  <2>6. PipeTypes' /\ PipeInv' /\ Untaken' = Untaken  BY <1>1, <2>1, <2>4, <2>5, WritingKeepsPipe
  <2>7. PICK done \in SUBSET Frame : DoneInv(done)  BY DEF ExtractInv
  <2>8. PICK fs \in SUBSET FilesIn(writing[w].batch) : tree' = Wrote(fs)  BY <1>3
  <2>9. writing[w].frame \in Frame /\ writing[w].frame \notin Untaken'
    <3>1. writing[w].frame \in Frame \cup {0}  BY <2>1 DEF WorkTypes, Work
    <3> QED  BY <1>1, <2>1, <2>6, <3>1 DEF WritersInv
  <2>10. pieces' = [g \in DOMAIN pieces \ {} |-> pieces[g]]  BY <1>1, <2>1 DEF WorkTypes
  <2>11. /\ \A f \in {} \cap DOMAIN pieces : \A i \in DOMAIN Frags[f] : ~Unread(f, i)'
         /\ Untaken' \subseteq Untaken /\ spoilt' = spoilt
    BY <1>1, <2>6
  <2>12. /\ WorkTypes' /\ WritersInv' /\ FilesApart' /\ UnreadIsOut'
         /\ \E d \in SUBSET Frame : DoneInv(d)'
    BY <1>3, <2>1, <2>2, <2>4, <2>6, <2>7, <2>8, <2>9, <2>10, <2>11, FailureKeepsFiles
  <2> QED  BY <2>3, <2>4, <2>6, <2>12 DEF ExtractInv
<1>4. CASE Due(w) = "result" /\ Result(w, writing[w].files, FALSE) /\ UNCHANGED <<tree, troubles>>
  BY <1>1, <1>4, ThroughKeeps
<1> QED  BY <1>2, <1>3, <1>4 DEF WriteBatchOut

-----------------------------------------------------------------------------
(* ArchiveExtract: the end, and the invariant.                              *)

\* With a result for every frame nothing is under way.
LEMMA AllResultsIn ==
  ASSUME ExtractInv, NEW done \in SUBSET Frame, DoneInv(done), collected.results = Len(ChunkOf)
  PROVE  done = Frame /\ Untaken = {} /\ \A w \in Writer : writing[w] = Idle
<1>1. done = Frame
  <2>1. Cardinality(done) = Cardinality(Frame) /\ IsFiniteSet(Frame)  BY FramesAre DEF DoneInv
  <2> QED  BY <2>1, FS_Subset
<1>2. Untaken = {}
  <2>1. Untaken \subseteq Frame  BY NoFrameIsZero DEF ExtractInv
  <2> QED  BY <1>1, <2>1 DEF DoneInv
<1>3. ASSUME NEW w \in Writer PROVE writing[w] = Idle
  <2>1. writing[w].frame \in Frame \cup {0}  BY DEF ExtractInv, WorkTypes, Work
  <2>2. writing[w].frame = 0  BY <1>1, <2>1 DEF DoneInv
  <2> QED  BY <2>2 DEF ExtractInv, WritersInv
<1> QED  BY <1>1, <1>2, <1>3

\* And if none of them failed, every file is written.
LEMMA AllFilesWritten ==
  ASSUME ExtractInv, collected.results = Len(ChunkOf), ~collected.failed
  PROVE  \A f \in File : tree[f] = [times |-> 1, right |-> TRUE]
<1>1. PICK done \in SUBSET Frame : DoneInv(done)  BY DEF ExtractInv
<1>2. done = Frame /\ Untaken = {} /\ \A w \in Writer : writing[w] = Idle  BY <1>1, AllResultsIn
<1>3. ASSUME NEW f \in File PROVE tree[f] = [times |-> 1, right |-> TRUE]
  <2>0. \A w \in Writer : FilesIn(writing[w].batch) = {} /\ writing[w].todo = {}
    BY <1>2 DEF Idle, FilesIn
  <2>1. ~InBatch(f) /\ \A i : ~(\E w \in Writer : <<f, i>> \in writing[w].todo)  BY <2>0 DEF InBatch
  <2>2. Len(Frags[f]) \in Nat \ {0} /\ DOMAIN Frags[f] = 1..Len(Frags[f])
        /\ \A i \in DOMAIN Frags[f] : Frags[f][i] \in Frame
    BY FragsAre
  <2>3. ASSUME NEW i \in DOMAIN Frags[f]
        PROVE  IF Len(Frags[f]) = 1 THEN Placed(f) ELSE f \in DOMAIN pieces => i \in pieces[f]
    <3>1. ~Unread(f, i)  BY <1>2, <2>1 DEF Unread
    <3>2. Frags[f][i] \in done  BY <1>2, <2>2
    <3>3. ReadIsIn(done)  BY <1>1 DEF DoneInv
    <3> QED  BY <3>1, <3>2, <3>3 DEF ReadIsIn
  <2>4. Placed(f)
    <3>1. CASE Len(Frags[f]) = 1
      <4>1. 1 \in DOMAIN Frags[f]  BY <2>2, <3>1
      <4> QED  BY <2>3, <3>1, <4>1
    <3>2. CASE Len(Frags[f]) # 1
      <4>1. Len(Frags[f]) > 1
        <5>1. \A n \in Nat \ {0} : n # 1 => n > 1  OBVIOUS
        <5> QED  BY <2>2, <3>2, <5>1, Zenon
      <4>2. f \notin DOMAIN pieces
        <5> SUFFICES ASSUME f \in DOMAIN pieces PROVE FALSE  OBVIOUS
        <5>1. pieces[f] \subseteq DOMAIN Frags[f] /\ pieces[f] # DOMAIN Frags[f]
          BY DEF ExtractInv, FilesApart
        <5> QED  BY <2>3, <3>2, <5>1
      <4>3. ReadIsIn(done)  BY <1>1 DEF DoneInv
      <4> QED  BY <4>1, <4>2, <4>3 DEF ReadIsIn
    <3> QED  BY <3>1, <3>2
  <2>5. tree[f].times = 1 /\ tree[f].right = TRUE /\ tree[f] \in [times : Nat, right : BOOLEAN]
    BY <2>1, <2>4 DEF Placed, ExtractInv, FilesApart, WorkTypes
  <2> QED  BY <2>5
<1> QED  BY <1>3

\* Without trouble the extractor ends with all its results and all files
\* counted.
LEMMA UndisturbedEnd ==
  ASSUME ExtractInv, troubles = 0, CollectorEnds
  PROVE  collected.results = Len(ChunkOf) /\ ~collected.failed /\ collected.files = Cardinality(File)
<1>0. Undisturbed /\ PipeTypes  BY DEF ExtractInv, PipeInv
<1>1. PICK done \in SUBSET Frame : DoneInv(done)  BY DEF ExtractInv
<1>2. collected.results = Len(ChunkOf)
  <2> SUFFICES ASSUME Writer \subseteq ended PROVE collected.results = Len(ChunkOf)
    BY DEF CollectorEnds, WritersGone
  <2>1. PICK w \in Writer : w \in ended  BY ExtractAssumption
  <2>2. Fetcher \subseteq ended /\ frameq = <<>>  BY <1>0, <2>1 DEF Undisturbed
  <2>3. PICK t \in Fetcher : t \in ended  BY <2>2, ExtractAssumption
  <2>4. "bridge" \in ended /\ chunkq = <<>> /\ \A u \in Fetcher : cutting[u] = {}
    BY <1>0, <2>2, <2>3 DEF Undisturbed
  <2>5. DownloadsOver /\ asyncq = <<>> /\ bridge = 0  BY <1>0, <2>4 DEF Undisturbed
  <2>6. Coming = {} /\ downloads.busy = {} /\ downloads.held = {}
    <3>1. downloads.state = "ok"  BY <1>0, <2>5 DEF Undisturbed, DownloadsOver
    <3> QED  BY <1>0, <3>1 DEF ExtractInv, PipeInv, Undisturbed
  <2>7. Untaken = {}
    <3>1. ChunksLeft = {}  BY <2>4, <2>5, <2>6, EmptyHolds DEF ChunksLeft, Bridged
    <3>2. Fresh = {} /\ BeingCut = {}  BY <2>4, <3>1 DEF Fresh, BeingCut
    <3> QED  BY <2>2, <3>2, EmptyHolds DEF Untaken
  <2>8. \A v \in Writer : writing[v].frame = 0  BY DEF ExtractInv, WritersInv, Idle
  <2>9. done = Frame
    <3>1. Frame \subseteq done \cup {writing[v].frame : v \in Writer}  BY <1>1, <2>7 DEF DoneInv
    <3> QED  BY <2>8, <3>1, FramesAre
  <2> QED  BY <1>1, <2>9, FramesAre DEF DoneInv
<1>3. ~collected.failed  BY <1>0 DEF Undisturbed
<1>4. \A f \in File : tree[f].times = 1
  <2>1. \A f \in File : tree[f] = [times |-> 1, right |-> TRUE]  BY <1>2, <1>3, AllFilesWritten
  <2> QED  BY <2>1
<1>5. PICK got \in SUBSET File, own \in [Writer -> SUBSET File] : CountInv(got, own)  BY DEF ExtractInv
<1>6. \A w \in Writer : own[w] = {}
  <2> SUFFICES ASSUME NEW w \in Writer PROVE own[w] = {}  OBVIOUS
  <2>1. writing[w].files = 0
    <3>1. writing[w] = Idle  BY <1>1, <1>2, AllResultsIn
    <3> QED  BY <3>1 DEF Idle
  <2>2. own[w] \in SUBSET File  BY <1>5
  <2>3. IsFiniteSet(own[w])  BY <2>2, FilesAreFinite, FS_Subset
  <2>4. Cardinality(own[w]) = 0  BY <1>5, <2>1 DEF CountInv
  <2> QED  BY <2>3, <2>4, FS_EmptySet
<1>7. got = File  BY <1>4, <1>5, <1>6 DEF CountInv
<1> QED  BY <1>2, <1>3, <1>5, <1>7 DEF CountInv

\* The extractor ends.
LEMMA EndExtractorKeeps ==
  ASSUME ExtractInv, EndExtractor
  PROVE  ExtractInv'
<1>0. /\ extractor = "collecting" /\ CollectorEnds
      /\ extractor' = IF /\ collected.results = Len(ChunkOf) /\ ~collected.failed
                         /\ collected.files = Cardinality(File)
                      THEN "ok" ELSE "failed"
      /\ UNCHANGED <<clone, manifest, downloads, asyncq, bridge, chunkq, cutting, frameq, writing, pieces, collected,
                     tree, ended, spoilt, troubles>>
  BY DEF EndExtractor
<1>1. /\ PipeTypes /\ WorkTypes /\ PipeInv /\ WritersInv /\ FilesApart /\ UnreadIsOut /\ OverInv
  BY DEF ExtractInv
<1>2. PICK done \in SUBSET Frame : DoneInv(done)  BY DEF ExtractInv
<1>3. ChunksApart' /\ ChunksLeft' = ChunksLeft /\ Coming' = Coming
  BY <1>0, <1>1 DEF PipeInv, ChunksApart, ChunksLeft, Coming, Bridged
<1>4. FramesApart' /\ Untaken' = Untaken  BY <1>0, <1>1, <1>3, ChunksKeepFrames DEF PipeInv
<1>5. troubles' = 0 => Undisturbed'
  <2> SUFFICES ASSUME troubles = 0 PROVE Undisturbed'  BY <1>0
  <2>1. extractor' = "ok"  BY <1>0, UndisturbedEnd
  <2> QED  BY <1>0, <1>1, <1>3, <2>1 DEF PipeInv, Undisturbed, DownloadsOver
<1>6. PipeTypes'  BY <1>0, <1>1 DEF PipeTypes
<1>7. PipeInv'  BY <1>0, <1>1, <1>3, <1>4, <1>5 DEF PipeInv
<1>8. Resting  BY <1>0, <1>1, <1>4 DEF Resting, Feeds, WritersInv
<1>9. /\ WorkTypes' /\ WritersInv' /\ FilesApart' /\ UnreadIsOut' /\ DoneInv(done)'
      /\ \A got, own : CountInv(got, own) => CountInv(got, own)'
  BY <1>1, <1>2, <1>8, RestingKeeps
<1>10. /\ \A w \in Writer : writing[w] = Idle
       /\ Writer \subseteq ended \/ Untaken = {}
  <2>1. CASE collected.results = Len(ChunkOf)  BY <1>2, <2>1, AllResultsIn
  <2>2. CASE WritersGone  BY <1>1, <2>2 DEF WritersGone, WritersInv
  <2> QED  BY <1>0, <2>1, <2>2 DEF CollectorEnds
<1>11. OverInv'  BY <1>0, <1>1, <1>4, <1>10 DEF OverInv, Started, ExtractorOver
<1> QED  BY <1>0, <1>6, <1>7, <1>9, <1>11 DEF ExtractInv

\* Steps of the clone, the downloads, the bridge and the fetchers, and the end
\* of a writer.
LEMMA PipelineKeeps ==
  ASSUME ExtractInv, PipeTypes', PipeInv', Resting, OverInv'
  PROVE  ExtractInv'
<1>1. /\ WorkTypes /\ WritersInv /\ FilesApart /\ UnreadIsOut  BY DEF ExtractInv
<1>2. PICK done \in SUBSET Frame : DoneInv(done)  BY DEF ExtractInv
<1>3. /\ WorkTypes' /\ WritersInv' /\ FilesApart' /\ UnreadIsOut' /\ DoneInv(done)'
      /\ \A got, own : CountInv(got, own) => CountInv(got, own)'
  BY <1>1, <1>2, RestingKeeps
<1>4. troubles' = 0 => troubles = 0  BY DEF Resting
<1> QED  BY <1>3, <1>4 DEF ExtractInv

\* Steps that leave the writers alone and the extractor where it is.
LEMMA AsideKeeps ==
  ASSUME ExtractInv, PipeTypes', PipeInv', Feeds, troubles' = troubles \/ troubles' = troubles + 1,
         UNCHANGED <<extractor, writing, pieces, collected, tree, spoilt>>,
         ended \subseteq ended', \A w \in Writer : w \in ended' \ ended => writing[w] = Idle,
         clone' = "fetching" => clone = "fetching", clone' = "done" => clone = "done" \/ extractor = "ok"
  PROVE  ExtractInv'
<1>0. PipeTypes /\ WritersInv /\ OverInv  BY DEF ExtractInv
<1>1. Resting
  <2>1. troubles' = 0 => troubles = 0  BY <1>0 DEF PipeTypes
  <2>2. \A w \in Writer \cap ended' : writing[w] = Idle  BY <1>0 DEF WritersInv
  <2> QED  BY <2>1, <2>2 DEF Resting
<1>2. OverInv'  BY <1>0 DEF Feeds, OverInv, Started, ExtractorOver
<1> QED  BY <1>1, <1>2, PipelineKeeps

\* The steps of the clone that leave the extractor alone.
LEMMA CloneStepsKeep ==
  ASSUME ExtractInv, ManifestHere \/ JoinNext \/ CancelClone
  PROVE  ExtractInv'
<1>0. PipeTypes /\ PipeInv  BY DEF ExtractInv
<1>1. PipeTypes' /\ PipeInv' /\ Feeds  BY <1>0, ManifestHerePipe, JoinNextPipe, CancelClonePipe
<1>2. /\ UNCHANGED <<extractor, writing, pieces, collected, tree, spoilt, ended>>
      /\ troubles' = troubles \/ troubles' = troubles + 1
  BY DEF ManifestHere, JoinNext, CancelClone, Trouble
<1>3. /\ clone' = "fetching" => clone = "fetching"
      /\ clone' = "done" => clone = "done" \/ extractor = "ok"
  BY DEF ManifestHere, JoinNext, CancelClone, FailClone
<1> QED  BY <1>1, <1>2, <1>3, AsideKeeps

\* The steps of the downloads.
LEMMA DownloadStepsKeep ==
  ASSUME ExtractInv, BeginDownloads \/ DownloadChunk \/ SendChunk
  PROVE  ExtractInv'
<1>0. PipeTypes /\ PipeInv  BY DEF ExtractInv
<1>1. PipeTypes' /\ PipeInv' /\ Feeds  BY <1>0, BeginDownloadsPipe, DownloadChunkPipe, SendChunkPipe
<1>2. /\ UNCHANGED <<clone, extractor, writing, pieces, collected, tree, spoilt, ended>>
      /\ troubles' = troubles \/ troubles' = troubles + 1
  BY DEF BeginDownloads, DownloadChunk, SendChunk, Trouble
<1> QED  BY <1>1, <1>2, AsideKeeps

\* The steps of the bridge thread.
LEMMA BridgeStepKeeps ==
  ASSUME ExtractInv, BridgeStep
  PROVE  ExtractInv'
<1>0. PipeTypes /\ PipeInv  BY DEF ExtractInv
<1>1. PipeTypes' /\ PipeInv' /\ Feeds  BY <1>0, BridgeStepPipe
<1>2. UNCHANGED <<clone, extractor, writing, pieces, collected, tree, spoilt, troubles>>  BY DEF BridgeStep
<1>3. ended' = ended \/ ended' = ended \cup {"bridge"}  BY DEF BridgeStep
<1>4. "bridge" \notin Writer  BY ExtractAssumption
<1> QED  BY <1>1, <1>2, <1>3, <1>4, AsideKeeps

\* The steps of a fetcher thread.
LEMMA FetcherStepKeeps ==
  ASSUME ExtractInv, NEW t \in Fetcher, FetcherStep(t)
  PROVE  ExtractInv'
<1>0. PipeTypes /\ PipeInv  BY DEF ExtractInv
<1>1. PipeTypes' /\ PipeInv' /\ Feeds  BY <1>0, FetcherStepPipe
<1>2. UNCHANGED <<clone, extractor, writing, pieces, collected, tree, spoilt, troubles>>  BY DEF FetcherStep
<1>3. ended' = ended \/ ended' = ended \cup {t}  BY DEF FetcherStep
<1>4. t \notin Writer  BY ExtractAssumption
<1> QED  BY <1>1, <1>2, <1>3, <1>4, AsideKeeps

\* A writer that ends has nothing.
LEMMA WriterEndsKeeps ==
  ASSUME ExtractInv, NEW w \in Writer, WriterEnds(w)
  PROVE  ExtractInv'
<1>0. PipeTypes /\ PipeInv  BY DEF ExtractInv
<1>1. PipeTypes' /\ PipeInv' /\ Feeds  BY <1>0, WriterEndsPipe
<1>2. /\ UNCHANGED <<clone, extractor, writing, pieces, collected, tree, spoilt, troubles>>
      /\ ended' = ended \cup {w} /\ writing[w] = Idle
  BY DEF WriterEnds
<1> QED  BY <1>1, <1>2, AsideKeeps

\* The extractor starts, and no thread of it yet.
LEMMA StartExtractorKeeps ==
  ASSUME ExtractInv, StartExtractor
  PROVE  ExtractInv'
<1>0. PipeTypes /\ PipeInv /\ WritersInv /\ OverInv  BY DEF ExtractInv
<1>1. PipeTypes' /\ PipeInv' /\ Feeds  BY <1>0, StartExtractorPipe
<1>2. UNCHANGED <<writing, pieces, collected, tree, spoilt, ended>>  BY DEF StartExtractor
<1>3. CASE clone' = "downloads" /\ extractor' = "preparing" /\ UNCHANGED troubles
  <2>1. Resting  BY <1>0, <1>1, <1>2, <1>3 DEF Resting, WritersInv
  <2>2. clone = "fetching"  BY DEF StartExtractor
  <2>3. OverInv'  BY <1>0, <1>2, <1>3, <2>2 DEF OverInv, Started, ExtractorOver
  <2> QED  BY <1>1, <2>1, <2>3, PipelineKeeps
<1>4. CASE Trouble /\ clone' = "failed" /\ UNCHANGED extractor
  <2>1. troubles' = troubles + 1  BY <1>4 DEF Trouble
  <2> QED  BY <1>1, <1>2, <1>4, <2>1, AsideKeeps
<1> QED  BY <1>3, <1>4 DEF StartExtractor, FailClone

\* A preparation that fails ends the threads before they have begun.
LEMMA PrepareTreeKeeps ==
  ASSUME ExtractInv, PrepareTree
  PROVE  ExtractInv'
<1>0. PipeTypes /\ PipeInv /\ WritersInv /\ OverInv  BY DEF ExtractInv
<1>1. PipeTypes' /\ PipeInv' /\ Feeds  BY <1>0, PrepareTreePipe
<1>2. /\ UNCHANGED <<clone, writing, pieces, collected, tree, spoilt>> /\ extractor = "preparing"
      /\ troubles' = troubles \/ troubles' = troubles + 1
  BY DEF PrepareTree, Trouble
<1>3. \A w \in Writer : writing[w] = Idle  BY <1>0, <1>2 DEF OverInv, Started
<1>4. Resting
  <2>1. troubles' = 0 => troubles = 0  BY <1>0, <1>2 DEF PipeTypes
  <2> QED  BY <1>1, <1>2, <1>3, <2>1 DEF Resting
<1>5. /\ extractor' = "collecting" \/ extractor' = "failed"
      /\ extractor' = "failed" => Writer \subseteq ended'
  BY DEF PrepareTree
<1>6. OverInv'  BY <1>0, <1>2, <1>3, <1>5 DEF OverInv, Started, ExtractorOver
<1> QED  BY <1>1, <1>4, <1>6, PipelineKeeps

\* At first no chunk is taken and no fragment is in.
LEMMA ExtractStarts == ExtractInit => ExtractInv
<1> SUFFICES ASSUME ExtractInit PROVE ExtractInv  OBVIOUS
<1>0. /\ clone = "fetching" /\ manifest = "coming" /\ extractor = "none"
      /\ downloads = [state |-> "waiting", next |-> 1, busy |-> {}, held |-> {}]
      /\ asyncq = <<>> /\ bridge = 0 /\ chunkq = <<>> /\ frameq = <<>> /\ ended = {}
      /\ cutting = [t \in Fetcher |-> {}]
      /\ spoilt \in SUBSET Frame /\ troubles = IF spoilt = {} THEN 0 ELSE 1
  BY DEF ExtractInit
<1>1. /\ writing = [w \in Writer |-> Idle]
      /\ pieces = [f \in {g \in File : Len(Frags[g]) > 1} |-> {}]
      /\ collected = [results |-> 0, files |-> 0, failed |-> FALSE]
      /\ tree = [f \in File |-> [times |-> 0, right |-> TRUE]]
  BY DEF ExtractInit
<1>2. PipeTypes
  <2>1. downloads \in Downloads  BY <1>0 DEF Downloads
  <2> QED  BY <1>0, <2>1 DEF PipeTypes
<1>3. WorkTypes
  <2>1. Idle \in Work  BY DEF Idle, Work
  <2> QED  BY <1>0, <1>1, <2>1 DEF WorkTypes
<1>4. Coming = ArchiveChunk /\ Items(asyncq) = {} /\ Items(chunkq) = {} /\ Items(frameq) = {} /\ Bridged = {}
  <2>1. \A c \in ArchiveChunk : 1 <= c  BY ChunksAre
  <2> QED  BY <1>0, <2>1, EmptyHolds DEF Coming, Bridged
<1>5. PipeInv
  <2>1. ChunksApart  BY <1>0, <1>4, EmptyHolds DEF ChunksApart
  <2>2. FramesApart  BY <1>0, <1>4, EmptyHolds DEF FramesApart, BeingCut
  <2>3. troubles = 0 => Undisturbed  BY <1>0, <1>1 DEF Undisturbed
  <2> QED  BY <1>0, <2>1, <2>2, <2>3 DEF PipeInv
<1>6. Untaken = Frame
  <2>1. ChunksLeft = ArchiveChunk  BY <1>0, <1>4 DEF ChunksLeft
  <2>2. Fresh = Frame  BY <2>1 DEF Fresh, ArchiveChunk
  <2>3. BeingCut = {}  BY <1>0 DEF BeingCut
  <2> QED  BY <1>4, <2>2, <2>3 DEF Untaken
<1>7. \A w \in Writer : /\ writing[w] = Idle /\ writing[w].frame = 0 /\ writing[w].todo = {}
                        /\ writing[w].files = 0 /\ writing[w].batch = <<>> /\ FilesIn(writing[w].batch) = {}
  BY <1>1 DEF Idle, FilesIn
<1>8. WritersInv  BY <1>0, <1>6, <1>7, FramesAre DEF WritersInv
<1>9. FilesApart
  <2>1. \A w \in Writer : Once(writing[w].batch)  BY <1>7, EmptyHolds
  <2>2. \A f \in File : tree[f].times = 0 /\ tree[f].right  BY <1>1
  <2>3. \A f \in DOMAIN pieces : /\ f \in File /\ Len(Frags[f]) > 1 /\ pieces[f] = {}
    BY <1>1
  <2>4. \A f \in DOMAIN pieces : pieces[f] \subseteq DOMAIN Frags[f] /\ pieces[f] # DOMAIN Frags[f]
    <3> SUFFICES ASSUME NEW f \in DOMAIN pieces PROVE DOMAIN Frags[f] # {}  BY <2>3
    <3>1. \A n \in Nat \ {0} : 1 \in 1..n  OBVIOUS
    <3>2. 1 \in 1..Len(Frags[f])  BY <2>3, <3>1, FragsAre
    <3> QED  BY <2>3, <3>2, FragsAre
  <2> QED  BY <1>7, <2>1, <2>2, <2>3, <2>4 DEF FilesApart
<1>10. UnreadIsOut
  <2> SUFFICES ASSUME NEW f \in File
               PROVE  IF Len(Frags[f]) = 1 THEN tree[f].times = 0 /\ ~InBatch(f)
                      ELSE f \in DOMAIN pieces /\ pieces[f] = {}
    BY DEF UnreadIsOut
  <2>1. \A n \in Nat \ {0} : n # 1 => n > 1  OBVIOUS
  <2>2. Len(Frags[f]) # 1 => Len(Frags[f]) > 1  BY <2>1, FragsAre, Zenon
  <2>3. tree[f].times = 0 /\ ~InBatch(f)  BY <1>1, <1>7 DEF InBatch
  <2> QED  BY <1>1, <2>2, <2>3
<1>11. OverInv  BY <1>0, <1>7 DEF OverInv, Started, ExtractorOver
<1>12. DoneInv({})
  <2>1. IsFiniteSet({}) /\ Cardinality({}) = 0  BY FS_EmptySet
  <2>2. ReadIsIn({})
    <3>1. \A f \in File : Len(Frags[f]) > 1 => f \in DOMAIN pieces  BY <1>1
    <3>2. \A f \in File : \A i \in DOMAIN Frags[f] : Unread(f, i)  BY <1>6, FragsAre DEF Unread
    <3> QED  BY <3>1, <3>2 DEF ReadIsIn
  <2> QED  BY <1>1, <1>6, <1>7, <2>1, <2>2 DEF DoneInv
<1>13. CountInv({}, [w \in Writer |-> {}])
  <2>1. Cardinality({}) = 0  BY FS_EmptySet
  <2>2. \A f \in File : tree[f].times = 0  BY <1>1
  <2> QED  BY <1>1, <1>7, <2>1, <2>2 DEF CountInv
<1>14. \E got \in SUBSET File : \E own \in [Writer -> SUBSET File] : CountInv(got, own)
  <2>1. [w \in Writer |-> {}] \in [Writer -> SUBSET File]  OBVIOUS
  <2> QED  BY <1>13, <2>1
<1> QED  BY <1>2, <1>3, <1>5, <1>8, <1>9, <1>10, <1>11, <1>12, <1>14 DEF ExtractInv

\* A step that changes nothing.
LEMMA StutterKeeps ==
  ASSUME ExtractInv, UNCHANGED extractVars
  PROVE  ExtractInv'
<1>0. PipeTypes /\ PipeInv  BY DEF ExtractInv
<1>1. UNCHANGED <<clone, manifest, downloads, asyncq, bridge, chunkq, extractor, cutting,
                  frameq, writing, pieces, collected, tree, ended, spoilt, troubles>>
  BY DEF extractVars
<1>2. ChunksApart' /\ ChunksLeft' = ChunksLeft
  BY <1>0, <1>1 DEF PipeInv, ChunksApart, ChunksLeft, Coming, Bridged
<1>3. FramesApart' /\ Untaken' = Untaken  BY <1>0, <1>1, <1>2, ChunksKeepFrames DEF PipeInv
<1>4. PipeTypes'  BY <1>0, <1>1 DEF PipeTypes
<1>5. PipeInv'  BY <1>0, <1>1, <1>2, <1>3 DEF PipeInv, Undisturbed, Coming, DownloadsOver
<1> QED  BY <1>1, <1>3, <1>4, <1>5, AsideKeeps DEF Feeds

\* The invariant of a Files clone's pipeline: every chunk and every frame is
\* in one place, a frame that a writer took has one result, a fragment that
\* is to be read is not in and one that was read is, a file is pending, in
\* one batch or written once, and results and files are counted.
THEOREM ExtractInvariant == ExtractSpec => []ExtractInv
<1>1. ExtractInv /\ [ExtractNext]_extractVars => ExtractInv'
  <2> SUFFICES ASSUME ExtractInv, [ExtractNext]_extractVars PROVE ExtractInv'  OBVIOUS
  <2>1. CASE ManifestHere \/ JoinNext \/ CancelClone  BY <2>1, CloneStepsKeep
  <2>2. CASE StartExtractor  BY <2>2, StartExtractorKeeps
  <2>3. CASE BeginDownloads \/ DownloadChunk \/ SendChunk  BY <2>3, DownloadStepsKeep
  <2>4. CASE BridgeStep  BY <2>4, BridgeStepKeeps
  <2>5. CASE PrepareTree  BY <2>5, PrepareTreeKeeps
  <2>6. CASE EndExtractor  BY <2>6, EndExtractorKeeps
  <2>7. CASE \E t \in Fetcher : FetcherStep(t)  BY <2>7, FetcherStepKeeps
  <2>8. ASSUME NEW w \in Writer, WriterStep(w) PROVE ExtractInv'
    BY <2>8, TakeFrameKeeps, TakeFragmentKeeps, WriteBatchOutKeeps, WriterEndsKeeps DEF WriterStep
  <2>9. CASE UNCHANGED extractVars  BY <2>9, StutterKeeps
  <2> QED  BY <2>1, <2>2, <2>3, <2>4, <2>5, <2>6, <2>7, <2>8, <2>9 DEF ExtractNext
<1> QED  BY <1>1, ExtractStarts, PTL DEF ExtractSpec

\* A Files clone that succeeds has written every file once, with the bytes of
\* its blob: the extractor ends well only with a result for every frame, none
\* of them failed, and then every fragment is in and every file is placed.
THEOREM TreeComplete == ExtractSpec => []TreeIsWhole
<1>1. ExtractInv => TreeIsWhole
  <2> SUFFICES ASSUME ExtractInv, clone = "done" PROVE \A f \in File : tree[f] = [times |-> 1, right |-> TRUE]
    BY DEF TreeIsWhole
  <2>1. collected.results = Len(ChunkOf) /\ ~collected.failed  BY DEF ExtractInv, OverInv
  <2> QED  BY <2>1, AllFilesWritten
<1> QED  BY <1>1, ExtractInvariant, PTL

\* A Files clone fails only after a failure or a cancellation: without one
\* the tasks end in the order of the channels, so no send finds its receiver
\* gone, every frame has a result, and the files are as many as the table
\* lists.
THEOREM FailureHasCause == ExtractSpec => []NoFalseFailure
<1>1. ExtractInv => NoFalseFailure
  <2>1. \A n \in Nat : n # 0 => n > 0  OBVIOUS
  <2> QED  BY <2>1 DEF ExtractInv, PipeTypes, PipeInv, Undisturbed, NoFalseFailure
<1> QED  BY <1>1, ExtractInvariant, PTL

\* No writer is at work once the extractor has returned, with an error too:
\* it takes a result for every frame, or sees every writer end.
THEOREM ReturnIsQuiet == ExtractSpec => []QuietOnReturn
<1>1. ExtractInv => QuietOnReturn  BY DEF ExtractInv, OverInv, QuietOnReturn
<1> QED  BY <1>1, ExtractInvariant, PTL

=============================================================================
