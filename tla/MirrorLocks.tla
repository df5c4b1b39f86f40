---------------------------- MODULE MirrorLocks ----------------------------
(***************************************************************************)
(* The bare mirror of one repository and the four locks that guard it       *)
(* (RepoLock, rust/src/server/mod.rs): builds and refs refreshes fetch into *)
(* it and read it, compaction and mirror removal delete from it, and a      *)
(* server may stop in between.                                              *)
(*                                                                          *)
(* An object is a commit: a pack is the set of commits it holds.  A lock    *)
(* hands itself on in the order it was asked for, as tokio's RwLock and     *)
(* Mutex do, so a reader queues behind a waiting writer.  A background      *)
(* removal asks for its first lock as it is started, and one that a build's *)
(* failure starts while that of its last failure still waits is that one.   *)
(***************************************************************************)
EXTENDS CommitHistory, FiniteSets, Sequences

CONSTANTS
  Builder,        \* the builds of the repository
  Kind,           \* Kind[b]: "Head", "Files" or "Full"
  Of,             \* Of[b]: the commit b builds
  Tips,           \* the commits upstream's branches are at
  PackLimit,      \* MIRROR_PACK_LIMIT
  Refresher,      \* the background refs refresh
  Purger,         \* the removal that a purge starts
  StopsInRemoval, \* whether the server may stop while a directory is removed
  MaxFaults       \* bound: failed fetches, sizes over the limit, purges and stops

VARIABLES
  known,      \* the control store knows the repository
  published,  \* its branches are published
  mirror,     \* [exists, revs, heads, packs, marker, over]
  first,      \* the running fetch began on an empty mirror
  locks,      \* locks[l]: [held, alone, queue]
  pc,         \* pc[p]: where p is
  reads,      \* reads[p]: the packs p found in the mirror it reads
  faults      \* how many faults happened

mirrorVars == <<known, published, mirror, first, locks, pc, reads, faults>>

Remover(p) == <<"remove", p>>
Fetcher == Builder \cup {Refresher}
Removers == {Remover(p) : p \in Fetcher \cup {Purger}}
Proc == Fetcher \cup Removers

\* What is assumed of the constants.
ASSUME MirrorAssumption ==
  /\ Kind \in [Builder -> {"Head", "Files", "Full"}] /\ Of \in [Builder -> Commit] /\ Tips \subseteq Commit
  /\ Refresher \notin Builder /\ Purger \notin Fetcher /\ Fetcher \cap Removers = {}
  /\ PackLimit \in Nat /\ MaxFaults \in Nat /\ StopsInRemoval \in BOOLEAN

Absent == [exists |-> FALSE, revs |-> {}, heads |-> {}, packs |-> {}, marker |-> None, over |-> FALSE]

Hist(c) == {c} \cup Ancestors[c]
HistOf(tips) == UNION {Hist(c) : c \in tips}
Objects(packs) == UNION packs

-----------------------------------------------------------------------------
(* The locks.                                                               *)

Lock == {"read", "write", "refs", "refresh"}
Unlocked == [held |-> {}, alone |-> FALSE, queue |-> <<>>]
Line(lock) == {lock.queue[i].proc : i \in DOMAIN lock.queue}
Holds(p, l) == p \in locks[l].held

\* How many of queue q get the lock that the readers held still share.
Admissible(held, q) ==
  LET shared == {k \in 0..Len(q) : \A i \in 1..k : ~q[i].alone}
      readers == CHOOSE k \in shared : \A other \in shared : other <= k
  IN  IF held = {} /\ q # <<>> /\ q[1].alone THEN 1 ELSE readers

HandOn(held, q) ==
  LET n == Admissible(held, q)
  IN  [held |-> held \cup {q[i].proc : i \in 1..n},
       alone |-> n > 0 /\ q[1].alone,
       queue |-> SubSeq(q, n + 1, Len(q))]

\* lock().await, read().await and write().await: in line.
InLine(lock, p, alone) ==
  LET queue == Append(lock.queue, [proc |-> p, alone |-> alone])
  IN  IF lock.alone \/ lock.queue # <<>> THEN [lock EXCEPT !.queue = queue]
      ELSE HandOn(lock.held, queue)
Asked(ls, p, l, alone) == [ls EXCEPT ![l] = InLine(@, p, alone)]

\* A guard is dropped.
LetGo(lock, p) == HandOn(lock.held \ {p}, lock.queue)
Released(ls, p, l) == [ls EXCEPT ![l] = LetGo(@, p)]

\* try_lock and try_write.
Free(ls, l) == ls[l].held = {} /\ ls[l].queue = <<>>

Fault == faults < MaxFaults /\ faults' = faults + 1

Goto(p, label) == pc' = [pc EXCEPT ![p] = label]
Leave(p) == reads' = [reads EXCEPT ![p] = {}]

-----------------------------------------------------------------------------
(* A build: Head, Files or Full.                                            *)

MirrorInit ==
  /\ known = TRUE /\ published = FALSE
  /\ mirror = Absent /\ first = FALSE
  /\ locks = [l \in Lock |-> Unlocked]
  /\ pc = [p \in Proc |-> "idle"]
  /\ reads = [p \in Proc |-> {}]
  /\ faults = 0

\* A slot claims a build, which asks for the read lock.  A Full writes the
\* commit-graph first, or skips it while the write lock is taken.
Claim(b) ==
  /\ pc[b] = "idle" /\ known
  /\ IF Kind[b] = "Full" /\ Free(locks, "write")
     THEN locks' = Asked(locks, b, "write", TRUE) /\ Goto(b, "graph")
     ELSE locks' = Asked(locks, b, "read", FALSE) /\ Goto(b, "reading")
  /\ UNCHANGED <<known, published, mirror, first, reads, faults>>

\* write_commit_graph ends.
Graph(b) ==
  /\ pc[b] = "graph"
  /\ locks' = Asked(Released(locks, b, "write"), b, "read", FALSE)
  /\ Goto(b, "reading")
  /\ UNCHANGED <<known, published, mirror, first, reads, faults>>

\* Bug: the commit object alone is taken as the sign of a finished fetch.
HasObject(c) == c \in Objects(mirror.packs)

\* mirror_fetched_commit: the fetch's ref, peeled to its commit.
Fetched(c) == c \in mirror.revs /\ c \in Objects(mirror.packs)

\* remove_mirror_over_limit: the background removal asks for the read lock
\* alone.
Removal(p, ls, over) ==
  IF over /\ pc[Remover(p)] = "idle" THEN Asked(ls, Remover(p), "read", TRUE) ELSE ls

EndWith(p, label, over) ==
  pc' = [pc EXCEPT ![p] = label, ![Remover(p)] = IF over /\ @ = "idle" THEN "rmread" ELSE @]

\* MirrorLimit::check, and a fetch that took the mirror past its limit.
OverLimit == mirror.over

\* A build failed: its locks go, and a mirror left over its limit is removed.
FailTo(b, ls, over) ==
  /\ locks' = Removal(b, Released(ls, b, "read"), over)
  /\ EndWith(b, IF Kind[b] = "Head" THEN "idle" ELSE "compact", over)
  /\ Leave(b)

\* From here on the build reads the mirror.
Use(b, ls, packs) ==
  /\ locks' = ls
  /\ Goto(b, "using")
  /\ reads' = [reads EXCEPT ![b] = packs]

\* ensure_commit: the check with no write lock.
CheckFetched(b) ==
  /\ pc[b] = "reading" /\ Holds(b, "read")
  /\ \/ Fetched(Of[b]) /\ OverLimit /\ FailTo(b, locks, TRUE)
     \/ Fetched(Of[b]) /\ ~OverLimit /\ Use(b, locks, mirror.packs)
     \/ /\ ~Fetched(Of[b])
        /\ locks' = Asked(locks, b, "write", TRUE)
        /\ Goto(b, "writing") /\ UNCHANGED reads
  /\ UNCHANGED <<known, published, mirror, first, faults>>

\* The check again under the write lock, and the start of the fetch, which
\* makes the mirror and is refused when the mirror is over its limit.
CheckAgain(b) ==
  /\ pc[b] = "writing" /\ Holds(b, "write")
  /\ \/ /\ Fetched(Of[b]) /\ ~OverLimit
        /\ Use(b, Released(locks, b, "write"), mirror.packs)
        /\ UNCHANGED <<mirror, first>>
     \/ /\ OverLimit
        /\ FailTo(b, Released(locks, b, "write"), TRUE)
        /\ UNCHANGED <<mirror, first>>
     \/ /\ ~Fetched(Of[b]) /\ ~OverLimit
        /\ mirror' = [mirror EXCEPT !.exists = TRUE]
        /\ first' = (mirror.packs = {})
        /\ Goto(b, "fetching")
        /\ UNCHANGED <<locks, reads>>
  /\ UNCHANGED <<known, published, faults>>

\* The pack of a fetch: what its tips reach and the mirror's refs, those whose
\* commit is there, do not.
Incoming(tips) ==
  HistOf(tips) \ HistOf((mirror.revs \cup mirror.heads) \cap Objects(mirror.packs))
WithPack(pack) == IF pack = {} THEN mirror.packs ELSE mirror.packs \cup {pack}

\* The pack is in place, the ref is not.
FetchPack(b) ==
  /\ pc[b] = "fetching"
  /\ mirror' = [mirror EXCEPT !.packs = WithPack(Incoming({Of[b]}))]
  /\ Goto(b, "packed")
  /\ UNCHANGED <<known, published, first, locks, reads, faults>>

\* Bug: every fetch that leaves one pack is marked, not only the first.
MarkAnyFetch(c) ==
  IF Cardinality(mirror.packs) = 1
  THEN [commit |-> c, pack |-> CHOOSE p \in mirror.packs : TRUE]
  ELSE mirror.marker

\* mark_fetched_pack, after a fetch into an empty mirror.
Mark(c) ==
  IF first /\ Cardinality(mirror.packs) = 1
  THEN [commit |-> c, pack |-> CHOOSE p \in mirror.packs : TRUE]
  ELSE mirror.marker

\* fetched_history_pack: the pack a cold Full of c stores as its history.
FetchedHistoryPack(c) ==
  IF mirror.marker = None THEN None
  ELSE IF mirror.marker.commit = c /\ mirror.marker.pack \in mirror.packs THEN mirror.marker.pack
  ELSE None

\* The fetch ends with its ref written, within the limit or over it.
FetchEnds(b) ==
  /\ pc[b] = "packed"
  /\ \/ /\ mirror' = [mirror EXCEPT !.revs = @ \cup {Of[b]}, !.marker = Mark(Of[b])]
        /\ Use(b, Released(locks, b, "write"), mirror.packs)
        /\ UNCHANGED faults
     \/ /\ Fault
        /\ mirror' = [mirror EXCEPT !.revs = @ \cup {Of[b]}, !.over = TRUE]
        /\ FailTo(b, Released(locks, b, "write"), TRUE)
  /\ first' = FALSE
  /\ UNCHANGED <<known, published>>

\* The fetch fails, times out, is cancelled or is stopped at the limit.  It
\* leaves nothing, or a pack with the commit and not all it reaches.
FetchFails(b) ==
  /\ pc[b] \in {"fetching", "packed"} /\ Fault
  /\ \E left \in {{}, {Of[b]}} :
       mirror' = IF pc[b] = "packed" THEN mirror ELSE [mirror EXCEPT !.packs = WithPack(left)]
  /\ first' = FALSE
  /\ FailTo(b, Released(locks, b, "write"), FALSE)
  /\ UNCHANGED <<known, published>>

\* Bug: a Full keeps the read lock while it waits for the first branches.
KeepsReadForRefs(b) ==
  /\ pc[b] = "using"
  /\ IF Kind[b] = "Head"
     THEN locks' = Asked(locks, b, "refs", TRUE) /\ Goto(b, "tags") /\ UNCHANGED reads
     ELSE /\ locks' = IF Kind[b] = "Full" /\ ~published THEN locks ELSE Released(locks, b, "read")
          /\ Leave(b)
          /\ Goto(b, IF Kind[b] = "Full" /\ ~published THEN "refs" ELSE "compact")
  /\ UNCHANGED <<known, published, mirror, first, faults>>

\* The output is built from the mirror.  A Head publishes the tags before it
\* lets the mirror go.
Built(b) ==
  /\ pc[b] = "using"
  /\ IF Kind[b] = "Head"
     THEN locks' = Asked(locks, b, "refs", TRUE) /\ Goto(b, "tags") /\ UNCHANGED reads
     ELSE /\ locks' = Released(locks, b, "read") /\ Leave(b)
          /\ Goto(b, IF Kind[b] = "Full" /\ ~published THEN "refs" ELSE "compact")
  /\ UNCHANGED <<known, published, mirror, first, faults>>

\* The build fails, or is cancelled, while it reads the mirror.
BuildFails(b) ==
  /\ pc[b] = "using" /\ Fault
  /\ FailTo(b, locks, FALSE)
  /\ UNCHANGED <<known, published, mirror, first>>

PublishTags(b) ==
  /\ pc[b] = "tags" /\ Holds(b, "refs")
  /\ locks' = Released(Released(locks, b, "refs"), b, "read")
  /\ Goto(b, "idle") /\ Leave(b)
  /\ UNCHANGED <<known, published, mirror, first, faults>>

\* first_branches: the Full of a repository with no branches refreshes them,
\* or waits for the refresh that runs.
FirstBranches(b) ==
  /\ \/ /\ pc[b] = "refs"
        /\ IF Free(locks, "refresh")
           THEN locks' = Asked(locks, b, "refresh", TRUE) /\ Goto(b, "list")
           ELSE locks' = Asked(locks, b, "refresh", TRUE) /\ Goto(b, "await")
     \/ /\ pc[b] = "await" /\ Holds(b, "refresh")
        /\ locks' = Released(locks, b, "refresh")
        /\ Goto(b, "compact")
  /\ UNCHANGED <<known, published, mirror, first, reads, faults>>

\* The packs a geometric repack may leave: some merged into one.
Repacked ==
  IF Cardinality(mirror.packs) <= PackLimit THEN {mirror.packs}
  ELSE {(mirror.packs \ merged) \cup {Objects(merged)} :
          merged \in {s \in SUBSET mirror.packs : Cardinality(s) > 1}}

\* compact_mirror: only with the mirror to itself, which it tries for; after
\* a recent failure, or with no mirror, not at all.
Compact(b) ==
  /\ \/ /\ pc[b] = "compact"
        /\ \/ /\ mirror.exists /\ Free(locks, "read") /\ Free(locks, "write")
              /\ locks' = Asked(Asked(locks, b, "read", TRUE), b, "write", TRUE)
              /\ Goto(b, "compacting")
           \/ UNCHANGED locks /\ Goto(b, "idle")
        /\ UNCHANGED mirror
     \/ /\ pc[b] = "compacting"
        /\ \E packs \in Repacked \cup {mirror.packs} : mirror' = [mirror EXCEPT !.packs = packs]
        /\ locks' = Released(Released(locks, b, "write"), b, "read")
        /\ Goto(b, "idle")
  /\ UNCHANGED <<known, published, first, reads, faults>>

-----------------------------------------------------------------------------
(* A refs refresh, by the background task or by a Full.                     *)

\* refresh: one at a time.
StartRefresh ==
  /\ pc[Refresher] = "idle" /\ known /\ Free(locks, "refresh")
  /\ locks' = Asked(locks, Refresher, "refresh", TRUE)
  /\ Goto(Refresher, "list")
  /\ UNCHANGED <<known, published, mirror, first, reads, faults>>

AfterRefresh(p) == IF p = Refresher THEN "idle" ELSE "compact"

\* refresh_once up to its read lock: a missing mirror, or a listing that
\* fails, ends it.
ListUpstream(p) ==
  /\ pc[p] = "list"
  /\ \/ mirror.exists /\ locks' = Asked(locks, p, "read", FALSE) /\ Goto(p, "refread")
     \/ locks' = Released(locks, p, "refresh") /\ Goto(p, AfterRefresh(p))
  /\ UNCHANGED <<known, published, mirror, first, reads, faults>>

RefreshAsksWrite(p) ==
  /\ pc[p] = "refread" /\ Holds(p, "read")
  /\ locks' = Asked(locks, p, "write", TRUE)
  /\ Goto(p, "refwrite")
  /\ UNCHANGED <<known, published, mirror, first, reads, faults>>

EndRefresh(p, ls, over) ==
  /\ locks' = Released(Removal(p, Released(ls, p, "read"), over), p, "refresh")
  /\ EndWith(p, AfterRefresh(p), over)
  /\ Leave(p)

\* Bug: the read lock is not kept for the publish.
LetsGoBeforePublish(p) ==
  /\ pc[p] = "refwrite" /\ Holds(p, "write")
  /\ mirror.exists /\ mirror.packs # {} /\ ~OverLimit
  /\ mirror' = [mirror EXCEPT !.heads = Tips, !.packs = WithPack(Incoming(Tips))]
  /\ locks' = Released(Released(locks, p, "write"), p, "read")
  /\ Goto(p, "publish")
  /\ reads' = [reads EXCEPT ![p] = mirror'.packs]
  /\ UNCHANGED <<known, published, first, faults>>

\* refresh_mirror_refs under the write lock, then the branches and the side
\* pack are built from the mirror with the read lock kept.
FetchHeads(p) ==
  /\ pc[p] = "refwrite" /\ Holds(p, "write")
  /\ \/ \* an empty mirror, a fetch that fails, or a mirror over its limit
        /\ UNCHANGED <<mirror, faults>>
        /\ EndRefresh(p, Released(locks, p, "write"), OverLimit)
     \/ /\ mirror.exists /\ mirror.packs # {} /\ ~OverLimit
        /\ mirror' = [mirror EXCEPT !.heads = Tips, !.packs = WithPack(Incoming(Tips))]
        /\ locks' = Released(locks, p, "write")
        /\ Goto(p, "publish")
        /\ reads' = [reads EXCEPT ![p] = mirror'.packs]
        /\ UNCHANGED faults
     \/ /\ Fault /\ mirror.exists /\ mirror.packs # {} /\ ~OverLimit
        /\ mirror' = [mirror EXCEPT !.heads = Tips, !.packs = WithPack(Incoming(Tips)), !.over = TRUE]
        /\ EndRefresh(p, Released(locks, p, "write"), TRUE)
  /\ UNCHANGED <<known, published, first>>

\* publish: the side pack is built, then the refs lock is taken.
BuildSidePack(p) ==
  /\ pc[p] = "publish"
  /\ locks' = Asked(locks, p, "refs", TRUE)
  /\ Goto(p, "pubrefs")
  /\ UNCHANGED <<known, published, mirror, first, reads, faults>>

PublishRefs(p) ==
  /\ pc[p] = "pubrefs" /\ Holds(p, "refs")
  /\ published' = known
  /\ EndRefresh(p, Released(locks, p, "refs"), FALSE)
  /\ UNCHANGED <<known, mirror, first, faults>>

-----------------------------------------------------------------------------
(* Purge, removal of the mirror, and a stop of the server.                  *)

\* purge: the rows go, and the mirror's removal starts.
PurgeMirror ==
  /\ known /\ pc[Remover(Purger)] = "idle" /\ Fault
  /\ known' = FALSE /\ published' = FALSE
  /\ locks' = Asked(locks, Remover(Purger), "read", TRUE)
  /\ Goto(Remover(Purger), "rmread")
  /\ UNCHANGED <<mirror, first, reads>>

\* The repository is added or admitted again.
Readd ==
  /\ ~known /\ known' = TRUE
  /\ UNCHANGED <<published, mirror, first, locks, pc, reads, faults>>

\* remove_mirror and remove_mirror_over_limit: the read lock alone, then the
\* write lock; a purge's removal then asks whether the repository is back.
RemoverLocks(r) ==
  /\ \/ /\ pc[r] = "rmread" /\ Holds(r, "read")
        /\ locks' = Asked(locks, r, "write", TRUE) /\ Goto(r, "rmwrite")
     \/ /\ pc[r] = "rmwrite" /\ Holds(r, "write")
        /\ IF r = Remover(Purger) /\ known
           THEN locks' = Released(Released(locks, r, "write"), r, "read") /\ Goto(r, "idle")
           ELSE UNCHANGED locks /\ Goto(r, "removing")
  /\ UNCHANGED <<known, published, mirror, first, reads, faults>>

\* remove_dir
RemoveDir(r) ==
  /\ pc[r] = "removing"
  /\ mirror' = Absent
  /\ locks' = Released(Released(locks, r, "write"), r, "read")
  /\ Goto(r, "idle")
  /\ UNCHANGED <<known, published, first, reads, faults>>

\* What a removal that stops on its way leaves: it goes file by file.
HalfRemoved == {[mirror EXCEPT !.packs = packs, !.over = FALSE] : packs \in SUBSET mirror.packs}

\* The server stops and starts: remove_orphan_mirrors runs before the workers.
Restart ==
  /\ Fault
  /\ IF ~known THEN mirror' = Absent
     ELSE IF \A r \in Removers : pc[r] # "removing" THEN UNCHANGED mirror
     ELSE StopsInRemoval /\ mirror' \in HalfRemoved
  /\ first' = FALSE
  /\ locks' = [l \in Lock |-> Unlocked]
  /\ pc' = [p \in Proc |-> "idle"]
  /\ reads' = [p \in Proc |-> {}]
  /\ UNCHANGED <<known, published>>

BuilderStep(b) ==
  \/ Graph(b) \/ CheckFetched(b) \/ CheckAgain(b)
  \/ FetchPack(b) \/ FetchEnds(b) \/ FetchFails(b)
  \/ Built(b) \/ BuildFails(b) \/ PublishTags(b) \/ FirstBranches(b) \/ Compact(b)

RefreshStep(p) ==
  \/ ListUpstream(p) \/ RefreshAsksWrite(p) \/ FetchHeads(p) \/ BuildSidePack(p) \/ PublishRefs(p)

MirrorNext ==
  \/ \E b \in Builder : Claim(b) \/ BuilderStep(b)
  \/ StartRefresh
  \/ \E p \in Fetcher : RefreshStep(p)
  \/ \E r \in Removers : RemoverLocks(r) \/ RemoveDir(r)
  \/ PurgeMirror \/ Readd \/ Restart

MirrorSpec == MirrorInit /\ [][MirrorNext]_mirrorVars

-----------------------------------------------------------------------------
(* Properties.                                                              *)

\* The packs a build or a refresh reads stay while it reads them, through
\* fetches, compactions, purges and removals by others.
ReadersKeepPacks == \A p \in Fetcher : reads[p] \subseteq mirror.packs

\* A build reads a mirror that holds all its commit reaches, though fetches
\* are cut short and the check runs beside a fetch.
BuildsOnWholeHistory ==
  \A b \in Builder : pc[b] = "using" => Hist(Of[b]) \subseteq Objects(mirror.packs)

\* The pack a cold Full stores as its commit's history is that history and
\* nothing else (fetched_history_pack), whatever was fetched, left behind or
\* repacked before.
ColdFullExact ==
  mirror.exists => \A c \in Commit : FetchedHistoryPack(c) \in {None, Hist(c)}

\* Whom p waits for: the holders of the lock it asked for and those who asked
\* before it.
WaitsFor(p) ==
  UNION {UNION {locks[l].held \cup {locks[l].queue[j].proc : j \in 1..(i - 1)} :
                  i \in {k \in DOMAIN locks[l].queue : locks[l].queue[k].proc = p}} :
           l \in Lock}

\* The read, write, refs and refresh locks are never waited for in a circle, nor
\* while nobody holds them: in every set of waiting tasks some task waits for
\* none of the others, and for somebody.
NoCircularWait ==
  LET waiting == UNION {Line(locks[l]) : l \in Lock}
  IN  /\ \A p \in waiting : WaitsFor(p) # {}
      /\ \A ps \in (SUBSET waiting) \ {{}} : \E p \in ps : WaitsFor(p) \cap ps = {}

-----------------------------------------------------------------------------
(* The inductive invariant.                                                 *)

\* Where a task holds lock l or has asked for it, and where it may still wait.
Uses(l) ==
  CASE l = "read" -> {"reading", "writing", "fetching", "packed", "using", "tags", "compacting", "refread",
                      "refwrite", "publish", "pubrefs", "rmread", "rmwrite", "removing"}
    [] l = "write" -> {"graph", "writing", "fetching", "packed", "compacting", "refwrite", "rmwrite", "removing"}
    [] l = "refs" -> {"tags", "pubrefs"}
    [] l = "refresh" -> {"list", "await", "refread", "refwrite", "publish", "pubrefs"}
Waits(l) ==
  CASE l = "read" -> {"reading", "refread", "rmread"}
    [] l = "write" -> {"writing", "refwrite", "rmwrite"}
    [] l = "refs" -> {"tags", "pubrefs"}
    [] l = "refresh" -> {"await"}
Label == {"idle", "refs", "compact"} \cup UNION {Uses(l) : l \in Lock}

\* Where a task wants lock l to itself.
Excludes(l) == IF l = "read" THEN {"compacting", "rmread", "rmwrite", "removing"} ELSE Label

Users(l) == {p \in Proc : pc[p] \in Uses(l)}
Owners(l) == {p \in Proc : pc[p] \in Uses(l) \ Waits(l)}
Loners(l) == {p \in Proc : pc[p] \in Excludes(l)}

\* What each variable may be.
LockState == [held : SUBSET Proc, alone : BOOLEAN, queue : Seq([proc : Proc, alone : BOOLEAN])]
MirrorState ==
  [exists : BOOLEAN, revs : SUBSET Commit, heads : SUBSET Commit, packs : SUBSET SUBSET Commit,
   marker : {None} \cup [commit : Commit, pack : SUBSET Commit], over : BOOLEAN]
MirrorTypeOK ==
  /\ known \in BOOLEAN /\ published \in BOOLEAN /\ first \in BOOLEAN /\ faults \in Nat
  /\ mirror \in MirrorState
  /\ locks \in [Lock -> LockState]
  /\ pc \in [Proc -> Label]
  /\ reads \in [Proc -> SUBSET SUBSET Commit]

\* A lock that users hold or wait for: the owners hold it, whoever excludes
\* others has it alone, and its queue is of the others, each once, and waits for
\* somebody.
Serves(lock, users, owners, loners) ==
  /\ lock.held \subseteq users /\ owners \subseteq lock.held
  /\ \A p \in users : p \in lock.held \/ \E i \in 1..Len(lock.queue) : lock.queue[i].proc = p
  /\ \A i \in 1..Len(lock.queue) :
       /\ lock.queue[i].proc \in users \ lock.held
       /\ lock.queue[i].alone <=> lock.queue[i].proc \in loners
       /\ \A j \in 1..Len(lock.queue) : lock.queue[i].proc = lock.queue[j].proc => i = j
  /\ IF lock.alone THEN \E p \in loners : lock.held = {p} ELSE lock.held \cap loners = {}
  /\ lock.held = {} => lock.queue = <<>>
LocksInv == \A l \in Lock : Serves(locks[l], Users(l), Owners(l), Loners(l))

\* A reader keeps the read lock until it has let go of what it found.
ReadsKept ==
  \A p \in Fetcher :
    /\ reads[p] \subseteq mirror.packs
    /\ reads[p] # {} => pc[p] \in {"using", "tags", "publish", "pubrefs"}

\* The recorded pack is the history it stands for: first is of the fetch that
\* has the write lock.
MarkerExact ==
  /\ mirror.marker # None => mirror.marker.pack = Hist(mirror.marker.commit)
  /\ first => \A b \in Builder :
                /\ pc[b] = "fetching" => mirror.packs = {}
                /\ pc[b] = "packed" => mirror.packs = {Hist(Of[b])}

\* A ref of the mirror proves that all it reaches is there.
HistoryWhole ==
  /\ HistOf(mirror.revs \cup mirror.heads) \subseteq Objects(mirror.packs)
  /\ \A b \in Builder : pc[b] \in {"packed", "using"} => Hist(Of[b]) \subseteq Objects(mirror.packs)

MirrorInv ==
  /\ MirrorTypeOK /\ LocksInv /\ ReadsKept /\ MarkerExact
  /\ ~StopsInRemoval => HistoryWhole
=============================================================================
