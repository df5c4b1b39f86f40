# ripclone: TLA+ specifications and proofs

ripclone serves ready-made git clones. A server keeps a bare mirror of every
repository it was given, builds compact artifacts of a commit, stores them in a
bucket under the hash of their content, and hands clients signed URLs of them. A
client downloads the artifacts and installs a working repository out of them.

These modules model the parts of `rust/src` whose correctness depends on the
order of events, and the algorithms whose results other builds are built on: the
durable build queue and the workers over it, the mirror and its locks, what builds
put into packs and archives, the storage and deletion of artifacts, the publication
of refs, and a clone from its first request to the refs it writes. Every definition
is written from the code; `PROJECT.json` names the lines (`map`), the runs, the
mutated definitions that show each property can fail, the hazards and the theorems.

## 1. Inventory

| Component | State | Operations | What makes it correct | Module |
|---|---|---|---|---|
| Build queue (`control/`) | `builds`, `added_repos`, `owner_turns` in SQLite | admit, retry, claim (with give-up pass), renew, publish, fail, release, reset_leases, add, remove, purge | one lease of a pool per repository; a lost lease cannot write; a Full only on a ready Head; nothing pending for ever; owners take turns | `ControlStore`, `StoreHistory`, `BuildLifecycle` |
| Workers (`server/worker.rs`, `server/mod.rs`) | one claim, one build task and one `Cancel` flag per slot | claim, build, renew, settle, release; startup, crash | every output settles; no orphaned lease; only one build of an output can change the store | `BuildWorkers` |
| Mirror and its locks (`RepoLock`, `git.rs`, `server/purge.rs`) | packs, fetch refs, the recorded first pack; read, write, refs and refresh locks | fetch, read, compact, refresh, remove, startup | packs stay while they are read; a build has its commit's whole history; no circular wait | `MirrorLocks` |
| Builder: packs (`server/builder.rs`, `pack.rs`) | ready Head and Full results | level, merge, rebase, own history | each output's packs hold the objects it promises, no blob twice | `PackLevels` |
| Builder: Files (`archive.rs`, `manifest.rs`) | frames, bundles, files tables and deltas | compact, tail, delta | a table lists the files of its tree, every file reads as its blob | `FilesArchive` |
| Artifacts (`pins.rs`, `server/purge.rs`, `server/uploads.rs`, artifact tables) | pins and deletion marks in memory; `artifact_refs`, `deletions`; bucket | pin, store, publish, discard, purge, sweep, dequeue | what is published or signed stays stored; what nobody needs is deleted | `ArtifactGC` |
| Objects on disk and in the bucket (`cas.rs`, `retention.rs`, `storage/`) | object paths, directory entries, parts of uploads | install, sync, upload, serve, trim, remove | what was reported stored survives a power cut; nothing damaged is uploaded | `ObjectStore` |
| PUT limit (`storage/put_limit.rs`, `send_put`) | limit, successes, round, debt, semaphore | acquire, succeeded, throttled, drop | permits are conserved; no start over the limit; every PUT ends | `PutLimit` |
| Published refs (`server/refs.rs`, poller, webhooks) | `repo_refs` row, `lock.refresh`, `lock.refs`, `refresh_wanted` | refresh, first_branches, tags publish of a Head, poll | refs never go back; every request is served; a waiting Full goes on | `RefsRefresh` |
| API answers and the client's requests (`server/api.rs`, `client.rs`, `client/install.rs`, `branches.rs`, `tags.rs`) | rows, published refs with side layers; the client's pin and plan | resolve, poll, answer, top up, install, write refs | every ref that is written has its history; no answer the client refuses | `CloneFlow` |
| Client downloads (`client/download.rs`) | bytes received and hashed, attempts, the generation of the signed URLs, the refresh lock | stream with resume, ranges, verify, refresh | nothing is used that does not match its hash; every download ends | `Download` |
| Files clone (`extract.rs`, `worktree_writer.rs`) | channels, pending fragments, batches | download, bridge, fetch, write, collect | the tree is whole or the clone fails, for a reason, and everything ends | `ArchiveExtract` |
| Pack install (`client/install.rs`, `client/tuning.rs`) | stages, memory permits | download, parse, lay down packs and idx files | every path once, every kept pack with its idx; installs end | `PackInstall` |
| Client staging (`client/staging.rs`, the spawns of `client/install.rs`) | staging directory, locked marker, pending handles, `active_guards`, `closed`, `Notify` | stage, spawn, join, drop, close, reap, publish, remove what others left | staging outlives its writers; a live clone's staging is kept; nothing is left that a later clone cannot remove | `CloneStaging` |

How they interact: the API admits a commit into the queue and wakes the workers;
a worker claims an output, takes the mirror's locks, fetches, builds on the results
of an ancestor, installs objects in the CAS and uploads them through the pins and the
PUT limit, and publishes in one transaction the output and the references of its
artifacts; a finished Head starts a refresh of the published refs, and the first Full
waits for one; a purge deletes rows, references and leases in one transaction and
queues the artifacts that nobody else names; the sweep deletes what is due. A client
polls the API until its output is ready or a top-up base is, downloads what the
manifest lists, installs packs or extracts an archive in a staging directory, writes
the refs it can complete, fetches the rest, and renames the directory to its target.

What is hard: leases that expire or are purged under a running build; a sweep that
decides on an artifact which a build is about to reuse; fetches cut short, in a mirror
that others read; results built on results in an order nobody planned; refs and
outputs published between two reads of one answer; a refresh request that arrives
while the holder of the lock is on its way out; failures in the middle of a pipeline;
power cuts between a rename and its sync. `PROJECT.json` lists these as `hazards`,
each with its line.

## 2. Modules

* `ControlStore`: the queue. Each transaction of `control/sqlite.rs` is one action,
  because the store runs them under one connection lock. A column is a function of
  the row and of the kind (`head`, `files`, `full`); time appears only as the two
  comparisons the SQL makes: `expired` (a `lease_until` in the past) and `backoff`
  (a `retry_after` in the future), turned by `LeaseExpires` and `BackoffElapses`.
  `turns` is the order of `owner_turns` as a relation, `foreign` the owner strings
  that an earlier process wrote, which `lease_held` treats differently.
* `BuildLifecycle`: the abstract specification: pending, ready or failed outputs, no
  leases, attempts or owners, as the code and the conformance suite of the store have
  them. `ControlStore` implements it under the mapping `Out`. The documentation of the
  trait says more of a failed Head, which the code does not do (section 7).
* `StoreHistory`: `ControlStore` with two history variables: who has been waiting since
  whose turn (`passed`), for the fairness between owners, and the claims whose output
  was granted again or whose row was purged (`overtaken`).
* `BuildWorkers`: composes `ControlStore` with the slots of the worker pools, the
  server's start and its crashes. `SlotClaims` and the other slot actions call the
  store's actions.
* `CommitHistory`: the commits of a repository, `is_ancestor`, and `ancestor_base`'s
  choice of a base. The modules below extend it.
* `MirrorLocks`: one mirror. A pack is a set of commits, a lock its holders and a queue
  that is handed on as tokio does it. `Claim` to `Compact` are a build
  (`ensure_commit`, `fetch_commit`, the publication of tags, `first_branches`,
  `compact_mirror`), `StartRefresh` to `PublishRefs` a refresh, `PurgeMirror` to `RemoveDir`
  the removals, `Restart` the server's stop and start. `Mark` and `FetchedHistoryPack`
  are the recorded first pack that a cold Full takes over as its history.
* `PackLevels`: Head and Full results as sets of git objects. `LeveledHead`,
  `CompactLevels`, `Rebased` and `OwnHistory` are operators of the code's own names
  where TLA+ allows; `BuildHead` and `BuildFull` build any commit at any time on any
  base the code may choose, and leave open which earlier packs could be read.
* `FilesArchive`: Files results. Bytes are numbers, frames and bundles are cut by content
  as in the code, and `ReadFile` reads a file as the client does. `Compacted` is
  `build_into_cas` with a base, `Tailed` is `build_tail_into_cas`, `Between` and `Apply`
  are the deltas of a files table.
* `ArtifactGC`: pins, uploads, publication, discards, purges, the deletion queue and
  the sweep with its parallel `sweep_one` steps, the clock and restarts.
* `ObjectStore`: what a path of the CAS shows (`seen`) and what a power cut may leave
  of it (`platter`), in a store that syncs and in a cache that does not; uploads in
  parts; retention with its check and its removal as two steps. `MakeDir` and `SyncRoot`
  are two steps, and a task that finds the directory there goes on at once; the history
  variable `lost` remembers what was reported stored and went with such a directory.
* `PutLimit`: the adaptive limit and the retry loop of `send_put`.
* `RefsRefresh`: refreshes, the first Full's wait, a Head's tags publish, the poller.
* `CloneFlow`: one clone beside pushes, builds and refs publishes. A handler of the API
  is one step per answer it waits for, so that rows and refs change between its reads;
  the command's own reading of the tip (`Observe`) is made any time after `Ask`;
  `SideLayersOf` and `SideBaseOf` are the layers a publish keeps; `Install` to
  `FetchRefsFails` are what the client holds and which refs it writes.
* `Download`: the downloads of one clone. A request loop is the stream of an artifact or
  one of its ranges; each answer of the server is an action (`Unavailable`, `Expired`,
  `Rejected`, `Answered`, `AnsweredRange`), and the body of a stream comes in `Chunk`s
  that may be `Cut`. An artifact is the sequence `<<1, ..., n>>`, and its hash is that
  sequence, so that a byte in the wrong place is visible. `TakeLock`, `Refreshed` and
  `RefreshFails` are `OutputUrls::refresh`.
* `ArchiveExtract`: a Files clone. The downloader, the bridge thread, the fetchers, the
  writers and the collector are processes over bounded channels; a writer takes the
  fragments of its frame one by one, because another writer may complete the same file.
* `PackInstall`: the two stages of `install_editable_packs`, for installs that share one
  memory budget.
* `CloneStaging`: clones into one target, each a process. `List` to `SignMarker` are the
  file operations of `temp_install_dir` one by one, because other clones run between
  them. `SpawnTask`, `SpawnGit`, `Join`, `DropPush` and `DropFinish` are the guards;
  `Take` to `RemoveStaging` the reaper, with each atomic load a step. `Detached` are the
  blocking tasks that are awaited without a guard.
* `*Proofs`: theorems, section 4. `ControlStoreProofs` is about `ControlStore`,
  `StoreHistory` and `BuildWorkers`, `BuilderProofs` about `PackLevels` and
  `FilesArchive`, `ClientProofs` about `Download`, `PackInstall` and `ArchiveExtract`,
  `ObjectStoreProofs` about `ObjectStore` and `PutLimit`, `CloneProofs` about `CloneFlow`
  and `CloneStaging`, `MirrorProofs` about `MirrorLocks`, the others about the module of
  their name. An inductive invariant stands at the end of the module it is about, or in
  the proofs where TLC cannot evaluate it (`FilesInv`).
* `MC*`: instances for TLC.

Definitions marked `Bug:` are mutated forms of the definition after them. They are
used only to show that a property fails when the code is wrong in that way.

## 3. What the runs check

| Run | Instance | Shows |
|---|---|---|
| `control_store` | 1 repository, 2 commits, 2 lease owners, pools head and full, 1 attempt | no Full waits behind a failed Head; the inductive invariant of the proofs (one lease of a pool per repository, a Full only on a ready Head); the refinement of `BuildLifecycle` |
| `store_history` | 2 repositories of 2 tenants, 2 attempts | unique admission numbers, turns between owners, builds that were overtaken write nothing |
| `build_workers` | 2 Head slots and a Full slot, 1 commit, 3 requests, 2 attempts, 1 crash, store errors, removals, additions and purges | every output settles, no orphaned lease, slots return |
| `artifact_gc` | `artifacts`: 2 builds of 2 repositories sharing an artifact, a failed sweep, a refused discard, a crash. `objects`: 2 tasks, 2 objects, 3 stores, uploads of 2 parts, a power cut or kill, a failure. `mirror`: a Head and a Full, a refresh and a purge, 2 faults | named and signed artifacts stay stored; stored objects survive, unless their directory is lost, and uploads are whole; packs stay under their readers, builds have whole histories, no circular wait |
| `gc_sweeps` | `sweeps`: 2 artifacts, batch of 1, a failed sweep, late deletes. `puts`: 3 uploads, limit 3, 2 throttled tries | nothing leaks, what is due is swept; permits are conserved and every upload ends |
| `refs_refresh` | 2 pushes, a failure. `webhooks`: refreshes and a first Head. `polling`: a Full, a Head and the poller | refs never go back; every request is served; the Full goes on, refs are published in the end |
| `outputs` | `packs`: Heads and Fulls of 4 commits with a merge. `archives`: Files of 5 commits. `download`: a file of 4 parts and an artifact of unknown length, 2 tries, 2 faults, 1 expiry, 1 lie. `extract`: 3 frames in 2 chunks, 3 files, 2 fetchers, 2 writers, 2 troubles. `install`: a full and a Head install, one of its packs larger than the budget, 2 mishaps | packs and archives hold what they should, whatever they were built on; only verified bytes are used; trees are whole; everything ends |
| `clones` | `flow`: 4 commits, 2 branches, a tag, 6 kinds of clone, 2 pushes, 2 publishes, 2 builds, 1 failure. `tasks` and `children`: 2 clones, of which c1 has a task that holds another, or c2 a git child and a task without a guard; 1 failed file operation or kill | refs are whole on the base they were published with, answers are consistent; staging outlives its writers, leftovers can be removed |
| `staging_leak`, `lost_request`, `archive_order`, `clone_refs` | | violations, section 6 |

A run with named parts checks several specifications that share no state: its module
extends or instantiates them, a variable `part` that never changes says which of them
takes steps, and the others stay in their initial states. The reachable states are
those of the parts one by one, so nothing is lost; what is not explored is a product
of independent state spaces, in which no property of one part could change. The
liveness properties of such a run name the fairness of their part
(`part = "puts" /\ PutFairness => EveryPutEnds`).

Bounds. Two of each kind are what the properties tell apart: two rows are enough for
"older" and "younger", two owners for a turn, two builds for a shared artifact, one
crash for the state it leaves behind. `MaxAttempts` 1 and 2 make the first claim the
last one and not the last one. `Ttl` 1 with `MaxTime` 2 or 3 lets a signed URL be
valid, expire, and its artifact become due. `LateDelete` says whether the bucket may
carry out a DELETE whose connection the server dropped. In `objects` one of the two
directories is new, three stores let a damaged copy be repaired while the other
object is in the cache, and `MaxKept` 1 makes retention trim at the second object.
In `mirror` commit 2 lies on commit 1, and `PackLimit` 1 makes every second fetch
compact; two faults give a purge and a failed fetch, or a fetch over the limit and a
stop. In `puts` a try fails once (`FailedAttempts` 1) or is throttled twice, so that
the limit falls from 3 to 1 and rises again. In `packs` 2 and 3 are both on 1 and 4
merges them, with two levels at most, so that levels merge; the sizes make a rebase
worth while for some bases and not for others. In `archives` trees change, empty,
remove and repeat files; they add files only after all others, because otherwise the
finding of `archive_order` ends the run; the Files of 3 are never asked for, which
leaves a gap in the chain of bases. In `download` the parts are one byte,
`RANGE_PARALLEL` 2 is less than the 4 parts, so that ranges wait for their turn, and 2
tries make a first and a last one. In `extract` the second file lies in all three
frames, and the channels hold one chunk. In `flow` the default branch moves forward
to the side branch's commit, or is force-pushed, with two pushes in all; two layers
(`SideLayers`) let a publish keep them, grow them and, after a force push or without the
file of side tips, pack them again; that they are packed again at the limit takes a third
publish, which only the proofs cover. In `tasks` and
`children` a writer is started at most once. Two clones know of each other only by the
target, their directories and their markers, which no guarded writer touches, so the
writers of the other clone could only delay its steps: one clone has writers at a time. Symmetry is used where builds, repositories and tasks
are not told apart, and only in runs without liveness. Deadlock checking is off where
the bounds let everything come to rest.

Fairness. `BuildWorkers`: a slot polls every `IDLE_POLL` at the latest, a build is
bounded by its timeouts, `release` is retried until it is taken, a retry time passes.
No fairness is assumed of requests, of renewals or of lease expiry. `ArtifactGC`: the
sweeper's interval timer, the answers of the store and of the bucket, and builds that
end. `PutLimit`: tokio's semaphore is FIFO, which is strong fairness of `Acquire`; a
request ends by its timeout. `RefsRefresh`: each task goes on, its lock being FIFO as
well; the poller runs at every interval. A steady stream of requests can keep one
refresh running for ever, because it makes another pass for each; `MaxPush` bounds it.
`Download`: one task polls a download and all its loops, so fairness is one condition
per artifact; requests end by their timeouts and tokio's mutex is FIFO.
`ArchiveExtract`: each thread and task that can go on does. `PackInstall`: each install
is polled, and the budget's semaphore is FIFO, which the model has as `line`: who waits
since before whom.
`CloneStaging`, `MirrorLocks`, `ObjectStore` and `CloneFlow` assume none: `NoLostWakeup`
and `NoCircularWait` are safety properties, that the reaper sleeps only while somebody
still has to wake it and that nobody waits in a circle.

## 4. What is proved

TLAPS checks these theorems for all values of the constants. Each rests on an inductive
invariant, which TLC checked on the instance of the module's run before it was proved.

* `ControlStoreProofs`: `TypeCorrect`, `StoreSafe` (`Spec => []StoreInv`),
  `HeadFailureSafe` and `ReadyForever`. `StoreInv` adds to the safety
  properties that live claims have owner strings of their own and that none of them was
  written by an earlier open of the store. Without this, `OneLeasePerRepo` is not
  inductive: a renewal could make an expired lease of a dead process held again after
  another row was claimed. `StoreImplementsLifecycle`: each action maps to a step of
  `BuildLifecycle` or to a stutter; the give-up pass maps to `Failed` of a set of rows.
  It needs `FullOnReadyHead` for publish and nothing of the leases otherwise.
  Of `StoreHistory`, `TurnsInvariant` and `OwnersTakeTurns`: whoever has waited since t's
  turn precedes t in `owner_turns`, and this order is asymmetric. `OvertakenBuildsAreHarmless`:
  `OvertakenInv` says that an overtaken claim's owner string is in its row no more and
  cannot come back, because every claim that is granted while it lives has another one.
  Of `BuildWorkers`, `WorkersRefineStore` shows that slots, requests, crashes and restarts
  take only steps of `ControlStore`, so that `StoreSafe` holds of the composed
  server; `NoLeaseIsOrphaned`, `OneBuildCounts` and `WorkersKeepReady`. `OneBuildCounts`
  is about all commits of a repository and rests on `OneLeasePerRepo`; no run checks it,
  because the workers' run has one commit. `WorkInv` ties
  each lease to the slot whose claim it is and gives every slot a claim of its own. All
  steps but a claim only let leases fade, and `FadingKeeps` carries `WorkInv` through.
* `ArtifactGCProofs`: `PublishedStaysStored` (`GCInv`), `NamedStaysStored` and
  `SignedStaysReadable`, for `~LateDelete`. `GCInv` says that a mark excludes pins, and
  that a deletion past its check is of an artifact nobody names: a publish names only
  pinned artifacts, so no reference can appear between the check and the DELETE.
  `ReaderInv` adds that a readable artifact is named or queued until after its URLs
  expire. `StorageNeverLeaks` is for a server without crashes and refused discards,
  which do leave objects behind; `LeakInv` says that what is stored and not named is
  with a build that has yet to publish or queue it, or queued, and, if the sweep is about
  to dequeue it, queued again since the sweep read the clock.
* `RefsRefreshProofs`: `ReadyHeadsHaveTags`, `RefsNeverGoBack`. `RefsInv` says that
  only the holder of `lock.refresh` writes branches and only the holder of `lock.refs`
  tags, so that what each has built or read is not older than what is published.
* `ObjectStoreProofs`: `UploadsAreWhole` from `PartsWhole` (a path shows no
  damaged copy from its rename or check until its task ends, so that the parts are whole,
  and they are different ones), `ReportedSurvives` from
  `StoreKept` (a reported object that is not lost is on the platter of its directory, and
  what is lost was in a directory that was new and not synced in the root), and of
  `PutLimit` `PutInvariant` and `PermitsSafe`, by counting the holders.
* `BuilderProofs`: of `PackLevels`, `HeadsAreExact`, `HistoryIsExact` and
  `OwnHistoriesComplete`, from `PackInv`. `Packed` says which objects a list of packs
  holds and that none is in two of them; `Holds` that they are enough for a tree and no
  more than a history. `Chained` says that every history level is the range from the tip
  before it: `MergeKeepsChain` shows it for the merge of two neighbours, `SealChains` for
  a new tail, which is never empty because a commit is an object that no ancestor's tree
  holds (`PackAssumption`), and `ChainHolds` that a chain holds the history of its last
  tip. `OwnIsComplete` uses that the base of an own history is an ancestor of whatever
  commit a client starts from.
  Of `FilesArchive`, `StoredTablesLoad`: `apply` undoes `between` for any base, frame map
  and table with valid geometry, and `FilesAreListed`: what loads lists the tree of its
  commit, from `FilesInv`, which says what table each stored delta was made from. Both
  assume that the constant `None` is not a delta (`NoneIsNoDelta`).
  What a fold computes is shown without an operator as a parameter: a fold over a finite
  set exists as a function on its subsets (`FoldExists`), and a set of subsets that holds
  the empty one and grows by an element holds all of them (`FoldInduction`), both from
  the least natural at which they would fail.
* `ClientProofs`: `InstallsAreWhole` from `InstallInv` (a path is written by the parse of
  the one pack that holds its blob, a pack that is through is laid down) and
  `DownloadsAreRight` from `DownloadInv` (what is received is a prefix of the artifact
  unless the server lied, each loop continues where the bytes end, parts are written in
  their order). Of `ArchiveExtract`, `TreeComplete`, `FailureHasCause` and `ReturnIsQuiet`
  from `ExtractInvariant`. `ExtractInv` has three layers. `PipeInv`: a chunk is in one of
  the places between the download and the fetchers, a frame that no writer has taken is in
  one place (`ChunksApart`, `FramesApart`), and without trouble the tasks end in the order
  of the channels, each with nothing left (`Undisturbed`). `FilesApart`, `UnreadIsOut` and
  `ReadIsIn`: a file is pending, in one batch, or written once; a fragment still to be
  read is not in, and, until a frame fails, one that was read is. `DoneInv` and `CountInv`:
  the results are as many as the frames that have one, and the files counted are the files
  written. With a result for every frame and none failed, nothing is unread, so every file
  is in the tree (`AllFilesWritten`); without trouble the results and the count are
  complete when the collector stops (`UndisturbedEnd`).
* `CloneProofs`: of `CloneFlow`, `AnswersAreConsistent`, `WrittenRefsAreWhole`, `ServedRefsAreEnough`
  from `FlowInv`, for any commit graph. Its core is `LayersHold`: the layers of published
  branches complete the histories of their side tips, and of themselves, on the commit
  they were built above, which is an ancestor of the base. `PublishedHolds` shows it for
  layers that are kept, that grow and that are packed again; `SideWhole` concludes that a
  clone with whole histories that include the base stays whole with the layers.
  `Ancestors` is the least set closed under parents, so that no induction is needed.
  Of `CloneStaging`, `WritersEndFirst`, `LiveStagingStays`, `LeftoversAreMarked` and
  `WakeupsArrive`, from `StagingInv`. `WritersHeld` says that the guard of a writer
  that runs is held, or its handle is among the pending ones or in the batch the reaper
  took; that whoever holds a guard runs; and that a closed clone holds none. `QuietAtEnd`:
  no guarded writer runs once the reaper removes, nor into a published clone.
  `GuardsCounted` ties `active_guards` to the number of guards that are held, by lemmas on
  the cardinality of a set that gains or loses one element. `NoLostWakeup` is a conjunct
  of its own: the reaper sleeps without a permit only while the close or one of those
  guards is still to come.
* `MirrorProofs`: `PacksStayForReaders`, `MarkedPackIsHistory`, `LocksNeverCircle`, and
  `HistoryIsWhole` for `~StopsInRemoval`, from `MirrorInv`. `LocksInv` reads the state of
  each lock off the labels: who is where it must have the lock holds it, whoever may be
  waiting for it holds it or is in its queue, once, and a queue always waits for somebody.
  The lemmas `HandOnServes`, `AskServes` and `ReleaseServes` show it for one lock and any
  queue, `TaskServes` and `RemovalServes` for a step of a task with four of them. From it
  follow that one task at most writes the mirror (`OneWriter`) and that nobody reads one
  that is compacted or removed (`NobodyReads`), which is what `ReadsKept`, `MarkerExact`
  and `HistoryWhole` need; and that nobody waits in a circle: a task that has the write or
  the refs lock waits for no other lock, one that has the read lock only for those, one
  that has the refresh lock for the other three (`NobodyInCircle`), and the first in a
  queue of any set of waiting tasks waits for none of them (`FirstInLine`). That a least
  index exists is taken from the well-foundedness of the naturals (`LeastNatural`).

Assumptions are the named `ASSUME`s of the modules, which TLC evaluates in every run.
The theorems with a hypothesis name what the code does not guarantee: `LateDelete` and
`StopsInRemoval` stand for gaps of section 7, and with the constant `TRUE` TLC finds the
property violated.

Only model-checked: liveness (`EveryOutputSettles`, `SlotsReturn`, `BucketWorkEnds`,
`RefsServed`, `ClientsFinish`), which is out of the prover's reach; and that the files of
an archive read as their blobs (`FilesReadBlobs`, of which `FilesListTree` is proved),
which is not true of every tree: it holds where files are added after all others, and run
`archive_order` shows a tree where it does not (section 6).

## 5. Not modelled

The encodings (pack, protobuf and zstd, branches, tags), git subprocesses and the
ls-refs protocol, credentials and tokens, configuration, the command line but for its
reading of the upstream tip, metrics and usage accounting: pure functions of one input,
I/O, or counters nothing decides on. `control/conformance.rs` is a test suite of the
store, which the runs of `ControlStore` replace. `components` in `PROJECT.json` gives
the reason for each.

## 6. Findings

With a run:

* `staging_leak` (`client/install.rs:1976`, also 567, 1566, 1606 and 1920): these
  blocking tasks are awaited without an `AbortOnDrop`. When the clone's future is dropped
  there, the reaper removes staging while the task writes, and `tags::write` makes the
  directory again, without a marker, so no later clone removes it. The comment on the
  reaper says that it waits for every task the clone started.
* `lost_request` (`server/refs.rs:115`): `first_branches` holds `lock.refresh` without
  running a pass; a refresh that arrives then leaves its request to it. Only the next
  request or the poller, when polling is on, recovers it (`RefsServed`).
* `archive_order` (`manifest.rs:366`): `MetadataDelta::apply` puts files that its base
  lacks at the end of the table; `BaseIndex::new` takes the order of the table for the
  order of the stream. After a file was added between two others and its table stored as
  a delta, the next compaction keeps frames at wrong offsets, and files of the published
  archive read other bytes. The client notices it by the blob's hash (`TreeIsWhole`), so
  that its clone fails.
* `clone_refs` (`client/install.rs:1577`): a clone takes the refs it was given for
  complete when it has the commit of their base. A layer of the side pack may hold that
  commit without its history: refs are published with base 2 and a layer that holds 4,
  the default branch moves forward to 4 and is then force-pushed to 3, and Full(3) is
  ready before the next refresh. The clone of 3 writes the side branch at 4 and lacks 2.
  `RefsWholeOnBase` shows that all is well for a clone that has the base's history.

## 7. Known gaps

Read off the code while modelling, without a run of their own; some of them are the
reason for a constant of a module, and setting it shows them:

* `control/mod.rs:352` says a failed Head fails Files and Full; `head_failure_cascade`
  (`control/sqlite.rs:265`) fails only the Full, as its own comment and the conformance
  suite have it, and so does `Failed` of `BuildLifecycle`. `ImplementsLifecycle` is
  therefore not about that sentence.
* `control/schema/sqlite.sql:45` says `seq` is never reused; after a purge of the newest
  rows `MAX(seq) + 1` gives the same numbers again. They stay unique among the rows
  (`SeqUnique`), which is all that the code needs.
* `docs/CONFIG.md:58` says a repository runs at most one build of a kind; a purge and a
  new admission run a second one until the first one's next renewal. Only one of them
  can publish (`OvertakenWriteNothing`, `OneBuildCounts`).
* `server/refs.rs:94`: as a consequence of `lost_request` the first Full may go on
  without published branches although no refresh failed.
* `control/sqlite.rs:417`: the wait for older Fulls is checked at the claim. A failed
  older Full that is retried while a younger one is leased is overtaken, although the
  comment says that Fulls publish in admission order. `PackLevels` builds them in any
  order, and `LevelsHoldHistory` and `HeadPacksExact` hold all the same.
* `cas.rs:119` says that a new directory's entry in the root is synced before any object
  is renamed into it, and `cas.rs:65` that each stored object is durable. A task that
  finds the directory there, made by one that has not synced the root yet or was killed
  before, goes on at once (`cas.rs:126`), and an object it reports stored may be lost to
  a power cut. The model has this: `StoredSurvives` says that nothing is lost in another
  way, and `ReportedIsDurable` as an invariant of `ArtifactGC.cfg` shows it.
* `retention.rs:136`: an object is trimmed after its remote copy was confirmed. A sweep
  of the remote copy and a new install in between lose the local copy before its upload;
  the build that installed it then fails and is retried.
* `git.rs:1790`: a server stopped in the middle of removing a mirror leaves its refs with
  some of its packs, and a fetch's ref then proves nothing (`BuildsOnWholeHistory` with
  `StopsInRemoval` `TRUE`).
* `server/purge.rs:1`: a build that fetches between a purge and its removal of the mirror
  makes the mirror again; it stays until the next start removes orphans.
* `client/install.rs:1613`: when the fetch of refs fails, a tag is kept whose commit the
  side pack holds, though its history may not be there.
* `server/refs.rs:237`: a refs publish may reuse an artifact that it has not pinned.
* `server/purge.rs:204`: the first failure of a sweep drops the other deletions with
  their marks. If the bucket still carries out such a DELETE, an artifact that a build
  has meanwhile found stored and published is gone. `NamedIsStored` as an invariant of
  `GCSweeps.cfg`, where `LateDelete` is `TRUE`, shows it.
* `client/progress.rs:94`: `warn` locks stderr and then the line; `redraw`, `note` and
  the end of the drawing lock the line and then stderr. On two threads they can wait for
  each other for ever; `install_full_refs` calls `warn` while the line is drawn.
* `client/staging.rs:306` says that the next clone into the same parent removes what a
  cancelled clone left; `cleanup_stale_install_dirs` looks only at the staging of the
  same target name.
* `client/staging.rs:167`: a process killed between making its directory and signing the
  marker leaves a directory that no clone removes; a marker that could not be locked or
  signed stays beside a removed directory. `StageFails` does not model that the removal
  of the directory fails as well, which leaves one in the same way.
* Two simplifications without a consequence for what is checked: `HeadFetch` of
  `RefsRefresh` brings the whole of upstream's refs where `git.rs:1922` brings the commit
  and the tags that follow it; and `extract.rs:459` has an error path for an unknown chunk
  index, which the validation of the manifest excludes, so that `ArchiveExtract` has none.
* `client/download.rs:511`: a body of unknown length that is cut after its last byte is
  asked for once more from there, which a server answers with 416, a permanent failure;
  one of known length that is cut there on the last try fails although it is complete.

## 8. Plan

What is left, in this order:

1. The refs artifacts in `ArtifactGC`, which `repo_refs` names and publishes reuse.
2. The streaming of bodies by the API (`server/api.rs`) and the startup of the server
   with its checks of temporary files.
