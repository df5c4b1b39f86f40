---------------------------- MODULE RefsRefresh -----------------------------
(***************************************************************************)
(* The published refs of one repository (rust/src/server/refs.rs): refresh  *)
(* requests folded into passes, the Full that waits for the first refs, and *)
(* the tags that a Head publishes meanwhile.                                *)
(*                                                                          *)
(* The refs of upstream, of the mirror and of the store are the number of   *)
(* the push they reflect; tags and branches of the store have a number      *)
(* each.  A fetch takes all of upstream's refs.  lock.refresh is tokio's    *)
(* fair mutex: an unlock hands it to the first waiter, and try_lock fails   *)
(* until that one has let go of it.                                         *)
(***************************************************************************)
EXTENDS Naturals, Sequences

CONSTANTS
  Refresher,  \* refreshes that a webhook asks for
  Poller,     \* the poll loop, {} when polling is off
  FullBuild,  \* Full builds, which call first_branches
  HeadBuild,  \* Head builds, which publish their tags
  None,       \* an unlocked mutex
  MaxPush,    \* bound: pushes to upstream
  MaxFailures \* bound: publishes that fail

\* The refresh that the tags publish of a Head starts.
First(h) == <<h>>

Refresh == Refresher \cup Poller \cup {First(h) : h \in HeadBuild}
Proc == Refresh \cup FullBuild \cup HeadBuild

ASSUME RefsAssumption ==
  /\ MaxPush \in Nat /\ MaxFailures \in Nat
  /\ None \notin Proc
  \* the tasks are different ones
  /\ HeadBuild \cap (Refresh \cup FullBuild) = {}
  /\ {First(h) : h \in HeadBuild} \cap (Refresher \cup Poller \cup FullBuild) = {}

VARIABLES
  upstream,   \* pushes so far
  requested,  \* the newest push a refresh was requested for
  attempted,  \* the newest push a pass has tried to fetch
  mirror,     \* the refs in the mirror, 0 for no mirror
  tags,       \* the tags the store points at
  branches,   \* the branches the store points at, 0 for none
  wanted,     \* lock.refresh_wanted
  owner,      \* who holds lock.refresh
  queue,      \* who waits for lock.refresh
  refsOwner,  \* who holds lock.refs
  pc,         \* pc[p]: where a task is
  built,      \* built[p]: the branches, or a Head's tags, before lock.refs is taken
  read,       \* read[p]: the tags read under lock.refs
  ok,         \* ok[p]: `last` of a refresh
  failures    \* failed publishes

lockVars == <<wanted, owner, queue>>
rowVars == <<tags, branches>>
taskVars == <<built, read, ok, failures>>
refsVars == <<upstream, requested, attempted, mirror, tags, branches, wanted, owner, queue,
              refsOwner, pc, built, read, ok, failures>>

Goto(p, l) == pc' = [pc EXCEPT ![p] = l]

\* Dropping the guard of lock.refresh.
Unlock ==
  IF queue = <<>>
  THEN owner' = None /\ queue' = queue
  ELSE owner' = Head(queue) /\ queue' = Tail(queue)

-----------------------------------------------------------------------------
(* refresh.  A Full that found no refresh running calls it as well.         *)

\* A webhook starts a refresh.
Start(r) ==
  /\ pc[r] = "idle" /\ upstream > 0
  /\ Goto(r, "call")
  /\ UNCHANGED <<upstream, requested, attempted, mirror, rowVars, lockVars, refsOwner, taskVars>>

\* A polling pass, which finds that upstream's refs differ from the published.
Poll(p) ==
  /\ pc[p] \in {"idle", "done"} /\ branches # upstream
  /\ Goto(p, "call")
  /\ UNCHANGED <<upstream, requested, attempted, mirror, rowVars, lockVars, refsOwner, taskVars>>

\* The request is noted ...
Request(p) ==
  /\ pc[p] = "call"
  /\ requested' = upstream
  /\ wanted' = TRUE
  /\ Goto(p, "try")
  /\ UNCHANGED <<upstream, attempted, mirror, rowVars, owner, queue, refsOwner, taskVars>>

\* Where refresh returns to: a Full waits for the lock unless its own last
\* pass failed, and goes on either way.
Returned(p) ==
  IF p \notin FullBuild THEN "done" ELSE IF ok[p] THEN "await" ELSE "passed"

\* ... and the lock tried.  When somebody else holds it, it is left to them.
TryLock(p) ==
  /\ pc[p] = "try"
  /\ IF owner = None THEN owner' = p /\ Goto(p, "swap")
                     ELSE owner' = owner /\ Goto(p, Returned(p))
  /\ UNCHANGED <<upstream, requested, attempted, mirror, rowVars, wanted, queue, refsOwner, taskVars>>

\* while refresh_wanted.swap(false)
Swap(p) ==
  /\ pc[p] = "swap"
  /\ wanted' = FALSE
  /\ Goto(p, IF wanted THEN "fetch" ELSE "unlock")
  /\ UNCHANGED <<upstream, requested, attempted, mirror, rowVars, owner, queue, refsOwner, taskVars>>

\* refresh_once fetches every ref.  A mirror with no fetch yet is left to its
\* first build.
Fetch(p) ==
  /\ pc[p] = "fetch"
  /\ attempted' = upstream
  /\ IF mirror = 0
     THEN mirror' = mirror /\ ok' = [ok EXCEPT ![p] = TRUE] /\ Goto(p, "swap")
     ELSE mirror' = upstream /\ ok' = ok /\ Goto(p, "build")
  /\ UNCHANGED <<upstream, requested, rowVars, lockVars, refsOwner, built, read, failures>>

\* publish, Scope::All: the branches are built before lock.refs is taken.
Build(p) ==
  /\ pc[p] = "build"
  /\ built' = [built EXCEPT ![p] = mirror]
  /\ Goto(p, "lock")
  /\ UNCHANGED <<upstream, requested, attempted, mirror, rowVars, lockVars, refsOwner, read, ok, failures>>

\* Bug: the refs are not read again under the lock.
ReadBeforeLock(p) ==
  /\ pc[p] = "lock" /\ refsOwner = None
  /\ refsOwner' = p
  /\ read' = [read EXCEPT ![p] = built[p]]
  /\ Goto(p, "write")
  /\ UNCHANGED <<upstream, requested, attempted, mirror, rowVars, lockVars, built, ok, failures>>

\* lock.refs, then the refs and the row are read again.
ReadUnderLock(p) ==
  /\ pc[p] = "lock" /\ refsOwner = None
  /\ refsOwner' = p
  /\ read' = [read EXCEPT ![p] = mirror]
  /\ Goto(p, "write")
  /\ UNCHANGED <<upstream, requested, attempted, mirror, rowVars, lockVars, built, ok, failures>>

\* set_refs of the row read: the tags read and, from a refresh, the branches
\* built.  Tags written to a repo with no branches start a refresh.
Write(p) ==
  /\ pc[p] = "write"
  /\ tags' = read[p]
  /\ refsOwner' = None
  /\ IF p \in HeadBuild
     THEN /\ pc' = [q \in Proc |-> CASE q = p -> "ready"
                                     [] q = First(p) /\ branches = 0 -> "call"
                                     [] OTHER -> pc[q]]
          /\ branches' = branches /\ ok' = ok
     ELSE /\ branches' = built[p]
          /\ ok' = [ok EXCEPT ![p] = TRUE]
          /\ Goto(p, "swap")
  /\ UNCHANGED <<upstream, requested, attempted, mirror, lockVars, built, read, failures>>

\* The fetch or the publish fails: the next pass follows if it is wanted.  A
\* Head's failure is its build's, which is claimed again.
PassFails(p) ==
  /\ pc[p] \in {"fetch", "build", "write"}
  /\ failures < MaxFailures
  /\ failures' = failures + 1
  /\ attempted' = IF pc[p] = "fetch" THEN upstream ELSE attempted
  /\ refsOwner' = IF refsOwner = p THEN None ELSE refsOwner
  /\ ok' = [ok EXCEPT ![p] = FALSE]
  /\ Goto(p, IF p \in HeadBuild THEN "idle" ELSE "swap")
  /\ UNCHANGED <<upstream, requested, mirror, rowVars, lockVars, built, read>>

DropLock(p) ==
  /\ pc[p] = "unlock"
  /\ Unlock
  /\ Goto(p, "recheck")
  /\ UNCHANGED <<upstream, requested, attempted, mirror, rowVars, wanted, refsOwner, taskVars>>

\* Bug: a request after the last swap is not looked for.
RecheckNothing(p) ==
  /\ pc[p] = "recheck"
  /\ Goto(p, Returned(p))
  /\ UNCHANGED <<upstream, requested, attempted, mirror, rowVars, lockVars, refsOwner, taskVars>>

\* A request that came after the last swap is taken up again.
Recheck(p) ==
  /\ pc[p] = "recheck"
  /\ Goto(p, IF wanted THEN "try" ELSE Returned(p))
  /\ UNCHANGED <<upstream, requested, attempted, mirror, rowVars, lockVars, refsOwner, taskVars>>

RefreshStep(p) ==
  Request(p) \/ TryLock(p) \/ Swap(p) \/ Fetch(p) \/ Build(p) \/ ReadUnderLock(p) \/ Write(p)
    \/ PassFails(p) \/ DropLock(p) \/ Recheck(p)

-----------------------------------------------------------------------------
(* first_branches.                                                          *)

\* A Full is built on a ready Head.  With branches published there is nothing
\* to wait for.
Check(f) ==
  /\ pc[f] = "idle" /\ \E h \in HeadBuild : pc[h] = "ready"
  /\ Goto(f, IF branches = 0 THEN "probe" ELSE "passed")
  /\ UNCHANGED <<upstream, requested, attempted, mirror, rowVars, lockVars, refsOwner, taskVars>>

\* A lock that is free is taken: no refresh runs ...
Probe(f) ==
  /\ pc[f] = "probe"
  /\ IF owner = None THEN owner' = f /\ Goto(f, "probed")
                     ELSE owner' = owner /\ Goto(f, "await")
  /\ UNCHANGED <<upstream, requested, attempted, mirror, rowVars, wanted, queue, refsOwner, taskVars>>

\* ... it is let go, and this one refreshes.
Probed(f) ==
  /\ pc[f] = "probed"
  /\ Unlock
  /\ Goto(f, "call")
  /\ UNCHANGED <<upstream, requested, attempted, mirror, rowVars, wanted, refsOwner, taskVars>>

\* drop(lock.refresh.lock().await): the lock is waited for ...
Await(f) ==
  /\ pc[f] = "await"
  /\ IF owner = None THEN owner' = f /\ queue' = queue
                     ELSE owner' = owner /\ queue' = Append(queue, f)
  /\ Goto(f, "waiting")
  /\ UNCHANGED <<upstream, requested, attempted, mirror, rowVars, wanted, refsOwner, taskVars>>

\* ... and let go.  Without branches that is logged, and the Full goes on.
Awaited(f) ==
  /\ pc[f] = "waiting" /\ owner = f
  /\ Unlock
  /\ Goto(f, "passed")
  /\ UNCHANGED <<upstream, requested, attempted, mirror, rowVars, wanted, refsOwner, taskVars>>

FullStep(f) == Probe(f) \/ Probed(f) \/ Await(f) \/ Awaited(f) \/ RefreshStep(f)

-----------------------------------------------------------------------------
(* Head builds and upstream.                                                *)

\* A Head's fetch brings the tags with its commit; publish, Scope::Tags.
HeadFetch(h) ==
  /\ pc[h] = "idle" /\ upstream > 0
  /\ mirror' = upstream
  /\ built' = [built EXCEPT ![h] = upstream]
  /\ Goto(h, "lock")
  /\ UNCHANGED <<upstream, requested, attempted, rowVars, lockVars, refsOwner, read, ok, failures>>

HeadStep(h) == ReadUnderLock(h) \/ Write(h) \/ PassFails(h)

Push ==
  /\ upstream < MaxPush
  /\ upstream' = upstream + 1
  /\ UNCHANGED <<requested, attempted, mirror, rowVars, lockVars, refsOwner, pc, taskVars>>

Init ==
  /\ upstream = 0 /\ requested = 0 /\ attempted = 0 /\ mirror = 0
  /\ tags = 0 /\ branches = 0
  /\ wanted = FALSE /\ owner = None /\ queue = <<>> /\ refsOwner = None
  /\ pc = [p \in Proc |-> "idle"]
  /\ built = [p \in Proc |-> 0]
  /\ read = [p \in Proc |-> 0]
  /\ ok = [p \in Proc |-> TRUE]
  /\ failures = 0

Next ==
  \/ \E r \in Refresher : Start(r)
  \/ \E p \in Poller : Poll(p)
  \/ \E p \in Refresh : RefreshStep(p)
  \/ \E f \in FullBuild : Check(f) \/ FullStep(f)
  \/ \E h \in HeadBuild : HeadFetch(h) \/ HeadStep(h)
  \/ Push

\* A task that has started runs, requests to upstream and to the store return,
\* and the waiters of lock.refs get it in turn.
TaskFairness ==
  /\ \A p \in Refresh : WF_refsVars(RefreshStep(p))
  /\ \A f \in FullBuild : WF_refsVars(FullStep(f))
  /\ \A h \in HeadBuild : WF_refsVars(HeadStep(h))
  /\ \A p \in Proc : SF_refsVars(ReadUnderLock(p))

\* The poll loop ticks.
PollFairness == \A p \in Poller : WF_refsVars(Poll(p))

Spec == Init /\ [][Next]_refsVars /\ TaskFairness /\ PollFairness

-----------------------------------------------------------------------------
(* Properties.                                                              *)

\* The refs a clone is given never go back: a pass that built its branches
\* before a Head published newer tags does not overwrite them with older ones.
PublishedForward == [][tags' >= tags /\ branches' >= branches]_refsVars

\* refs.rs, header: "a Head that is ready never points clones at older tags"
\* than its fetch brought.
ReadyHeadHasTags == \A h \in HeadBuild : pc[h] = "ready" => tags >= built[h]

\* refs.rs, refresh: "Requests that arrive while one runs are folded into one
\* more pass of it": after every request a pass fetches what upstream had.
EveryRequestServed ==
  \A v \in 1..MaxPush : (requested = v) ~> (attempted >= v)

\* A Full that waits for the first refs always goes on.
FullsGoOn == \A f \in FullBuild : (pc[f] = "probe") ~> (pc[f] = "passed")

\* With polling on, the published branches catch up with upstream, whatever
\* requests were dropped on the way, once a Head has made the mirror.  Pushes
\* come to an end here (MaxPush).
RefsCatchUp == (mirror > 0) ~> (branches = upstream)

\* A refresh, or a Full that refreshes, between its try_lock and the end of
\* the guard.
Refreshing == {"swap", "fetch", "build", "lock", "write", "unlock", "probed"}

\* The strengthening for both: only the holder of lock.refresh writes
\* branches, so none are written since it built its own, and only the holder
\* of lock.refs writes tags, so none are since it read them.
RefsInv ==
  /\ tags <= mirror /\ branches <= mirror /\ mirror <= upstream
  /\ \A p \in Proc : pc[p] = "write" => refsOwner = p /\ tags <= read[p] /\ read[p] <= mirror
  /\ \A p \in Refresh \cup FullBuild :
       /\ pc[p] \in Refreshing => owner = p
       /\ pc[p] \in {"lock", "write"} => branches <= built[p] /\ built[p] <= mirror
  /\ \A h \in HeadBuild :
       /\ pc[h] = "lock" => built[h] <= mirror
       /\ pc[h] = "write" => built[h] <= read[h]
       /\ pc[h] = "ready" => built[h] <= tags
       /\ pc[h] # "ready" => pc[First(h)] = "idle"
=============================================================================
