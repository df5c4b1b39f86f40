---------------------------- MODULE CloneStaging ----------------------------
(***************************************************************************)
(* Clones into one target, each a process of its own (install of            *)
(* rust/src/client/install.rs, rust/src/client/staging.rs): the staging      *)
(* directory and its locked marker, the tasks and git children that write    *)
(* into it, the reaper that waits for them, and the removal of what killed   *)
(* clones left.                                                              *)
(*                                                                          *)
(* A writer is a task or a git child.  It is held by the clone's future or   *)
(* by another task, whose end drops what it still holds.  abort and kill     *)
(* only make a writer end sooner.                                            *)
(***************************************************************************)
EXTENDS Integers, FiniteSets

CONSTANTS
  Client,
  Writer,
  Holder,      \* Holder[w]: the clone or the task that holds w
  Async, Blocking,  \* tasks behind an AbortOnDrop
  Git,         \* children behind a GitChild
  Detached,    \* blocking tasks that are awaited without a guard
  Nobody,
  MaxFaults    \* bound: file operations that fail and processes that are killed

\* The clone that a writer works for.
ClientOf(w) == IF Holder[w] \in Client THEN Holder[w] ELSE Holder[Holder[w]]
HeldBy(h) == {w \in Writer : Holder[w] = h}

\* What is assumed of the constants.
ASSUME StagingAssumption ==
  /\ Holder \in [Writer -> Client \cup Async]
  /\ Writer = Async \cup Blocking \cup Git \cup Detached /\ IsFiniteSet(Writer)
  /\ Git \cap (Async \cup Blocking) = {} /\ Detached \cap (Async \cup Blocking \cup Git) = {}
  /\ \A w \in Writer : ClientOf(w) \in Client
  /\ \A w \in Git \cup Detached : Holder[w] \in Client
  /\ Client \cap Async = {} /\ Nobody \notin Client
  /\ MaxFaults \in Nat

VARIABLES
  at,       \* at[c]: where the clone's future is
  result,   \* result[c]: how it ends
  target,   \* the clone that was published, Nobody for no or an empty directory
  dir,      \* dir[c]: the path of its staging directory
  linked,   \* linked[c]: its marker file is there
  ink,      \* ink[c]: what the marker says
  flock,    \* flock[c]: which process has the marker locked
  todo,     \* todo[c]: directories that it still has to look at
  open,     \* open[c]: the clone whose marker it has opened
  staged,   \* staged[c]: the reaper owns the staging directory
  writer,   \* writer[w]
  guard,    \* guard[w]: the guard that holds it
  guards,   \* guards[c]: active_guards
  pending,  \* pending[c]: writers handed to the reaper
  batch,    \* batch[c]: writers the reaper awaits
  closed,   \* closed[c]
  permit,   \* permit[c]: a notify_one that nobody has waited for yet
  reaper,   \* reaper[c]: where the reaper is
  faults

fileVars == <<target, dir, linked, ink, flock>>
scanVars == <<todo, open>>
guardVars == <<guard, guards, pending, closed, permit>>
reapVars == <<batch, reaper>>
stagingVars == <<at, result, target, dir, linked, ink, flock, todo, open, staged, writer, guard,
                 guards, pending, batch, closed, permit, reaper, faults>>

GoTo(c, l) == at' = [at EXCEPT ![c] = l]
Fault == faults < MaxFaults /\ faults' = faults + 1

\* The clone's own code ends with r, and what it holds is dropped.
Leave(c, r) ==
  /\ GoTo(c, "unwind")
  /\ result' = [result EXCEPT ![c] = r]

-----------------------------------------------------------------------------
(* install: the target, the plan, the staging directory.                    *)

\* check_target: missing or empty, or the clone is refused.
CheckTarget(c) ==
  /\ at[c] = "check"
  /\ IF target \in Client
     THEN GoTo(c, "failed") /\ result' = [result EXCEPT ![c] = "error"]
     ELSE GoTo(c, "plan") /\ result' = result
  /\ UNCHANGED <<fileVars, scanVars, staged, writer, guardVars, reapVars, faults>>

\* resolve and plan succeed, and the reaper is started; or they fail or the
\* future is dropped, with nothing to clean up.
PlanMade(c) ==
  /\ at[c] = "plan"
  /\ GoTo(c, "list") /\ reaper' = [reaper EXCEPT ![c] = "drain"]
  /\ UNCHANGED <<result, fileVars, scanVars, staged, writer, guardVars, batch, faults>>

PlanFails(c) ==
  /\ at[c] = "plan"
  /\ GoTo(c, "failed") /\ result' = [result EXCEPT ![c] = "error"]
  /\ UNCHANGED <<fileVars, scanVars, staged, writer, guardVars, reapVars, faults>>

\* cleanup_stale_install_dirs lists the staging directories of the target ...
List(c) ==
  /\ at[c] = "list"
  /\ todo' = [todo EXCEPT ![c] = {e \in Client : dir[e] = "here"}]
  /\ GoTo(c, "scan")
  /\ UNCHANGED <<result, fileVars, open, staged, writer, guardVars, reapVars, faults>>

\* ... opens the marker of each ...
OpenMarker(c) ==
  /\ at[c] = "scan" /\ open[c] = Nobody
  /\ \E e \in todo[c] :
       /\ todo' = [todo EXCEPT ![c] = @ \ {e}]
       /\ open' = [open EXCEPT ![c] = IF linked[e] THEN e ELSE Nobody]
  /\ UNCHANGED <<at, result, fileVars, staged, writer, guardVars, reapVars, faults>>

\* ... and tries to lock it.
TryLockMarker(c) ==
  LET e == open[c] IN
  /\ at[c] = "scan" /\ e # Nobody /\ flock[e] # c
  /\ IF flock[e] = Nobody
     THEN flock' = [flock EXCEPT ![e] = c] /\ open' = open
     ELSE flock' = flock /\ open' = [open EXCEPT ![c] = Nobody]
  /\ UNCHANGED <<at, result, target, dir, linked, ink, todo, staged, writer, guardVars, reapVars, faults>>

\* Bug: the contents are not looked at.
CleanUnread(c) ==
  LET e == open[c] IN
  /\ at[c] = "scan" /\ e # Nobody /\ flock[e] = c
  /\ dir' = [dir EXCEPT ![e] = IF @ = "here" THEN "gone" ELSE @]
  /\ linked' = [linked EXCEPT ![e] = FALSE]
  /\ flock' = [flock EXCEPT ![e] = Nobody]
  /\ open' = [open EXCEPT ![c] = Nobody]
  /\ UNCHANGED <<at, result, target, ink, todo, staged, writer, guardVars, reapVars, faults>>

\* The directory of a signed marker is removed, then the marker; when the
\* directory cannot be removed, or is gone already, the marker is left.
Clean(c) ==
  LET e == open[c] IN
  /\ at[c] = "scan" /\ e # Nobody /\ flock[e] = c
  /\ \/ /\ ink[e] = "signed" /\ dir[e] = "here"
        /\ dir' = [dir EXCEPT ![e] = "gone"]
        /\ linked' = [linked EXCEPT ![e] = FALSE]
        /\ faults' = faults
     \/ /\ ink[e] = "signed" /\ dir[e] = "here" /\ Fault
        /\ UNCHANGED <<dir, linked>>
     \/ /\ ink[e] = "blank" \/ dir[e] # "here"
        /\ UNCHANGED <<dir, linked, faults>>
  /\ flock' = [flock EXCEPT ![e] = Nobody]
  /\ open' = [open EXCEPT ![c] = Nobody]
  /\ UNCHANGED <<at, result, target, ink, todo, staged, writer, guardVars, reapVars>>

\* temp_install_dir makes the directory ...
MakeDir(c) ==
  /\ at[c] = "scan" /\ todo[c] = {} /\ open[c] = Nobody
  /\ dir' = [dir EXCEPT ![c] = "here"]
  /\ GoTo(c, "mark")
  /\ UNCHANGED <<result, target, linked, ink, flock, scanVars, staged, writer, guardVars, reapVars, faults>>

\* ... and its marker, which is locked, waiting for whoever looks at it ...
CreateMarker(c) ==
  /\ at[c] = "mark"
  /\ linked' = [linked EXCEPT ![c] = TRUE]
  /\ GoTo(c, "lock")
  /\ UNCHANGED <<result, target, dir, ink, flock, scanVars, staged, writer, guardVars, reapVars, faults>>

LockMarker(c) ==
  /\ at[c] = "lock" /\ flock[c] = Nobody
  /\ flock' = [flock EXCEPT ![c] = c]
  /\ GoTo(c, "sign")
  /\ UNCHANGED <<result, target, dir, linked, ink, scanVars, staged, writer, guardVars, reapVars, faults>>

\* ... and only then signed.  The reaper owns the directory from here on.
SignMarker(c) ==
  /\ at[c] = "sign"
  /\ ink' = [ink EXCEPT ![c] = "signed"]
  /\ staged' = [staged EXCEPT ![c] = TRUE]
  /\ GoTo(c, "work")
  /\ UNCHANGED <<result, target, dir, linked, flock, scanVars, writer, guardVars, reapVars, faults>>

\* One of these fails: the directory is dropped, a marker file stays.  (That the
\* drop's own removal fails too is left out.)
StageFails(c) ==
  /\ at[c] \in {"mark", "lock", "sign"} /\ Fault
  /\ dir' = [dir EXCEPT ![c] = "gone"]
  /\ flock' = [flock EXCEPT ![c] = IF @ = c THEN Nobody ELSE @]
  /\ Leave(c, "error")
  /\ UNCHANGED <<target, linked, ink, scanVars, staged, writer, guardVars, reapVars>>

-----------------------------------------------------------------------------
(* materialize: the writers.                                                *)

\* The clone is in its own code, and not in a task without a guard, which it
\* awaits where it starts it.  A files clone starts tasks before it has a
\* staging directory, and again after.
Awaits(c) == \E w \in HeldBy(c) \cap Detached : writer[w] = "running"
Materializes(c) == at[c] \in {"list", "work"} /\ ~Awaits(c)

\* The holder runs its own code, in which it starts and joins writers.
Runs(h) == IF h \in Client THEN Materializes(h) ELSE writer[h] = "running"

\* A guarded task is spawned: downloads, pack installs, extraction, the index.
SpawnTask(w) ==
  /\ w \in Async \cup Blocking
  /\ Runs(Holder[w]) /\ writer[w] = "none"
  /\ writer' = [writer EXCEPT ![w] = "running"]
  /\ guard' = [guard EXCEPT ![w] = "held"]
  /\ guards' = [guards EXCEPT ![ClientOf(w)] = @ + 1]
  /\ UNCHANGED <<at, result, fileVars, scanVars, staged, pending, closed, permit, reapVars, faults>>

\* git runs in the staging directory.
SpawnGit(w) ==
  /\ w \in Git
  /\ Runs(Holder[w]) /\ at[Holder[w]] = "work" /\ writer[w] = "none"
  /\ writer' = [writer EXCEPT ![w] = "running"]
  /\ guard' = [guard EXCEPT ![w] = "held"]
  /\ UNCHANGED <<at, result, fileVars, scanVars, staged, guards, pending, closed, permit, reapVars, faults>>

\* A blocking task is started without a guard: the packs and tags of the refs,
\* when no git runs.
SpawnDetached(w) ==
  /\ w \in Detached
  /\ Runs(Holder[w]) /\ at[Holder[w]] = "work" /\ writer[w] = "none"
  /\ \A g \in HeldBy(Holder[w]) \cap Git : guard[g] # "held"
  /\ writer' = [writer EXCEPT ![w] = "running"]
  /\ UNCHANGED <<at, result, fileVars, scanVars, staged, guardVars, reapVars, faults>>

\* A writer ends.  A task drops what it still holds before that.
Unwinds(w) ==
  /\ w \in Async /\ writer[w] = "running"
  /\ writer' = [writer EXCEPT ![w] = "unwind"]
  /\ UNCHANGED <<at, result, fileVars, scanVars, staged, guardVars, reapVars, faults>>

\* tags::write of a detached task makes its directory when it is not there.
Ends(w) ==
  LET c == ClientOf(w) IN
  /\ \/ w \in Async /\ writer[w] = "unwind"
     \/ w \notin Async /\ writer[w] = "running"
  /\ \A v \in HeldBy(w) : guard[v] \notin {"held", "pushed"}
  /\ writer' = [writer EXCEPT ![w] = "ended"]
  /\ dir' = IF w \in Detached /\ dir[c] = "gone" /\ target # c
            THEN [dir EXCEPT ![c] = "here"] ELSE dir
  /\ UNCHANGED <<at, result, target, linked, ink, flock, scanVars, staged, guardVars, reapVars, faults>>

\* AbortOnDrop::join, or GitChild::wait.
Join(w) ==
  LET c == ClientOf(w) IN
  /\ Runs(Holder[w]) /\ writer[w] = "ended" /\ guard[w] = "held"
  /\ guard' = [guard EXCEPT ![w] = "joined"]
  /\ guards' = [guards EXCEPT ![c] = IF w \in Git THEN @ ELSE @ - 1]
  /\ permit' = [permit EXCEPT ![c] = @ \/ w \notin Git]
  /\ UNCHANGED <<at, result, fileVars, scanVars, staged, writer, pending, closed, reapVars, faults>>

\* The holder is being dropped: its guards go one after the other.  Each hands
\* its writer to the reaper ...
Unwinding(h) == IF h \in Client THEN at[h] = "unwind" ELSE writer[h] = "unwind"

DropPush(w) ==
  LET c == ClientOf(w) IN
  /\ Unwinding(Holder[w]) /\ guard[w] = "held"
  /\ \A v \in HeldBy(Holder[w]) : guard[v] # "pushed"
  /\ pending' = [pending EXCEPT ![c] = @ \cup {w}]
  /\ permit' = [permit EXCEPT ![c] = TRUE]
  /\ guard' = [guard EXCEPT ![w] = IF w \in Git THEN "gone" ELSE "pushed"]
  /\ UNCHANGED <<at, result, fileVars, scanVars, staged, writer, guards, closed, reapVars, faults>>

\* ... and is counted out after that.
DropFinish(w) ==
  LET c == ClientOf(w) IN
  /\ guard[w] = "pushed"
  /\ guard' = [guard EXCEPT ![w] = "gone"]
  /\ guards' = [guards EXCEPT ![c] = @ - 1]
  /\ permit' = [permit EXCEPT ![c] = TRUE]
  /\ UNCHANGED <<at, result, fileVars, scanVars, staged, writer, pending, closed, reapVars, faults>>

\* materialize fails: a download, a task or git did, or a check.
MaterializeFails(c) ==
  /\ Materializes(c) /\ Leave(c, "error")
  /\ UNCHANGED <<fileVars, scanVars, staged, writer, guardVars, reapVars, faults>>

\* The future is dropped, for instance on Ctrl-C, and with it the handle of a
\* task without a guard, which goes on.
Cancel(c) ==
  /\ at[c] \in {"list", "work"} /\ Leave(c, "error")
  /\ guard' = [w \in Writer |-> IF w \in HeldBy(c) \cap Detached /\ writer[w] = "running"
                               THEN "gone" ELSE guard[w]]
  /\ UNCHANGED <<fileVars, scanVars, staged, writer, guards, pending, closed, permit, reapVars, faults>>

\* Every writer that was started has been joined and did not fail, so it has
\* joined its own as well; publish renames the directory.  rename replaces
\* nothing but an empty directory.
Publish(c) ==
  /\ at[c] = "work"
  /\ \A w \in Writer : ClientOf(w) = c =>
       writer[w] = "none" \/ (writer[w] = "ended" /\ (w \in Detached \/ guard[w] = "joined"))
  /\ IF target \in Client
     THEN Leave(c, "error") /\ UNCHANGED <<target, dir>>
     ELSE /\ Leave(c, "ok")
          /\ target' = c
          /\ dir' = [dir EXCEPT ![c] = "gone"]
  /\ UNCHANGED <<linked, ink, flock, scanVars, staged, writer, guardVars, reapVars, faults>>

\* Bug: close wakes nobody.
CloseSilently(c) ==
  /\ at[c] = "unwind"
  /\ \A w \in HeldBy(c) : guard[w] \notin {"held", "pushed"}
  /\ closed' = [closed EXCEPT ![c] = TRUE]
  /\ permit' = permit
  /\ GoTo(c, "reap")
  /\ UNCHANGED <<result, fileVars, scanVars, staged, writer, guard, guards, pending, reapVars, faults>>

\* CloseOnDrop, when everything else has been dropped.
Close(c) ==
  /\ at[c] = "unwind"
  /\ \A w \in HeldBy(c) : guard[w] \notin {"held", "pushed"}
  /\ closed' = [closed EXCEPT ![c] = TRUE]
  /\ permit' = [permit EXCEPT ![c] = TRUE]
  /\ GoTo(c, "reap")
  /\ UNCHANGED <<result, fileVars, scanVars, staged, writer, guard, guards, pending, reapVars, faults>>

\* install, or wait_for_cancelled_cleanup, returns when the reaper is done.
Return(c) ==
  /\ at[c] = "reap" /\ reaper[c] = "done"
  /\ GoTo(c, IF result[c] = "ok" THEN "done" ELSE "failed")
  /\ UNCHANGED <<result, fileVars, scanVars, staged, writer, guardVars, reapVars, faults>>

-----------------------------------------------------------------------------
(* The reaper.                                                              *)

Reap(c, from, to) == reaper[c] = from /\ reaper' = [reaper EXCEPT ![c] = to]

\* drain takes what is pending, until there is nothing ...
Take(c) ==
  /\ reaper[c] \in {"drain", "last"}
  /\ batch' = [batch EXCEPT ![c] = pending[c]]
  /\ pending' = [pending EXCEPT ![c] = {}]
  /\ IF pending[c] # {} THEN reaper' = reaper
     ELSE reaper' = [reaper EXCEPT ![c] = IF @ = "drain" THEN "closed" ELSE "remove"]
  /\ UNCHANGED <<at, result, fileVars, scanVars, staged, writer, guard, guards, closed, permit, faults>>

\* ... and awaits it each time.
TakeWhenJoined(c) ==
  /\ \A w \in batch[c] : writer[w] = "ended"
  /\ Take(c)

\* closed is read, then active_guards.
LoadClosed(c) ==
  /\ Reap(c, "closed", IF closed[c] THEN "guards" ELSE "wait")
  /\ UNCHANGED <<at, result, fileVars, scanVars, staged, writer, guardVars, batch, faults>>

\* Bug: no last drain.
LoadGuardsNoDrain(c) ==
  /\ Reap(c, "guards", IF guards[c] = 0 THEN "remove" ELSE "wait")
  /\ UNCHANGED <<at, result, fileVars, scanVars, staged, writer, guardVars, batch, faults>>

LoadGuards(c) ==
  /\ Reap(c, "guards", IF guards[c] = 0 THEN "last" ELSE "wait")
  /\ UNCHANGED <<at, result, fileVars, scanVars, staged, writer, guardVars, batch, faults>>

AwaitChange(c) ==
  /\ Reap(c, "wait", "drain") /\ permit[c]
  /\ permit' = [permit EXCEPT ![c] = FALSE]
  /\ UNCHANGED <<at, result, fileVars, scanVars, staged, writer, guard, guards, pending, closed, batch, faults>>

\* Bug: the marker goes although the directory could not be removed.
RemoveStagingAnyway(c) ==
  /\ Reap(c, "remove", "done")
  /\ \/ /\ dir' = [dir EXCEPT ![c] = IF staged[c] /\ @ = "here" THEN "gone" ELSE @]
        /\ faults' = faults
     \/ staged[c] /\ dir[c] = "here" /\ Fault /\ dir' = dir
  /\ linked' = [linked EXCEPT ![c] = @ /\ ~staged[c]]
  /\ flock' = [flock EXCEPT ![c] = IF @ = c THEN Nobody ELSE @]
  /\ staged' = [staged EXCEPT ![c] = FALSE]
  /\ UNCHANGED <<at, result, target, ink, scanVars, writer, guardVars, batch>>

\* Dropping StagedTempDir: the directory, then the marker unless the directory
\* could not be removed, then the lock.  A published directory is gone already.
RemoveStaging(c) ==
  /\ Reap(c, "remove", "done")
  /\ \/ /\ dir' = [dir EXCEPT ![c] = IF staged[c] /\ @ = "here" THEN "gone" ELSE @]
        /\ linked' = [linked EXCEPT ![c] = @ /\ ~staged[c]]
        /\ faults' = faults
     \/ staged[c] /\ dir[c] = "here" /\ Fault /\ UNCHANGED <<dir, linked>>
  /\ flock' = [flock EXCEPT ![c] = IF @ = c THEN Nobody ELSE @]
  /\ staged' = [staged EXCEPT ![c] = FALSE]
  /\ UNCHANGED <<at, result, target, ink, scanVars, writer, guardVars, batch>>

\* The process is killed, or leaves at the limit of wait_for_cancelled_cleanup.
\* Its memory, locks and threads go with it; its files stay, and a git child
\* goes on.
Kill(c) ==
  /\ at[c] \notin {"check", "done", "failed", "dead"} /\ Fault
  /\ GoTo(c, "dead")
  /\ reaper' = [reaper EXCEPT ![c] = "dead"]
  /\ result' = [result EXCEPT ![c] = "none"]
  /\ flock' = [e \in Client |-> IF flock[e] = c THEN Nobody ELSE flock[e]]
  /\ todo' = [todo EXCEPT ![c] = {}] /\ open' = [open EXCEPT ![c] = Nobody]
  /\ staged' = [staged EXCEPT ![c] = FALSE]
  /\ guards' = [guards EXCEPT ![c] = 0]
  /\ pending' = [pending EXCEPT ![c] = {}] /\ batch' = [batch EXCEPT ![c] = {}]
  /\ closed' = [closed EXCEPT ![c] = FALSE] /\ permit' = [permit EXCEPT ![c] = FALSE]
  /\ writer' = [w \in Writer |-> IF ClientOf(w) = c /\ w \notin Git THEN "ended" ELSE writer[w]]
  /\ guard' = [w \in Writer |-> IF ClientOf(w) = c THEN "gone" ELSE guard[w]]
  /\ UNCHANGED <<target, dir, linked, ink>>

-----------------------------------------------------------------------------
StagingInit ==
  /\ at = [c \in Client |-> "check"]
  /\ result = [c \in Client |-> "none"]
  /\ target = Nobody
  /\ dir = [c \in Client |-> "none"]
  /\ linked = [c \in Client |-> FALSE]
  /\ ink = [c \in Client |-> "blank"]
  /\ flock = [c \in Client |-> Nobody]
  /\ todo = [c \in Client |-> {}]
  /\ open = [c \in Client |-> Nobody]
  /\ staged = [c \in Client |-> FALSE]
  /\ writer = [w \in Writer |-> "none"]
  /\ guard = [w \in Writer |-> "none"]
  /\ guards = [c \in Client |-> 0]
  /\ pending = [c \in Client |-> {}]
  /\ batch = [c \in Client |-> {}]
  /\ closed = [c \in Client |-> FALSE]
  /\ permit = [c \in Client |-> FALSE]
  /\ reaper = [c \in Client |-> "none"]
  /\ faults = 0

ClientStep(c) ==
  \/ CheckTarget(c) \/ PlanMade(c) \/ PlanFails(c) \/ List(c) \/ OpenMarker(c) \/ TryLockMarker(c)
  \/ Clean(c) \/ MakeDir(c) \/ CreateMarker(c) \/ LockMarker(c) \/ SignMarker(c) \/ StageFails(c)
  \/ MaterializeFails(c) \/ Cancel(c) \/ Publish(c) \/ Close(c) \/ Return(c)

WriterStep(w) ==
  \/ SpawnTask(w) \/ SpawnGit(w) \/ SpawnDetached(w) \/ Unwinds(w) \/ Ends(w) \/ Join(w)
  \/ DropPush(w) \/ DropFinish(w)

ReaperStep(c) ==
  \/ TakeWhenJoined(c) \/ LoadClosed(c) \/ LoadGuards(c) \/ AwaitChange(c) \/ RemoveStaging(c)

StagingNext ==
  \/ \E c \in Client : ClientStep(c) \/ ReaperStep(c) \/ Kill(c)
  \/ \E w \in Writer : WriterStep(w)

StagingSpec == StagingInit /\ [][StagingNext]_stagingVars

-----------------------------------------------------------------------------
(* Properties.                                                              *)

\* Nobody writes into a clone that has been published, and no guarded task and
\* no git child writes into staging that the reaper has removed: it waits for
\* what the clone started and for what that started in turn, whatever the order
\* in which they are dropped.
WritersGoFirst ==
  \A w \in Writer :
    target = ClientOf(w) \/ (reaper[ClientOf(w)] = "done" /\ w \notin Detached) =>
      writer[w] \in {"none", "ended"}

\* No clone removes the staging of another one that is still at work, not even
\* one whose marker it opened before it was locked and signed.
LiveStagingKept ==
  \A c \in Client : at[c] \in {"mark", "lock", "sign", "work"} => dir[c] = "here"

\* Staging that is there when the reaper is done could not be removed: it is
\* marked and unlocked, for the next clone into the target to remove.
Removable(c) ==
  reaper[c] = "done" /\ dir[c] = "here" =>
    linked[c] /\ ink[c] = "signed" /\ flock[c] # c

\* The reaper leaves nothing that a later clone cannot remove, unless the clone
\* was cancelled in a task without a guard.
NothingLeft ==
  \A c \in Client : (\A w \in HeldBy(c) \cap Detached : guard[w] # "gone") => Removable(c)

\* install.rs: "On failure or cancellation it waits for every task and git
\* child the clone started, then removes staging."
NothingEverLeft == \A c \in Client : Removable(c)

\* No wakeup of the reaper is lost: it sleeps only while a close or a guard that
\* is still to come will wake it.
NoLostWakeup ==
  \A c \in Client :
    reaper[c] = "wait" /\ ~permit[c] => ~closed[c] \/ guards[c] > 0

-----------------------------------------------------------------------------
(* The inductive invariant.                                                 *)

Before == {"check", "plan", "list", "scan"}
Staging == {"mark", "lock", "sign"}

\* What each variable may be.
StagingTypeOK ==
  /\ at \in [Client -> Before \cup Staging \cup {"work", "unwind", "reap", "done", "failed", "dead"}]
  /\ result \in [Client -> {"none", "ok", "error"}]
  /\ target \in Client \cup {Nobody}
  /\ dir \in [Client -> {"none", "here", "gone"}]
  /\ linked \in [Client -> BOOLEAN] /\ ink \in [Client -> {"blank", "signed"}]
  /\ flock \in [Client -> Client \cup {Nobody}]
  /\ todo \in [Client -> SUBSET Client] /\ open \in [Client -> Client \cup {Nobody}]
  /\ staged \in [Client -> BOOLEAN]
  /\ writer \in [Writer -> {"none", "running", "unwind", "ended"}]
  /\ guard \in [Writer -> {"none", "held", "pushed", "joined", "gone"}]
  /\ guards \in [Client -> Int]
  /\ pending \in [Client -> SUBSET Writer] /\ batch \in [Client -> SUBSET Writer]
  /\ closed \in [Client -> BOOLEAN] /\ permit \in [Client -> BOOLEAN]
  /\ reaper \in [Client -> {"none", "drain", "closed", "guards", "wait", "last", "remove", "done", "dead"}]
  /\ faults \in Nat

\* The reaper is past its reading of closed only when the clone is closed, and
\* the clone is closed only after its own code has ended.
ClosedFirst ==
  \A c \in Client :
    /\ reaper[c] \in {"guards", "last", "remove", "done"} => closed[c]
    /\ closed[c] => at[c] \in {"reap", "done", "failed"}

\* A marker is signed under its lock, which the clone keeps for as long as it,
\* or its reaper, owns the directory.
MarkerKept ==
  \A c \in Client :
    /\ at[c] \in Before \cup Staging => ink[c] = "blank"
    /\ at[c] \in {"sign", "work"} => flock[c] = c
    /\ at[c] \in {"lock", "sign", "work"} => linked[c]
    /\ staged[c] => /\ at[c] \in {"work", "unwind", "reap"} /\ reaper[c] # "done"
                    /\ linked[c] /\ ink[c] = "signed" /\ flock[c] = c

\* A directory that is there has an owner: the clone that makes it, the reaper,
\* or whoever comes next, unless a task without a guard made it again.
Left(c) == \E w \in HeldBy(c) \cap Detached : guard[w] = "gone"
DirOwned ==
  \A c \in Client :
    /\ at[c] \in Before => dir[c] = "none"
    /\ dir[c] = "here" /\ reaper[c] # "done" /\ ~Left(c) =>
         staged[c] \/ at[c] \in Staging \cup {"dead"}
    /\ at[c] = "work" => staged[c]

\* A task without a guard runs where the clone awaits it, or was left behind.
DetachedAwaited ==
  \A w \in Detached :
    /\ guard[w] \in {"none", "gone"} /\ writer[w] # "unwind"
    /\ writer[w] = "running" /\ guard[w] = "none" => at[ClientOf(w)] = "work"

\* A writer that is not through is held, or handed to the reaper; a task that
\* holds another is not through; a closed clone holds none.
Active(w) == writer[w] \in {"running", "unwind"}
Held(w) == guard[w] \in {"held", "pushed"}
WritersHeld ==
  /\ \A w \in Writer \ Detached :
       Active(w) /\ at[ClientOf(w)] # "dead" =>
         guard[w] = "held" \/ w \in pending[ClientOf(w)] \cup batch[ClientOf(w)]
  /\ \A w \in Writer : Held(w) /\ Holder[w] \in Async => Active(Holder[w])
  /\ \A w \in Writer : Held(w) /\ Holder[w] \in Client => ~closed[Holder[w]]
  /\ \A w \in Writer : Held(w) => writer[w] # "none" /\ (w \in Git => guard[w] = "held")

\* Nobody writes when the reaper removes, and into a published clone.
QuietAtEnd ==
  \A w \in Writer :
    /\ reaper[ClientOf(w)] \in {"remove", "done"} /\ w \notin Detached => ~Active(w)
    /\ target = ClientOf(w) =>
         ~Active(w) /\ at[ClientOf(w)] \in {"unwind", "reap", "done", "failed", "dead"}

\* active_guards counts the guards of tasks that have not been counted out.
Counted(c) == {w \in Writer \ Git : ClientOf(w) = c /\ Held(w)}
GuardsCounted == \A c \in Client : guards[c] = Cardinality(Counted(c))

StagingInv ==
  /\ StagingTypeOK
  /\ ClosedFirst /\ MarkerKept /\ LiveStagingKept /\ DirOwned
  /\ DetachedAwaited /\ NothingLeft
  /\ WritersHeld /\ QuietAtEnd
  /\ GuardsCounted /\ NoLostWakeup
=============================================================================
