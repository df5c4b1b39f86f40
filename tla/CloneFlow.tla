----------------------------- MODULE CloneFlow ------------------------------
(***************************************************************************)
(* One clone from the build request to the refs it writes                   *)
(* (rust/src/server/api.rs, rust/src/client/install.rs), beside pushes,     *)
(* builds and refs publishes (rust/src/server/refs.rs, branches.rs).        *)
(*                                                                          *)
(* A handler is a step for every answer it waits for: upstream's tip, the   *)
(* row, the top-up base, the refs, the row of each refs base.               *)
(*                                                                          *)
(* Abstractions.  A pack is the set of the commits whose objects it holds   *)
(* (PackLevels checks that the packs of a Full hold its history).  There is *)
(* one tag.  A refresh is one step (RefsRefresh has its passes), a download *)
(* arrives (Download), and a fetch from upstream brings whole histories or  *)
(* fails.  Builds, publishes and admissions after the answer was given      *)
(* change nothing for the clone and are left out.                           *)
(***************************************************************************)
EXTENDS CommitHistory, Sequences, FiniteSets, FiniteSetsExt

CONSTANTS
  Branch,      \* upstream's branches
  Default,     \* the default branch
  FirstTips,   \* FirstTips[b]: where upstream's branches start
  Pushes,      \* Pushes[b]: the commits that are pushed to b
  TagCommits,  \* the commits that are tagged
  Request,     \* the clones: [kind, branch, at, wait, single]; no files clones
  SideLayers,  \* SIDE_LAYERS
  MaxPolls,    \* MAX_POLLS
  MaxPushes,   \* bound: pushes
  MaxPublishes,\* bound: refs publishes
  MaxBuilds,   \* bound: builds, a Full and its Head count as one
  MaxFailures  \* bound: requests to upstream and Fulls that fail

ASSUME FlowAssumption ==
  /\ Default \in Branch
  /\ FirstTips \in [Branch -> Commit]
  /\ \A b \in Branch : Pushes[b] \subseteq Commit
  /\ TagCommits \subseteq Commit
  /\ Request \subseteq [kind : {"Head", "Full"}, branch : Branch, at : Commit \cup {None},
                        wait : BOOLEAN, single : BOOLEAN]
  /\ SideLayers \in Nat /\ MaxPolls \in Nat \ {0}
  /\ {MaxPushes, MaxPublishes, MaxBuilds, MaxFailures} \subseteq Nat

VARIABLES
  upstream,  \* upstream's refs: [branches, tag]
  rows,      \* rows[c]: the build of c, or None
  refs,      \* the published refs: [tag, branches, ready]
  budget,    \* what is left of the bounds
  pc,        \* where the clone is
  req,       \* its CloneRequest, None until it starts
  pin,       \* pin.commit
  polls,     \* polls made
  srv,       \* what the handler of its request has read
  plan,      \* its Plan: the ready output it installs
  tip,       \* the command's own reading of upstream's tip, <<>> until it is made
  held,      \* the commits whose objects its packs hold
  clone      \* the refs it has written

worldVars == <<upstream, rows, refs>>
cloneVars == <<req, pin, polls, srv, plan, held, clone>>
flowVars == <<upstream, rows, refs, budget, pc, req, pin, polls, srv, plan, tip, held, clone>>

Hist(c) == Ancestors[c] \cup {c}
HistOf(S) == UNION {Hist(c) : c \in S}

Spend(what) == budget[what] > 0 /\ budget' = [budget EXCEPT ![what] = @ - 1]

-----------------------------------------------------------------------------
(* Upstream, and the control store's rows.                                  *)

Admitted == {c \in Commit : rows[c] # None}

\* add_repo has admitted the default branch.
FirstRow == [ref |-> Default, seq |-> 1, head |-> "pending", full |-> "pending", own |-> None]

\* admit: a row keeps its number, and its ref once it has one.
Admit(c, ref) ==
  [rows EXCEPT ![c] =
     IF @ = None
     THEN [ref |-> ref, seq |-> Cardinality(Admitted) + 1,
           head |-> "pending", full |-> "pending", own |-> None]
     ELSE [@ EXCEPT !.ref = IF @ = None THEN ref ELSE @]]

\* A push, and the webhook or the poll that admits its commit, or does not.
Push(b) ==
  /\ \E c \in Pushes[b] \ {upstream.branches[b]} :
       /\ upstream' = [upstream EXCEPT !.branches[b] = c]
       /\ rows' \in {rows, Admit(c, b)}
  /\ Spend("pushes")
  /\ UNCHANGED <<refs, pc, tip, cloneVars>>

PushTag ==
  /\ upstream.tag = None
  /\ \E c \in TagCommits : upstream' = [upstream EXCEPT !.tag = c]
  /\ Spend("pushes")
  /\ UNCHANGED <<rows, refs, pc, tip, cloneVars>>

-----------------------------------------------------------------------------
(* Builds.                                                                  *)

\* Head: its fetch brings the tags, which it publishes.
BuildHead(c) ==
  /\ c \in Admitted /\ rows[c].head = "pending"
  /\ rows' = [rows EXCEPT ![c].head = "ready"]
  /\ refs' = [refs EXCEPT !.tag = upstream.tag]
  /\ Spend("builds")
  /\ UNCHANGED <<upstream, pc, tip, cloneVars>>

\* own_history_base: the older published refs base; before the first publish
\* the commit the Full builds on.  None on the default branch, and whenever the
\* refs could not be read.
OwnBases(c) ==
  {None} \cup
  IF rows[c].ref = Default /\ refs.branches # None THEN {None}
  ELSE IF refs.ready # None THEN {refs.ready.base}
  ELSE IF refs.branches # None THEN {refs.branches.base}
  ELSE BasesOf(c, {b \in Admitted : rows[b].full = "ready"})

\* A Full of c on its ready Head: own is the base of its own history.
BuildFull(c) ==
  /\ c \in Admitted /\ rows[c].full = "pending"
  /\ \E own \in OwnBases(c) :
       rows' = [rows EXCEPT ![c].head = "ready", ![c].full = "ready",
                            ![c].own = IF own = c THEN None ELSE own]
  /\ refs' = IF rows[c].head = "ready" THEN refs ELSE [refs EXCEPT !.tag = upstream.tag]
  /\ Spend("builds")
  /\ UNCHANGED <<upstream, pc, tip, cloneVars>>

FullFails(c) ==
  /\ c \in Admitted /\ rows[c].head = "ready" /\ rows[c].full = "pending"
  /\ rows' = [rows EXCEPT ![c].full = "failed"]
  /\ Spend("failures")
  /\ UNCHANGED <<upstream, refs, pc, tip, cloneVars>>

\* kind_state
StateOf(row, kind) ==
  IF kind = "Head" THEN row.head ELSE row.full

FullReady(c) == c \in Admitted /\ rows[c].full = "ready"

-----------------------------------------------------------------------------
(* The published refs.                                                      *)

\* MirrorRefs::side_tips, and side_pack above the layers that complete older.
SideTips(r) ==
  {r.branches[b] : b \in Branch \ {Default}} \cup (IF r.tag = None THEN {} ELSE {r.tag})

SidePack(r, older) == HistOf(SideTips(r)) \ HistOf({r.branches[Default]} \cup older)

\* A side pack of no objects is no layer.
Stacked(layers, pack) == IF pack = {} THEN layers ELSE Append(layers, pack)

\* Bug: the layers are kept although the default branch was force-pushed.
KeepsLayersAnyway(r, known) ==
  LET old == refs.branches
  IN IF old = None \/ ~known THEN Stacked(<<>>, SidePack(r, {}))
     ELSE IF old.sideTips = SideTips(r) THEN old.layers
     ELSE Stacked(old.layers, SidePack(r, old.sideTips))

\* Bug: the new layer takes the place of the older ones.
NewLayerOnly(r, known) ==
  LET old == refs.branches
      forward == old # None /\ IsAncestor(old.sideBase, r.branches[Default])
  IN IF forward /\ old.sideTips = SideTips(r) THEN old.layers
     ELSE IF forward /\ known THEN Stacked(<<>>, SidePack(r, old.sideTips))
     ELSE Stacked(<<>>, SidePack(r, {}))

\* publish_branches: the layers of the side pack of r.  They are kept while the
\* default branch only moves forward, and grow by a layer when the tips changed
\* and the mirror's file still lists the old ones (known).
SideLayersOf(r, known) ==
  LET old == refs.branches
      forward == old # None /\ IsAncestor(old.sideBase, r.branches[Default])
  IN IF forward /\ old.sideTips = SideTips(r) THEN old.layers
     ELSE IF forward /\ Len(old.layers) < SideLayers /\ known
     THEN Stacked(old.layers, SidePack(r, old.sideTips))
     ELSE Stacked(<<>>, SidePack(r, {}))

SideBaseOf(r) ==
  LET old == refs.branches
  IN IF old # None /\ IsAncestor(old.sideBase, r.branches[Default]) /\ old.sideTips = SideTips(r)
     THEN old.sideBase ELSE r.branches[Default]

\* The row of a refresh of r.  Branches it replaces stay as ready when the Full
\* of their base is ready.
Published(r, known) ==
  LET old == refs.branches
      branches == [tips |-> r.branches, tag |-> r.tag, base |-> r.branches[Default],
                   sideBase |-> SideBaseOf(r), sideTips |-> SideTips(r),
                   layers |-> SideLayersOf(r, known)]
  IN [tag |-> r.tag, branches |-> branches,
      ready |-> IF old # None /\ FullReady(old.base) THEN old ELSE refs.ready]

\* refresh_once fetches every ref of upstream and publishes what changed.
Refresh ==
  /\ \E c \in Admitted : rows[c].head = "ready"
  /\ refs.branches # None => <<refs.branches.tips, refs.branches.tag>> # <<upstream.branches, upstream.tag>>
  /\ \E known \in BOOLEAN : refs' = Published(upstream, known)
  /\ Spend("publishes")
  /\ UNCHANGED <<upstream, rows, pc, tip, cloneVars>>

-----------------------------------------------------------------------------
(* The server's answer.                                                     *)

Goto(l) == pc' = l
Fail == Goto("failed") /\ UNCHANGED <<pin, polls, srv, plan, held, clone>>

\* The command starts: the request goes out, and the tip is read beside it.
Ask ==
  /\ pc = "start"
  /\ req' \in Request
  /\ Goto("asked")
  /\ UNCHANGED <<worldVars, budget, tip, pin, polls, srv, plan, held, clone>>

\* post_build: the selector is resolved ...
Resolve ==
  /\ pc = "asked"
  /\ pin' = IF req.at # None THEN req.at ELSE upstream.branches[req.branch]
  /\ Goto("admit")
  /\ UNCHANGED <<worldVars, budget, tip, req, polls, srv, plan, held, clone>>

\* What the handler of a request for the row of c knows at first.
Asked(c, row, topUp) == [commit |-> c, row |-> row, topUp |-> topUp, refs |-> None, todo |-> <<>>]

\* ... and admitted, and the answer starts from the row.
AdmitPin ==
  /\ pc = "admit"
  /\ rows' = Admit(pin, IF req.at # None THEN None ELSE req.branch)
  /\ srv' = Asked(pin, rows'[pin], FALSE)
  /\ Goto("body")
  /\ UNCHANGED <<upstream, refs, budget, tip, req, pin, polls, plan, held, clone>>

\* get_commit: a poll reads the row again.
Poll ==
  /\ pc = "poll"
  /\ rows' = rows
  /\ srv' = Asked(pin, rows'[pin], FALSE)
  /\ Goto("body")
  /\ UNCHANGED <<upstream, refs, budget, tip, req, pin, polls, plan, held, clone>>

\* output_body
Body ==
  /\ pc = "body"
  /\ LET state == StateOf(srv.row, req.kind)
     IN Goto(CASE state = "ready" -> "refs"
               [] state = "failed" -> "failed"
               [] state = "pending" /\ req.kind = "Full" -> "topup"
               [] OTHER -> "pending")
  /\ UNCHANGED <<worldVars, budget, tip, cloneVars>>

\* top_up_base: the newest ready Full of the row's ref, else the parent's.
ReadyOfRef(ref) == {c \in Admitted : rows[c].full = "ready" /\ ref # None /\ rows[c].ref = ref}

TopUpBase(c) ==
  LET ofRef == ReadyOfRef(srv.row.ref)
      parents == IF srv.row.head = "ready" THEN {p \in Parents[c] : FullReady(p)} ELSE {}
  IN IF ofRef # {} THEN {n \in ofRef : \A o \in ofRef : rows[o].seq <= rows[n].seq}
     ELSE parents

\* Bug: the base may be the commit itself.
AlwaysTopsUp ==
  /\ pc = "topup"
  /\ LET bases == TopUpBase(srv.commit)
     IN IF bases = {} THEN Goto("pending") /\ UNCHANGED srv
        ELSE \E base \in bases :
               /\ srv' = Asked(base, rows[base], TRUE)
               /\ Goto("refs")
  /\ UNCHANGED <<worldVars, budget, tip, req, pin, polls, plan, held, clone>>

\* pending_body: a base that is the commit itself was published after the row
\* was read, and is the answer.
PendingBody ==
  /\ pc = "topup"
  /\ LET bases == TopUpBase(srv.commit)
     IN IF bases = {} THEN Goto("pending") /\ UNCHANGED srv
        ELSE \E base \in bases :
               /\ srv' = Asked(base, rows[base], base # srv.commit)
               /\ Goto("refs")
  /\ UNCHANGED <<worldVars, budget, tip, req, pin, polls, plan, held, clone>>

\* ref_response: an output of c with served refs.
Response(served, base, own) ==
  [commit |-> srv.commit, topUp |-> srv.topUp, tag |-> served.tag,
   branches |-> IF req.kind = "Full" THEN served.branches ELSE None, base |-> base, own |-> own]

NoRefs == [tag |-> None, branches |-> None, ready |-> None]

\* The refs that were read, and those of them that are still to be looked at.
Reading(read, todo) ==
  [commit |-> srv.commit, row |-> srv.row, topUp |-> srv.topUp, refs |-> read, todo |-> todo]

\* ready_body reads the refs, none when they cannot be read.  A Full goes
\* through the branches it could be served.
ReadRefs ==
  /\ pc = "refs"
  /\ \E read \in {refs, NoRefs} :
       LET stored == IF read.branches = None THEN <<>> ELSE <<read>>
           ready == IF read.ready = None THEN <<>>
                    ELSE <<[tag |-> read.ready.tag, branches |-> read.ready, ready |-> None]>>
       IN /\ read # refs => Spend("failures")
          /\ read = refs => UNCHANGED budget
          /\ srv' = Reading(read, IF req.kind = "Full" THEN stored \o ready ELSE <<>>)
  /\ Goto("serve")
  /\ UNCHANGED <<worldVars, tip, req, pin, polls, plan, held, clone>>

\* in_history: a mirror that cannot answer says no.
InHistory(base, c) == {IsAncestor(base, c), FALSE}

\* own_history: the base of the own history that completes c on base.
OwnHistory(base, c) ==
  LET own == srv.row.own
  IN IF own = None THEN {None}
     ELSE {IF own = base \/ yes THEN own ELSE None : yes \in InHistory(own, base)}

\* The row of base was admitted earlier from the same ref: a force-push.
ForcePushed(base) ==
  LET row == srv.row IN rows[base] # None /\ row.ref # None /\ row.ref = rows[base].ref /\ row.seq > rows[base].seq

Answer(response) == plan' = response /\ Goto("answer") /\ srv' = None

\* ready_body: the newest branches whose base the Full holds, or whose base has
\* a ready Full; else the newest, and the clone fetches from upstream.
Serve ==
  /\ pc = "serve"
  /\ IF srv.todo = <<>> THEN Answer(Response(srv.refs, None, None))
     ELSE LET served == Head(srv.todo)
              base == served.branches.base
          IN \E held0 \in (IF base = srv.commit THEN {TRUE} ELSE InHistory(base, srv.commit)) :
               IF held0 THEN Answer(Response(served, None, None))
               ELSE IF ForcePushed(base) THEN Answer(Response(srv.refs, None, None))
               ELSE IF FullReady(base)
               THEN \E own \in OwnHistory(base, srv.commit) : Answer(Response(served, base, own))
               ELSE /\ srv' = Reading(srv.refs, Tail(srv.todo))
                    /\ UNCHANGED <<plan, pc>>
  /\ UNCHANGED <<worldVars, budget, tip, req, pin, polls, held, clone>>

-----------------------------------------------------------------------------
(* The client's plan.                                                       *)

\* An answer that is not about the pinned commit, or whose base is not distinct
\* from it.
Refused == IF plan.topUp THEN plan.commit = pin ELSE plan.commit # pin \/ plan.base = pin

\* plan: the answer is checked.  A clone told to wait takes no top-up.
TakeAnswer ==
  /\ pc = "answer"
  /\ Goto(IF Refused THEN "integrity"
          ELSE IF plan.topUp /\ req.wait THEN "pending"
          ELSE "install")
  /\ UNCHANGED <<worldVars, budget, tip, cloneVars>>

\* A pending output is asked for again, at most MaxPolls times.
Pending ==
  /\ pc = "pending"
  /\ polls' = polls + 1
  /\ Goto(IF polls' = MaxPolls THEN "failed" ELSE "poll")
  /\ srv' = None /\ plan' = None
  /\ UNCHANGED <<worldVars, budget, tip, req, pin, held, clone>>

-----------------------------------------------------------------------------
(* The client's install.                                                    *)

LayersOf(b) == UNION {b.layers[i] : i \in DOMAIN b.layers}
Side == IF plan.branches = None THEN {} ELSE LayersOf(plan.branches)

\* A Full that is not single-branch takes every branch.
AllBranches == req.kind = "Full" /\ ~req.single

\* refs_base, which only an exact Full that takes every branch installs.
RefsBase == IF AllBranches /\ ~plan.topUp THEN plan.base ELSE None

\* own_history: nothing when the base's history or the side pack hold the
\* commit, else what the server built, else the Full's own history.
OwnCommits(base) ==
  IF plan.commit \in Hist(base) \cup Side THEN {}
  ELSE IF plan.own # None THEN Hist(plan.commit) \ Hist(plan.own)
  ELSE Hist(plan.commit) \ Hist(base)

\* The installed commit, and the one whose history limits the tags.
CheckOut(c, reaches) ==
  clone' = [head |-> c, remotes |-> clone.remotes, tag |-> clone.tag, from |-> clone.from, reaches |-> reaches]

\* materialize: the packs.  A depth-1 clone holds one commit.
Install ==
  /\ pc = "install"
  /\ held' = CASE req.kind = "Head" -> {plan.commit}
               [] RefsBase = None -> Hist(plan.commit)
               [] OTHER -> Hist(RefsBase) \cup Side \cup OwnCommits(RefsBase)
  /\ Goto("tip")
  /\ CheckOut(plan.commit, None)
  /\ UNCHANGED <<worldVars, budget, tip, req, pin, polls, srv, plan>>

\* The command reads the tip beside the clone, unless it names a commit; a tip
\* that cannot be read leaves the server's commit.
Observe ==
  /\ tip = <<>> /\ pc # "start"
  /\ \/ /\ tip' = <<IF req.at # None THEN None ELSE upstream.branches[req.branch]>>
        /\ UNCHANGED budget
     \/ tip' = <<None>> /\ Spend("failures")
  /\ UNCHANGED <<worldVars, pc, cloneVars>>

\* top_up: the commit is fetched and checked out; a fetch of a shallow clone
\* brings one commit.
TopUp(c) ==
  /\ held' = held \cup (IF req.kind = "Head" THEN {c} ELSE Hist(c))
  /\ CheckOut(c, IF req.kind = "Head" \/ IsAncestor(plan.commit, c) THEN None ELSE c)

\* The tip is installed when it is another commit than the server's, else a
\* top-up's commit.
AtTip ==
  /\ pc = "tip" /\ tip # <<>>
  /\ LET target == IF tip[1] # None THEN tip[1] ELSE pin
     IN /\ pin' = target
        /\ IF target # pin \/ plan.topUp THEN TopUp(target) ELSE UNCHANGED <<held, clone>>
  /\ Goto("write")
  /\ UNCHANGED <<worldVars, budget, tip, req, polls, srv, plan>>

TopUpFails ==
  /\ pc = "tip" /\ tip # <<>> /\ (tip[1] \notin {None, pin} \/ plan.topUp)
  /\ Spend("failures")
  /\ Fail
  /\ UNCHANGED <<worldVars, tip, req>>

\* The checked out branch's remote-tracking ref is the installed commit.
Remotes(tips) ==
  [b \in Branch |-> IF req.at = None /\ b = req.branch THEN pin
                    ELSE IF tips = None THEN None ELSE tips[b]]

\* The refs are written.
Wrote(remotes, tag, from) ==
  clone' = [head |-> clone.head, remotes |-> remotes, tag |-> tag, from |-> from, reaches |-> clone.reaches]

\* Present: the clone's pack indexes list c.
Present(c, packs) == c \in packs

\* install_tags: a tag whose target the clone holds; only on the tip in a
\* depth-1 clone, and only one the commit reaches after a force-push.
KeptTag(packs) ==
  IF /\ Present(plan.tag, packs)
     /\ req.kind = "Head" => plan.tag = pin
     /\ clone.reaches # None => plan.tag \in Hist(clone.reaches)
  THEN plan.tag ELSE None

\* install_full_refs: the packs hold the base, every branch and every tag.
Complete(packs) ==
  /\ plan.branches # None
  /\ Present(plan.branches.base, packs)
  /\ \A b \in Branch : Present(plan.branches.tips[b], packs)
  /\ plan.tag # None => Present(plan.tag, packs)

\* A clone of one branch keeps the tags it holds.
WriteOwnRefs ==
  /\ pc = "write" /\ ~AllBranches
  /\ Wrote(Remotes(None), KeptTag(held), "own")
  /\ Goto("done")
  /\ UNCHANGED <<worldVars, budget, tip, req, pin, polls, srv, plan, held>>

\* With the side pack in, the refs the clone holds are written ...
WriteServedRefs ==
  /\ pc = "write" /\ AllBranches
  /\ held' = held \cup Side
  /\ Complete(held')
  /\ Wrote(Remotes(plan.branches.tips), plan.tag, "served")
  /\ Goto("done")
  /\ UNCHANGED <<worldVars, budget, tip, req, pin, polls, srv, plan>>

\* ... or else upstream's, fetched with their histories; ...
FetchRefs ==
  /\ pc = "write" /\ AllBranches /\ ~Complete(held \cup Side)
  /\ LET tips == {upstream.branches[b] : b \in Branch} \cup ({upstream.tag} \ {None})
     IN held' = held \cup Side \cup HistOf(tips)
  /\ Wrote(Remotes(upstream.branches), upstream.tag, "upstream")
  /\ Goto("done")
  /\ UNCHANGED <<worldVars, budget, tip, req, pin, polls, srv, plan>>

\* ... when that fails, the clone keeps the tags it holds and says so.
FetchRefsFails ==
  /\ pc = "write" /\ AllBranches /\ ~Complete(held \cup Side)
  /\ Spend("failures")
  /\ held' = held \cup Side
  /\ Wrote(Remotes(None), KeptTag(held'), "own")
  /\ Goto("done")
  /\ UNCHANGED <<worldVars, tip, req, pin, polls, srv, plan>>

-----------------------------------------------------------------------------
Init ==
  /\ upstream = [branches |-> FirstTips, tag |-> None]
  /\ rows = [c \in Commit |-> IF c = FirstTips[Default] THEN FirstRow ELSE None]
  /\ refs = NoRefs
  /\ budget = [pushes |-> MaxPushes, publishes |-> MaxPublishes, builds |-> MaxBuilds,
               failures |-> MaxFailures]
  /\ pc = "start" /\ req = None
  /\ pin = None /\ polls = 0 /\ srv = None /\ plan = None
  /\ tip = <<>>
  /\ held = {}
  /\ clone = [head |-> None, remotes |-> [b \in Branch |-> None], tag |-> None,
              reaches |-> None, from |-> None]

Upstream == (\E b \in Branch : Push(b)) \/ PushTag

Server ==
  \/ Refresh
  \/ \E c \in Commit : BuildHead(c) \/ BuildFull(c) \/ FullFails(c)

Clone ==
  \/ Ask \/ Resolve \/ AdmitPin \/ Poll \/ Body \/ PendingBody \/ ReadRefs \/ Serve
  \/ TakeAnswer \/ Pending \/ Install \/ Observe \/ AtTip \/ TopUpFails
  \/ WriteOwnRefs \/ WriteServedRefs \/ FetchRefs \/ FetchRefsFails

\* Before its answer is given and, upstream, until its refs are written.  What
\* the server does while the request is on its way, and what anybody does while
\* the handler looks at the row it has read (Body), may as well come after it.
Answering == pc \in {"start", "admit", "poll", "topup", "refs", "serve"}

Next ==
  \/ Answering /\ Server
  \/ (Answering \/ pc \in {"asked", "tip", "write"}) /\ Upstream
  \/ Clone

Spec == Init /\ [][Next]_flowVars

-----------------------------------------------------------------------------
(* Properties.                                                              *)

\* The commits the clone's refs name.
Written == ({clone.head, clone.tag} \cup {clone.remotes[b] : b \in Branch}) \ {None}

\* install.rs, install_full_refs: "The clone's objects are whole histories, so
\* holding a commit is holding its history": a full clone has the history of
\* every ref it writes.
RefsWhole ==
  pc = "done" /\ req.kind = "Full" => HistOf(Written) \subseteq held

\* A full clone that holds the history of the base of the refs it was given
\* has the history of every ref it writes: through layers kept over pushes and
\* force-pushes, an own history built against an older base, a top-up, a tip
\* that moved and a fetch that failed.
RefsWholeOnBase ==
  /\ pc = "done" /\ req.kind = "Full"
  /\ plan.branches = None \/ Hist(plan.branches.base) \subseteq held
  => HistOf(Written) \subseteq held

\* ready_body: "the newest published branches it can complete every ref from":
\* a Full whose refs base it holds, or is told to install, writes every ref
\* without a fetch, unless a Head has published newer tags meanwhile.
ServedRefsSuffice ==
  /\ pc = "done" /\ AllBranches /\ ~plan.topUp /\ plan.branches # None
  /\ plan.base # None \/ IsAncestor(plan.branches.base, plan.commit)
  /\ plan.tag = plan.branches.tag
  => clone.from = "served"

\* The answers the client refuses as inconsistent are never given, whatever
\* is published between the reads of a request: a top-up base or a refs base
\* is another commit than the one asked for.
AnswersConsistent == pc # "integrity"

-----------------------------------------------------------------------------
(* What the properties rest on.                                             *)

Whole(S) == \A c \in S : Hist(c) \subseteq S

\* Published branches: the layers complete the histories of the side tips, and
\* of themselves, on the commit they were built above, which is in the history
\* of the base.
LayersHold(b) ==
  /\ b.tips \in [Branch -> Commit] /\ b.base = b.tips[Default]
  /\ b.tag \in Commit \cup {None} /\ b.sideTips = SideTips([branches |-> b.tips, tag |-> b.tag])
  /\ b.layers \in Seq(SUBSET Commit)
  /\ IsAncestor(b.sideBase, b.base)
  /\ HistOf(b.sideTips \cup LayersOf(b)) \subseteq Hist(b.sideBase) \cup LayersOf(b)

RefsHold(r) ==
  /\ r = [tag |-> r.tag, branches |-> r.branches, ready |-> r.ready] /\ r.tag \in Commit \cup {None}
  /\ r.branches # None => LayersHold(r.branches)
  /\ r.ready # None => LayersHold(r.ready)

\* The world, and the commit of a request that was resolved.
WorldInv ==
  /\ upstream \in [branches : [Branch -> Commit], tag : Commit \cup {None}]
  /\ RefsHold(refs)
  /\ tip # <<>> => Len(tip) = 1 /\ tip[1] \in Commit \cup {None}
  /\ pc # "start" => req \in Request
  /\ pc \notin {"start", "asked"} => pin \in Commit

\* The handler answers about the pinned commit, or another one as a top-up.
HandlerInv ==
  /\ pc \in {"body", "topup"} => srv.commit = pin /\ ~srv.topUp
  /\ pc \in {"refs", "serve"} => srv.commit \in Commit /\ (srv.topUp <=> srv.commit # pin)
  /\ pc = "serve" =>
       /\ RefsHold(srv.refs)
       /\ srv.todo \in Seq({srv.todo[i] : i \in DOMAIN srv.todo})
       /\ \A i \in DOMAIN srv.todo :
            req.kind = "Full" /\ RefsHold(srv.todo[i]) /\ srv.todo[i].branches # None

\* An answer says what its refs are whole on.
PlanInv ==
  /\ pc \in {"answer", "install", "tip", "write", "done"} =>
       /\ plan.commit \in Commit /\ plan.tag \in Commit \cup {None}
       /\ plan.branches # None => LayersHold(plan.branches)
       /\ plan.base # None =>
            /\ plan.branches # None /\ plan.base = plan.branches.base
            /\ plan.own # None => IsAncestor(plan.own, plan.base)
  /\ pc \in {"answer", "install", "tip"} => (plan.topUp <=> plan.commit # pin)
  /\ pc = "answer" => plan.topUp \/ plan.base # pin
  /\ pc # "integrity"

\* A full clone's objects are whole histories until the side pack comes in on
\* a base it may not hold.
HeldInv ==
  pc \in {"tip", "write"} /\ req.kind = "Full" =>
    /\ Whole(held) /\ plan.commit \in held
    /\ clone.head = IF pc = "tip" THEN plan.commit ELSE pin
    /\ pc = "write" => pin \in held
    /\ AllBranches /\ ~plan.topUp /\ plan.base # None => plan.base \in held

DoneInv ==
  pc = "done" /\ req.kind = "Full" =>
    /\ Written \subseteq held
    /\ plan.branches = None \/ Hist(plan.branches.base) \subseteq held => Whole(held)

FlowInv == WorldInv /\ HandlerInv /\ PlanInv /\ HeldInv /\ DoneInv /\ ServedRefsSuffice
=============================================================================
