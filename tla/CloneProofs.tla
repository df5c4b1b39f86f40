---------------------------- MODULE CloneProofs ----------------------------
(***************************************************************************)
(* Proofs about clones: the answers a clone gets are consistent and a full  *)
(* clone has the history of every ref it writes (CloneFlow); what clones    *)
(* that fail or are killed leave behind is cleaned, and never what a live   *)
(* one still writes (CloneStaging).                                         *)
(***************************************************************************)
EXTENDS CloneFlow, CloneStaging, FiniteSetTheorems, TLAPS

-----------------------------------------------------------------------------
(* Histories (gix_util::is_ancestor).                                       *)

\* The ancestors of an ancestor are ancestors.
LEMMA AncestorsTransitive ==
  ASSUME NEW c \in Commit, NEW a \in Ancestors[c]
  PROVE  a \in Commit /\ Ancestors[a] \subseteq Ancestors[c]
<1>1. a \in Commit
  BY DEF Ancestors
<1>2. ASSUME NEW b \in Ancestors[a] PROVE b \in Ancestors[c]
  <2>1. b \in Commit
    BY <1>1 DEF Ancestors
  <2>2. ASSUME NEW S \in SUBSET Commit, Parents[c] \subseteq S, HoldsParents(S) PROVE b \in S
    <3>1. a \in S
      BY <2>2 DEF Ancestors
    <3>2. Parents[a] \subseteq S
      BY <2>2, <3>1 DEF HoldsParents
    <3> QED
      BY <1>1, <2>2, <3>2 DEF Ancestors
  <2> QED
    BY <2>1, <2>2 DEF Ancestors
<1> QED
  BY <1>1, <1>2

LEMMA HistWhole ==
  ASSUME NEW c \in Commit
  PROVE  /\ Hist(c) \subseteq Commit /\ c \in Hist(c)
         /\ \A a \in Hist(c) : Hist(a) \subseteq Hist(c)
<1>1. Ancestors[c] \subseteq Commit
  BY DEF Ancestors
<1> QED
  BY <1>1, AncestorsTransitive DEF Hist

LEMMA AncestorHist ==
  ASSUME NEW c \in Commit, NEW a, IsAncestor(a, c)
  PROVE  a \in Commit /\ a \in Hist(c) /\ Hist(a) \subseteq Hist(c)
BY HistWhole DEF IsAncestor, Hist

LEMMA HistOfWhole ==
  ASSUME NEW S \in SUBSET Commit
  PROVE  /\ HistOf(S) \subseteq Commit /\ S \subseteq HistOf(S)
         /\ \A a \in HistOf(S) : Hist(a) \subseteq HistOf(S)
BY HistWhole DEF HistOf

\* A set that holds the histories of its members holds those of their ancestors.
LEMMA WholeHist ==
  ASSUME NEW S, NEW T, Whole(S), Whole(T)
  PROVE  Whole(S \cup T)
BY DEF Whole

LEMMA HistIsWhole == \A c \in Commit : Whole(Hist(c))
BY HistWhole DEF Whole

LEMMA HistOfIsWhole == \A S \in SUBSET Commit : Whole(HistOf(S))
BY HistOfWhole DEF Whole

-----------------------------------------------------------------------------
(* The published refs (publish_branches).                                   *)

Completes(tips, side, base) == HistOf(tips \cup side) \subseteq Hist(base) \cup side
Layer(tips, older, base) == HistOf(tips) \ HistOf({base} \cup older)

\* A layer completes the side tips above what older layers complete.
LEMMA LayerCompletes ==
  ASSUME NEW tips \in SUBSET Commit, NEW older \in SUBSET Commit, NEW base \in Commit,
         NEW side \in SUBSET Commit, Completes(older, side, base)
  PROVE  /\ Layer(tips, older, base) \in SUBSET Commit
         /\ Completes(tips, side \cup Layer(tips, older, base), base)
<1> DEFINE new == Layer(tips, older, base)
<1>0. new = HistOf(tips) \ HistOf({base} \cup older) /\ HistOf(older \cup side) \subseteq Hist(base) \cup side
  BY DEF Layer, Completes
<1> HIDE DEF new
<1>1. new \in SUBSET Commit
  BY <1>0, HistOfWhole
<1>2. HistOf(tips) \subseteq Hist(base) \cup (side \cup new)
  <2>1. HistOf({base} \cup older) \subseteq Hist(base) \cup HistOf(older)
    BY DEF HistOf
  <2>2. HistOf(older) \subseteq HistOf(older \cup side)
    BY DEF HistOf
  <2> QED
    BY <1>0, <2>1, <2>2
<1>3. HistOf(side) \subseteq Hist(base) \cup side
  BY <1>0 DEF HistOf
<1>4. HistOf(new) \subseteq HistOf(tips)
  <2>1. \A a \in new : Hist(a) \subseteq HistOf(tips)
    BY <1>0, HistOfWhole
  <2> QED
    BY <2>1 DEF HistOf
<1>5. HistOf(tips \cup (side \cup new)) \subseteq HistOf(tips) \cup HistOf(side) \cup HistOf(new)
  BY DEF HistOf
<1>6. HistOf(tips \cup (side \cup new)) \subseteq Hist(base) \cup (side \cup new)
  BY <1>2, <1>3, <1>4, <1>5
<1> QED
  BY <1>1, <1>6 DEF Completes, new

LEMMA LayersInCommit ==
  ASSUME NEW b, b.layers \in Seq(SUBSET Commit) PROVE LayersOf(b) \subseteq Commit
BY DEF LayersOf

LEMMA LayersAppend ==
  ASSUME NEW b, b.layers \in Seq(SUBSET Commit), NEW d, NEW new \in SUBSET Commit,
         d.layers = Append(b.layers, new)
  PROVE  d.layers \in Seq(SUBSET Commit) /\ LayersOf(d) = LayersOf(b) \cup new
<1>1. /\ d.layers \in Seq(SUBSET Commit) /\ DOMAIN b.layers = 1..Len(b.layers)
      /\ DOMAIN d.layers = 1..(Len(b.layers) + 1) /\ Len(b.layers) \in Nat
      /\ \A i \in 1..Len(b.layers) : d.layers[i] = b.layers[i]
      /\ d.layers[Len(b.layers) + 1] = new
  OBVIOUS
<1>2. DOMAIN d.layers = DOMAIN b.layers \cup {Len(b.layers) + 1}
  BY <1>1
<1> QED
  BY <1>1, <1>2 DEF LayersOf

LEMMA LayersStacked ==
  ASSUME NEW b, b.layers \in Seq(SUBSET Commit), NEW d, NEW new \in SUBSET Commit,
         d.layers = Stacked(b.layers, new)
  PROVE  d.layers \in Seq(SUBSET Commit) /\ LayersOf(d) = LayersOf(b) \cup new
<1>1. CASE new = {}
  <2>1. d.layers = b.layers
    BY <1>1 DEF Stacked
  <2>2. LayersOf(d) = LayersOf(b)
    BY <2>1 DEF LayersOf
  <2> QED
    BY <1>1, <2>1, <2>2
<1>2. CASE new # {}
  <2>1. d.layers = Append(b.layers, new)
    BY <1>2 DEF Stacked
  <2> QED
    BY <2>1, LayersAppend
<1> QED
  BY <1>1, <1>2

LEMMA LayersOne ==
  ASSUME NEW d, NEW new \in SUBSET Commit, d.layers = Stacked(<<>>, new)
  PROVE  d.layers \in Seq(SUBSET Commit) /\ LayersOf(d) = new
<1> DEFINE e == [layers |-> <<>>]
<1>1. e.layers = <<>> /\ DOMAIN e.layers = {}
  OBVIOUS
<1>2. e.layers \in Seq(SUBSET Commit)
  BY <1>1
<1>3. LayersOf(e) = {}
  BY <1>1 DEF LayersOf
<1>4. d.layers = Stacked(e.layers, new)
  BY <1>1
<1> HIDE DEF e
<1>5. d.layers \in Seq(SUBSET Commit) /\ LayersOf(d) = LayersOf(e) \cup new
  BY <1>2, <1>4, LayersStacked
<1> QED
  BY <1>3, <1>5

\* publish_branches keeps, grows or rebuilds the side pack: whichever it does,
\* the layers complete the side tips on the new base.
LEMMA PublishedHolds ==
  ASSUME WorldInv, NEW known \in BOOLEAN
  PROVE  RefsHold(Published(upstream, known))
<1> DEFINE old == refs.branches
           r == upstream
           forward == old # None /\ IsAncestor(old.sideBase, r.branches[Default])
           b == [tips |-> r.branches, tag |-> r.tag, base |-> r.branches[Default],
                 sideBase |-> SideBaseOf(r), sideTips |-> SideTips(r), layers |-> SideLayersOf(r, known)]
<1>1. /\ r.branches \in [Branch -> Commit] /\ r.tag \in Commit \cup {None} /\ Default \in Branch
      /\ old # None => LayersHold(old)
      /\ refs.ready # None => LayersHold(refs.ready)
  BY FlowAssumption DEF WorldInv, RefsHold
<1>2. SideTips(r) \in SUBSET Commit /\ r.branches[Default] \in Commit
  BY <1>1 DEF SideTips
<1>3. SideTips([branches |-> r.branches, tag |-> r.tag]) = SideTips(r)
  BY DEF SideTips
<1>4. /\ b.layers \in Seq(SUBSET Commit)
      /\ IsAncestor(SideBaseOf(r), r.branches[Default])
      /\ HistOf(SideTips(r) \cup LayersOf(b)) \subseteq Hist(SideBaseOf(r)) \cup LayersOf(b)
  <2>1. CASE forward /\ old.sideTips = SideTips(r)
    <3>1. SideBaseOf(r) = old.sideBase /\ b.layers = old.layers
      BY <2>1 DEF SideBaseOf, SideLayersOf
    <3>2. LayersOf(b) = LayersOf(old)
      BY <3>1 DEF LayersOf
    <3> HIDE DEF b, r, old
    <3> QED
      BY <1>1, <2>1, <3>1, <3>2 DEF LayersHold
  <2>2. CASE forward /\ old.sideTips # SideTips(r) /\ Len(old.layers) < SideLayers /\ known
    <3> DEFINE new == SidePack(r, old.sideTips)
    <3>1. SideBaseOf(r) = r.branches[Default] /\ b.layers = Stacked(old.layers, new)
      BY <2>2 DEF SideBaseOf, SideLayersOf
    <3>2. /\ old.layers \in Seq(SUBSET Commit) /\ old.sideTips \in SUBSET Commit
          /\ HistOf(old.sideTips \cup LayersOf(old)) \subseteq Hist(old.sideBase) \cup LayersOf(old)
      <4>1. LayersHold(old)
        BY <1>1, <2>2
      <4> HIDE DEF old
      <4>2. SideTips([branches |-> old.tips, tag |-> old.tag]) \in SUBSET Commit
        BY <4>1 DEF LayersHold, SideTips
      <4> QED
        BY <4>1, <4>2 DEF LayersHold
    <3>3. LayersOf(old) \in SUBSET Commit
      BY <3>2, LayersInCommit
    <3>4. Hist(old.sideBase) \subseteq Hist(r.branches[Default])
      BY <1>2, <2>2, AncestorHist
    <3>5. Completes(old.sideTips, LayersOf(old), r.branches[Default])
      BY <3>2, <3>4 DEF Completes
    <3>6. new = Layer(SideTips(r), old.sideTips, r.branches[Default])
      BY DEF SidePack, Layer
    <3> HIDE DEF new, b, old, r
    <3>7. new \in SUBSET Commit /\ Completes(SideTips(r), LayersOf(old) \cup new, r.branches[Default])
      BY <1>2, <3>2, <3>3, <3>5, <3>6, LayerCompletes
    <3>8. b.layers \in Seq(SUBSET Commit) /\ LayersOf(b) = LayersOf(old) \cup new
      BY <3>1, <3>2, <3>7, LayersStacked
    <3> QED
      BY <3>1, <3>7, <3>8 DEF IsAncestor, Completes
  <2>3. CASE ~(forward /\ old.sideTips = SideTips(r)) /\ ~(forward /\ Len(old.layers) < SideLayers /\ known)
    <3> DEFINE new == SidePack(r, {})
    <3>1. SideBaseOf(r) = r.branches[Default] /\ b.layers = Stacked(<<>>, new)
      BY <2>3 DEF SideBaseOf, SideLayersOf
    <3>2. new = Layer(SideTips(r), {}, r.branches[Default])
      BY DEF SidePack, Layer
    <3> HIDE DEF new, b, old, r
    <3>3. Completes({}, {}, r.branches[Default])
      BY DEF HistOf, Completes
    <3>4. new \in SUBSET Commit /\ Completes(SideTips(r), {} \cup new, r.branches[Default])
      BY <1>2, <3>2, <3>3, LayerCompletes
    <3>5. b.layers \in Seq(SUBSET Commit) /\ LayersOf(b) = new
      BY <3>1, <3>4, LayersOne
    <3>6. {} \cup new = new
      OBVIOUS
    <3> QED
      BY <3>1, <3>4, <3>5, <3>6 DEF IsAncestor, Completes
  <2> QED
    BY <2>1, <2>2, <2>3
<1>5. LayersHold(b)
  BY <1>1, <1>3, <1>4 DEF LayersHold
<1>6. \E d \in {refs.ready, old} : Published(upstream, known) = [tag |-> r.tag, branches |-> b, ready |-> d]
                                   /\ (d = old => old # None \/ refs.ready = None)
  BY DEF Published
<1> HIDE DEF b, r, old
<1> QED
  BY <1>1, <1>5, <1>6 DEF RefsHold

-----------------------------------------------------------------------------
(* The steps.                                                               *)

CloneInv == HandlerInv /\ PlanInv /\ HeldInv /\ DoneInv /\ ServedRefsSuffice

\* What is said of the clone changes with the clone only.
LEMMA CloneFrame ==
  ASSUME CloneInv, UNCHANGED <<pc, cloneVars>> PROVE CloneInv'
<1>1. UNCHANGED <<pc, req, pin, polls, srv, plan, held, clone>>
  BY DEF cloneVars
<1>2. HandlerInv'
  <2>1. RefsHold(srv.refs) => RefsHold(srv.refs)'
    BY <1>1 DEF RefsHold, LayersHold, LayersOf, SideTips, IsAncestor, HistOf, Hist
  <2>2. ASSUME NEW i PROVE RefsHold(srv.todo[i]) => RefsHold(srv.todo[i])'
    BY <1>1 DEF RefsHold, LayersHold, LayersOf, SideTips, IsAncestor, HistOf, Hist
  <2> QED
    BY <1>1, <2>1, <2>2 DEF CloneInv, HandlerInv
<1>3. PlanInv'
  BY <1>1 DEF CloneInv, PlanInv, LayersHold, LayersOf, SideTips, IsAncestor, HistOf, Hist
<1>4. HeldInv'
  BY <1>1 DEF CloneInv, HeldInv, Whole, Hist, AllBranches
<1>5. DoneInv'
  BY <1>1 DEF CloneInv, DoneInv, Written, Whole, Hist
<1>6. ServedRefsSuffice'
  BY <1>1 DEF CloneInv, ServedRefsSuffice, AllBranches, IsAncestor
<1> QED
  BY <1>2, <1>3, <1>4, <1>5, <1>6 DEF CloneInv

\* Upstream, builds and publishes.
LEMMA UpstreamKeeps ==
  ASSUME WorldInv, Upstream PROVE WorldInv'
<1>1. UNCHANGED <<refs, pc, tip, req, pin>>
  BY DEF Upstream, Push, PushTag, cloneVars
<1>2. upstream' \in [branches : [Branch -> Commit], tag : Commit \cup {None}]
  <2>1. upstream \in [branches : [Branch -> Commit], tag : Commit \cup {None}]
    BY DEF WorldInv
  <2>2. ASSUME NEW b \in Branch, Push(b) PROVE upstream' \in [branches : [Branch -> Commit], tag : Commit \cup {None}]
    <3>1. PICK c \in Pushes[b] : upstream' = [upstream EXCEPT !.branches[b] = c]
      BY <2>2 DEF Push
    <3>2. c \in Commit
      BY FlowAssumption
    <3> QED
      BY <2>1, <3>1, <3>2
  <2>3. ASSUME PushTag PROVE upstream' \in [branches : [Branch -> Commit], tag : Commit \cup {None}]
    <3>1. PICK c \in TagCommits : upstream' = [upstream EXCEPT !.tag = c]
      BY <2>3 DEF PushTag
    <3>2. c \in Commit
      BY FlowAssumption
    <3> QED
      BY <2>1, <3>1, <3>2
  <2> QED
    BY <2>2, <2>3 DEF Upstream
<1>3. RefsHold(refs)'
  BY <1>1 DEF WorldInv, RefsHold, LayersHold, LayersOf, SideTips, IsAncestor, HistOf, Hist
<1> QED
  BY <1>1, <1>2, <1>3 DEF WorldInv

LEMMA ServerKeeps ==
  ASSUME WorldInv, Server PROVE WorldInv'
<1>1. UNCHANGED <<upstream, pc, tip, req, pin>>
  BY DEF Server, Refresh, BuildHead, BuildFull, FullFails, cloneVars
<1>2. RefsHold(refs')
  <2>1. RefsHold(refs) /\ upstream.tag \in Commit \cup {None}
    BY DEF WorldInv
  <2>2. CASE refs' = refs
    BY <2>1, <2>2
  <2>3. CASE refs' = [refs EXCEPT !.tag = upstream.tag]
    <3>1. refs = [tag |-> refs.tag, branches |-> refs.branches, ready |-> refs.ready]
      BY <2>1 DEF RefsHold
    <3>2. refs' = [tag |-> upstream.tag, branches |-> refs.branches, ready |-> refs.ready]
      BY <2>3, <3>1
    <3> QED
      BY <2>1, <3>2 DEF RefsHold
  <2>4. CASE \E known \in BOOLEAN : refs' = Published(upstream, known)
    BY <2>4, PublishedHolds
  <2> QED
    BY <2>2, <2>3, <2>4 DEF Server, Refresh, BuildHead, BuildFull, FullFails
<1>3. RefsHold(refs)'
  BY <1>2 DEF RefsHold, LayersHold, LayersOf, SideTips, IsAncestor, HistOf, Hist
<1> QED
  BY <1>1, <1>3 DEF WorldInv

\* The clone's own steps leave the world as it is, but for the row.
LEMMA WorldFrame ==
  ASSUME WorldInv, UNCHANGED <<upstream, refs, tip>>,
         pc' # "start" => req' \in Request,
         pc' \notin {"start", "asked"} => pin' \in Commit
  PROVE  WorldInv'
BY DEF WorldInv, RefsHold, LayersHold, LayersOf, SideTips, IsAncestor, HistOf, Hist

LEMMA SeqOfItsOwn ==
  ASSUME NEW S, NEW s \in Seq(S) PROVE s \in Seq({s[i] : i \in DOMAIN s})
OBVIOUS

LEMMA TailHolds ==
  ASSUME NEW S, NEW s \in Seq(S), s # <<>>
  PROVE  /\ Head(s) = s[1] /\ 1 \in DOMAIN s
         /\ Tail(s) \in Seq(S) /\ \A i \in DOMAIN Tail(s) : i + 1 \in DOMAIN s /\ Tail(s)[i] = s[i + 1]
OBVIOUS

\* The request, until its handler has read the refs.
LEMMA RequestKeeps ==
  ASSUME FlowInv, Ask \/ Resolve \/ AdmitPin \/ Poll \/ Body \/ PendingBody PROVE FlowInv'
<1>0. WorldInv /\ HandlerInv
  BY DEF FlowInv
<1>1. CASE Resolve
  <2>1. pc = "asked" /\ pc' = "admit" /\ UNCHANGED <<upstream, refs, tip, req>>
        /\ pin' = IF req.at # None THEN req.at ELSE upstream.branches[req.branch]
    BY <1>1 DEF Resolve, Goto, worldVars
  <2>2. pin' \in Commit
    BY <1>0, <2>1, FlowAssumption DEF WorldInv
  <2>3. WorldInv'
    BY <1>0, <2>1, <2>2, WorldFrame DEF WorldInv
  <2> QED
    BY <2>1, <2>3 DEF FlowInv, HandlerInv, PlanInv, HeldInv, DoneInv, ServedRefsSuffice
<1>2. CASE AdmitPin \/ Poll
  <2>1. pc \notin {"start", "asked"} /\ pc' = "body" /\ UNCHANGED <<upstream, refs, tip, req, pin>>
        /\ srv' = Asked(pin, rows'[pin], FALSE)
    BY <1>2 DEF AdmitPin, Poll, Goto
  <2>2. srv'.commit = pin /\ ~srv'.topUp
    BY <2>1 DEF Asked
  <2>3. WorldInv'
    BY <1>0, <2>1, WorldFrame DEF WorldInv
  <2> QED
    BY <2>1, <2>2, <2>3 DEF FlowInv, HandlerInv, PlanInv, HeldInv, DoneInv, ServedRefsSuffice
<1>3. CASE Body
  <2>1. pc = "body" /\ pc' \in {"refs", "failed", "topup", "pending"}
        /\ UNCHANGED <<upstream, refs, tip, req, pin, srv>>
    BY <1>3 DEF Body, Goto, worldVars, cloneVars
  <2>2. srv.commit = pin /\ ~srv.topUp /\ pin \in Commit
    BY <1>0, <2>1 DEF HandlerInv, WorldInv
  <2>3. WorldInv'
    BY <1>0, <2>1, WorldFrame DEF WorldInv
  <2> QED
    BY <2>1, <2>2, <2>3 DEF FlowInv, HandlerInv, PlanInv, HeldInv, DoneInv, ServedRefsSuffice
<1>4. CASE PendingBody
  <2>1. pc = "topup" /\ UNCHANGED <<upstream, refs, tip, req, pin>>
    BY <1>4 DEF PendingBody, worldVars
  <2>2. srv.commit = pin /\ pin \in Commit
    BY <1>0, <2>1 DEF HandlerInv, WorldInv
  <2>3. WorldInv'
    BY <1>0, <2>1, WorldFrame DEF WorldInv
  <2>4. TopUpBase(srv.commit) \subseteq Commit
    BY DEF TopUpBase, ReadyOfRef, Admitted, FullReady
  <2>5. \/ pc' = "pending"
        \/ \E base \in Commit : srv' = Asked(base, rows[base], base # srv.commit) /\ pc' = "refs"
    BY <1>4, <2>4 DEF PendingBody, Goto
  <2>6. CASE pc' = "pending"
    BY <2>3, <2>6 DEF FlowInv, HandlerInv, PlanInv, HeldInv, DoneInv, ServedRefsSuffice
  <2>7. CASE \E base \in Commit : srv' = Asked(base, rows[base], base # srv.commit) /\ pc' = "refs"
    <3>1. pc' = "refs" /\ srv'.commit \in Commit /\ (srv'.topUp <=> srv'.commit # pin')
      <4>1. PICK base \in Commit : srv' = Asked(base, rows[base], base # srv.commit) /\ pc' = "refs"
        BY <2>7
      <4> DEFINE other == base # srv.commit
      <4>2. srv' = [commit |-> base, row |-> rows[base], topUp |-> other, refs |-> None, todo |-> <<>>]
        BY <4>1 DEF Asked
      <4>3. (other <=> base # pin') /\ other \in BOOLEAN
        BY <2>1, <2>2
      <4> HIDE DEF other
      <4>4. srv'.commit = base /\ srv'.topUp = other
        BY <4>2
      <4> QED
        BY <4>1, <4>3, <4>4
    <3> QED
      BY <2>3, <3>1 DEF FlowInv, HandlerInv, PlanInv, HeldInv, DoneInv, ServedRefsSuffice
  <2> QED
    BY <2>5, <2>6, <2>7
<1>5. CASE Ask
  <2>1. pc' = "asked" /\ req' \in Request /\ UNCHANGED <<upstream, refs, tip>>
    BY <1>5 DEF Ask, Goto, worldVars
  <2>2. WorldInv'
    BY <1>0, <2>1, WorldFrame
  <2> QED
    BY <2>1, <2>2 DEF FlowInv, HandlerInv, PlanInv, HeldInv, DoneInv, ServedRefsSuffice
<1> QED
  BY <1>1, <1>2, <1>3, <1>4, <1>5

\* The refs that ready_body reads, and the ones it could serve.
LEMMA ReadKeeps ==
  ASSUME FlowInv, ReadRefs PROVE FlowInv'
<1>0. WorldInv /\ HandlerInv /\ RefsHold(refs)
  BY DEF FlowInv, WorldInv
<1>1. pc = "refs" /\ pc' = "serve" /\ UNCHANGED <<upstream, refs, tip, req, pin>>
  BY DEF ReadRefs, Goto, worldVars
<1>2. PICK read \in {refs, NoRefs} :
        srv' = Reading(read, IF req.kind = "Full"
                             THEN (IF read.branches = None THEN <<>> ELSE <<read>>) \o
                                  (IF read.ready = None THEN <<>>
                                   ELSE <<[tag |-> read.ready.tag, branches |-> read.ready, ready |-> None]>>)
                             ELSE <<>>)
  BY DEF ReadRefs
<1>3. RefsHold(read)
  BY <1>0 DEF RefsHold, NoRefs
<1> DEFINE one == [tag |-> read.ready.tag, branches |-> read.ready, ready |-> None]
           left == IF req.kind = "Full"
                   THEN (IF read.branches = None THEN <<>> ELSE <<read>>) \o
                        (IF read.ready = None THEN <<>> ELSE <<one>>)
                   ELSE <<>>
<1>4. read.ready # None => RefsHold(one) /\ one.branches # None
  BY <1>3 DEF RefsHold, LayersHold
<1>5. /\ left \in Seq({read, one})
      /\ \A i \in DOMAIN left : /\ req.kind = "Full"
                                /\ \/ left[i] = read /\ read.branches # None
                                   \/ left[i] = one /\ read.ready # None
  <2> HIDE DEF one
  <2>1. CASE req.kind # "Full"
    BY <2>1
  <2>2. CASE req.kind = "Full" /\ read.branches = None /\ read.ready = None
    BY <2>2
  <2>3. CASE req.kind = "Full" /\ read.branches # None /\ read.ready = None
    BY <2>3
  <2>4. CASE req.kind = "Full" /\ read.branches = None /\ read.ready # None
    BY <2>4
  <2>5. CASE req.kind = "Full" /\ read.branches # None /\ read.ready # None
    BY <2>5
  <2> QED
    BY <2>1, <2>2, <2>3, <2>4, <2>5
<1>6. srv' = [commit |-> srv.commit, row |-> srv.row, topUp |-> srv.topUp, refs |-> read, todo |-> left]
  BY <1>2 DEF Reading
<1> HIDE DEF left, one
<1>7. left \in Seq({left[i] : i \in DOMAIN left})
  BY <1>5, SeqOfItsOwn
<1>8. \A i \in DOMAIN left : req.kind = "Full" /\ RefsHold(left[i]) /\ left[i].branches # None
  BY <1>3, <1>4, <1>5
<1>9. srv'.commit = srv.commit /\ srv'.topUp = srv.topUp /\ srv'.refs = read /\ srv'.todo = left
  BY <1>6
<1>10. RefsHold(srv.refs)' /\ \A i \in DOMAIN left : RefsHold(srv.todo[i])'
  <2>1. RefsHold(srv'.refs) /\ \A i \in DOMAIN left : RefsHold(srv'.todo[i])
    BY <1>3, <1>8, <1>9
  <2> QED
    BY <2>1 DEF RefsHold, LayersHold, LayersOf, SideTips, IsAncestor, HistOf, Hist
<1>11. HandlerInv'
  BY <1>0, <1>1, <1>7, <1>8, <1>9, <1>10 DEF HandlerInv
<1>12. WorldInv'
  BY <1>0, <1>1, WorldFrame DEF WorldInv
<1> QED
  BY <1>1, <1>11, <1>12 DEF FlowInv, PlanInv, HeldInv, DoneInv, ServedRefsSuffice

\* An answer of the handler.
LEMMA AnswerKeeps ==
  ASSUME FlowInv, pc = "serve", UNCHANGED <<upstream, refs, tip, req, pin>>,
         NEW served, NEW base, NEW own, Answer(Response(served, base, own)),
         RefsHold(served), base # pin \/ srv.topUp,
         base # None => /\ req.kind = "Full" /\ served.branches # None /\ base = served.branches.base
                        /\ own # None => IsAncestor(own, base)
  PROVE  FlowInv'
<1>0. WorldInv /\ HandlerInv /\ pin \in Commit /\ req \in Request
  BY DEF FlowInv, WorldInv
<1> DEFINE bs == IF req.kind = "Full" THEN served.branches ELSE None
<1>1. pc' = "answer" /\ plan' = [commit |-> srv.commit, topUp |-> srv.topUp, tag |-> served.tag,
                                 branches |-> bs, base |-> base, own |-> own]
  BY DEF Answer, Goto, Response
<1>2. /\ plan'.commit = srv.commit /\ plan'.topUp = srv.topUp /\ plan'.tag = served.tag
      /\ plan'.branches = bs /\ plan'.base = base /\ plan'.own = own
  BY <1>1
<1>3. srv.commit \in Commit /\ (srv.topUp <=> srv.commit # pin)
  BY <1>0 DEF HandlerInv
<1>4. served.tag \in Commit \cup {None} /\ (bs # None => LayersHold(bs))
  BY DEF RefsHold
<1> HIDE DEF bs
<1>5. plan'.branches # None => LayersHold(plan.branches)'
  <2>1. plan'.branches # None => LayersHold(plan'.branches)
    BY <1>2, <1>4
  <2> QED
    BY <2>1 DEF LayersHold, LayersOf, SideTips, IsAncestor, HistOf, Hist
<1>6. base # None => /\ plan'.branches # None /\ plan'.base = plan'.branches.base
                     /\ own # None => IsAncestor(own, base)
  BY <1>2 DEF bs
<1>7. PlanInv'
  BY <1>0, <1>1, <1>2, <1>3, <1>4, <1>5, <1>6 DEF PlanInv, IsAncestor
<1>8. WorldInv'
  BY <1>0, <1>1, WorldFrame DEF WorldInv
<1> QED
  BY <1>1, <1>7, <1>8 DEF FlowInv, HandlerInv, HeldInv, DoneInv, ServedRefsSuffice

LEMMA ServeKeeps ==
  ASSUME FlowInv, Serve PROVE FlowInv'
<1>0. WorldInv /\ HandlerInv /\ pin \in Commit /\ None \notin Commit
  BY HistoryAssumption DEF FlowInv, WorldInv, Serve
<1>1. pc = "serve" /\ UNCHANGED <<upstream, refs, tip, req, pin>>
  BY DEF Serve, worldVars
<1>2. /\ RefsHold(srv.refs) /\ srv.todo \in Seq({srv.todo[i] : i \in DOMAIN srv.todo})
      /\ \A i \in DOMAIN srv.todo : req.kind = "Full" /\ RefsHold(srv.todo[i]) /\ srv.todo[i].branches # None
      /\ srv.commit \in Commit /\ (srv.topUp <=> srv.commit # pin)
  BY <1>0, <1>1 DEF HandlerInv
<1>3. CASE Answer(Response(srv.refs, None, None))
  BY <1>0, <1>1, <1>2, <1>3, AnswerKeeps
<1>4. CASE srv.todo # <<>> /\ ~Answer(Response(srv.refs, None, None))
  <2> DEFINE served == Head(srv.todo)
             base == served.branches.base
  <2>1. /\ served = srv.todo[1] /\ 1 \in DOMAIN srv.todo
        /\ Tail(srv.todo) \in Seq({srv.todo[i] : i \in DOMAIN srv.todo})
        /\ \A i \in DOMAIN Tail(srv.todo) : i + 1 \in DOMAIN srv.todo /\ Tail(srv.todo)[i] = srv.todo[i + 1]
    BY <1>2, <1>4, TailHolds
  <2>2. req.kind = "Full" /\ RefsHold(served) /\ served.branches # None
    BY <1>2, <2>1
  <2>3. PICK held0 \in (IF base = srv.commit THEN {TRUE} ELSE InHistory(base, srv.commit)) :
          IF held0 THEN Answer(Response(served, None, None))
          ELSE IF ForcePushed(base) THEN Answer(Response(srv.refs, None, None))
          ELSE IF FullReady(base)
          THEN \E own \in OwnHistory(base, srv.commit) : Answer(Response(served, base, own))
          ELSE /\ srv' = Reading(srv.refs, Tail(srv.todo))
               /\ UNCHANGED <<plan, pc>>
    BY <1>4 DEF Serve
  <2>4. CASE Answer(Response(served, None, None))
    <3> HIDE DEF served
    <3> QED
      BY <1>0, <1>1, <2>2, <2>4, AnswerKeeps
  <2>5. CASE base # srv.commit /\ \E own \in OwnHistory(base, srv.commit) : Answer(Response(served, base, own))
    <3>1. PICK own \in OwnHistory(base, srv.commit) : Answer(Response(served, base, own))
      BY <2>5
    <3>2. own # None => IsAncestor(own, base)
      <4> HIDE DEF base
      <4> QED
        BY DEF OwnHistory, InHistory, IsAncestor
    <3>3. base # pin \/ srv.topUp
      BY <1>2, <2>5
    <3> DEFINE to == base
    <3>4. to = served.branches.base /\ to = base
      OBVIOUS
    <3> HIDE DEF served, base, to
    <3> QED
      BY <1>1, <2>2, <3>1, <3>2, <3>3, <3>4, AnswerKeeps
  <2>6. CASE srv' = Reading(srv.refs, Tail(srv.todo)) /\ UNCHANGED <<plan, pc>>
    <3> DEFINE left == Tail(srv.todo)
    <3>1. srv'.commit = srv.commit /\ srv'.topUp = srv.topUp /\ srv'.refs = srv.refs /\ srv'.todo = left
      BY <2>6 DEF Reading
    <3>2. /\ left \in Seq({srv.todo[i] : i \in DOMAIN srv.todo})
          /\ \A i \in DOMAIN left : i + 1 \in DOMAIN srv.todo /\ left[i] = srv.todo[i + 1]
      BY <2>1
    <3>3. req.kind = "Full" /\ pc' = "serve" /\ UNCHANGED <<req, pin>>
      BY <1>1, <2>2, <2>6
    <3> HIDE DEF left, served, base
    <3>4. left \in Seq({left[i] : i \in DOMAIN left})
      BY <3>2, SeqOfItsOwn
    <3>5. \A i \in DOMAIN left : RefsHold(left[i]) /\ left[i].branches # None
      BY <1>2, <3>2
    <3>6. RefsHold(srv.refs)' /\ \A i \in DOMAIN left : RefsHold(srv.todo[i])'
      <4>1. RefsHold(srv'.refs) /\ \A i \in DOMAIN left : RefsHold(srv'.todo[i])
        BY <1>2, <3>1, <3>5
      <4> QED
        BY <4>1 DEF RefsHold, LayersHold, LayersOf, SideTips, IsAncestor, HistOf, Hist
    <3>7. HandlerInv'
      BY <1>2, <3>1, <3>3, <3>4, <3>5, <3>6 DEF HandlerInv
    <3>8. WorldInv'
      BY <1>0, <1>1, <2>6, WorldFrame DEF WorldInv
    <3> QED
      BY <3>3, <3>7, <3>8 DEF FlowInv, PlanInv, HeldInv, DoneInv, ServedRefsSuffice
  <2> QED
    BY <1>4, <2>3, <2>4, <2>5, <2>6
<1> QED
  BY <1>3, <1>4 DEF Serve

-----------------------------------------------------------------------------
(* The client.                                                              *)

\* The plan is kept once it is taken.
LEMMA PlanFrame ==
  ASSUME PlanInv, pc \in {"answer", "install", "tip", "write", "done"},
         UNCHANGED plan, pc' \in {"install", "tip", "write", "done"},
         pc' \in {"install", "tip"} => pc \in {"answer", "install", "tip"} /\ pin' = pin
  PROVE  PlanInv'
<1>1. plan.branches # None => LayersHold(plan.branches)
  BY DEF PlanInv
<1>2. plan'.branches # None => LayersHold(plan.branches)'
  BY <1>1 DEF LayersHold, LayersOf, SideTips, IsAncestor, HistOf, Hist
<1> QED
  BY <1>2 DEF PlanInv, IsAncestor

\* An answer is never refused, and a pending output is asked for again.
LEMMA TakeKeeps ==
  ASSUME FlowInv, TakeAnswer \/ Pending \/ TopUpFails PROVE FlowInv'
<1>0. WorldInv /\ PlanInv
  BY DEF FlowInv
<1>1. CASE TakeAnswer
  <2>1. pc = "answer" /\ UNCHANGED <<upstream, refs, tip, req, pin, plan>>
    BY <1>1 DEF TakeAnswer, worldVars, cloneVars
  <2>2. ~Refused
    BY <1>0, <2>1 DEF PlanInv, Refused
  <2>3. pc' \in {"pending", "install"}
    BY <1>1, <2>2 DEF TakeAnswer, Goto
  <2>4. WorldInv'
    BY <1>0, <2>1, WorldFrame DEF WorldInv
  <2>5. PlanInv'
    <3>1. CASE pc' = "pending"
      BY <3>1 DEF PlanInv
    <3>2. CASE pc' = "install"
      BY <1>0, <2>1, <3>2, PlanFrame
    <3> QED
      BY <2>3, <3>1, <3>2
  <2> QED
    BY <2>3, <2>4, <2>5 DEF FlowInv, HandlerInv, HeldInv, DoneInv, ServedRefsSuffice
<1>2. CASE Pending \/ TopUpFails
  <2>1. pc \notin {"start", "asked"} /\ pc' \in {"failed", "poll"} /\ UNCHANGED <<upstream, refs, tip, req, pin>>
    BY <1>2 DEF Pending, TopUpFails, Fail, Goto, worldVars
  <2>2. WorldInv'
    BY <1>0, <2>1, WorldFrame DEF WorldInv
  <2> QED
    BY <2>1, <2>2 DEF FlowInv, HandlerInv, PlanInv, HeldInv, DoneInv, ServedRefsSuffice
<1> QED
  BY <1>1, <1>2

\* Layers on whole histories that hold their base are whole, and hold the tips.
LEMMA SideWhole ==
  ASSUME NEW b, LayersHold(b), NEW S, Whole(S), b.base \in S
  PROVE  /\ Whole(S \cup LayersOf(b))
         /\ \A k \in Branch : b.tips[k] \in S \cup LayersOf(b)
         /\ b.tag # None => b.tag \in S \cup LayersOf(b)
<1>1. /\ b.base = b.tips[Default] /\ b.base \in Commit /\ b.tips \in [Branch -> Commit]
      /\ b.tag \in Commit \cup {None}
      /\ b.sideTips = SideTips([branches |-> b.tips, tag |-> b.tag])
      /\ HistOf(b.sideTips \cup LayersOf(b)) \subseteq Hist(b.sideBase) \cup LayersOf(b)
      /\ IsAncestor(b.sideBase, b.base) /\ b.layers \in Seq(SUBSET Commit)
  BY FlowAssumption DEF LayersHold
<1>2. Hist(b.sideBase) \subseteq Hist(b.base) /\ Hist(b.base) \subseteq S
  BY <1>1, AncestorHist DEF Whole
<1>3. HistOf(b.sideTips \cup LayersOf(b)) \subseteq S \cup LayersOf(b)
  BY <1>1, <1>2
<1>4. /\ \A k \in Branch \ {Default} : b.tips[k] \in b.sideTips
      /\ b.tag # None => b.tag \in b.sideTips
      /\ b.sideTips \subseteq Commit
  BY <1>1 DEF SideTips
<1>5. b.sideTips \cup LayersOf(b) \subseteq S \cup LayersOf(b)
  <2>1. LayersOf(b) \subseteq Commit
    BY <1>1, LayersInCommit
  <2> QED
    BY <1>3, <1>4, <2>1, HistOfWhole
<1>6. \A a \in LayersOf(b) : Hist(a) \subseteq S \cup LayersOf(b)
  BY <1>3 DEF HistOf
<1> QED
  BY <1>1, <1>4, <1>5, <1>6 DEF Whole

\* materialize: a base, the side pack and the own history are whole.
LEMMA BaseInstallsWhole ==
  ASSUME NEW base \in Commit, plan.branches # None, LayersHold(plan.branches),
         base = plan.branches.base, plan.commit \in Commit,
         plan.own # None => IsAncestor(plan.own, base)
  PROVE  /\ Whole(Hist(base) \cup Side \cup OwnCommits(base))
         /\ {plan.commit, base} \subseteq Hist(base) \cup Side \cup OwnCommits(base)
<1> DEFINE S == Hist(base) \cup Side
           own == Hist(plan.own)
<1>1. Whole(Hist(base)) /\ Whole(Hist(plan.commit)) /\ base \in Hist(base) /\ plan.commit \in Hist(plan.commit)
  BY HistIsWhole, HistWhole
<1>2. Whole(S)
  BY <1>1, SideWhole DEF Side
<1>3. plan.own # None => own \subseteq Hist(base)
  BY AncestorHist
<1>4. CASE plan.commit \in S
  <2>1. S \cup OwnCommits(base) = S
    BY <1>4 DEF OwnCommits
  <2> HIDE DEF S
  <2>2. base \in S
    BY <1>1 DEF S
  <2>3. Whole(S \cup OwnCommits(base)) /\ {plan.commit, base} \subseteq S \cup OwnCommits(base)
    BY <1>2, <1>4, <2>1, <2>2
  <2> QED
    BY <2>3 DEF S
<1>5. CASE plan.commit \notin S
  <2>1. S \cup OwnCommits(base) = S \cup Hist(plan.commit)
    <3>1. \E old \in SUBSET S : OwnCommits(base) = Hist(plan.commit) \ old
      <4>1. CASE plan.own # None
        <5>1. OwnCommits(base) = Hist(plan.commit) \ own /\ own \in SUBSET S
          BY <1>3, <1>5, <4>1 DEF OwnCommits
        <5> QED
          BY <5>1
      <4>2. CASE plan.own = None
        <5>1. OwnCommits(base) = Hist(plan.commit) \ Hist(base) /\ Hist(base) \in SUBSET S
          BY <1>5, <4>2 DEF OwnCommits
        <5> QED
          BY <5>1
      <4> QED
        BY <4>1, <4>2
    <3> HIDE DEF S
    <3> QED
      BY <3>1
  <2>2. base \in S
    BY <1>1
  <2> HIDE DEF S
  <2>3. Whole(S \cup OwnCommits(base)) /\ {plan.commit, base} \subseteq S \cup OwnCommits(base)
    BY <1>1, <1>2, <2>1, <2>2, WholeHist
  <2> QED
    BY <2>3 DEF S
<1> QED
  BY <1>4, <1>5

LEMMA InstallKeeps ==
  ASSUME FlowInv, Install PROVE FlowInv'
<1>0. WorldInv /\ PlanInv
  BY DEF FlowInv
<1>1. pc = "install" /\ pc' = "tip" /\ UNCHANGED <<upstream, refs, tip, req, pin, plan>>
  BY DEF Install, Goto, worldVars
<1>2. /\ held' = CASE req.kind = "Head" -> {plan.commit}
                   [] RefsBase = None -> Hist(plan.commit)
                   [] OTHER -> Hist(RefsBase) \cup Side \cup OwnCommits(RefsBase)
      /\ CheckOut(plan.commit, None)
  BY DEF Install
<1>3. clone'.head = plan.commit
  BY <1>2 DEF CheckOut
<1>4. /\ plan.commit \in Commit /\ (plan.branches # None => LayersHold(plan.branches))
      /\ plan.base # None => /\ plan.branches # None /\ plan.base = plan.branches.base
                             /\ plan.own # None => IsAncestor(plan.own, plan.base)
  BY <1>0, <1>1 DEF PlanInv
<1>5. req.kind = "Full" =>
        /\ Whole(held') /\ plan.commit \in held'
        /\ AllBranches /\ ~plan.topUp /\ plan.base # None => plan.base \in held'
  <2>1. CASE req.kind = "Full" /\ RefsBase = None
    <3>1. held' = Hist(plan.commit) /\ ~(AllBranches /\ ~plan.topUp /\ plan.base # None)
      BY <1>2, <2>1 DEF RefsBase
    <3> QED
      BY <1>4, <3>1, HistIsWhole, HistWhole
  <2>2. CASE req.kind = "Full" /\ RefsBase # None
    <3>1. RefsBase = plan.base /\ plan.base # None
      BY <2>2 DEF RefsBase
    <3>2. held' = Hist(plan.base) \cup Side \cup OwnCommits(plan.base)
      BY <1>2, <2>2, <3>1
    <3>3. plan.base \in Commit
      BY <1>4, <3>1, FlowAssumption DEF LayersHold
    <3> QED
      BY <1>4, <3>1, <3>2, <3>3, BaseInstallsWhole
  <2> QED
    BY <2>1, <2>2
<1>6. HeldInv'
  BY <1>1, <1>3, <1>5 DEF HeldInv, Whole, Hist, AllBranches
<1>7. PlanInv'
  BY <1>0, <1>1, PlanFrame
<1>8. WorldInv'
  BY <1>0, <1>1, WorldFrame DEF WorldInv
<1> QED
  BY <1>1, <1>6, <1>7, <1>8 DEF FlowInv, HandlerInv, DoneInv, ServedRefsSuffice

LEMMA ObserveKeeps ==
  ASSUME FlowInv, Observe PROVE FlowInv'
<1>0. WorldInv /\ CloneInv
  BY DEF FlowInv, CloneInv
<1>1. pc # "start" /\ UNCHANGED <<upstream, rows, refs, pc, cloneVars>>
  BY DEF Observe, worldVars
<1>2. \E t \in Commit \cup {None} : tip' = <<t>>
  <2>1. req.at = None => upstream.branches[req.branch] \in Commit
    BY <1>0, <1>1, FlowAssumption DEF WorldInv
  <2>2. \/ tip' = <<None>>
        \/ tip' = <<IF req.at # None THEN None ELSE upstream.branches[req.branch]>>
    BY DEF Observe
  <2> QED
    BY <2>1, <2>2
<1>3. Len(tip') = 1 /\ tip'[1] \in Commit \cup {None}
  BY <1>2
<1>4. RefsHold(refs)'
  BY <1>0, <1>1 DEF WorldInv, RefsHold, LayersHold, LayersOf, SideTips, IsAncestor, HistOf, Hist
<1>5. WorldInv'
  BY <1>0, <1>1, <1>3, <1>4 DEF WorldInv, cloneVars
<1>6. CloneInv'
  BY <1>0, <1>1, CloneFrame
<1> QED
  BY <1>5, <1>6 DEF FlowInv, CloneInv

LEMMA AtTipKeeps ==
  ASSUME FlowInv, AtTip PROVE FlowInv'
<1>0. WorldInv /\ PlanInv /\ HeldInv
  BY DEF FlowInv
<1> DEFINE wanted == IF tip[1] # None THEN tip[1] ELSE pin
<1>1. /\ pc = "tip" /\ pc' = "write" /\ tip # <<>> /\ pin' = wanted
      /\ UNCHANGED <<upstream, refs, tip, req, plan>>
      /\ IF wanted # pin \/ plan.topUp THEN TopUp(wanted) ELSE UNCHANGED <<held, clone>>
  BY DEF AtTip, Goto, worldVars
<1>2. wanted \in Commit
  BY <1>0, <1>1 DEF WorldInv
<1> HIDE DEF wanted
<1>3. req.kind = "Full" =>
        /\ Whole(held) /\ plan.commit \in held /\ clone.head = plan.commit
        /\ AllBranches /\ ~plan.topUp /\ plan.base # None => plan.base \in held
  BY <1>0, <1>1 DEF HeldInv
<1>4. req.kind = "Full" =>
        /\ Whole(held') /\ held \subseteq held' /\ wanted \in held' /\ clone'.head = wanted
  <2>1. CASE req.kind = "Full" /\ (wanted # pin \/ plan.topUp)
    <3>1. held' = held \cup Hist(wanted) /\ clone'.head = wanted
      BY <1>1, <2>1 DEF TopUp, CheckOut
    <3> QED
      BY <1>2, <1>3, <2>1, <3>1, HistIsWhole, HistWhole, WholeHist
  <2>2. CASE req.kind = "Full" /\ ~(wanted # pin \/ plan.topUp)
    <3>1. plan.commit = pin
      BY <1>0, <1>1, <2>2 DEF PlanInv
    <3> QED
      BY <1>1, <1>3, <2>2, <3>1
  <2> QED
    BY <2>1, <2>2
<1>5. HeldInv'
  BY <1>1, <1>3, <1>4 DEF HeldInv, Whole, Hist, AllBranches
<1>6. PlanInv'
  BY <1>0, <1>1, PlanFrame
<1>7. WorldInv'
  BY <1>0, <1>1, <1>2, WorldFrame DEF WorldInv
<1> QED
  BY <1>1, <1>5, <1>6, <1>7 DEF FlowInv, HandlerInv, DoneInv, ServedRefsSuffice

\* The branches a Full can complete need no fetch (install_full_refs).
LEMMA ServedComplete ==
  ASSUME FlowInv, pc = "write", AllBranches, ~plan.topUp, plan.branches # None,
         plan.base # None \/ IsAncestor(plan.branches.base, plan.commit),
         plan.tag = plan.branches.tag
  PROVE  Complete(held \cup Side)
<1>1. /\ plan.commit \in Commit /\ LayersHold(plan.branches)
      /\ plan.base # None => plan.base = plan.branches.base
  BY DEF FlowInv, PlanInv
<1>2. Whole(held) /\ plan.commit \in held /\ (plan.base # None => plan.base \in held)
  BY DEF FlowInv, HeldInv, AllBranches
<1>3. plan.branches.base \in held
  <2>1. CASE plan.base # None
    BY <1>1, <1>2, <2>1
  <2>2. CASE IsAncestor(plan.branches.base, plan.commit)
    <3>1. plan.branches.base \in Hist(plan.commit)
      BY <1>1, <2>2, AncestorHist
    <3> QED
      BY <1>2, <3>1 DEF Whole
  <2> QED
    BY <2>1, <2>2
<1>4. Side = LayersOf(plan.branches)
  BY DEF Side
<1>5. /\ \A k \in Branch : plan.branches.tips[k] \in held \cup LayersOf(plan.branches)
      /\ plan.branches.tag # None => plan.branches.tag \in held \cup LayersOf(plan.branches)
  BY <1>1, <1>2, <1>3, SideWhole
<1> QED
  BY <1>3, <1>4, <1>5 DEF Complete, Present

\* With the history of the base, the side pack leaves the clone whole.
LEMMA HeldWithSide ==
  ASSUME FlowInv, pc = "write", req.kind = "Full", NEW more, Whole(more),
         plan.branches = None \/ Hist(plan.branches.base) \subseteq held \cup Side \cup more
  PROVE  Whole(held \cup Side \cup more)
<1>1. Whole(held) /\ (plan.branches # None => LayersHold(plan.branches))
  BY DEF FlowInv, HeldInv, PlanInv
<1>2. CASE plan.branches = None
  <2>1. held \cup Side \cup more = held \cup more
    BY <1>2 DEF Side
  <2> QED
    BY <1>1, <2>1, WholeHist
<1>3. CASE plan.branches # None
  <2> DEFINE base == plan.branches.base
             S == (held \cup more) \cup Hist(base)
  <2>1. base \in Commit
    BY <1>1, <1>3, FlowAssumption DEF LayersHold
  <2>2. Whole(Hist(base)) /\ base \in Hist(base)
    BY <2>1, HistIsWhole, HistWhole
  <2>3. Whole(S) /\ base \in S
    BY <1>1, <2>2, WholeHist
  <2>4. Side = LayersOf(plan.branches)
    BY <1>3 DEF Side
  <2>5. S \cup LayersOf(plan.branches) = held \cup Side \cup more
    BY <1>3, <2>4
  <2> HIDE DEF S
  <2>6. Whole(S \cup LayersOf(plan.branches))
    BY <1>1, <1>3, <2>3, SideWhole
  <2> QED
    BY <2>5, <2>6
<1> QED
  BY <1>2, <1>3

\* The last step of a clone.
LEMMA DoneKeeps ==
  ASSUME FlowInv, pc = "write", pc' = "done", UNCHANGED <<upstream, refs, tip, req, pin, plan>>,
         NEW remotes, NEW tag, NEW from, Wrote(remotes, tag, from),
         req.kind = "Full" =>
           /\ tag \in held' \cup {None} /\ held \subseteq held'
           /\ \A b \in Branch : remotes[b] \in held' \cup {None}
           /\ plan.branches = None \/ Hist(plan.branches.base) \subseteq held' => Whole(held'),
         \/ from = "served"
         \/ ~(/\ AllBranches /\ ~plan.topUp /\ plan.branches # None
              /\ plan.base # None \/ IsAncestor(plan.branches.base, plan.commit)
              /\ plan.tag = plan.branches.tag)
  PROVE  FlowInv'
<1>0. WorldInv /\ PlanInv /\ HeldInv
  BY DEF FlowInv
<1>1. clone'.head = clone.head /\ clone'.remotes = remotes /\ clone'.tag = tag /\ clone'.from = from
  BY DEF Wrote
<1>2. req.kind = "Full" => clone.head \in held'
  BY <1>0 DEF HeldInv
<1>3. DoneInv'
  BY <1>1, <1>2 DEF DoneInv, Written, Whole, Hist
<1>4. ServedRefsSuffice'
  BY <1>1 DEF ServedRefsSuffice, AllBranches, IsAncestor
<1>5. PlanInv'
  BY <1>0, PlanFrame
<1>6. WorldInv'
  BY <1>0, WorldFrame DEF WorldInv
<1> QED
  BY <1>3, <1>4, <1>5, <1>6 DEF FlowInv, HandlerInv, HeldInv

\* The remote-tracking refs: the installed commit, and the tips.
LEMMA RemotesHeld ==
  ASSUME NEW tips, NEW S, pin \in S, tips = None \/ \A b \in Branch : tips[b] \in S
  PROVE  \A b \in Branch : Remotes(tips)[b] \in S \cup {None}
BY DEF Remotes

LEMMA WriteKeeps ==
  ASSUME FlowInv, WriteOwnRefs \/ WriteServedRefs \/ FetchRefs \/ FetchRefsFails PROVE FlowInv'
<1>0. WorldInv /\ PlanInv /\ HeldInv
  BY DEF FlowInv
<1>1. pc = "write" /\ pc' = "done" /\ UNCHANGED <<upstream, refs, tip, req, pin, plan>>
  BY DEF WriteOwnRefs, WriteServedRefs, FetchRefs, FetchRefsFails, Goto, worldVars
<1>2. req.kind = "Full" => Whole(held) /\ pin \in held
  BY <1>0, <1>1 DEF HeldInv
<1>3. \A S : KeptTag(S) \in S \cup {None}
  BY DEF KeptTag, Present
<1>4. CASE WriteOwnRefs
  <2>1. ~AllBranches /\ held' = held /\ Wrote(Remotes(None), KeptTag(held), "own")
    BY <1>4 DEF WriteOwnRefs
  <2>2. req.kind = "Full" => \A b \in Branch : Remotes(None)[b] \in held' \cup {None}
    BY <1>2, <2>1, RemotesHeld
  <2>3. KeptTag(held) \in held' \cup {None} /\ (req.kind = "Full" => Whole(held'))
    BY <1>2, <1>3, <2>1
  <2> QED
    BY <1>1, <2>1, <2>2, <2>3, DoneKeeps
<1>5. CASE WriteServedRefs
  <2>1. /\ AllBranches /\ held' = held \cup Side /\ Complete(held')
        /\ Wrote(Remotes(plan.branches.tips), plan.tag, "served")
    BY <1>5 DEF WriteServedRefs
  <2>2. /\ \A b \in Branch : plan.branches.tips[b] \in held'
        /\ plan.tag \in held' \cup {None}
    BY <2>1 DEF Complete, Present
  <2>3. req.kind = "Full" /\ pin \in held'
    BY <1>2, <2>1 DEF AllBranches
  <2>4. \A b \in Branch : Remotes(plan.branches.tips)[b] \in held' \cup {None}
    BY <2>2, <2>3, RemotesHeld
  <2>5. plan.branches = None \/ Hist(plan.branches.base) \subseteq held' => Whole(held')
    <3>1. Whole({}) /\ held' = held \cup Side \cup {}
      BY <2>1 DEF Whole
    <3> QED
      BY <1>1, <2>3, <3>1, HeldWithSide
  <2> QED
    BY <1>1, <2>1, <2>2, <2>4, <2>5, DoneKeeps
<1>6. CASE FetchRefs
  <2> DEFINE tips == {upstream.branches[b] : b \in Branch} \cup ({upstream.tag} \ {None})
  <2>1. /\ AllBranches /\ ~Complete(held \cup Side) /\ held' = held \cup Side \cup HistOf(tips)
        /\ Wrote(Remotes(upstream.branches), upstream.tag, "upstream")
    BY <1>6 DEF FetchRefs
  <2>2. tips \subseteq HistOf(tips) /\ Whole(HistOf(tips))
    <3>1. tips \in SUBSET Commit
      BY <1>0 DEF WorldInv
    <3> HIDE DEF tips
    <3> QED
      BY <3>1, HistOfWhole, HistOfIsWhole
  <2>3. /\ \A b \in Branch : upstream.branches[b] \in held'
        /\ upstream.tag \in held' \cup {None}
    BY <2>1, <2>2
  <2> HIDE DEF tips
  <2>4. req.kind = "Full" /\ pin \in held'
    BY <1>2, <2>1 DEF AllBranches
  <2>5. \A b \in Branch : Remotes(upstream.branches)[b] \in held' \cup {None}
    BY <2>3, <2>4, RemotesHeld
  <2>6. plan.branches = None \/ Hist(plan.branches.base) \subseteq held' => Whole(held')
    BY <1>1, <2>1, <2>2, <2>4, HeldWithSide
  <2>7. ~(/\ AllBranches /\ ~plan.topUp /\ plan.branches # None
          /\ plan.base # None \/ IsAncestor(plan.branches.base, plan.commit)
          /\ plan.tag = plan.branches.tag)
    BY <1>1, <2>1, ServedComplete
  <2>8. held \subseteq held'
    BY <2>1
  <2> QED
    BY <1>1, <2>1, <2>3, <2>5, <2>6, <2>7, <2>8, DoneKeeps
<1>7. CASE FetchRefsFails
  <2>1. /\ AllBranches /\ ~Complete(held \cup Side) /\ held' = held \cup Side
        /\ Wrote(Remotes(None), KeptTag(held'), "own")
    BY <1>7 DEF FetchRefsFails
  <2>2. req.kind = "Full" /\ pin \in held' /\ held \subseteq held'
    BY <1>2, <2>1 DEF AllBranches
  <2>3. KeptTag(held') \in held' \cup {None} /\ \A b \in Branch : Remotes(None)[b] \in held' \cup {None}
    BY <1>3, <2>2, RemotesHeld
  <2>4. plan.branches = None \/ Hist(plan.branches.base) \subseteq held' => Whole(held')
    <3>1. Whole({}) /\ held' = held \cup Side \cup {}
      BY <2>1 DEF Whole
    <3> QED
      BY <1>1, <2>2, <3>1, HeldWithSide
  <2>5. ~(/\ AllBranches /\ ~plan.topUp /\ plan.branches # None
          /\ plan.base # None \/ IsAncestor(plan.branches.base, plan.commit)
          /\ plan.tag = plan.branches.tag)
    BY <1>1, <2>1, ServedComplete
  <2> QED
    BY <1>1, <2>1, <2>2, <2>3, <2>4, <2>5, DoneKeeps
<1> QED
  BY <1>4, <1>5, <1>6, <1>7

-----------------------------------------------------------------------------
\* Every clone, beside pushes, builds and publishes in any order, keeps the
\* invariant the properties rest on.
THEOREM FlowKeepsItsInvariant == Spec => []FlowInv
<1>1. Init => FlowInv
  <2> SUFFICES ASSUME Init PROVE FlowInv
    OBVIOUS
  <2>1. upstream \in [branches : [Branch -> Commit], tag : Commit \cup {None}]
    BY FlowAssumption DEF Init
  <2>2. RefsHold(refs)
    BY DEF Init, NoRefs, RefsHold
  <2>3. pc = "start" /\ tip = <<>>
    BY DEF Init
  <2> QED
    BY <2>1, <2>2, <2>3 DEF FlowInv, WorldInv, HandlerInv, PlanInv, HeldInv, DoneInv, ServedRefsSuffice
<1>2. FlowInv /\ [Next]_flowVars => FlowInv'
  <2> SUFFICES ASSUME FlowInv, [Next]_flowVars PROVE FlowInv'
    OBVIOUS
  <2>0. WorldInv /\ CloneInv
    BY DEF FlowInv, CloneInv
  <2>1. CASE Upstream \/ Server
    <3>1. UNCHANGED <<pc, cloneVars>>
      BY <2>1 DEF Upstream, Server, Push, PushTag, Refresh, BuildHead, BuildFull, FullFails
    <3> QED
      BY <2>0, <2>1, <3>1, UpstreamKeeps, ServerKeeps, CloneFrame DEF FlowInv, CloneInv
  <2>2. CASE Clone
    BY <2>2, RequestKeeps, ReadKeeps, ServeKeeps, TakeKeeps, InstallKeeps, ObserveKeeps, AtTipKeeps,
       WriteKeeps DEF Clone
  <2>3. CASE UNCHANGED flowVars
    <3>1. UNCHANGED <<upstream, refs, tip, pc, req, pin, cloneVars>>
      BY <2>3 DEF flowVars, cloneVars
    <3>2. WorldInv'
      BY <2>0, <3>1, WorldFrame DEF WorldInv
    <3> QED
      BY <2>0, <3>1, <3>2, CloneFrame DEF FlowInv, CloneInv
  <2> QED
    BY <2>1, <2>2, <2>3 DEF Next
<1> QED
  BY <1>1, <1>2, PTL DEF Spec

\* output_body, pending_body, ready_body and plan: an answer the client would
\* refuse as inconsistent is never given, whatever is built and published
\* between the reads of a request.
THEOREM AnswersAreConsistent == Spec => []AnswersConsistent
<1>1. FlowInv => AnswersConsistent
  BY DEF FlowInv, PlanInv, AnswersConsistent
<1> QED
  BY <1>1, FlowKeepsItsInvariant, PTL

\* materialize and install_full_refs: a full clone that holds the history of
\* the base of the refs it was given has the history of every ref it writes,
\* for any history, branches, tags, layers and force-pushes.
THEOREM WrittenRefsAreWhole == Spec => []RefsWholeOnBase
<1>1. FlowInv => RefsWholeOnBase
  BY DEF FlowInv, DoneInv, RefsWholeOnBase, HistOf, Whole
<1> QED
  BY <1>1, FlowKeepsItsInvariant, PTL

\* ready_body: a Full whose refs base it holds, or is told to install, writes
\* every ref without a fetch from upstream.
THEOREM ServedRefsAreEnough == Spec => []ServedRefsSuffice
<1>1. FlowInv => ServedRefsSuffice
  BY DEF FlowInv
<1> QED
  BY <1>1, FlowKeepsItsInvariant, PTL

-----------------------------------------------------------------------------
(* Staging and its writers.                                                 *)

\* What the assumption says of writers and their holders.
LEMMA Constants ==
  /\ IsFiniteSet(Writer) /\ Nobody \notin Client /\ MaxFaults \in Nat
  /\ \A w \in Writer : Holder[w] \in Client \cup Async /\ ClientOf(w) \in Client
  /\ \A w \in Writer : Holder[w] \in Client => ClientOf(w) = Holder[w]
  /\ \A w \in Writer : Holder[w] \in Async =>
       /\ Holder[w] \in Writer \ (Git \cup Detached) /\ Holder[Holder[w]] \in Client
       /\ ClientOf(w) = Holder[Holder[w]] /\ ClientOf(Holder[w]) = ClientOf(w)
  /\ \A w \in Git \cup Detached : w \in Writer /\ w \notin Async /\ Holder[w] \in Client
  /\ Git \cap (Async \cup Blocking) = {} /\ Detached \cap (Async \cup Blocking \cup Git) = {}
  /\ Client \cap Async = {} /\ Async \subseteq Writer
BY StagingAssumption DEF StagingAssumption, ClientOf

\* Every step keeps the types.
LEMMA TypeKept ==
  StagingInv /\ [StagingNext]_stagingVars => StagingTypeOK'
<1> SUFFICES ASSUME StagingInv, [StagingNext]_stagingVars PROVE StagingTypeOK'  OBVIOUS
<1> USE Constants DEF StagingInv, StagingTypeOK, Before, Staging, fileVars, scanVars, guardVars, reapVars
<1>1. ASSUME NEW c \in Client, CheckTarget(c) PROVE StagingTypeOK'  BY <1>1 DEF CheckTarget, GoTo
<1>2. ASSUME NEW c \in Client, PlanMade(c) PROVE StagingTypeOK'  BY <1>2 DEF PlanMade, GoTo
<1>3. ASSUME NEW c \in Client, PlanFails(c) PROVE StagingTypeOK'  BY <1>3 DEF PlanFails, GoTo
<1>4. ASSUME NEW c \in Client, List(c) PROVE StagingTypeOK'  BY <1>4 DEF List, GoTo
<1>5. ASSUME NEW c \in Client, OpenMarker(c) PROVE StagingTypeOK'  BY <1>5 DEF OpenMarker
<1>6. ASSUME NEW c \in Client, TryLockMarker(c) PROVE StagingTypeOK'  BY <1>6 DEF TryLockMarker
<1>7. ASSUME NEW c \in Client, Clean(c) PROVE StagingTypeOK'
  <2> DEFINE e == open[c]
  <2>1. e \in Client  BY <1>7 DEF Clean
  <2>2. dir' \in [Client -> {"none", "here", "gone"}] /\ linked' \in [Client -> BOOLEAN] /\ faults' \in Nat
    <3>1. CASE dir' = [dir EXCEPT ![e] = "gone"] /\ linked' = [linked EXCEPT ![e] = FALSE] /\ faults' = faults
      BY <3>1, <2>1
    <3>2. CASE Fault /\ dir' = dir /\ linked' = linked  BY <3>2 DEF Fault
    <3>3. CASE faults' = faults /\ dir' = dir /\ linked' = linked  BY <3>3
    <3> QED  BY <1>7, <3>1, <3>2, <3>3 DEF Clean
  <2> QED  BY <1>7, <2>1, <2>2 DEF Clean
<1>8. ASSUME NEW c \in Client, MakeDir(c) PROVE StagingTypeOK'  BY <1>8 DEF MakeDir, GoTo
<1>9. ASSUME NEW c \in Client, CreateMarker(c) PROVE StagingTypeOK'  BY <1>9 DEF CreateMarker, GoTo
<1>10. ASSUME NEW c \in Client, LockMarker(c) PROVE StagingTypeOK'  BY <1>10 DEF LockMarker, GoTo
<1>11. ASSUME NEW c \in Client, SignMarker(c) PROVE StagingTypeOK'  BY <1>11 DEF SignMarker, GoTo
<1>12. ASSUME NEW c \in Client, StageFails(c) PROVE StagingTypeOK'
  BY <1>12 DEF StageFails, GoTo, Leave, Fault
<1>13. ASSUME NEW c \in Client, MaterializeFails(c) PROVE StagingTypeOK'
  BY <1>13 DEF MaterializeFails, Materializes, GoTo, Leave
<1>14. ASSUME NEW c \in Client, Cancel(c) PROVE StagingTypeOK'  BY <1>14 DEF Cancel, GoTo, Leave
<1>15. ASSUME NEW c \in Client, Publish(c) PROVE StagingTypeOK'
  <2>1. at' = [at EXCEPT ![c] = "unwind"]  BY <1>15 DEF Publish, Leave, GoTo
  <2>2. result' \in [Client -> {"none", "ok", "error"}]  BY <1>15 DEF Publish, Leave
  <2>3. target' \in Client \cup {Nobody} /\ dir' \in [Client -> {"none", "here", "gone"}]
    BY <1>15 DEF Publish
  <2>4. UNCHANGED <<linked, ink, flock, scanVars, staged, writer, guardVars, reapVars, faults>>
    BY <1>15 DEF Publish
  <2> QED  BY <2>1, <2>2, <2>3, <2>4
<1>16. ASSUME NEW c \in Client, Close(c) PROVE StagingTypeOK'  BY <1>16 DEF Close, GoTo
<1>17. ASSUME NEW c \in Client, Return(c) PROVE StagingTypeOK'  BY <1>17 DEF Return, GoTo
<1>18. ASSUME NEW c \in Client, TakeWhenJoined(c) PROVE StagingTypeOK'  BY <1>18 DEF TakeWhenJoined, Take
<1>19. ASSUME NEW c \in Client, LoadClosed(c) PROVE StagingTypeOK'  BY <1>19 DEF LoadClosed, Reap
<1>20. ASSUME NEW c \in Client, LoadGuards(c) PROVE StagingTypeOK'  BY <1>20 DEF LoadGuards, Reap
<1>21. ASSUME NEW c \in Client, AwaitChange(c) PROVE StagingTypeOK'  BY <1>21 DEF AwaitChange, Reap
<1>22. ASSUME NEW c \in Client, RemoveStaging(c) PROVE StagingTypeOK'
  <2>1. dir' \in [Client -> {"none", "here", "gone"}] /\ linked' \in [Client -> BOOLEAN] /\ faults' \in Nat
    <3>1. CASE /\ dir' = [dir EXCEPT ![c] = IF staged[c] /\ @ = "here" THEN "gone" ELSE @]
               /\ linked' = [linked EXCEPT ![c] = @ /\ ~staged[c]]
               /\ faults' = faults
      BY <3>1
    <3>2. CASE Fault /\ dir' = dir /\ linked' = linked  BY <3>2 DEF Fault
    <3> QED  BY <1>22, <3>1, <3>2 DEF RemoveStaging
  <2>2. flock' \in [Client -> Client \cup {Nobody}] /\ staged' \in [Client -> BOOLEAN]
    BY <1>22 DEF RemoveStaging
  <2> QED  BY <1>22, <2>1, <2>2 DEF RemoveStaging, Reap
<1>23. ASSUME NEW c \in Client, Kill(c) PROVE StagingTypeOK'  BY <1>23 DEF Kill, GoTo, Fault
<1>24. ASSUME NEW w \in Writer, SpawnTask(w) PROVE StagingTypeOK'  BY <1>24 DEF SpawnTask
<1>25. ASSUME NEW w \in Writer, SpawnGit(w) PROVE StagingTypeOK'  BY <1>25 DEF SpawnGit
<1>26. ASSUME NEW w \in Writer, SpawnDetached(w) PROVE StagingTypeOK'  BY <1>26 DEF SpawnDetached
<1>27. ASSUME NEW w \in Writer, Unwinds(w) PROVE StagingTypeOK'  BY <1>27 DEF Unwinds
<1>28. ASSUME NEW w \in Writer, Ends(w) PROVE StagingTypeOK'  BY <1>28 DEF Ends
<1>29. ASSUME NEW w \in Writer, Join(w) PROVE StagingTypeOK'  BY <1>29 DEF Join
<1>30. ASSUME NEW w \in Writer, DropPush(w) PROVE StagingTypeOK'  BY <1>30 DEF DropPush
<1>31. ASSUME NEW w \in Writer, DropFinish(w) PROVE StagingTypeOK'  BY <1>31 DEF DropFinish
<1>32. CASE UNCHANGED stagingVars  BY <1>32 DEF stagingVars
<1> QED
  BY <1>1, <1>2, <1>3, <1>4, <1>5, <1>6, <1>7, <1>8, <1>9, <1>10, <1>11, <1>12, <1>13, <1>14, <1>15, <1>16,
     <1>17, <1>18, <1>19, <1>20, <1>21, <1>22, <1>23, <1>24, <1>25, <1>26, <1>27, <1>28, <1>29, <1>30, <1>31, <1>32
  DEF StagingNext, ClientStep, WriterStep, ReaperStep

\* The reaper and the clone itself move on only once.
LEMMA ClosedKept ==
  StagingInv /\ [StagingNext]_stagingVars => ClosedFirst'
<1> SUFFICES ASSUME StagingInv, [StagingNext]_stagingVars PROVE ClosedFirst'  OBVIOUS
<1> USE Constants DEF StagingInv, StagingTypeOK, Before, Staging, ClosedFirst, fileVars, scanVars, guardVars,
   reapVars
<1>1. ASSUME NEW c \in Client, CheckTarget(c) PROVE ClosedFirst'  BY <1>1 DEF CheckTarget, GoTo
<1>2. ASSUME NEW c \in Client, PlanMade(c) PROVE ClosedFirst'  BY <1>2 DEF PlanMade, GoTo
<1>3. ASSUME NEW c \in Client, PlanFails(c) PROVE ClosedFirst'  BY <1>3 DEF PlanFails, GoTo
<1>4. ASSUME NEW c \in Client, List(c) PROVE ClosedFirst'  BY <1>4 DEF List, GoTo
<1>5. ASSUME NEW c \in Client, OpenMarker(c) PROVE ClosedFirst'  BY <1>5 DEF OpenMarker
<1>6. ASSUME NEW c \in Client, TryLockMarker(c) PROVE ClosedFirst'  BY <1>6 DEF TryLockMarker
<1>7. ASSUME NEW c \in Client, Clean(c) PROVE ClosedFirst'  BY <1>7 DEF Clean, Fault
<1>8. ASSUME NEW c \in Client, MakeDir(c) PROVE ClosedFirst'  BY <1>8 DEF MakeDir, GoTo
<1>9. ASSUME NEW c \in Client, CreateMarker(c) PROVE ClosedFirst'  BY <1>9 DEF CreateMarker, GoTo
<1>10. ASSUME NEW c \in Client, LockMarker(c) PROVE ClosedFirst'  BY <1>10 DEF LockMarker, GoTo
<1>11. ASSUME NEW c \in Client, SignMarker(c) PROVE ClosedFirst'  BY <1>11 DEF SignMarker, GoTo
<1>12. ASSUME NEW c \in Client, StageFails(c) PROVE ClosedFirst'  BY <1>12 DEF StageFails, GoTo, Leave, Fault
<1>13. ASSUME NEW c \in Client, MaterializeFails(c) PROVE ClosedFirst'
  BY <1>13 DEF MaterializeFails, Materializes, GoTo, Leave
<1>14. ASSUME NEW c \in Client, Cancel(c) PROVE ClosedFirst'  BY <1>14 DEF Cancel, GoTo, Leave
<1>15. ASSUME NEW c \in Client, Publish(c) PROVE ClosedFirst'  BY <1>15 DEF Publish, GoTo, Leave
<1>16. ASSUME NEW c \in Client, Close(c) PROVE ClosedFirst'  BY <1>16 DEF Close, GoTo
<1>17. ASSUME NEW c \in Client, Return(c) PROVE ClosedFirst'  BY <1>17 DEF Return, GoTo
<1>18. ASSUME NEW c \in Client, TakeWhenJoined(c) PROVE ClosedFirst'  BY <1>18 DEF TakeWhenJoined, Take
<1>19. ASSUME NEW c \in Client, LoadClosed(c) PROVE ClosedFirst'  BY <1>19 DEF LoadClosed, Reap
<1>20. ASSUME NEW c \in Client, LoadGuards(c) PROVE ClosedFirst'  BY <1>20 DEF LoadGuards, Reap
<1>21. ASSUME NEW c \in Client, AwaitChange(c) PROVE ClosedFirst'  BY <1>21 DEF AwaitChange, Reap
<1>22. ASSUME NEW c \in Client, RemoveStaging(c) PROVE ClosedFirst'  BY <1>22 DEF RemoveStaging, Reap, Fault
<1>23. ASSUME NEW c \in Client, Kill(c) PROVE ClosedFirst'  BY <1>23 DEF Kill, GoTo, Fault
<1>24. ASSUME NEW w \in Writer, SpawnTask(w) PROVE ClosedFirst'  BY <1>24 DEF SpawnTask
<1>25. ASSUME NEW w \in Writer, SpawnGit(w) PROVE ClosedFirst'  BY <1>25 DEF SpawnGit
<1>26. ASSUME NEW w \in Writer, SpawnDetached(w) PROVE ClosedFirst'  BY <1>26 DEF SpawnDetached
<1>27. ASSUME NEW w \in Writer, Unwinds(w) PROVE ClosedFirst'  BY <1>27 DEF Unwinds
<1>28. ASSUME NEW w \in Writer, Ends(w) PROVE ClosedFirst'  BY <1>28 DEF Ends
<1>29. ASSUME NEW w \in Writer, Join(w) PROVE ClosedFirst'  BY <1>29 DEF Join
<1>30. ASSUME NEW w \in Writer, DropPush(w) PROVE ClosedFirst'  BY <1>30 DEF DropPush
<1>31. ASSUME NEW w \in Writer, DropFinish(w) PROVE ClosedFirst'  BY <1>31 DEF DropFinish
<1>32. CASE UNCHANGED stagingVars  BY <1>32 DEF stagingVars
<1> QED
  BY <1>1, <1>2, <1>3, <1>4, <1>5, <1>6, <1>7, <1>8, <1>9, <1>10, <1>11, <1>12, <1>13, <1>14, <1>15, <1>16,
     <1>17, <1>18, <1>19, <1>20, <1>21, <1>22, <1>23, <1>24, <1>25, <1>26, <1>27, <1>28, <1>29, <1>30, <1>31, <1>32
  DEF StagingNext, ClientStep, WriterStep, ReaperStep

\* Nobody else locks, signs or removes the marker of a clone at work.
LEMMA MarkerKeptStep ==
  StagingInv /\ [StagingNext]_stagingVars => MarkerKept'
<1> SUFFICES ASSUME StagingInv, [StagingNext]_stagingVars PROVE MarkerKept'  OBVIOUS
<1> USE Constants DEF StagingInv, StagingTypeOK, Before, Staging, ClosedFirst, MarkerKept, fileVars, scanVars,
   guardVars, reapVars
<1>1. ASSUME NEW c \in Client, CheckTarget(c) PROVE MarkerKept'  BY <1>1 DEF CheckTarget, GoTo
<1>2. ASSUME NEW c \in Client, PlanMade(c) PROVE MarkerKept'  BY <1>2 DEF PlanMade, GoTo
<1>3. ASSUME NEW c \in Client, PlanFails(c) PROVE MarkerKept'  BY <1>3 DEF PlanFails, GoTo
<1>4. ASSUME NEW c \in Client, List(c) PROVE MarkerKept'  BY <1>4 DEF List, GoTo
<1>5. ASSUME NEW c \in Client, OpenMarker(c) PROVE MarkerKept'  BY <1>5 DEF OpenMarker
<1>6. ASSUME NEW c \in Client, TryLockMarker(c) PROVE MarkerKept'  BY <1>6 DEF TryLockMarker
<1>7. ASSUME NEW c \in Client, Clean(c) PROVE MarkerKept'  BY <1>7 DEF Clean, Fault
<1>8. ASSUME NEW c \in Client, MakeDir(c) PROVE MarkerKept'  BY <1>8 DEF MakeDir, GoTo
<1>9. ASSUME NEW c \in Client, CreateMarker(c) PROVE MarkerKept'  BY <1>9 DEF CreateMarker, GoTo
<1>10. ASSUME NEW c \in Client, LockMarker(c) PROVE MarkerKept'  BY <1>10 DEF LockMarker, GoTo
<1>11. ASSUME NEW c \in Client, SignMarker(c) PROVE MarkerKept'  BY <1>11 DEF SignMarker, GoTo
<1>12. ASSUME NEW c \in Client, StageFails(c) PROVE MarkerKept'  BY <1>12 DEF StageFails, GoTo, Leave, Fault
<1>13. ASSUME NEW c \in Client, MaterializeFails(c) PROVE MarkerKept'
  BY <1>13 DEF MaterializeFails, Materializes, GoTo, Leave
<1>14. ASSUME NEW c \in Client, Cancel(c) PROVE MarkerKept'  BY <1>14 DEF Cancel, GoTo, Leave
<1>15. ASSUME NEW c \in Client, Publish(c) PROVE MarkerKept'  BY <1>15 DEF Publish, GoTo, Leave
<1>16. ASSUME NEW c \in Client, Close(c) PROVE MarkerKept'  BY <1>16 DEF Close, GoTo
<1>17. ASSUME NEW c \in Client, Return(c) PROVE MarkerKept'  BY <1>17 DEF Return, GoTo
<1>18. ASSUME NEW c \in Client, TakeWhenJoined(c) PROVE MarkerKept'  BY <1>18 DEF TakeWhenJoined, Take
<1>19. ASSUME NEW c \in Client, LoadClosed(c) PROVE MarkerKept'  BY <1>19 DEF LoadClosed, Reap
<1>20. ASSUME NEW c \in Client, LoadGuards(c) PROVE MarkerKept'  BY <1>20 DEF LoadGuards, Reap
<1>21. ASSUME NEW c \in Client, AwaitChange(c) PROVE MarkerKept'  BY <1>21 DEF AwaitChange, Reap
<1>22. ASSUME NEW c \in Client, RemoveStaging(c) PROVE MarkerKept'  BY <1>22 DEF RemoveStaging, Reap, Fault
<1>23. ASSUME NEW c \in Client, Kill(c) PROVE MarkerKept'  BY <1>23 DEF Kill, GoTo, Fault
<1>24. ASSUME NEW w \in Writer, SpawnTask(w) PROVE MarkerKept'  BY <1>24 DEF SpawnTask
<1>25. ASSUME NEW w \in Writer, SpawnGit(w) PROVE MarkerKept'  BY <1>25 DEF SpawnGit
<1>26. ASSUME NEW w \in Writer, SpawnDetached(w) PROVE MarkerKept'  BY <1>26 DEF SpawnDetached
<1>27. ASSUME NEW w \in Writer, Unwinds(w) PROVE MarkerKept'  BY <1>27 DEF Unwinds
<1>28. ASSUME NEW w \in Writer, Ends(w) PROVE MarkerKept'  BY <1>28 DEF Ends
<1>29. ASSUME NEW w \in Writer, Join(w) PROVE MarkerKept'  BY <1>29 DEF Join
<1>30. ASSUME NEW w \in Writer, DropPush(w) PROVE MarkerKept'  BY <1>30 DEF DropPush
<1>31. ASSUME NEW w \in Writer, DropFinish(w) PROVE MarkerKept'  BY <1>31 DEF DropFinish
<1>32. CASE UNCHANGED stagingVars  BY <1>32 DEF stagingVars
<1> QED
  BY <1>1, <1>2, <1>3, <1>4, <1>5, <1>6, <1>7, <1>8, <1>9, <1>10, <1>11, <1>12, <1>13, <1>14, <1>15, <1>16,
     <1>17, <1>18, <1>19, <1>20, <1>21, <1>22, <1>23, <1>24, <1>25, <1>26, <1>27, <1>28, <1>29, <1>30, <1>31, <1>32
  DEF StagingNext, ClientStep, WriterStep, ReaperStep

\* A cleaner has the lock, and the marker of a live clone is locked by its own or
\* not signed.
LEMMA LiveKept ==
  StagingInv /\ [StagingNext]_stagingVars => LiveStagingKept'
<1> SUFFICES ASSUME StagingInv, [StagingNext]_stagingVars PROVE LiveStagingKept'  OBVIOUS
<1> USE Constants DEF StagingInv, StagingTypeOK, Before, Staging, ClosedFirst, MarkerKept, LiveStagingKept,
   fileVars, scanVars, guardVars, reapVars
<1>1. ASSUME NEW c \in Client, CheckTarget(c) PROVE LiveStagingKept'  BY <1>1 DEF CheckTarget, GoTo
<1>2. ASSUME NEW c \in Client, PlanMade(c) PROVE LiveStagingKept'  BY <1>2 DEF PlanMade, GoTo
<1>3. ASSUME NEW c \in Client, PlanFails(c) PROVE LiveStagingKept'  BY <1>3 DEF PlanFails, GoTo
<1>4. ASSUME NEW c \in Client, List(c) PROVE LiveStagingKept'  BY <1>4 DEF List, GoTo
<1>5. ASSUME NEW c \in Client, OpenMarker(c) PROVE LiveStagingKept'  BY <1>5 DEF OpenMarker
<1>6. ASSUME NEW c \in Client, TryLockMarker(c) PROVE LiveStagingKept'  BY <1>6 DEF TryLockMarker
<1>7. ASSUME NEW c \in Client, Clean(c) PROVE LiveStagingKept'  BY <1>7 DEF Clean, Fault
<1>8. ASSUME NEW c \in Client, MakeDir(c) PROVE LiveStagingKept'  BY <1>8 DEF MakeDir, GoTo
<1>9. ASSUME NEW c \in Client, CreateMarker(c) PROVE LiveStagingKept'  BY <1>9 DEF CreateMarker, GoTo
<1>10. ASSUME NEW c \in Client, LockMarker(c) PROVE LiveStagingKept'  BY <1>10 DEF LockMarker, GoTo
<1>11. ASSUME NEW c \in Client, SignMarker(c) PROVE LiveStagingKept'  BY <1>11 DEF SignMarker, GoTo
<1>12. ASSUME NEW c \in Client, StageFails(c) PROVE LiveStagingKept'
  BY <1>12 DEF StageFails, GoTo, Leave, Fault
<1>13. ASSUME NEW c \in Client, MaterializeFails(c) PROVE LiveStagingKept'
  BY <1>13 DEF MaterializeFails, Materializes, GoTo, Leave
<1>14. ASSUME NEW c \in Client, Cancel(c) PROVE LiveStagingKept'  BY <1>14 DEF Cancel, GoTo, Leave
<1>15. ASSUME NEW c \in Client, Publish(c) PROVE LiveStagingKept'  BY <1>15 DEF Publish, GoTo, Leave
<1>16. ASSUME NEW c \in Client, Close(c) PROVE LiveStagingKept'  BY <1>16 DEF Close, GoTo
<1>17. ASSUME NEW c \in Client, Return(c) PROVE LiveStagingKept'  BY <1>17 DEF Return, GoTo
<1>18. ASSUME NEW c \in Client, TakeWhenJoined(c) PROVE LiveStagingKept'  BY <1>18 DEF TakeWhenJoined, Take
<1>19. ASSUME NEW c \in Client, LoadClosed(c) PROVE LiveStagingKept'  BY <1>19 DEF LoadClosed, Reap
<1>20. ASSUME NEW c \in Client, LoadGuards(c) PROVE LiveStagingKept'  BY <1>20 DEF LoadGuards, Reap
<1>21. ASSUME NEW c \in Client, AwaitChange(c) PROVE LiveStagingKept'  BY <1>21 DEF AwaitChange, Reap
<1>22. ASSUME NEW c \in Client, RemoveStaging(c) PROVE LiveStagingKept'
  BY <1>22 DEF RemoveStaging, Reap, Fault
<1>23. ASSUME NEW c \in Client, Kill(c) PROVE LiveStagingKept'  BY <1>23 DEF Kill, GoTo, Fault
<1>24. ASSUME NEW w \in Writer, SpawnTask(w) PROVE LiveStagingKept'  BY <1>24 DEF SpawnTask
<1>25. ASSUME NEW w \in Writer, SpawnGit(w) PROVE LiveStagingKept'  BY <1>25 DEF SpawnGit
<1>26. ASSUME NEW w \in Writer, SpawnDetached(w) PROVE LiveStagingKept'  BY <1>26 DEF SpawnDetached
<1>27. ASSUME NEW w \in Writer, Unwinds(w) PROVE LiveStagingKept'  BY <1>27 DEF Unwinds
<1>28. ASSUME NEW w \in Writer, Ends(w) PROVE LiveStagingKept'  BY <1>28 DEF Ends
<1>29. ASSUME NEW w \in Writer, Join(w) PROVE LiveStagingKept'  BY <1>29 DEF Join
<1>30. ASSUME NEW w \in Writer, DropPush(w) PROVE LiveStagingKept'  BY <1>30 DEF DropPush
<1>31. ASSUME NEW w \in Writer, DropFinish(w) PROVE LiveStagingKept'  BY <1>31 DEF DropFinish
<1>32. CASE UNCHANGED stagingVars  BY <1>32 DEF stagingVars
<1> QED
  BY <1>1, <1>2, <1>3, <1>4, <1>5, <1>6, <1>7, <1>8, <1>9, <1>10, <1>11, <1>12, <1>13, <1>14, <1>15, <1>16,
     <1>17, <1>18, <1>19, <1>20, <1>21, <1>22, <1>23, <1>24, <1>25, <1>26, <1>27, <1>28, <1>29, <1>30, <1>31, <1>32
  DEF StagingNext, ClientStep, WriterStep, ReaperStep

\* Only a cancelled clone leaves a task without a guard behind.
LEMMA DetachedKept ==
  StagingInv /\ [StagingNext]_stagingVars => DetachedAwaited'
<1> SUFFICES ASSUME StagingInv, [StagingNext]_stagingVars PROVE DetachedAwaited'  OBVIOUS
<1> USE Constants DEF StagingInv, StagingTypeOK, Before, Staging, ClosedFirst, DetachedAwaited, fileVars,
   scanVars, guardVars, reapVars
<1>1. ASSUME NEW c \in Client, CheckTarget(c) PROVE DetachedAwaited'  BY <1>1 DEF CheckTarget, GoTo
<1>2. ASSUME NEW c \in Client, PlanMade(c) PROVE DetachedAwaited'  BY <1>2 DEF PlanMade, GoTo
<1>3. ASSUME NEW c \in Client, PlanFails(c) PROVE DetachedAwaited'  BY <1>3 DEF PlanFails, GoTo
<1>4. ASSUME NEW c \in Client, List(c) PROVE DetachedAwaited'  BY <1>4 DEF List, GoTo
<1>5. ASSUME NEW c \in Client, OpenMarker(c) PROVE DetachedAwaited'  BY <1>5 DEF OpenMarker
<1>6. ASSUME NEW c \in Client, TryLockMarker(c) PROVE DetachedAwaited'  BY <1>6 DEF TryLockMarker
<1>7. ASSUME NEW c \in Client, Clean(c) PROVE DetachedAwaited'  BY <1>7 DEF Clean, Fault
<1>8. ASSUME NEW c \in Client, MakeDir(c) PROVE DetachedAwaited'  BY <1>8 DEF MakeDir, GoTo
<1>9. ASSUME NEW c \in Client, CreateMarker(c) PROVE DetachedAwaited'  BY <1>9 DEF CreateMarker, GoTo
<1>10. ASSUME NEW c \in Client, LockMarker(c) PROVE DetachedAwaited'  BY <1>10 DEF LockMarker, GoTo
<1>11. ASSUME NEW c \in Client, SignMarker(c) PROVE DetachedAwaited'  BY <1>11 DEF SignMarker, GoTo
<1>12. ASSUME NEW c \in Client, StageFails(c) PROVE DetachedAwaited'
  BY <1>12 DEF StageFails, GoTo, Leave, Fault
<1>13. ASSUME NEW c \in Client, MaterializeFails(c) PROVE DetachedAwaited'
  BY <1>13 DEF MaterializeFails, Materializes, GoTo, Leave, Awaits, Runs, HeldBy, Materializes
<1>14. ASSUME NEW c \in Client, Cancel(c) PROVE DetachedAwaited'
  BY <1>14 DEF Cancel, GoTo, Leave, Awaits, Runs, HeldBy, Materializes
<1>15. ASSUME NEW c \in Client, Publish(c) PROVE DetachedAwaited'
  BY <1>15 DEF Publish, GoTo, Leave, Awaits, Runs, HeldBy, Materializes
<1>16. ASSUME NEW c \in Client, Close(c) PROVE DetachedAwaited'  BY <1>16 DEF Close, GoTo
<1>17. ASSUME NEW c \in Client, Return(c) PROVE DetachedAwaited'  BY <1>17 DEF Return, GoTo
<1>18. ASSUME NEW c \in Client, TakeWhenJoined(c) PROVE DetachedAwaited'  BY <1>18 DEF TakeWhenJoined, Take
<1>19. ASSUME NEW c \in Client, LoadClosed(c) PROVE DetachedAwaited'  BY <1>19 DEF LoadClosed, Reap
<1>20. ASSUME NEW c \in Client, LoadGuards(c) PROVE DetachedAwaited'  BY <1>20 DEF LoadGuards, Reap
<1>21. ASSUME NEW c \in Client, AwaitChange(c) PROVE DetachedAwaited'  BY <1>21 DEF AwaitChange, Reap
<1>22. ASSUME NEW c \in Client, RemoveStaging(c) PROVE DetachedAwaited'
  BY <1>22 DEF RemoveStaging, Reap, Fault
<1>23. ASSUME NEW c \in Client, Kill(c) PROVE DetachedAwaited'  BY <1>23 DEF Kill, GoTo, Fault
<1>24. ASSUME NEW w \in Writer, SpawnTask(w) PROVE DetachedAwaited'
  BY <1>24 DEF SpawnTask, Awaits, Runs, HeldBy, Materializes
<1>25. ASSUME NEW w \in Writer, SpawnGit(w) PROVE DetachedAwaited'
  BY <1>25 DEF SpawnGit, Awaits, Runs, HeldBy, Materializes
<1>26. ASSUME NEW w \in Writer, SpawnDetached(w) PROVE DetachedAwaited'
  BY <1>26 DEF SpawnDetached, Awaits, Runs, HeldBy, Materializes
<1>27. ASSUME NEW w \in Writer, Unwinds(w) PROVE DetachedAwaited'  BY <1>27 DEF Unwinds
<1>28. ASSUME NEW w \in Writer, Ends(w) PROVE DetachedAwaited'
  BY <1>28 DEF Ends, Awaits, Runs, HeldBy, Materializes
<1>29. ASSUME NEW w \in Writer, Join(w) PROVE DetachedAwaited'  BY <1>29 DEF Join
<1>30. ASSUME NEW w \in Writer, DropPush(w) PROVE DetachedAwaited'  BY <1>30 DEF DropPush
<1>31. ASSUME NEW w \in Writer, DropFinish(w) PROVE DetachedAwaited'  BY <1>31 DEF DropFinish
<1>32. CASE UNCHANGED stagingVars  BY <1>32 DEF stagingVars
<1> QED
  BY <1>1, <1>2, <1>3, <1>4, <1>5, <1>6, <1>7, <1>8, <1>9, <1>10, <1>11, <1>12, <1>13, <1>14, <1>15, <1>16,
     <1>17, <1>18, <1>19, <1>20, <1>21, <1>22, <1>23, <1>24, <1>25, <1>26, <1>27, <1>28, <1>29, <1>30, <1>31, <1>32
  DEF StagingNext, ClientStep, WriterStep, ReaperStep

\* The last drain ends only when nobody writes: what a closed clone still has to
\* wait for is pending, in the batch, or held by a task that is.
LEMMA QuietKept ==
  StagingInv /\ [StagingNext]_stagingVars => QuietAtEnd'
<1> SUFFICES ASSUME StagingInv, [StagingNext]_stagingVars PROVE QuietAtEnd'  OBVIOUS
<1> USE Constants DEF StagingInv, StagingTypeOK, Before, Staging, ClosedFirst, WritersHeld, Active, Held,
   QuietAtEnd, fileVars, scanVars, guardVars, reapVars
<1>1. ASSUME NEW c \in Client, CheckTarget(c) PROVE QuietAtEnd'  BY <1>1 DEF CheckTarget, GoTo
<1>2. ASSUME NEW c \in Client, PlanMade(c) PROVE QuietAtEnd'  BY <1>2 DEF PlanMade, GoTo
<1>3. ASSUME NEW c \in Client, PlanFails(c) PROVE QuietAtEnd'  BY <1>3 DEF PlanFails, GoTo
<1>4. ASSUME NEW c \in Client, List(c) PROVE QuietAtEnd'  BY <1>4 DEF List, GoTo
<1>5. ASSUME NEW c \in Client, OpenMarker(c) PROVE QuietAtEnd'  BY <1>5 DEF OpenMarker
<1>6. ASSUME NEW c \in Client, TryLockMarker(c) PROVE QuietAtEnd'  BY <1>6 DEF TryLockMarker
<1>7. ASSUME NEW c \in Client, Clean(c) PROVE QuietAtEnd'  BY <1>7 DEF Clean, Fault
<1>8. ASSUME NEW c \in Client, MakeDir(c) PROVE QuietAtEnd'  BY <1>8 DEF MakeDir, GoTo
<1>9. ASSUME NEW c \in Client, CreateMarker(c) PROVE QuietAtEnd'  BY <1>9 DEF CreateMarker, GoTo
<1>10. ASSUME NEW c \in Client, LockMarker(c) PROVE QuietAtEnd'  BY <1>10 DEF LockMarker, GoTo
<1>11. ASSUME NEW c \in Client, SignMarker(c) PROVE QuietAtEnd'  BY <1>11 DEF SignMarker, GoTo
<1>12. ASSUME NEW c \in Client, StageFails(c) PROVE QuietAtEnd'  BY <1>12 DEF StageFails, GoTo, Leave, Fault
<1>13. ASSUME NEW c \in Client, MaterializeFails(c) PROVE QuietAtEnd'
  BY <1>13 DEF MaterializeFails, Materializes, GoTo, Leave, Runs, HeldBy, Materializes
<1>14. ASSUME NEW c \in Client, Cancel(c) PROVE QuietAtEnd'
  BY <1>14 DEF Cancel, GoTo, Leave, Runs, HeldBy, Materializes
<1>15. ASSUME NEW c \in Client, Publish(c) PROVE QuietAtEnd'
  BY <1>15 DEF Publish, GoTo, Leave, Runs, HeldBy, Materializes
<1>16. ASSUME NEW c \in Client, Close(c) PROVE QuietAtEnd'  BY <1>16 DEF Close, GoTo
<1>17. ASSUME NEW c \in Client, Return(c) PROVE QuietAtEnd'  BY <1>17 DEF Return, GoTo
<1>18. ASSUME NEW c \in Client, TakeWhenJoined(c) PROVE QuietAtEnd'
  <2> SUFFICES ASSUME NEW w \in Writer \ Detached, reaper[c] = "last", pending[c] = {}, ClientOf(w) = c, Active(w)
               PROVE FALSE
    BY <1>18 DEF TakeWhenJoined, Take
  <2>1. closed[c] /\ at[c] # "dead"  OBVIOUS
  <2>2. \A v \in Writer \ Detached : Active(v) /\ ClientOf(v) = c => guard[v] = "held"
    BY <1>18, <2>1 DEF TakeWhenJoined
  <2>3. \A v \in Writer : Held(v) /\ ClientOf(v) = c => Holder[v] \in Async /\ Active(Holder[v])
    BY <2>1
  <2>4. Holder[w] \in Async /\ Active(Holder[w])  BY <2>2, <2>3
  <2>5. Holder[w] \in Writer \ Detached /\ ClientOf(Holder[w]) = c /\ Holder[Holder[w]] \notin Async
    BY <2>4
  <2>6. Held(Holder[w])  BY <2>2, <2>4, <2>5
  <2> QED  BY <2>3, <2>5, <2>6
<1>19. ASSUME NEW c \in Client, LoadClosed(c) PROVE QuietAtEnd'  BY <1>19 DEF LoadClosed, Reap
<1>20. ASSUME NEW c \in Client, LoadGuards(c) PROVE QuietAtEnd'  BY <1>20 DEF LoadGuards, Reap
<1>21. ASSUME NEW c \in Client, AwaitChange(c) PROVE QuietAtEnd'  BY <1>21 DEF AwaitChange, Reap
<1>22. ASSUME NEW c \in Client, RemoveStaging(c) PROVE QuietAtEnd'  BY <1>22 DEF RemoveStaging, Reap, Fault
<1>23. ASSUME NEW c \in Client, Kill(c) PROVE QuietAtEnd'  BY <1>23 DEF Kill, GoTo, Fault
<1>24. ASSUME NEW w \in Writer, SpawnTask(w) PROVE QuietAtEnd'
  BY <1>24 DEF SpawnTask, Runs, HeldBy, Materializes
<1>25. ASSUME NEW w \in Writer, SpawnGit(w) PROVE QuietAtEnd'
  BY <1>25 DEF SpawnGit, Runs, HeldBy, Materializes
<1>26. ASSUME NEW w \in Writer, SpawnDetached(w) PROVE QuietAtEnd'
  BY <1>26 DEF SpawnDetached, Runs, HeldBy, Materializes
<1>27. ASSUME NEW w \in Writer, Unwinds(w) PROVE QuietAtEnd'  BY <1>27 DEF Unwinds
<1>28. ASSUME NEW w \in Writer, Ends(w) PROVE QuietAtEnd'  BY <1>28 DEF Ends, Runs, HeldBy, Materializes
<1>29. ASSUME NEW w \in Writer, Join(w) PROVE QuietAtEnd'  BY <1>29 DEF Join
<1>30. ASSUME NEW w \in Writer, DropPush(w) PROVE QuietAtEnd'  BY <1>30 DEF DropPush
<1>31. ASSUME NEW w \in Writer, DropFinish(w) PROVE QuietAtEnd'  BY <1>31 DEF DropFinish
<1>32. CASE UNCHANGED stagingVars  BY <1>32 DEF stagingVars
<1> QED
  BY <1>1, <1>2, <1>3, <1>4, <1>5, <1>6, <1>7, <1>8, <1>9, <1>10, <1>11, <1>12, <1>13, <1>14, <1>15, <1>16,
     <1>17, <1>18, <1>19, <1>20, <1>21, <1>22, <1>23, <1>24, <1>25, <1>26, <1>27, <1>28, <1>29, <1>30, <1>31, <1>32
  DEF StagingNext, ClientStep, WriterStep, ReaperStep

\* A guard is let go only after its writer ended or was handed to the reaper.
LEMMA HeldKept ==
  StagingInv /\ [StagingNext]_stagingVars => WritersHeld'
<1> SUFFICES ASSUME StagingInv, [StagingNext]_stagingVars PROVE WritersHeld'  OBVIOUS
<1> USE Constants DEF StagingInv, StagingTypeOK, Before, Staging, ClosedFirst, DetachedAwaited, WritersHeld,
   QuietAtEnd, Active, Held, fileVars, scanVars, guardVars, reapVars
<1>1. ASSUME NEW c \in Client, CheckTarget(c) PROVE WritersHeld'  BY <1>1 DEF CheckTarget, GoTo
<1>2. ASSUME NEW c \in Client, PlanMade(c) PROVE WritersHeld'  BY <1>2 DEF PlanMade, GoTo
<1>3. ASSUME NEW c \in Client, PlanFails(c) PROVE WritersHeld'  BY <1>3 DEF PlanFails, GoTo
<1>4. ASSUME NEW c \in Client, List(c) PROVE WritersHeld'  BY <1>4 DEF List, GoTo
<1>5. ASSUME NEW c \in Client, OpenMarker(c) PROVE WritersHeld'  BY <1>5 DEF OpenMarker
<1>6. ASSUME NEW c \in Client, TryLockMarker(c) PROVE WritersHeld'  BY <1>6 DEF TryLockMarker
<1>7. ASSUME NEW c \in Client, Clean(c) PROVE WritersHeld'  BY <1>7 DEF Clean, Fault
<1>8. ASSUME NEW c \in Client, MakeDir(c) PROVE WritersHeld'  BY <1>8 DEF MakeDir, GoTo
<1>9. ASSUME NEW c \in Client, CreateMarker(c) PROVE WritersHeld'  BY <1>9 DEF CreateMarker, GoTo
<1>10. ASSUME NEW c \in Client, LockMarker(c) PROVE WritersHeld'  BY <1>10 DEF LockMarker, GoTo
<1>11. ASSUME NEW c \in Client, SignMarker(c) PROVE WritersHeld'  BY <1>11 DEF SignMarker, GoTo
<1>12. ASSUME NEW c \in Client, StageFails(c) PROVE WritersHeld'  BY <1>12 DEF StageFails, GoTo, Leave, Fault
<1>13. ASSUME NEW c \in Client, MaterializeFails(c) PROVE WritersHeld'
  BY <1>13 DEF MaterializeFails, Materializes, GoTo, Leave, Runs, HeldBy, Materializes
<1>14. ASSUME NEW c \in Client, Cancel(c) PROVE WritersHeld'
  BY <1>14 DEF Cancel, GoTo, Leave, Runs, HeldBy, Materializes
<1>15. ASSUME NEW c \in Client, Publish(c) PROVE WritersHeld'
  BY <1>15 DEF Publish, GoTo, Leave, Runs, HeldBy, Materializes
<1>16. ASSUME NEW c \in Client, Close(c) PROVE WritersHeld'
  BY <1>16 DEF Close, GoTo, Runs, HeldBy, Materializes
<1>17. ASSUME NEW c \in Client, Return(c) PROVE WritersHeld'  BY <1>17 DEF Return, GoTo
<1>18. ASSUME NEW c \in Client, TakeWhenJoined(c) PROVE WritersHeld'  BY <1>18 DEF TakeWhenJoined, Take
<1>19. ASSUME NEW c \in Client, LoadClosed(c) PROVE WritersHeld'  BY <1>19 DEF LoadClosed, Reap
<1>20. ASSUME NEW c \in Client, LoadGuards(c) PROVE WritersHeld'  BY <1>20 DEF LoadGuards, Reap
<1>21. ASSUME NEW c \in Client, AwaitChange(c) PROVE WritersHeld'  BY <1>21 DEF AwaitChange, Reap
<1>22. ASSUME NEW c \in Client, RemoveStaging(c) PROVE WritersHeld'  BY <1>22 DEF RemoveStaging, Reap, Fault
<1>23. ASSUME NEW c \in Client, Kill(c) PROVE WritersHeld'  BY <1>23 DEF Kill, GoTo, Fault
<1>24. ASSUME NEW w \in Writer, SpawnTask(w) PROVE WritersHeld'
  BY <1>24 DEF SpawnTask, Runs, HeldBy, Materializes
<1>25. ASSUME NEW w \in Writer, SpawnGit(w) PROVE WritersHeld'
  BY <1>25 DEF SpawnGit, Runs, HeldBy, Materializes
<1>26. ASSUME NEW w \in Writer, SpawnDetached(w) PROVE WritersHeld'
  BY <1>26 DEF SpawnDetached, Runs, HeldBy, Materializes
<1>27. ASSUME NEW w \in Writer, Unwinds(w) PROVE WritersHeld'  BY <1>27 DEF Unwinds
<1>28. ASSUME NEW w \in Writer, Ends(w) PROVE WritersHeld'  BY <1>28 DEF Ends, Runs, HeldBy, Materializes
<1>29. ASSUME NEW w \in Writer, Join(w) PROVE WritersHeld'  BY <1>29 DEF Join, Runs, HeldBy, Materializes
<1>30. ASSUME NEW w \in Writer, DropPush(w) PROVE WritersHeld'
  BY <1>30 DEF DropPush, Runs, HeldBy, Materializes
<1>31. ASSUME NEW w \in Writer, DropFinish(w) PROVE WritersHeld'
  BY <1>31 DEF DropFinish, Runs, HeldBy, Materializes
<1>32. CASE UNCHANGED stagingVars  BY <1>32 DEF stagingVars
<1> QED
  BY <1>1, <1>2, <1>3, <1>4, <1>5, <1>6, <1>7, <1>8, <1>9, <1>10, <1>11, <1>12, <1>13, <1>14, <1>15, <1>16,
     <1>17, <1>18, <1>19, <1>20, <1>21, <1>22, <1>23, <1>24, <1>25, <1>26, <1>27, <1>28, <1>29, <1>30, <1>31, <1>32
  DEF StagingNext, ClientStep, WriterStep, ReaperStep

\* A directory without an owner is one that a task without a guard made again.
LEMMA DirOwnedKept ==
  StagingInv /\ [StagingNext]_stagingVars => DirOwned'
<1> SUFFICES ASSUME StagingInv, [StagingNext]_stagingVars PROVE DirOwned'  OBVIOUS
<1> USE Constants DEF StagingInv, StagingTypeOK, Before, Staging, ClosedFirst, MarkerKept, LiveStagingKept,
   DetachedAwaited, DirOwned, Left, HeldBy, fileVars, scanVars, guardVars, reapVars
<1>1. ASSUME NEW c \in Client, CheckTarget(c) PROVE DirOwned'  BY <1>1 DEF CheckTarget, GoTo
<1>2. ASSUME NEW c \in Client, PlanMade(c) PROVE DirOwned'  BY <1>2 DEF PlanMade, GoTo
<1>3. ASSUME NEW c \in Client, PlanFails(c) PROVE DirOwned'  BY <1>3 DEF PlanFails, GoTo
<1>4. ASSUME NEW c \in Client, List(c) PROVE DirOwned'  BY <1>4 DEF List, GoTo
<1>5. ASSUME NEW c \in Client, OpenMarker(c) PROVE DirOwned'  BY <1>5 DEF OpenMarker
<1>6. ASSUME NEW c \in Client, TryLockMarker(c) PROVE DirOwned'  BY <1>6 DEF TryLockMarker
<1>7. ASSUME NEW c \in Client, Clean(c) PROVE DirOwned'  BY <1>7 DEF Clean, Fault
<1>8. ASSUME NEW c \in Client, MakeDir(c) PROVE DirOwned'  BY <1>8 DEF MakeDir, GoTo
<1>9. ASSUME NEW c \in Client, CreateMarker(c) PROVE DirOwned'  BY <1>9 DEF CreateMarker, GoTo
<1>10. ASSUME NEW c \in Client, LockMarker(c) PROVE DirOwned'  BY <1>10 DEF LockMarker, GoTo
<1>11. ASSUME NEW c \in Client, SignMarker(c) PROVE DirOwned'  BY <1>11 DEF SignMarker, GoTo
<1>12. ASSUME NEW c \in Client, StageFails(c) PROVE DirOwned'  BY <1>12 DEF StageFails, GoTo, Leave, Fault
<1>13. ASSUME NEW c \in Client, MaterializeFails(c) PROVE DirOwned'
  BY <1>13 DEF MaterializeFails, Materializes, GoTo, Leave
<1>14. ASSUME NEW c \in Client, Cancel(c) PROVE DirOwned'  BY <1>14 DEF Cancel, GoTo, Leave
<1>15. ASSUME NEW c \in Client, Publish(c) PROVE DirOwned'  BY <1>15 DEF Publish, GoTo, Leave
<1>16. ASSUME NEW c \in Client, Close(c) PROVE DirOwned'  BY <1>16 DEF Close, GoTo
<1>17. ASSUME NEW c \in Client, Return(c) PROVE DirOwned'  BY <1>17 DEF Return, GoTo
<1>18. ASSUME NEW c \in Client, TakeWhenJoined(c) PROVE DirOwned'  BY <1>18 DEF TakeWhenJoined, Take
<1>19. ASSUME NEW c \in Client, LoadClosed(c) PROVE DirOwned'  BY <1>19 DEF LoadClosed, Reap
<1>20. ASSUME NEW c \in Client, LoadGuards(c) PROVE DirOwned'  BY <1>20 DEF LoadGuards, Reap
<1>21. ASSUME NEW c \in Client, AwaitChange(c) PROVE DirOwned'  BY <1>21 DEF AwaitChange, Reap
<1>22. ASSUME NEW c \in Client, RemoveStaging(c) PROVE DirOwned'  BY <1>22 DEF RemoveStaging, Reap, Fault
<1>23. ASSUME NEW c \in Client, Kill(c) PROVE DirOwned'  BY <1>23 DEF Kill, GoTo, Fault
<1>24. ASSUME NEW w \in Writer, SpawnTask(w) PROVE DirOwned'  BY <1>24 DEF SpawnTask
<1>25. ASSUME NEW w \in Writer, SpawnGit(w) PROVE DirOwned'  BY <1>25 DEF SpawnGit
<1>26. ASSUME NEW w \in Writer, SpawnDetached(w) PROVE DirOwned'  BY <1>26 DEF SpawnDetached
<1>27. ASSUME NEW w \in Writer, Unwinds(w) PROVE DirOwned'  BY <1>27 DEF Unwinds
<1>28. ASSUME NEW w \in Writer, Ends(w) PROVE DirOwned'  BY <1>28 DEF Ends
<1>29. ASSUME NEW w \in Writer, Join(w) PROVE DirOwned'  BY <1>29 DEF Join
<1>30. ASSUME NEW w \in Writer, DropPush(w) PROVE DirOwned'  BY <1>30 DEF DropPush
<1>31. ASSUME NEW w \in Writer, DropFinish(w) PROVE DirOwned'  BY <1>31 DEF DropFinish
<1>32. CASE UNCHANGED stagingVars  BY <1>32 DEF stagingVars
<1> QED
  BY <1>1, <1>2, <1>3, <1>4, <1>5, <1>6, <1>7, <1>8, <1>9, <1>10, <1>11, <1>12, <1>13, <1>14, <1>15, <1>16,
     <1>17, <1>18, <1>19, <1>20, <1>21, <1>22, <1>23, <1>24, <1>25, <1>26, <1>27, <1>28, <1>29, <1>30, <1>31, <1>32
  DEF StagingNext, ClientStep, WriterStep, ReaperStep

\* A directory that the reaper could not remove keeps its signed marker.
LEMMA LeftKept ==
  StagingInv /\ [StagingNext]_stagingVars => NothingLeft'
<1> SUFFICES ASSUME StagingInv, [StagingNext]_stagingVars PROVE NothingLeft'  OBVIOUS
<1> USE Constants DEF StagingInv, StagingTypeOK, Before, Staging, ClosedFirst, MarkerKept, LiveStagingKept,
   DetachedAwaited, DirOwned, Left, HeldBy, NothingLeft, Removable, fileVars, scanVars, guardVars, reapVars
<1>1. ASSUME NEW c \in Client, CheckTarget(c) PROVE NothingLeft'  BY <1>1 DEF CheckTarget, GoTo
<1>2. ASSUME NEW c \in Client, PlanMade(c) PROVE NothingLeft'  BY <1>2 DEF PlanMade, GoTo
<1>3. ASSUME NEW c \in Client, PlanFails(c) PROVE NothingLeft'  BY <1>3 DEF PlanFails, GoTo
<1>4. ASSUME NEW c \in Client, List(c) PROVE NothingLeft'  BY <1>4 DEF List, GoTo
<1>5. ASSUME NEW c \in Client, OpenMarker(c) PROVE NothingLeft'  BY <1>5 DEF OpenMarker
<1>6. ASSUME NEW c \in Client, TryLockMarker(c) PROVE NothingLeft'  BY <1>6 DEF TryLockMarker
<1>7. ASSUME NEW c \in Client, Clean(c) PROVE NothingLeft'  BY <1>7 DEF Clean, Fault
<1>8. ASSUME NEW c \in Client, MakeDir(c) PROVE NothingLeft'  BY <1>8 DEF MakeDir, GoTo
<1>9. ASSUME NEW c \in Client, CreateMarker(c) PROVE NothingLeft'  BY <1>9 DEF CreateMarker, GoTo
<1>10. ASSUME NEW c \in Client, LockMarker(c) PROVE NothingLeft'  BY <1>10 DEF LockMarker, GoTo
<1>11. ASSUME NEW c \in Client, SignMarker(c) PROVE NothingLeft'  BY <1>11 DEF SignMarker, GoTo
<1>12. ASSUME NEW c \in Client, StageFails(c) PROVE NothingLeft'  BY <1>12 DEF StageFails, GoTo, Leave, Fault
<1>13. ASSUME NEW c \in Client, MaterializeFails(c) PROVE NothingLeft'
  BY <1>13 DEF MaterializeFails, Materializes, GoTo, Leave
<1>14. ASSUME NEW c \in Client, Cancel(c) PROVE NothingLeft'  BY <1>14 DEF Cancel, GoTo, Leave
<1>15. ASSUME NEW c \in Client, Publish(c) PROVE NothingLeft'  BY <1>15 DEF Publish, GoTo, Leave
<1>16. ASSUME NEW c \in Client, Close(c) PROVE NothingLeft'  BY <1>16 DEF Close, GoTo
<1>17. ASSUME NEW c \in Client, Return(c) PROVE NothingLeft'  BY <1>17 DEF Return, GoTo
<1>18. ASSUME NEW c \in Client, TakeWhenJoined(c) PROVE NothingLeft'  BY <1>18 DEF TakeWhenJoined, Take
<1>19. ASSUME NEW c \in Client, LoadClosed(c) PROVE NothingLeft'  BY <1>19 DEF LoadClosed, Reap
<1>20. ASSUME NEW c \in Client, LoadGuards(c) PROVE NothingLeft'  BY <1>20 DEF LoadGuards, Reap
<1>21. ASSUME NEW c \in Client, AwaitChange(c) PROVE NothingLeft'  BY <1>21 DEF AwaitChange, Reap
<1>22. ASSUME NEW c \in Client, RemoveStaging(c) PROVE NothingLeft'  BY <1>22 DEF RemoveStaging, Reap, Fault
<1>23. ASSUME NEW c \in Client, Kill(c) PROVE NothingLeft'  BY <1>23 DEF Kill, GoTo, Fault
<1>24. ASSUME NEW w \in Writer, SpawnTask(w) PROVE NothingLeft'  BY <1>24 DEF SpawnTask
<1>25. ASSUME NEW w \in Writer, SpawnGit(w) PROVE NothingLeft'  BY <1>25 DEF SpawnGit
<1>26. ASSUME NEW w \in Writer, SpawnDetached(w) PROVE NothingLeft'  BY <1>26 DEF SpawnDetached
<1>27. ASSUME NEW w \in Writer, Unwinds(w) PROVE NothingLeft'  BY <1>27 DEF Unwinds
<1>28. ASSUME NEW w \in Writer, Ends(w) PROVE NothingLeft'  BY <1>28 DEF Ends
<1>29. ASSUME NEW w \in Writer, Join(w) PROVE NothingLeft'  BY <1>29 DEF Join
<1>30. ASSUME NEW w \in Writer, DropPush(w) PROVE NothingLeft'  BY <1>30 DEF DropPush
<1>31. ASSUME NEW w \in Writer, DropFinish(w) PROVE NothingLeft'  BY <1>31 DEF DropFinish
<1>32. CASE UNCHANGED stagingVars  BY <1>32 DEF stagingVars
<1> QED
  BY <1>1, <1>2, <1>3, <1>4, <1>5, <1>6, <1>7, <1>8, <1>9, <1>10, <1>11, <1>12, <1>13, <1>14, <1>15, <1>16,
     <1>17, <1>18, <1>19, <1>20, <1>21, <1>22, <1>23, <1>24, <1>25, <1>26, <1>27, <1>28, <1>29, <1>30, <1>31, <1>32
  DEF StagingNext, ClientStep, WriterStep, ReaperStep

\* A client whose guards do not change keeps their number.
LEMMA SameCount ==
  ASSUME NEW c \in Client, \A w \in Writer \ Git : ClientOf(w) = c => (Held(w)' <=> Held(w))
  PROVE  Cardinality(Counted(c))' = Cardinality(Counted(c))
<1>1. Counted(c)' = Counted(c)  BY DEF Counted
<1> QED  BY <1>1

\* A guard that is taken adds one, and one that is let go takes one away.
LEMMA CountChanges ==
  ASSUME NEW w \in Writer \ Git,
         \A v \in Writer \ {w} : Held(v)' <=> Held(v)
  PROVE  /\ \A c \in Client \ {ClientOf(w)} : Cardinality(Counted(c))' = Cardinality(Counted(c))
         /\ ~Held(w) /\ Held(w)' =>
              Cardinality(Counted(ClientOf(w)))' = Cardinality(Counted(ClientOf(w))) + 1
         /\ Held(w) /\ ~Held(w)' =>
              Cardinality(Counted(ClientOf(w)))' = Cardinality(Counted(ClientOf(w))) - 1
<1> DEFINE S == Counted(ClientOf(w))
<1>1. \A c \in Client \ {ClientOf(w)} : Counted(c)' = Counted(c)  BY DEF Counted
<1>2. IsFiniteSet(S)  BY Constants, FS_Subset DEF Counted
<1>3. ASSUME ~Held(w), Held(w)'  PROVE Cardinality(S') = Cardinality(S) + 1
  <2>1. S' = S \cup {w} /\ w \notin S  BY <1>3 DEF Counted
  <2> QED  BY <1>2, <2>1, FS_AddElement
<1>4. ASSUME Held(w), ~Held(w)'  PROVE Cardinality(S') = Cardinality(S) - 1
  <2>1. S' = S \ {w} /\ w \in S  BY <1>4 DEF Counted
  <2> QED  BY <1>2, <2>1, FS_RemoveElement
<1> QED  BY <1>1, <1>3, <1>4

\* active_guards is the number of guards, whatever order they go in.
LEMMA CountKept ==
  StagingInv /\ [StagingNext]_stagingVars => GuardsCounted'
<1> SUFFICES ASSUME StagingInv, [StagingNext]_stagingVars PROVE GuardsCounted'  OBVIOUS
<1> USE Constants DEF StagingInv, StagingTypeOK, DetachedAwaited, WritersHeld, GuardsCounted, fileVars,
   scanVars, guardVars, reapVars
<1>1. ASSUME NEW c \in Client, CheckTarget(c) PROVE GuardsCounted'
  BY <1>1 DEF CheckTarget, GoTo, Counted, Held
<1>2. ASSUME NEW c \in Client, PlanMade(c) PROVE GuardsCounted'  BY <1>2 DEF PlanMade, GoTo, Counted, Held
<1>3. ASSUME NEW c \in Client, PlanFails(c) PROVE GuardsCounted'  BY <1>3 DEF PlanFails, GoTo, Counted, Held
<1>4. ASSUME NEW c \in Client, List(c) PROVE GuardsCounted'  BY <1>4 DEF List, GoTo, Counted, Held
<1>5. ASSUME NEW c \in Client, OpenMarker(c) PROVE GuardsCounted'  BY <1>5 DEF OpenMarker, Counted, Held
<1>6. ASSUME NEW c \in Client, TryLockMarker(c) PROVE GuardsCounted'
  BY <1>6 DEF TryLockMarker, Counted, Held
<1>7. ASSUME NEW c \in Client, Clean(c) PROVE GuardsCounted'  BY <1>7 DEF Clean, Fault, Counted, Held
<1>8. ASSUME NEW c \in Client, MakeDir(c) PROVE GuardsCounted'  BY <1>8 DEF MakeDir, GoTo, Counted, Held
<1>9. ASSUME NEW c \in Client, CreateMarker(c) PROVE GuardsCounted'
  BY <1>9 DEF CreateMarker, GoTo, Counted, Held
<1>10. ASSUME NEW c \in Client, LockMarker(c) PROVE GuardsCounted'
  BY <1>10 DEF LockMarker, GoTo, Counted, Held
<1>11. ASSUME NEW c \in Client, SignMarker(c) PROVE GuardsCounted'
  BY <1>11 DEF SignMarker, GoTo, Counted, Held
<1>12. ASSUME NEW c \in Client, StageFails(c) PROVE GuardsCounted'
  BY <1>12 DEF StageFails, GoTo, Leave, Fault, Counted, Held
<1>13. ASSUME NEW c \in Client, MaterializeFails(c) PROVE GuardsCounted'
  BY <1>13 DEF MaterializeFails, Materializes, GoTo, Leave, Counted, Held
<1>14. ASSUME NEW c \in Client, Cancel(c) PROVE GuardsCounted'
  <2>1. \A v \in Writer \ Git : Held(v)' <=> Held(v)  BY <1>14 DEF Cancel, Held
  <2> QED  BY <1>14, <2>1, SameCount DEF Cancel
<1>15. ASSUME NEW c \in Client, Publish(c) PROVE GuardsCounted'
  BY <1>15 DEF Publish, GoTo, Leave, Counted, Held
<1>16. ASSUME NEW c \in Client, Close(c) PROVE GuardsCounted'  BY <1>16 DEF Close, GoTo, Counted, Held
<1>17. ASSUME NEW c \in Client, Return(c) PROVE GuardsCounted'  BY <1>17 DEF Return, GoTo, Counted, Held
<1>18. ASSUME NEW c \in Client, TakeWhenJoined(c) PROVE GuardsCounted'
  BY <1>18 DEF TakeWhenJoined, Take, Counted, Held
<1>19. ASSUME NEW c \in Client, LoadClosed(c) PROVE GuardsCounted'
  BY <1>19 DEF LoadClosed, Reap, Counted, Held
<1>20. ASSUME NEW c \in Client, LoadGuards(c) PROVE GuardsCounted'
  BY <1>20 DEF LoadGuards, Reap, Counted, Held
<1>21. ASSUME NEW c \in Client, AwaitChange(c) PROVE GuardsCounted'
  BY <1>21 DEF AwaitChange, Reap, Counted, Held
<1>22. ASSUME NEW c \in Client, RemoveStaging(c) PROVE GuardsCounted'
  BY <1>22 DEF RemoveStaging, Reap, Fault, Counted, Held
<1>23. ASSUME NEW c \in Client, Kill(c) PROVE GuardsCounted'
  <2>1. \A d \in Client \ {c} : \A v \in Writer \ Git : ClientOf(v) = d => (Held(v)' <=> Held(v))
    BY <1>23 DEF Kill, Held
  <2>2. Counted(c)' = {}  BY <1>23 DEF Kill, Counted, Held
  <2>3. Cardinality(Counted(c)') = 0  BY <2>2, FS_EmptySet
  <2> QED  BY <1>23, <2>1, <2>3, SameCount DEF Kill
<1>24. ASSUME NEW w \in Writer, SpawnTask(w) PROVE GuardsCounted'
  <2>1. w \in Writer \ Git /\ ~Held(w)  BY <1>24 DEF SpawnTask
  <2>2. Held(w)' /\ \A v \in Writer \ {w} : Held(v)' <=> Held(v)  BY <1>24 DEF SpawnTask, Held
  <2> QED  BY <1>24, <2>1, <2>2, CountChanges DEF SpawnTask
<1>25. ASSUME NEW w \in Writer, SpawnGit(w) PROVE GuardsCounted'
  <2>1. \A v \in Writer \ Git : Held(v)' <=> Held(v)  BY <1>25 DEF SpawnGit, Held
  <2> QED  BY <1>25, <2>1, SameCount DEF SpawnGit
<1>26. ASSUME NEW w \in Writer, SpawnDetached(w) PROVE GuardsCounted'
  BY <1>26 DEF SpawnDetached, Counted, Held
<1>27. ASSUME NEW w \in Writer, Unwinds(w) PROVE GuardsCounted'  BY <1>27 DEF Unwinds, Counted, Held
<1>28. ASSUME NEW w \in Writer, Ends(w) PROVE GuardsCounted'  BY <1>28 DEF Ends, Counted, Held
<1>29. ASSUME NEW w \in Writer, Join(w) PROVE GuardsCounted'
  <2>1. \A v \in Writer \ {w} : Held(v)' <=> Held(v)  BY <1>29 DEF Join, Held
  <2>2. CASE w \in Git
    <3>1. \A v \in Writer \ Git : Held(v)' <=> Held(v)  BY <2>1, <2>2
    <3>2. guards' = guards  BY <1>29, <2>2 DEF Join
    <3> QED  BY <3>1, <3>2, SameCount
  <2>3. CASE w \notin Git
    <3>1. Held(w) /\ ~Held(w)'  BY <1>29 DEF Join, Held
    <3> QED  BY <1>29, <2>1, <2>3, <3>1, CountChanges DEF Join
  <2> QED  BY <2>2, <2>3
<1>30. ASSUME NEW w \in Writer, DropPush(w) PROVE GuardsCounted'
  <2>1. \A v \in Writer \ Git : Held(v)' <=> Held(v)  BY <1>30 DEF DropPush, Held
  <2> QED  BY <1>30, <2>1, SameCount DEF DropPush
<1>31. ASSUME NEW w \in Writer, DropFinish(w) PROVE GuardsCounted'
  <2>1. w \in Writer \ Git /\ Held(w) /\ ~Held(w)'  BY <1>31 DEF DropFinish, Held
  <2>2. \A v \in Writer \ {w} : Held(v)' <=> Held(v)  BY <1>31 DEF DropFinish, Held
  <2> QED  BY <1>31, <2>1, <2>2, CountChanges DEF DropFinish
<1>32. CASE UNCHANGED stagingVars  BY <1>32 DEF stagingVars, Counted, Held
<1> QED
  BY <1>1, <1>2, <1>3, <1>4, <1>5, <1>6, <1>7, <1>8, <1>9, <1>10, <1>11, <1>12, <1>13, <1>14, <1>15, <1>16,
     <1>17, <1>18, <1>19, <1>20, <1>21, <1>22, <1>23, <1>24, <1>25, <1>26, <1>27, <1>28, <1>29, <1>30, <1>31, <1>32
  DEF StagingNext, ClientStep, WriterStep, ReaperStep

\* active_guards is never negative.
LEMMA CountsAreNat == StagingInv => \A c \in Client : guards[c] \in Nat
<1> SUFFICES ASSUME StagingInv, NEW c \in Client PROVE guards[c] \in Nat  OBVIOUS
<1>1. IsFiniteSet(Counted(c))  BY Constants, FS_Subset DEF Counted
<1> QED  BY <1>1, FS_CardinalityType DEF StagingInv, GuardsCounted

\* Close and every guard that is counted out leave a permit.
LEMMA WakeKept ==
  StagingInv /\ [StagingNext]_stagingVars => NoLostWakeup'
<1> SUFFICES ASSUME StagingInv, [StagingNext]_stagingVars PROVE NoLostWakeup'  OBVIOUS
<1> USE Constants, CountsAreNat DEF StagingInv, StagingTypeOK, Before, Staging, ClosedFirst, NoLostWakeup,
   fileVars, scanVars, guardVars, reapVars
<1>1. ASSUME NEW c \in Client, CheckTarget(c) PROVE NoLostWakeup'  BY <1>1 DEF CheckTarget, GoTo
<1>2. ASSUME NEW c \in Client, PlanMade(c) PROVE NoLostWakeup'  BY <1>2 DEF PlanMade, GoTo
<1>3. ASSUME NEW c \in Client, PlanFails(c) PROVE NoLostWakeup'  BY <1>3 DEF PlanFails, GoTo
<1>4. ASSUME NEW c \in Client, List(c) PROVE NoLostWakeup'  BY <1>4 DEF List, GoTo
<1>5. ASSUME NEW c \in Client, OpenMarker(c) PROVE NoLostWakeup'  BY <1>5 DEF OpenMarker
<1>6. ASSUME NEW c \in Client, TryLockMarker(c) PROVE NoLostWakeup'  BY <1>6 DEF TryLockMarker
<1>7. ASSUME NEW c \in Client, Clean(c) PROVE NoLostWakeup'  BY <1>7 DEF Clean, Fault
<1>8. ASSUME NEW c \in Client, MakeDir(c) PROVE NoLostWakeup'  BY <1>8 DEF MakeDir, GoTo
<1>9. ASSUME NEW c \in Client, CreateMarker(c) PROVE NoLostWakeup'  BY <1>9 DEF CreateMarker, GoTo
<1>10. ASSUME NEW c \in Client, LockMarker(c) PROVE NoLostWakeup'  BY <1>10 DEF LockMarker, GoTo
<1>11. ASSUME NEW c \in Client, SignMarker(c) PROVE NoLostWakeup'  BY <1>11 DEF SignMarker, GoTo
<1>12. ASSUME NEW c \in Client, StageFails(c) PROVE NoLostWakeup'
  BY <1>12 DEF StageFails, GoTo, Leave, Fault
<1>13. ASSUME NEW c \in Client, MaterializeFails(c) PROVE NoLostWakeup'
  BY <1>13 DEF MaterializeFails, Materializes, GoTo, Leave
<1>14. ASSUME NEW c \in Client, Cancel(c) PROVE NoLostWakeup'  BY <1>14 DEF Cancel, GoTo, Leave
<1>15. ASSUME NEW c \in Client, Publish(c) PROVE NoLostWakeup'  BY <1>15 DEF Publish, GoTo, Leave
<1>16. ASSUME NEW c \in Client, Close(c) PROVE NoLostWakeup'  BY <1>16 DEF Close, GoTo
<1>17. ASSUME NEW c \in Client, Return(c) PROVE NoLostWakeup'  BY <1>17 DEF Return, GoTo
<1>18. ASSUME NEW c \in Client, TakeWhenJoined(c) PROVE NoLostWakeup'  BY <1>18 DEF TakeWhenJoined, Take
<1>19. ASSUME NEW c \in Client, LoadClosed(c) PROVE NoLostWakeup'  BY <1>19 DEF LoadClosed, Reap
<1>20. ASSUME NEW c \in Client, LoadGuards(c) PROVE NoLostWakeup'  BY <1>20 DEF LoadGuards, Reap
<1>21. ASSUME NEW c \in Client, AwaitChange(c) PROVE NoLostWakeup'  BY <1>21 DEF AwaitChange, Reap
<1>22. ASSUME NEW c \in Client, RemoveStaging(c) PROVE NoLostWakeup'  BY <1>22 DEF RemoveStaging, Reap, Fault
<1>23. ASSUME NEW c \in Client, Kill(c) PROVE NoLostWakeup'  BY <1>23 DEF Kill, GoTo, Fault
<1>24. ASSUME NEW w \in Writer, SpawnTask(w) PROVE NoLostWakeup'  BY <1>24 DEF SpawnTask
<1>25. ASSUME NEW w \in Writer, SpawnGit(w) PROVE NoLostWakeup'  BY <1>25 DEF SpawnGit
<1>26. ASSUME NEW w \in Writer, SpawnDetached(w) PROVE NoLostWakeup'  BY <1>26 DEF SpawnDetached
<1>27. ASSUME NEW w \in Writer, Unwinds(w) PROVE NoLostWakeup'  BY <1>27 DEF Unwinds
<1>28. ASSUME NEW w \in Writer, Ends(w) PROVE NoLostWakeup'  BY <1>28 DEF Ends
<1>29. ASSUME NEW w \in Writer, Join(w) PROVE NoLostWakeup'  BY <1>29 DEF Join
<1>30. ASSUME NEW w \in Writer, DropPush(w) PROVE NoLostWakeup'  BY <1>30 DEF DropPush
<1>31. ASSUME NEW w \in Writer, DropFinish(w) PROVE NoLostWakeup'  BY <1>31 DEF DropFinish
<1>32. CASE UNCHANGED stagingVars  BY <1>32 DEF stagingVars
<1> QED
  BY <1>1, <1>2, <1>3, <1>4, <1>5, <1>6, <1>7, <1>8, <1>9, <1>10, <1>11, <1>12, <1>13, <1>14, <1>15, <1>16,
     <1>17, <1>18, <1>19, <1>20, <1>21, <1>22, <1>23, <1>24, <1>25, <1>26, <1>27, <1>28, <1>29, <1>30, <1>31, <1>32
  DEF StagingNext, ClientStep, WriterStep, ReaperStep

\* The invariant of the staging directories, the guards and the reaper.
THEOREM StagingInvariant == StagingSpec => []StagingInv
<1>1. StagingInit => StagingInv
  <2> SUFFICES ASSUME StagingInit PROVE StagingInv  OBVIOUS
  <2> USE Constants DEF StagingInit
  <2>1. StagingTypeOK  BY DEF StagingTypeOK, Before, Staging
  <2>2. ClosedFirst /\ MarkerKept /\ LiveStagingKept /\ DirOwned /\ DetachedAwaited /\ NothingLeft
    BY DEF ClosedFirst, MarkerKept, LiveStagingKept, DirOwned, DetachedAwaited, NothingLeft, Removable, Before,
       Staging
  <2>3. WritersHeld /\ QuietAtEnd /\ NoLostWakeup
    BY DEF WritersHeld, QuietAtEnd, NoLostWakeup, Active, Held
  <2>4. GuardsCounted
    <3>1. \A c \in Client : Counted(c) = {}  BY DEF Counted, Held
    <3> QED  BY <3>1, FS_EmptySet DEF GuardsCounted
  <2> QED  BY <2>1, <2>2, <2>3, <2>4 DEF StagingInv
<1>2. StagingInv /\ [StagingNext]_stagingVars => StagingInv'
  BY TypeKept, ClosedKept, MarkerKeptStep, LiveKept, DetachedKept, QuietKept, HeldKept, DirOwnedKept, LeftKept,
     CountKept, WakeKept DEF StagingInv
<1> QED  BY <1>1, <1>2, PTL DEF StagingSpec

\* Nobody writes into a published clone, and nobody that has a guard into staging
\* that the reaper removed: it has waited for every task and git child, also those
\* that others of them hold.
THEOREM WritersEndFirst == StagingSpec => []WritersGoFirst
<1>1. StagingInv => WritersGoFirst
  BY Constants DEF StagingInv, StagingTypeOK, QuietAtEnd, Active, WritersGoFirst
<1> QED  BY <1>1, StagingInvariant, PTL

\* However many clones look at each other's markers, none removes the staging of
\* one that is still at work.
THEOREM LiveStagingStays == StagingSpec => []LiveStagingKept
<1>1. StagingInv => LiveStagingKept  BY DEF StagingInv
<1> QED  BY <1>1, StagingInvariant, PTL

\* What the reaper leaves is marked, signed and unlocked, unless the clone was
\* cancelled in a task without a guard.
THEOREM LeftoversAreMarked == StagingSpec => []NothingLeft
<1>1. StagingInv => NothingLeft  BY DEF StagingInv
<1> QED  BY <1>1, StagingInvariant, PTL

\* The reaper never sleeps through the last wakeup.
THEOREM WakeupsArrive == StagingSpec => []NoLostWakeup
<1>1. StagingInv => NoLostWakeup  BY DEF StagingInv
<1> QED  BY <1>1, StagingInvariant, PTL
=============================================================================
