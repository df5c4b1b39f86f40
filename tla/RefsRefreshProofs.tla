-------------------------- MODULE RefsRefreshProofs --------------------------
(***************************************************************************)
(* Theorems about RefsRefresh: published refs never go back, and a Head     *)
(* that is ready has its tags published, for every number of refreshes,     *)
(* pollers, Fulls and Heads.                                                *)
(***************************************************************************)
EXTENDS RefsRefresh, TLAPS

\* What the variables hold.
RefsTypes ==
  /\ upstream \in Nat /\ mirror \in Nat /\ tags \in Nat /\ branches \in Nat
  /\ built \in [Proc -> Nat] /\ read \in [Proc -> Nat]
  /\ pc \in [Proc -> {"idle", "call", "try", "swap", "fetch", "build", "lock", "write", "unlock",
                      "recheck", "done", "probe", "probed", "await", "waiting", "passed", "ready"}]

Refs == RefsTypes /\ RefsInv

\* A task that may hold lock.refresh is no Head, and a Head is not the
\* refresh it starts.
LEMMA Tasks ==
  /\ Refresh \subseteq Proc /\ FullBuild \subseteq Proc /\ HeadBuild \subseteq Proc
  /\ HeadBuild \cap (Refresh \cup FullBuild) = {}
  /\ None \notin Proc
  /\ \A h \in HeadBuild : First(h) \in Refresh /\ First(h) # h
  /\ \A g, h \in HeadBuild : First(g) = First(h) => g = h
  /\ \A h \in HeadBuild : First(h) \notin Refresher \cup Poller \cup FullBuild
BY RefsAssumption DEF Proc, Refresh, First

\* Steps of a refresh or a Full p that only move p, and give lock.refresh to
\* p, away from p, or not at all.
LEMMA MoveKeeps ==
  ASSUME Refs, NEW p \in Refresh \cup FullBuild, NEW l, Goto(p, l),
         l \in {"call", "try", "swap", "fetch", "unlock", "recheck", "done", "probe", "probed",
                "await", "waiting", "passed"},
         pc[p] # "idle" \/ p \in Refresher \cup Poller \cup FullBuild,
         l \in Refreshing => owner' = p,
         owner' = owner \/ owner = None \/ owner = p,
         UNCHANGED <<upstream, mirror, tags, branches, built, read>>,
         refsOwner' = refsOwner \/ refsOwner = p
  PROVE  Refs'
<1> USE DEF Refs, RefsTypes
<1>1. p \in Proc /\ p \notin HeadBuild /\ pc' = [pc EXCEPT ![p] = l]
  BY Tasks DEF Goto
<1>2. /\ pc' \in [Proc -> {"idle", "call", "try", "swap", "fetch", "build", "lock", "write",
                           "unlock", "recheck", "done", "probe", "probed", "await", "waiting",
                           "passed", "ready"}]
      /\ pc'[p] = l /\ \A q \in Proc \ {p} : pc'[q] = pc[q]
  BY <1>1
<1>3. \A q \in Proc : pc'[q] = "write" =>
        refsOwner' = q /\ tags' <= read'[q] /\ read'[q] <= mirror'
  BY <1>1, <1>2 DEF RefsInv
<1>4. ASSUME NEW q \in Refresh \cup FullBuild
      PROVE  /\ pc'[q] \in Refreshing => owner' = q
             /\ pc'[q] \in {"lock", "write"} => branches' <= built'[q] /\ built'[q] <= mirror'
  <2>1. q \in Proc /\ q # None
    BY Tasks
  <2>2. CASE q = p
    BY <1>2, <2>2
  <2>3. CASE q # p
    BY <1>2, <2>1, <2>3 DEF RefsInv
  <2> QED
    BY <2>2, <2>3
<1>5. ASSUME NEW h \in HeadBuild
      PROVE  /\ pc'[h] = "lock" => built'[h] <= mirror'
             /\ pc'[h] = "write" => built'[h] <= read'[h]
             /\ pc'[h] = "ready" => built'[h] <= tags'
             /\ pc'[h] # "ready" => pc'[First(h)] = "idle"
  <2>1. h \in Proc /\ h # p /\ First(h) \in Proc
    BY <1>1, Tasks
  <2>2. pc'[h] = pc[h] /\ (pc[First(h)] = "idle" => First(h) # p)
    BY <1>2, <2>1, Tasks
  <2> QED
    BY <1>2, <2>1, <2>2 DEF RefsInv
<1>6. RefsTypes' /\ tags' <= mirror' /\ branches' <= mirror' /\ mirror' <= upstream'
  BY <1>2 DEF RefsInv
<1> QED
  BY <1>3, <1>4, <1>5, <1>6 DEF RefsInv

\* Whoever refreshes fetches and builds while it holds lock.refresh.
LEMMA FetchKeeps ==
  ASSUME Refs, NEW p \in Refresh \cup FullBuild, Fetch(p)
  PROVE  Refs'
<1>0. Refs /\ p \in Proc /\ p \notin HeadBuild /\ owner = p
  BY Tasks DEF Fetch, Refs, RefsInv, Refreshing
<1>1. CASE mirror = 0
  <2>1. Goto(p, "swap") /\ UNCHANGED <<upstream, mirror, tags, branches, built, read, owner, refsOwner>>
    BY <1>1 DEF Fetch, rowVars, lockVars
  <2> QED
    BY <1>0, <2>1, MoveKeeps DEF Fetch
<1>2. CASE mirror # 0
  <2>1. /\ pc' = [pc EXCEPT ![p] = "build"] /\ mirror' = upstream
        /\ UNCHANGED <<upstream, tags, branches, built, read, owner, refsOwner>>
    BY <1>2 DEF Fetch, rowVars, lockVars, Goto
  <2>2. mirror <= mirror'
    BY <2>1 DEF Refs, RefsInv
  <2>3. RefsTypes'
    BY <1>0, <2>1 DEF Refs, RefsTypes
  <2>4. \A h \in HeadBuild : h # p /\ h \in Proc /\ First(h) \in Proc /\ (First(h) = p => pc[First(h)] = "fetch")
    BY <1>0, Tasks DEF Fetch
  <2>5. \A q \in Proc \ {p} : pc'[q] = pc[q]
    BY <1>0, <2>1 DEF Refs, RefsTypes
  <2>6. pc'[p] = "build"
    BY <1>0, <2>1 DEF Refs, RefsTypes
  <2>7. \A n \in Nat : n <= mirror => n <= mirror'
    BY <2>2, <2>3 DEF Refs, RefsTypes
  <2>8. \A h \in HeadBuild : /\ pc'[h] = "lock" => built'[h] <= mirror'
                             /\ pc'[h] = "write" => built'[h] <= read'[h]
                             /\ pc'[h] = "ready" => built'[h] <= tags'
                             /\ pc'[h] # "ready" => pc'[First(h)] = "idle"
    BY <2>1, <2>4, <2>5, <2>7 DEF Refs, RefsTypes, RefsInv
  <2>9. \A q \in Proc : pc'[q] = "write" => refsOwner' = q /\ tags' <= read'[q] /\ read'[q] <= mirror'
    BY <2>1, <2>5, <2>6, <2>7 DEF Refs, RefsTypes, RefsInv
  <2>10. \A q \in Refresh \cup FullBuild :
           /\ pc'[q] \in Refreshing => owner' = q
           /\ pc'[q] \in {"lock", "write"} => branches' <= built'[q] /\ built'[q] <= mirror'
    BY <1>0, <2>1, <2>5, <2>6, <2>7, Tasks DEF Refs, RefsTypes, RefsInv
  <2>11. tags' <= mirror' /\ branches' <= mirror' /\ mirror' <= upstream'
    BY <2>1, <2>7 DEF Refs, RefsTypes, RefsInv
  <2> QED
    BY <2>3, <2>8, <2>9, <2>10, <2>11 DEF Refs, RefsInv
<1> QED
  BY <1>1, <1>2

\* The branches are built from the mirror, which has all that is published.
LEMMA BuildKeeps ==
  ASSUME Refs, NEW p \in Refresh \cup FullBuild, Build(p)
  PROVE  Refs'
<1>0. p \in Proc /\ p \notin HeadBuild /\ owner = p
  BY Tasks DEF Build, Refs, RefsInv, Refreshing
<1>1. /\ pc[p] = "build" /\ pc' = [pc EXCEPT ![p] = "lock"]
      /\ built' = [built EXCEPT ![p] = mirror]
      /\ UNCHANGED <<upstream, mirror, tags, branches, read, owner, refsOwner>>
  BY DEF Build, rowVars, lockVars, Goto
<1>2. RefsTypes'
  BY <1>0, <1>1 DEF Refs, RefsTypes
<1>3. /\ pc'[p] = "lock" /\ built'[p] = mirror
      /\ \A q \in Proc \ {p} : pc'[q] = pc[q] /\ built'[q] = built[q]
  BY <1>0, <1>1 DEF Refs, RefsTypes
<1>4. \A h \in HeadBuild : h # p /\ h \in Proc /\ First(h) \in Proc /\ (First(h) = p => pc[First(h)] = "build")
  BY <1>0, <1>1, Tasks
<1>5. branches <= mirror /\ mirror <= mirror
  BY DEF Refs, RefsTypes, RefsInv
<1>6. \A h \in HeadBuild : /\ pc'[h] = "lock" => built'[h] <= mirror'
                           /\ pc'[h] = "write" => built'[h] <= read'[h]
                           /\ pc'[h] = "ready" => built'[h] <= tags'
                           /\ pc'[h] # "ready" => pc'[First(h)] = "idle"
  BY <1>1, <1>3, <1>4 DEF Refs, RefsInv
<1>7. \A q \in Proc : pc'[q] = "write" => refsOwner' = q /\ tags' <= read'[q] /\ read'[q] <= mirror'
  BY <1>1, <1>3 DEF Refs, RefsInv
<1>8. \A q \in Refresh \cup FullBuild :
        /\ pc'[q] \in Refreshing => owner' = q
        /\ pc'[q] \in {"lock", "write"} => branches' <= built'[q] /\ built'[q] <= mirror'
  BY <1>0, <1>1, <1>3, <1>5, Tasks DEF Refs, RefsInv
<1> QED
  BY <1>1, <1>2, <1>6, <1>7, <1>8 DEF Refs, RefsInv

\* Under lock.refs the refs are read again: they are no older than the row.
LEMMA ReadKeeps ==
  ASSUME Refs, NEW p \in Proc, ReadUnderLock(p)
  PROVE  Refs'
<1>1. /\ pc[p] = "lock" /\ pc' = [pc EXCEPT ![p] = "write"]
      /\ read' = [read EXCEPT ![p] = mirror]
      /\ refsOwner = None /\ refsOwner' = p
      /\ UNCHANGED <<upstream, mirror, tags, branches, built, owner>>
  BY DEF ReadUnderLock, rowVars, lockVars, Goto
<1>2. RefsTypes'
  BY <1>1 DEF Refs, RefsTypes
<1>3. /\ pc'[p] = "write" /\ read'[p] = mirror
      /\ \A q \in Proc \ {p} : pc'[q] = pc[q] /\ read'[q] = read[q]
  BY <1>1 DEF Refs, RefsTypes
<1>4. \A q \in Proc : pc[q] # "write"
  BY <1>1, Tasks DEF Refs, RefsInv
<1>5. tags <= mirror /\ mirror <= mirror
  BY DEF Refs, RefsTypes, RefsInv
<1>6. \A q \in Proc : pc'[q] = "write" => refsOwner' = q /\ tags' <= read'[q] /\ read'[q] <= mirror'
  BY <1>1, <1>3, <1>4, <1>5
<1>7. \A q \in Refresh \cup FullBuild :
        /\ pc'[q] \in Refreshing => owner' = q
        /\ pc'[q] \in {"lock", "write"} => branches' <= built'[q] /\ built'[q] <= mirror'
  BY <1>1, <1>3, Tasks DEF Refs, RefsInv, Refreshing
<1>8. ASSUME NEW h \in HeadBuild
      PROVE  /\ pc'[h] = "lock" => built'[h] <= mirror'
             /\ pc'[h] = "write" => built'[h] <= read'[h]
             /\ pc'[h] = "ready" => built'[h] <= tags'
             /\ pc'[h] # "ready" => pc'[First(h)] = "idle"
  <2>1. h \in Proc /\ First(h) \in Proc /\ First(h) # h
    BY Tasks
  <2>2. pc[First(h)] = "idle" => First(h) # p
    BY <1>1
  <2> QED
    BY <1>1, <1>3, <1>4, <2>1, <2>2 DEF Refs, RefsInv
<1> QED
  BY <1>1, <1>2, <1>6, <1>7, <1>8 DEF Refs, RefsInv

\* What is written is no older than the row: nobody wrote the row since the
\* tags were read, and no refresh since the branches were built.
LEMMA WriteForward ==
  ASSUME Refs, NEW p \in Proc, Write(p)
  PROVE  tags <= tags' /\ branches <= branches' /\ tags' <= mirror /\ branches' <= mirror
<1>1. pc[p] = "write" /\ tags' = read[p]
  BY DEF Write
<1>2. tags <= read[p] /\ read[p] <= mirror
  BY <1>1 DEF Refs, RefsInv
<1>3. CASE p \in HeadBuild
  <2>1. branches' = branches /\ branches <= branches /\ branches <= mirror
    BY <1>3 DEF Write, Refs, RefsTypes, RefsInv
  <2> QED
    BY <1>1, <1>2, <2>1
<1>4. CASE p \notin HeadBuild
  <2>1. branches' = built[p] /\ p \in Refresh \cup FullBuild
    BY <1>4 DEF Write, Proc
  <2>2. branches <= built[p] /\ built[p] <= mirror
    BY <1>1, <2>1 DEF Refs, RefsInv
  <2> QED
    BY <1>1, <1>2, <2>1, <2>2
<1> QED
  BY <1>3, <1>4

\* The row written, the invariant holds again.
LEMMA WriteKeeps ==
  ASSUME Refs, NEW p \in Proc, Write(p)
  PROVE  Refs'
<1>0. tags <= tags' /\ branches <= branches' /\ tags' <= mirror /\ branches' <= mirror
  BY WriteForward
<1>1. /\ pc[p] = "write" /\ tags' = read[p] /\ refsOwner = p
      /\ UNCHANGED <<upstream, mirror, built, read, owner>>
  BY DEF Write, lockVars, Refs, RefsInv
<1>2. \A q \in Proc \ {p} : pc[q] # "write"
  BY <1>1 DEF Refs, RefsInv
<1>3. /\ pc' \in [Proc -> {"idle", "call", "try", "swap", "fetch", "build", "lock", "write",
                           "unlock", "recheck", "done", "probe", "probed", "await", "waiting",
                           "passed", "ready"}]
      /\ pc'[p] = IF p \in HeadBuild THEN "ready" ELSE "swap"
      /\ \A q \in Proc \ {p} : \/ pc'[q] = pc[q]
                               \/ p \in HeadBuild /\ q = First(p) /\ pc'[q] = "call"
  <2>1. CASE p \in HeadBuild
    <3>1. pc' = [q \in Proc |-> CASE q = p -> "ready"
                                  [] q = First(p) /\ branches = 0 -> "call"
                                  [] OTHER -> pc[q]]
      BY <2>1 DEF Write
    <3>2. First(p) # p
      BY <2>1, Tasks
    <3>3. /\ pc'[p] = "ready"
          /\ \A q \in Proc \ {p} : pc'[q] = pc[q] \/ (q = First(p) /\ pc'[q] = "call")
      BY <2>1, <3>1, <3>2
    <3>4. DOMAIN pc' = Proc /\ pc' = [q \in Proc |-> pc'[q]]
      BY <3>1
    <3> QED
      BY <2>1, <3>3, <3>4 DEF Refs, RefsTypes
  <2>2. CASE p \notin HeadBuild
    <3>1. pc' = [pc EXCEPT ![p] = "swap"]
      BY <2>2 DEF Write, Goto
    <3> QED
      BY <2>2, <3>1 DEF Refs, RefsTypes
  <2> QED
    BY <2>1, <2>2
<1>4. tags' \in Nat /\ branches' \in Nat
  BY <1>1 DEF Write, Refs, RefsTypes
<1>5. RefsTypes'
  BY <1>1, <1>3, <1>4 DEF Refs, RefsTypes
<1>6. \A q \in Proc : pc'[q] # "write"
  BY <1>2, <1>3
<1>7. ASSUME NEW q \in Refresh \cup FullBuild
      PROVE  /\ pc'[q] \in Refreshing => owner' = q
             /\ pc'[q] \in {"lock", "write"} => branches' <= built'[q] /\ built'[q] <= mirror'
  <2>1. q \in Proc /\ q \notin HeadBuild
    BY Tasks
  <2>2. CASE q = p
    BY <1>1, <1>3, <2>1, <2>2 DEF Refs, RefsInv, Refreshing
  <2>3. CASE q # p /\ pc'[q] # pc[q]
    BY <1>3, <2>1, <2>3 DEF Refreshing
  <2>4. CASE q # p /\ pc'[q] = pc[q]
    <3>1. pc[q] \in Refreshing => owner = q
      BY DEF Refs, RefsInv
    <3>2. CASE p \in HeadBuild
      <4>1. branches' = branches
        BY <3>2 DEF Write
      <4> QED
        BY <1>1, <2>4, <4>1 DEF Refs, RefsInv
    <3>3. CASE p \notin HeadBuild
      <4>1. owner = p
        BY <1>1, <3>3 DEF Refs, RefsInv, Refreshing, Proc
      <4> QED
        BY <2>4, <3>1, <4>1, <1>1 DEF Refreshing
    <3> QED
      BY <3>2, <3>3
  <2> QED
    BY <2>2, <2>3, <2>4
<1>8. ASSUME NEW h \in HeadBuild
      PROVE  /\ pc'[h] = "lock" => built'[h] <= mirror'
             /\ pc'[h] = "write" => built'[h] <= read'[h]
             /\ pc'[h] = "ready" => built'[h] <= tags'
             /\ pc'[h] # "ready" => pc'[First(h)] = "idle"
  <2>1. h \in Proc /\ First(h) \in Proc /\ First(h) # h /\ First(h) \notin HeadBuild
    BY Tasks
  <2>2. CASE h = p
    BY <1>1, <1>3, <2>1, <2>2 DEF Refs, RefsInv
  <2>3. CASE h # p
    <3>1. pc'[h] = pc[h]
      BY <1>3, <2>1, <2>3, Tasks
    <3>2. pc[First(h)] = "idle" => pc'[First(h)] = "idle"
      BY <1>1, <1>3, <2>1, <2>3, Tasks
    <3>3. built[h] <= tags => built[h] <= tags'
      BY <1>0, <1>4, <2>1 DEF Refs, RefsTypes
    <3> QED
      BY <1>1, <1>6, <2>1, <3>1, <3>2, <3>3 DEF Refs, RefsInv
  <2> QED
    BY <2>2, <2>3
<1>9. tags' <= mirror' /\ branches' <= mirror' /\ mirror' <= upstream'
  BY <1>0, <1>1 DEF Refs, RefsInv
<1> QED
  BY <1>5, <1>6, <1>7, <1>8, <1>9 DEF Refs, RefsInv

\* A Head's fetch brings the mirror up to date, and its tags with it.
LEMMA HeadFetchKeeps ==
  ASSUME Refs, NEW g \in HeadBuild, HeadFetch(g)
  PROVE  Refs'
<1>1. /\ pc[g] = "idle" /\ pc' = [pc EXCEPT ![g] = "lock"]
      /\ mirror' = upstream /\ built' = [built EXCEPT ![g] = upstream]
      /\ UNCHANGED <<upstream, tags, branches, read, owner, refsOwner>>
  BY DEF HeadFetch, rowVars, lockVars, Goto
<1>2. g \in Proc /\ g \notin Refresh \cup FullBuild
  BY Tasks
<1>3. RefsTypes'
  BY <1>1, <1>2 DEF Refs, RefsTypes
<1>4. /\ pc'[g] = "lock" /\ built'[g] = upstream
      /\ \A q \in Proc \ {g} : pc'[q] = pc[q] /\ built'[q] = built[q]
  BY <1>1, <1>2 DEF Refs, RefsTypes
<1>5. \A n \in Nat : n <= mirror => n <= mirror'
  BY <1>1 DEF Refs, RefsTypes, RefsInv
<1>6. tags' <= mirror' /\ branches' <= mirror' /\ mirror' <= upstream'
  BY <1>1, <1>5 DEF Refs, RefsTypes, RefsInv
<1>7. \A q \in Proc : pc'[q] = "write" => refsOwner' = q /\ tags' <= read'[q] /\ read'[q] <= mirror'
  BY <1>1, <1>4, <1>5 DEF Refs, RefsTypes, RefsInv
<1>8. \A q \in Refresh \cup FullBuild :
        /\ pc'[q] \in Refreshing => owner' = q
        /\ pc'[q] \in {"lock", "write"} => branches' <= built'[q] /\ built'[q] <= mirror'
  BY <1>1, <1>2, <1>4, <1>5, Tasks DEF Refs, RefsTypes, RefsInv
<1>9. \A h \in HeadBuild : /\ pc'[h] = "lock" => built'[h] <= mirror'
                           /\ pc'[h] = "write" => built'[h] <= read'[h]
                           /\ pc'[h] = "ready" => built'[h] <= tags'
                           /\ pc'[h] # "ready" => pc'[First(h)] = "idle"
  <2> SUFFICES ASSUME NEW h \in HeadBuild
               PROVE  /\ pc'[h] = "lock" => built'[h] <= mirror'
                      /\ pc'[h] = "write" => built'[h] <= read'[h]
                      /\ pc'[h] = "ready" => built'[h] <= tags'
                      /\ pc'[h] # "ready" => pc'[First(h)] = "idle"
    OBVIOUS
  <2>1. h \in Proc /\ First(h) \in Proc /\ First(h) # g
    BY <1>2, Tasks
  <2>2. pc'[First(h)] = pc[First(h)]
    BY <1>4, <2>1
  <2>3. upstream <= upstream
    BY DEF Refs, RefsTypes
  <2>4. CASE h = g
    BY <1>1, <1>4, <2>2, <2>3, <2>4 DEF Refs, RefsInv
  <2>5. CASE h # g
    BY <1>1, <1>4, <1>5, <2>1, <2>2, <2>5 DEF Refs, RefsTypes, RefsInv
  <2> QED
    BY <2>4, <2>5
<1> QED
  BY <1>3, <1>6, <1>7, <1>8, <1>9 DEF Refs, RefsInv

\* A Head whose publish fails is built again.
LEMMA HeadFailsKeeps ==
  ASSUME Refs, NEW g \in HeadBuild, PassFails(g)
  PROVE  Refs'
<1>1. /\ pc[g] \in {"fetch", "build", "write"} /\ pc' = [pc EXCEPT ![g] = "idle"]
      /\ refsOwner' = IF refsOwner = g THEN None ELSE refsOwner
      /\ UNCHANGED <<upstream, mirror, tags, branches, built, read, owner>>
  BY DEF PassFails, rowVars, lockVars, Goto
<1>2. g \in Proc /\ g \notin Refresh \cup FullBuild
  BY Tasks
<1>3. RefsTypes'
  BY <1>1, <1>2 DEF Refs, RefsTypes
<1>4. pc'[g] = "idle" /\ \A q \in Proc \ {g} : pc'[q] = pc[q]
  BY <1>1, <1>2 DEF Refs, RefsTypes
<1>5. \A q \in Proc : pc'[q] = "write" => refsOwner' = q /\ tags' <= read'[q] /\ read'[q] <= mirror'
  BY <1>1, <1>4 DEF Refs, RefsInv
<1>6. \A q \in Refresh \cup FullBuild :
        /\ pc'[q] \in Refreshing => owner' = q
        /\ pc'[q] \in {"lock", "write"} => branches' <= built'[q] /\ built'[q] <= mirror'
  BY <1>1, <1>2, <1>4, Tasks DEF Refs, RefsInv
<1>7. \A h \in HeadBuild : h \in Proc /\ First(h) \in Proc /\ First(h) # g
  BY <1>2, Tasks
<1>8. \A h \in HeadBuild : /\ pc'[h] = "lock" => built'[h] <= mirror'
                           /\ pc'[h] = "write" => built'[h] <= read'[h]
                           /\ pc'[h] = "ready" => built'[h] <= tags'
                           /\ pc'[h] # "ready" => pc'[First(h)] = "idle"
  BY <1>1, <1>4, <1>7 DEF Refs, RefsInv
<1> QED
  BY <1>1, <1>3, <1>5, <1>6, <1>8 DEF Refs, RefsInv

\* Every step of a refresh, or of a Full that refreshes.
LEMMA RefreshKeeps ==
  ASSUME Refs, NEW p \in Refresh \cup FullBuild, RefreshStep(p)
  PROVE  Refs'
<1> USE DEF rowVars, lockVars, taskVars, Refreshing
<1>0. p \in Proc /\ p \notin HeadBuild /\ (pc[p] \in Refreshing => owner = p)
  BY Tasks DEF Refs, RefsInv
<1>1. CASE Request(p)
  BY <1>1, MoveKeeps DEF Request
<1>2. CASE TryLock(p)
  <2>1. Returned(p) \in {"done", "await", "passed"}
    BY DEF Returned
  <2> QED
    BY <1>2, <2>1, MoveKeeps DEF TryLock
<1>3. CASE Swap(p)
  BY <1>0, <1>3, MoveKeeps DEF Swap
<1>4. CASE Fetch(p)
  BY <1>4, FetchKeeps
<1>5. CASE Build(p)
  BY <1>5, BuildKeeps
<1>6. CASE ReadUnderLock(p)
  BY <1>0, <1>6, ReadKeeps
<1>7. CASE Write(p)
  BY <1>0, <1>7, WriteKeeps
<1>8. CASE PassFails(p)
  <2>1. /\ pc[p] \in {"fetch", "build", "write"} /\ Goto(p, "swap")
        /\ refsOwner' = IF refsOwner = p THEN None ELSE refsOwner
        /\ UNCHANGED <<upstream, mirror, tags, branches, built, read, owner>>
    BY <1>0, <1>8 DEF PassFails
  <2> QED
    BY <1>0, <2>1, MoveKeeps
<1>9. CASE DropLock(p)
  BY <1>0, <1>9, MoveKeeps DEF DropLock
<1>10. CASE Recheck(p)
  <2>1. Returned(p) \in {"done", "await", "passed"}
    BY DEF Returned
  <2> QED
    BY <1>10, <2>1, MoveKeeps DEF Recheck
<1> QED
  BY <1>1, <1>2, <1>3, <1>4, <1>5, <1>6, <1>7, <1>8, <1>9, <1>10 DEF RefreshStep

\* Every step of the specification.
LEMMA RefsStep ==
  ASSUME Refs, [Next]_refsVars
  PROVE  Refs'
<1> USE DEF rowVars, lockVars, taskVars, Refreshing
<1>1. ASSUME NEW r \in Refresher, Start(r) PROVE Refs'
  BY <1>1, MoveKeeps DEF Start, Refresh
<1>2. ASSUME NEW p \in Poller, Poll(p) PROVE Refs'
  BY <1>2, MoveKeeps DEF Poll, Refresh
<1>3. ASSUME NEW p \in Refresh, RefreshStep(p) PROVE Refs'
  BY <1>3, RefreshKeeps
<1>4. ASSUME NEW f \in FullBuild, Check(f) \/ FullStep(f) PROVE Refs'
  <2>0. pc[f] \in Refreshing => owner = f
    BY DEF Refs, RefsInv
  <2>1. CASE Check(f)
    BY <2>1, MoveKeeps DEF Check
  <2>2. CASE Probe(f)
    BY <2>2, MoveKeeps DEF Probe
  <2>3. CASE Probed(f)
    BY <2>0, <2>3, MoveKeeps DEF Probed
  <2>4. CASE Await(f)
    BY <2>4, MoveKeeps DEF Await
  <2>5. CASE Awaited(f)
    BY <2>5, MoveKeeps DEF Awaited
  <2>6. CASE RefreshStep(f)
    BY <2>6, RefreshKeeps
  <2> QED
    BY <1>4, <2>1, <2>2, <2>3, <2>4, <2>5, <2>6 DEF FullStep
<1>5. ASSUME NEW h \in HeadBuild, HeadFetch(h) \/ HeadStep(h) PROVE Refs'
  BY <1>5, HeadFetchKeeps, ReadKeeps, WriteKeeps, HeadFailsKeeps, Tasks DEF HeadStep
<1>6. CASE Push
  <2>1. upstream' = upstream + 1 /\ UNCHANGED <<mirror, tags, branches, built, read, pc, owner, refsOwner>>
    BY <1>6 DEF Push
  <2> QED
    BY <2>1 DEF Refs, RefsTypes, RefsInv
<1>7. CASE UNCHANGED refsVars
  BY <1>7 DEF refsVars, Refs, RefsTypes, RefsInv
<1> QED
  BY <1>1, <1>2, <1>3, <1>4, <1>5, <1>6, <1>7 DEF Next

\* Nothing is published at the start.
LEMMA RefsInit == Init => Refs
<1> SUFFICES ASSUME Init PROVE Refs
  OBVIOUS
<1>1. \A h \in HeadBuild : First(h) \in Proc
  BY Tasks
<1> QED
  BY <1>1, Tasks DEF Init, Refs, RefsTypes, RefsInv, Refreshing

\* The invariant holds in every state.
LEMMA RefsAlways == Spec => []Refs
<1>1. Refs /\ [Next]_refsVars => Refs'
  BY RefsStep
<1> QED
  BY RefsInit, <1>1, PTL DEF Spec

\* refs.rs, header: a Head that is ready never points clones at older tags
\* than its fetch brought, whatever refreshes publish before or after it.
THEOREM ReadyHeadsHaveTags == Spec => []ReadyHeadHasTags
<1>1. Refs => ReadyHeadHasTags
  BY Tasks DEF Refs, RefsTypes, RefsInv, ReadyHeadHasTags
<1> QED
  BY <1>1, RefsAlways, PTL

\* Tags and branches that clones are given never go back, although a refresh
\* builds its branches long before it publishes them and Heads publish tags
\* meanwhile.
THEOREM RefsNeverGoBack == Spec => PublishedForward
<1> DEFINE Forward == tags' >= tags /\ branches' >= branches
<1>1. ASSUME Refs, Refs', [Next]_refsVars PROVE [Forward]_refsVars
  <2> USE DEF rowVars
  <2>1. tags <= tags /\ branches <= branches
    BY <1>1 DEF Refs, RefsTypes
  <2>2. tags \in Nat /\ tags' \in Nat /\ branches \in Nat /\ branches' \in Nat
    BY <1>1 DEF Refs, RefsTypes
  <2>3. ASSUME NEW p \in Proc, Write(p) PROVE Forward
    BY <1>1, <2>2, <2>3, WriteForward
  <2>4. CASE UNCHANGED <<tags, branches>>
    BY <2>2, <2>4
  <2>5. ASSUME NEW p, RefreshStep(p) PROVE UNCHANGED <<tags, branches>> \/ Write(p)
    BY <2>5 DEF RefreshStep, Request, TryLock, Swap, Fetch, Build, ReadUnderLock, PassFails,
                DropLock, Recheck
  <2>6. ASSUME NEW f, Check(f) \/ FullStep(f) PROVE UNCHANGED <<tags, branches>> \/ Write(f)
    BY <2>5, <2>6 DEF FullStep, Check, Probe, Probed, Await, Awaited
  <2>7. ASSUME NEW h, HeadFetch(h) \/ HeadStep(h) PROVE UNCHANGED <<tags, branches>> \/ Write(h)
    BY <2>7 DEF HeadStep, HeadFetch, ReadUnderLock, PassFails
  <2>8. (\E r \in Refresher : Start(r)) \/ (\E p \in Poller : Poll(p)) \/ Push
          => UNCHANGED <<tags, branches>>
    BY DEF Start, Poll, Push
  <2>9. UNCHANGED refsVars => UNCHANGED <<tags, branches>>
    BY DEF refsVars
  <2> HIDE DEF Forward
  <2> QED
    BY <1>1, <2>3, <2>4, <2>5, <2>6, <2>7, <2>8, <2>9, Tasks DEF Next
<1>2. Refs /\ Refs' /\ [Next]_refsVars => [Forward]_refsVars
  BY <1>1
<1> QED
  BY <1>2, RefsAlways, PTL DEF Spec, PublishedForward
=============================================================================
