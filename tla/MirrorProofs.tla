---------------------------- MODULE MirrorProofs ----------------------------
(***************************************************************************)
(* Theorems about MirrorLocks, for every number of builds, commits and      *)
(* faults: the locks keep apart who must be, nobody waits in a circle, and  *)
(* the mirror holds what its readers and its refs stand for.                *)
(***************************************************************************)
EXTENDS MirrorLocks, SequenceTheorems, FiniteSetTheorems, WellFoundedInduction, TLAPS

\* A set of naturals has a least element.
LEMMA LeastNatural ==
  ASSUME NEW S, S \subseteq Nat, S # {}
  PROVE  \E m \in S : \A n \in S : m <= n
<1> DEFINE R == OpToRel(<, Nat)
<1>1. \E m \in S : \A n \in S : <<n, m>> \notin R  BY NatLessThanWellFounded, WFMin
<1>2. \A m, n \in Nat : <<n, m>> \notin R => m <= n  BY DEF OpToRel
<1> QED  BY <1>1, <1>2

-----------------------------------------------------------------------------
(* The locks.                                                               *)

Entry == [proc : Proc, alone : BOOLEAN]

\* The readers at the head of a queue: all up to the first that wants the lock
\* to itself.
LEMMA AdmissibleReaders ==
  ASSUME NEW q \in Seq(Entry), NEW held, ~(held = {} /\ q # <<>> /\ q[1].alone)
  PROVE  LET n == Admissible(held, q) IN
         /\ n \in 0..Len(q)
         /\ \A i \in 1..n : ~q[i].alone
         /\ n < Len(q) => q[n + 1].alone
<1> DEFINE shared == {k \in 0..Len(q) : \A i \in 1..k : ~q[i].alone}
           stops == {k \in 1..Len(q) : q[k].alone}
           Greatest(k) == k \in shared /\ \A other \in shared : other <= k
<1>0. Len(q) \in Nat  OBVIOUS
<1>1. \E k : Greatest(k)
  <2>1. CASE stops = {}
    <3>1. Greatest(Len(q))  BY <1>0, <2>1
    <3> QED  BY <3>1
  <2>2. CASE stops # {}
    <3>0. stops \subseteq Nat  BY <1>0
    <3>1. PICK m \in stops : \A n \in stops : m <= n
      <4> HIDE DEF stops
      <4> QED  BY <2>2, <3>0, LeastNatural
    <3>2. Greatest(m - 1)
      <4>1. m - 1 \in shared  BY <1>0, <3>1
      <4>2. ASSUME NEW k \in shared PROVE k <= m - 1  BY <1>0, <3>1, <4>2
      <4> QED  BY <4>1, <4>2
    <3> QED  BY <3>2
  <2> QED  BY <2>1, <2>2
<1>2. Admissible(held, q) = CHOOSE k \in shared : \A other \in shared : other <= k
  BY DEF Admissible
<1>3. Greatest(Admissible(held, q))  BY <1>1, <1>2
<1> DEFINE n == Admissible(held, q)
<1>4. n < Len(q) => q[n + 1].alone
  <2> SUFFICES ASSUME n < Len(q), ~q[n + 1].alone PROVE FALSE  OBVIOUS
  <2> HIDE DEF n
  <2>1. n \in 0..Len(q) /\ \A i \in 1..n : ~q[i].alone  BY <1>3 DEF n
  <2>2. n + 1 \in shared  BY <1>0, <2>1
  <2> QED  BY <1>0, <1>3, <2>1, <2>2 DEF n
<1> QED  BY <1>3, <1>4

\* HandOn gives the lock to some at the head of the queue: one that excludes all
\* others, when nobody holds it, or readers.
LEMMA HandOnTo ==
  ASSUME NEW held \in SUBSET Proc, NEW q \in Seq(Entry)
  PROVE  \E n \in 0..Len(q) :
           /\ HandOn(held, q).held = held \cup {q[i].proc : i \in 1..n}
           /\ HandOn(held, q).queue = SubSeq(q, n + 1, Len(q))
           /\ HandOn(held, q) \in LockState
           /\ IF HandOn(held, q).alone THEN n = 1 /\ held = {} /\ q[1].alone
              ELSE \A i \in 1..n : ~q[i].alone
           /\ n = 0 /\ held = {} => q = <<>>
<1> DEFINE n == Admissible(held, q)
           To(k) == /\ HandOn(held, q).held = held \cup {q[i].proc : i \in 1..k}
                    /\ HandOn(held, q).queue = SubSeq(q, k + 1, Len(q))
                    /\ HandOn(held, q) \in LockState
                    /\ IF HandOn(held, q).alone THEN k = 1 /\ held = {} /\ q[1].alone
                       ELSE \A i \in 1..k : ~q[i].alone
                    /\ k = 0 /\ held = {} => q = <<>>
<1>0. Len(q) \in Nat /\ \A i \in 1..Len(q) : q[i].proc \in Proc
  <2>1. Len(q) \in Nat /\ \A i \in 1..Len(q) : q[i] \in Entry  OBVIOUS
  <2> QED  BY <2>1 DEF Entry
<1>1. CASE held = {} /\ q # <<>> /\ q[1].alone
  <2>1. n = 1 /\ 1 \in 0..Len(q)  BY <1>0, <1>1 DEF Admissible
  <2>2. SubSeq(q, 1 + 1, Len(q)) \in Seq(Entry)  BY <1>0, <2>1
  <2>3. HandOn(held, q) = [held |-> held \cup {q[i].proc : i \in 1..1}, alone |-> TRUE,
                           queue |-> SubSeq(q, 1 + 1, Len(q))]
    <3>1. (n > 0 /\ q[1].alone) = TRUE  BY <1>1, <2>1
    <3> QED  BY <2>1, <3>1 DEF HandOn
  <2>4. {q[i].proc : i \in 1..1} \subseteq Proc  BY <1>0, <2>1
  <2>5. HandOn(held, q) \in LockState  BY <2>2, <2>3, <2>4 DEF LockState, Entry
  <2>6. To(1)  BY <1>1, <2>3, <2>5
  <2> QED  BY <2>1, <2>6
<1>2. CASE ~(held = {} /\ q # <<>> /\ q[1].alone)
  <2>1. n \in 0..Len(q) /\ (\A i \in 1..n : ~q[i].alone) /\ (n < Len(q) => q[n + 1].alone)
    BY <1>2, AdmissibleReaders
  <2> HIDE DEF n
  <2>2. SubSeq(q, n + 1, Len(q)) \in Seq(Entry)  BY <1>0, <2>1
  <2>3. HandOn(held, q) = [held |-> held \cup {q[i].proc : i \in 1..n}, alone |-> FALSE,
                           queue |-> SubSeq(q, n + 1, Len(q))]
    <3>1. (n > 0 /\ q[1].alone) = FALSE  BY <1>0, <2>1
    <3> QED  BY <3>1 DEF HandOn, n
  <2>4. {q[i].proc : i \in 1..n} \subseteq Proc  BY <1>0, <2>1
  <2>5. n = 0 /\ held = {} => q = <<>>  BY <1>0, <1>2, <2>1
  <2>6. To(n)  BY <2>1, <2>2, <2>3, <2>4, <2>5 DEF LockState, Entry
  <2> QED  BY <2>1, <2>6
<1> QED  BY <1>1, <1>2

\* HandOn serves whoever holds the lock with others and whoever queues.
LEMMA HandOnServes ==
  ASSUME NEW held \in SUBSET Proc, NEW q \in Seq(Entry), NEW users, NEW owners, NEW loners,
         held \subseteq users, owners \subseteq held, held \cap loners = {},
         \A p \in users : p \in held \/ \E i \in 1..Len(q) : q[i].proc = p,
         \A i \in 1..Len(q) :
           /\ q[i].proc \in users \ held
           /\ q[i].alone <=> q[i].proc \in loners
           /\ \A j \in 1..Len(q) : q[i].proc = q[j].proc => i = j
  PROVE  HandOn(held, q) \in LockState /\ Serves(HandOn(held, q), users, owners, loners)
<1> DEFINE lock == HandOn(held, q)
<1>0. PICK n \in 0..Len(q) :
        /\ lock.held = held \cup {q[i].proc : i \in 1..n}
        /\ lock.queue = SubSeq(q, n + 1, Len(q))
        /\ lock \in LockState
        /\ IF lock.alone THEN n = 1 /\ held = {} /\ q[1].alone ELSE \A i \in 1..n : ~q[i].alone
        /\ n = 0 /\ held = {} => q = <<>>
  BY HandOnTo
<1> HIDE DEF lock
<1>1. Len(q) \in Nat  OBVIOUS
<1>2. Len(lock.queue) = Len(q) - n /\ \A i \in 1..Len(lock.queue) : lock.queue[i] = q[n + i]
  BY <1>0, <1>1
<1>3. lock.held \subseteq users /\ owners \subseteq lock.held  BY <1>0, <1>1
<1>4. ASSUME NEW p \in users PROVE p \in lock.held \/ \E i \in 1..Len(lock.queue) : lock.queue[i].proc = p
  <2> SUFFICES ASSUME p \notin lock.held PROVE \E i \in 1..Len(lock.queue) : lock.queue[i].proc = p
    OBVIOUS
  <2>1. PICK k \in 1..Len(q) : q[k].proc = p  BY <1>0
  <2>2. k > n  BY <1>0, <1>1, <2>1
  <2>3. k - n \in 1..Len(lock.queue) /\ lock.queue[k - n] = q[k]  BY <1>0, <1>1, <1>2, <2>1, <2>2
  <2> QED  BY <2>1, <2>3
<1>5. ASSUME NEW i \in 1..Len(lock.queue)
      PROVE  /\ lock.queue[i].proc \in users \ lock.held
             /\ lock.queue[i].alone <=> lock.queue[i].proc \in loners
             /\ \A j \in 1..Len(lock.queue) : lock.queue[i].proc = lock.queue[j].proc => i = j
  <2>1. n + i \in 1..Len(q) /\ lock.queue[i] = q[n + i]  BY <1>0, <1>1, <1>2
  <2>2. \A k \in 1..n : k \in 1..Len(q) /\ q[k].proc # q[n + i].proc  BY <1>0, <1>1, <2>1
  <2>3. \A j \in 1..Len(lock.queue) : n + j \in 1..Len(q) /\ lock.queue[j] = q[n + j]
    BY <1>0, <1>1, <1>2
  <2>4. ASSUME NEW j \in 1..Len(lock.queue), lock.queue[i].proc = lock.queue[j].proc  PROVE i = j
    <3>1. n + i = n + j  BY <2>1, <2>3, <2>4
    <3> QED  BY <1>0, <1>1, <1>2, <3>1
  <2> QED  BY <1>0, <2>1, <2>2, <2>4
<1>6. IF lock.alone THEN \E p \in loners : lock.held = {p} ELSE lock.held \cap loners = {}
  <2>1. CASE lock.alone
    <3>1. lock.held = {q[1].proc} /\ 1 \in 1..Len(q)  BY <1>0, <1>1, <2>1
    <3> QED  BY <1>0, <2>1, <3>1
  <2>2. CASE ~lock.alone  BY <1>0, <1>1, <2>2
  <2> QED  BY <2>1, <2>2
<1>7. lock.held = {} => lock.queue = <<>>
  <2> SUFFICES ASSUME lock.held = {} PROVE lock.queue = <<>>  OBVIOUS
  <2>1. n = 0 /\ held = {}  BY <1>0, <1>1
  <2> QED  BY <1>0, <1>1, <2>1
<1> QED  BY <1>0, <1>3, <1>4, <1>5, <1>6, <1>7 DEF Serves, lock

\* Whoever asks for a lock gets in line, or gets it; a free lock it gets.
LEMMA AskServes ==
  ASSUME NEW lock \in LockState, NEW users, NEW owners, NEW loners, Serves(lock, users, owners, loners),
         NEW p \in Proc \ users, NEW alone \in BOOLEAN, NEW others,
         alone <=> p \in others, \A r \in users : r \in others <=> r \in loners
  PROVE  /\ InLine(lock, p, alone) \in LockState
         /\ Serves(InLine(lock, p, alone), users \cup {p}, owners, others)
         /\ lock.held = {} => p \in InLine(lock, p, alone).held
<1> DEFINE entry == [proc |-> p, alone |-> alone]
           q == Append(lock.queue, entry)
<1>0. lock.held \subseteq Proc /\ lock.alone \in BOOLEAN /\ lock.queue \in Seq(Entry)
  BY DEF LockState, Entry
<1>1. entry \in Entry /\ entry.proc = p /\ entry.alone = alone  BY DEF Entry
<1>2. /\ q \in Seq(Entry) /\ Len(q) = Len(lock.queue) + 1 /\ Len(lock.queue) \in Nat
      /\ q[Len(lock.queue) + 1] = entry
      /\ \A i \in 1..Len(lock.queue) : q[i] = lock.queue[i]
  BY <1>0, <1>1
<1> HIDE DEF entry, q
<1>3. \A r \in users \cup {p} : r \in lock.held \/ \E i \in 1..Len(q) : q[i].proc = r
  BY <1>1, <1>2 DEF Serves
<1>4. \A i \in 1..Len(q) :
        /\ q[i].proc \in (users \cup {p}) \ lock.held
        /\ q[i].alone <=> q[i].proc \in others
        /\ \A j \in 1..Len(q) : q[i].proc = q[j].proc => i = j
  <2>1. \A i \in 1..Len(q) : i \in 1..Len(lock.queue) \/ i = Len(lock.queue) + 1  BY <1>2
  <2> TAKE i \in 1..Len(q)
  <2>2. CASE i \in 1..Len(lock.queue)
    <3>1. q[i].proc \in users \ lock.held /\ (q[i].alone <=> q[i].proc \in others)
      BY <1>2, <2>2 DEF Serves
    <3>2. ASSUME NEW j \in 1..Len(q), q[i].proc = q[j].proc PROVE i = j
      <4>1. CASE j \in 1..Len(lock.queue)  BY <1>2, <2>2, <3>2, <4>1 DEF Serves
      <4>2. CASE j = Len(lock.queue) + 1  BY <1>1, <1>2, <3>1, <3>2, <4>2
      <4> QED  BY <2>1, <4>1, <4>2
    <3> QED  BY <3>1, <3>2
  <2>3. CASE i = Len(lock.queue) + 1
    <3>1. q[i].proc = p /\ q[i].alone = alone  BY <1>1, <1>2, <2>3
    <3>2. \A j \in 1..Len(lock.queue) : q[j].proc # p  BY <1>2 DEF Serves
    <3>3. p \notin lock.held  BY DEF Serves
    <3> QED  BY <2>1, <2>3, <3>1, <3>2, <3>3
  <2> QED  BY <2>1, <2>2, <2>3
<1>5. lock.held \subseteq users \cup {p} /\ owners \subseteq lock.held  BY DEF Serves
<1>6. CASE lock.alone \/ lock.queue # <<>>
  <2>1. InLine(lock, p, alone) = [lock EXCEPT !.queue = q]  BY <1>6 DEF InLine, q, entry
  <2>2. /\ InLine(lock, p, alone) \in LockState
        /\ InLine(lock, p, alone).held = lock.held /\ InLine(lock, p, alone).alone = lock.alone
        /\ InLine(lock, p, alone).queue = q
    BY <1>2, <2>1 DEF LockState, Entry
  <2>3. lock.held # {}  BY <1>6 DEF Serves
  <2>4. IF lock.alone THEN \E r \in others : lock.held = {r} ELSE lock.held \cap others = {}
    BY DEF Serves
  <2> QED  BY <1>3, <1>4, <1>5, <2>2, <2>3, <2>4 DEF Serves
<1>7. CASE ~(lock.alone \/ lock.queue # <<>>)
  <2>1. InLine(lock, p, alone) = HandOn(lock.held, q)  BY <1>7 DEF InLine, q, entry
  <2>2. lock.held \cap others = {}  BY <1>7 DEF Serves
  <2>3. Serves(HandOn(lock.held, q), users \cup {p}, owners, others) /\ HandOn(lock.held, q) \in LockState
    <3> DEFINE held == lock.held
               all == users \cup {p}
    <3>1. /\ held \in SUBSET Proc /\ held \subseteq all /\ owners \subseteq held /\ held \cap others = {}
          /\ \A r \in all : r \in held \/ \E i \in 1..Len(q) : q[i].proc = r
          /\ \A i \in 1..Len(q) : /\ q[i].proc \in all \ held
                                  /\ q[i].alone <=> q[i].proc \in others
                                  /\ \A j \in 1..Len(q) : q[i].proc = q[j].proc => i = j
      BY <1>0, <1>3, <1>4, <1>5, <2>2
    <3> HIDE DEF held, all
    <3>2. HandOn(held, q) \in LockState /\ Serves(HandOn(held, q), all, owners, others)
      BY <1>2, <3>1, HandOnServes
    <3> QED  BY <3>2 DEF held, all
  <2>4. ASSUME lock.held = {} PROVE p \in HandOn(lock.held, q).held
    <3>1. Len(q) = 1 /\ q[1] = entry /\ q # <<>>  BY <1>2, <1>7
    <3>2. PICK n \in 0..Len(q) :
                            /\ HandOn(lock.held, q).held = lock.held \cup {q[i].proc : i \in 1..n}
                            /\ n = 0 /\ lock.held = {} => q = <<>>
      <4>1. lock.held \in SUBSET Proc /\ q \in Seq(Entry)  BY <1>0, <1>2
      <4> QED  BY <4>1, HandOnTo
    <3>3. n = 1
      <4>1. n \in 0..1  BY <3>1, <3>2
      <4>2. n # 0  BY <2>4, <3>1, <3>2
      <4> QED  BY <4>1, <4>2
    <3> QED  BY <1>1, <3>1, <3>2, <3>3
  <2> QED  BY <2>1, <2>3, <2>4
<1> QED  BY <1>6, <1>7

\* Whoever lets go of a lock leaves it to the others.
LEMMA ReleaseServes ==
  ASSUME NEW lock \in LockState, NEW users, NEW owners, NEW loners, Serves(lock, users, owners, loners),
         NEW p \in lock.held
  PROVE  LetGo(lock, p) \in LockState /\ Serves(LetGo(lock, p), users \ {p}, owners \ {p}, loners)
<1>0. lock.held \subseteq Proc /\ lock.queue \in Seq(Entry)  BY DEF LockState, Entry
<1>1. (lock.held \ {p}) \cap loners = {}  BY DEF Serves
<1>2. lock.held \ {p} \subseteq users \ {p} /\ owners \ {p} \subseteq lock.held \ {p}  BY DEF Serves
<1>3. \A r \in users \ {p} : r \in lock.held \ {p} \/ \E i \in 1..Len(lock.queue) : lock.queue[i].proc = r
  BY DEF Serves
<1>4. \A i \in 1..Len(lock.queue) :
        /\ lock.queue[i].proc \in (users \ {p}) \ (lock.held \ {p})
        /\ lock.queue[i].alone <=> lock.queue[i].proc \in loners
        /\ \A j \in 1..Len(lock.queue) : lock.queue[i].proc = lock.queue[j].proc => i = j
  BY DEF Serves
<1> QED  BY <1>0, <1>1, <1>2, <1>3, <1>4, HandOnServes DEF LetGo

-----------------------------------------------------------------------------
(* The steps of a task, lock by lock.                                       *)

LockOK(l) == locks[l] \in LockState /\ Serves(locks[l], Users(l), Owners(l), Loners(l))

\* What q does with lock l does not change.
Same(q, l) ==
  /\ pc'[q] \in Uses(l) <=> pc[q] \in Uses(l)
  /\ pc'[q] \in Waits(l) <=> pc[q] \in Waits(l)
  /\ pc'[q] \in Excludes(l) <=> pc[q] \in Excludes(l)

\* Only a task that has lock l comes to where it must have it.
LEMMA KeptServes ==
  ASSUME NEW l \in Lock, LockOK(l), NEW p \in Proc, \A q \in Proc \ {p} : Same(q, l),
         locks'[l] = locks[l],
         pc'[p] \in Uses(l) <=> pc[p] \in Uses(l),
         pc[p] \in Uses(l) => (pc'[p] \in Excludes(l) <=> pc[p] \in Excludes(l)),
         pc'[p] \in Uses(l) \ Waits(l) => p \in locks[l].held
  PROVE  LockOK(l)'
<1>1. Users(l)' = Users(l)  BY DEF Users, Same
<1>2. Owners(l)' \subseteq locks[l].held  BY DEF LockOK, Serves, Owners, Same
<1>3. \A q \in Users(l) : q \in Loners(l)' <=> q \in Loners(l)  BY DEF Users, Loners, Same
<1>4. locks[l].held \cap Loners(l)' = locks[l].held \cap Loners(l)  BY <1>3 DEF LockOK, Serves
<1>5. \A i \in 1..Len(locks[l].queue) :
        locks[l].queue[i].proc \in Loners(l)' <=> locks[l].queue[i].proc \in Loners(l)
  BY <1>3 DEF LockOK, Serves
<1>6. locks[l].alone => \E q \in Loners(l)' : locks[l].held = {q}  BY <1>4 DEF LockOK, Serves
<1> QED  BY <1>1, <1>2, <1>4, <1>5, <1>6 DEF LockOK, Serves

\* p asks for lock l, and goes to where it may wait for it unless it was free.
LEMMA AskedServes ==
  ASSUME NEW l \in Lock, LockOK(l), NEW p \in Proc, \A q \in Proc \ {p} : Same(q, l),
         NEW alone \in BOOLEAN, locks'[l] = InLine(locks[l], p, alone),
         pc[p] \notin Uses(l), pc'[p] \in Uses(l), alone <=> pc'[p] \in Excludes(l),
         pc'[p] \in Waits(l) \/ locks[l].held = {}
  PROVE  LockOK(l)'
<1>1. Users(l)' = Users(l) \cup {p} /\ p \notin Users(l)  BY DEF Users, Same
<1>2. (alone <=> p \in Loners(l)') /\ \A q \in Users(l) : q \in Loners(l)' <=> q \in Loners(l)
  BY <1>1 DEF Users, Loners, Same
<1>3. /\ locks'[l] \in LockState
      /\ Serves(locks'[l], Users(l) \cup {p}, Owners(l), Loners(l)')
      /\ locks[l].held = {} => p \in locks'[l].held
  BY <1>1, <1>2, AskServes DEF LockOK
<1>4. Owners(l)' \subseteq Owners(l) \cup {p}  BY DEF Owners, Same
<1>5. p \in Owners(l)' => p \in locks'[l].held  BY <1>3 DEF Owners
<1>6. Owners(l)' \subseteq locks'[l].held  BY <1>3, <1>4, <1>5 DEF Serves
<1> QED  BY <1>1, <1>3, <1>6 DEF LockOK, Serves

\* p lets go of lock l.
LEMMA ReleasedServes ==
  ASSUME NEW l \in Lock, LockOK(l), NEW p \in Proc, \A q \in Proc \ {p} : Same(q, l),
         locks'[l] = LetGo(locks[l], p), p \in locks[l].held, pc'[p] \notin Uses(l)
  PROVE  LockOK(l)'
<1>1. Users(l)' = Users(l) \ {p}  BY DEF Users, Same
<1>2. Owners(l)' \subseteq Owners(l) \ {p}  BY DEF Owners, Same
<1>3. locks'[l] \in LockState /\ Serves(locks'[l], Users(l) \ {p}, Owners(l) \ {p}, Loners(l))
  BY ReleaseServes DEF LockOK
<1>4. \A q \in Users(l)' : q \in Loners(l)' <=> q \in Loners(l)  BY <1>1 DEF Users, Loners, Same
<1> DEFINE lock == locks'[l]
<1> HIDE DEF lock
<1>5. lock.held \cap Loners(l)' = lock.held \cap Loners(l)  BY <1>1, <1>3, <1>4 DEF Serves, lock
<1>6. \A i \in 1..Len(lock.queue) : lock.queue[i].proc \in Loners(l)' <=> lock.queue[i].proc \in Loners(l)
  BY <1>1, <1>3, <1>4 DEF Serves, lock
<1>7. lock.alone => \E q \in Loners(l)' : lock.held = {q}  BY <1>3, <1>5 DEF Serves, lock
<1>8. Serves(lock, Users(l)', Owners(l)', Loners(l)')
  BY <1>1, <1>2, <1>3, <1>5, <1>6, <1>7 DEF Serves, lock
<1> QED  BY <1>3, <1>8 DEF LockOK, lock

\* p lets go of lock l, and r asks for it.
LEMMA PassedServes ==
  ASSUME NEW l \in Lock, LockOK(l), NEW p \in Proc, NEW r \in Proc \ {p},
         \A q \in Proc \ {p, r} : Same(q, l),
         NEW alone \in BOOLEAN, locks'[l] = InLine(LetGo(locks[l], p), r, alone),
         p \in locks[l].held, pc'[p] \notin Uses(l),
         pc[r] \notin Uses(l), pc'[r] \in Waits(l), pc'[r] \in Uses(l), alone <=> pc'[r] \in Excludes(l)
  PROVE  LockOK(l)'
<1> DEFINE between == LetGo(locks[l], p)
<1>1. between \in LockState /\ Serves(between, Users(l) \ {p}, Owners(l) \ {p}, Loners(l))
  BY ReleaseServes DEF LockOK
<1> HIDE DEF between
<1>2. Users(l)' = (Users(l) \ {p}) \cup {r} /\ r \notin Users(l)  BY DEF Users, Same
<1>3. (alone <=> r \in Loners(l)') /\ \A q \in Users(l) \ {p} : q \in Loners(l)' <=> q \in Loners(l)
  BY <1>2 DEF Users, Loners, Same
<1>4. locks'[l] \in LockState /\ Serves(locks'[l], Users(l)', Owners(l) \ {p}, Loners(l)')
  <2>1. locks'[l] = InLine(between, r, alone)  BY DEF between
  <2>2. r \in Proc \ (Users(l) \ {p})  BY <1>2
  <2> QED  BY <1>1, <1>2, <1>3, <2>1, <2>2, AskServes
<1>5. Owners(l)' \subseteq Owners(l) \ {p}  BY DEF Owners, Same
<1> QED  BY <1>4, <1>5 DEF LockOK, Serves

-----------------------------------------------------------------------------
(* The steps of a task, all locks together.                                 *)

\* The labels, lock by lock.
LEMMA Labels ==
  /\ Label = {"idle", "refs", "compact", "graph", "reading", "writing", "fetching", "packed", "using", "tags",
              "compacting", "list", "await", "refread", "refwrite", "publish", "pubrefs", "rmread", "rmwrite",
              "removing"}
  /\ Uses("read") = {"reading", "writing", "fetching", "packed", "using", "tags", "compacting", "refread",
                     "refwrite", "publish", "pubrefs", "rmread", "rmwrite", "removing"}
  /\ Uses("write") = {"graph", "writing", "fetching", "packed", "compacting", "refwrite", "rmwrite", "removing"}
  /\ Uses("refs") = {"tags", "pubrefs"}
  /\ Uses("refresh") = {"list", "await", "refread", "refwrite", "publish", "pubrefs"}
  /\ Waits("read") = {"reading", "refread", "rmread"} /\ Waits("write") = {"writing", "refwrite", "rmwrite"}
  /\ Waits("refs") = {"tags", "pubrefs"} /\ Waits("refresh") = {"await"}
  /\ Excludes("read") = {"compacting", "rmread", "rmwrite", "removing"}
  /\ Excludes("write") = Label /\ Excludes("refs") = Label /\ Excludes("refresh") = Label
<1>1. Label = {"idle", "refs", "compact"} \cup Uses("read") \cup Uses("write") \cup Uses("refs")
                \cup Uses("refresh")
  BY DEF Label, Lock
<1>2. Uses("read") = {"reading", "writing", "fetching", "packed", "using", "tags", "compacting", "refread",
                      "refwrite", "publish", "pubrefs", "rmread", "rmwrite", "removing"}
  BY DEF Uses
<1>3. Uses("write") = {"graph", "writing", "fetching", "packed", "compacting", "refwrite", "rmwrite",
                       "removing"}
  BY DEF Uses
<1>4. Uses("refs") = {"tags", "pubrefs"}  BY DEF Uses
<1>5. Uses("refresh") = {"list", "await", "refread", "refwrite", "publish", "pubrefs"}  BY DEF Uses
<1>6. Label = {"idle", "refs", "compact", "graph", "reading", "writing", "fetching", "packed", "using", "tags",
               "compacting", "list", "await", "refread", "refwrite", "publish", "pubrefs", "rmread", "rmwrite",
               "removing"}
  BY <1>1, <1>2, <1>3, <1>4, <1>5
<1>7. /\ Waits("read") = {"reading", "refread", "rmread"} /\ Waits("write") = {"writing", "refwrite", "rmwrite"}
      /\ Waits("refs") = {"tags", "pubrefs"} /\ Waits("refresh") = {"await"}
  BY DEF Waits
<1>8. /\ Excludes("read") = {"compacting", "rmread", "rmwrite", "removing"}
      /\ Excludes("write") = Label /\ Excludes("refs") = Label /\ Excludes("refresh") = Label
  BY DEF Excludes
<1> QED  BY <1>2, <1>3, <1>4, <1>5, <1>6, <1>7, <1>8

\* What a step of p may do with lock l: nothing, ask for it or let it go.
Keeps(p, l) ==
  /\ locks'[l] = locks[l]
  /\ pc'[p] \in Uses(l) <=> pc[p] \in Uses(l)
  /\ pc[p] \in Uses(l) => (pc'[p] \in Excludes(l) <=> pc[p] \in Excludes(l))
  /\ pc'[p] \in Uses(l) \ Waits(l) => p \in locks[l].held
Asks(p, l, alone) ==
  /\ locks'[l] = InLine(locks[l], p, alone)
  /\ pc[p] \notin Uses(l) /\ pc'[p] \in Uses(l)
  /\ alone <=> pc'[p] \in Excludes(l)
  /\ pc'[p] \in Waits(l) \/ locks[l].held = {}
Drops(p, l) ==
  /\ locks'[l] = LetGo(locks[l], p)
  /\ p \in locks[l].held /\ pc'[p] \notin Uses(l)
Does(p, l) == Keeps(p, l) \/ (\E alone \in BOOLEAN : Asks(p, l, alone)) \/ Drops(p, l)

LocksOK == locks \in [Lock -> LockState] /\ pc \in [Proc -> Label] /\ LocksInv

\* An owner holds its lock.
LEMMA OwnerHolds ==
  ASSUME LocksOK, NEW l \in Lock, NEW p \in Proc, pc[p] \in Uses(l) \ Waits(l)
  PROVE  p \in locks[l].held
BY DEF LocksOK, LocksInv, Serves, Owners

\* Four locks in order are all locks in order.
LEMMA AllLocks ==
  ASSUME locks' = [l \in Lock |-> locks'[l]], pc' \in [Proc -> Label], \A l \in Lock : LockOK(l)'
  PROVE  LocksOK'
BY DEF LocksOK, LocksInv, LockOK

\* A step of one task leaves every lock in order.
LEMMA TaskServes ==
  ASSUME LocksOK, NEW p \in Proc, NEW label \in Label, pc' = [pc EXCEPT ![p] = label],
         locks' = [l \in Lock |-> locks'[l]], \A l \in Lock : Does(p, l)
  PROVE  LocksOK'
<1>1. \A l \in Lock : LockOK(l)  BY DEF LocksOK, LocksInv, LockOK
<1>2. \A l \in Lock : \A q \in Proc \ {p} : Same(q, l)  BY DEF LocksOK, Same
<1>3. ASSUME NEW l \in Lock PROVE LockOK(l)'
  <2>1. CASE Keeps(p, l)  BY <1>1, <1>2, <2>1, KeptServes DEF Keeps
  <2>2. ASSUME NEW alone \in BOOLEAN, Asks(p, l, alone) PROVE LockOK(l)'
    BY <1>1, <1>2, <2>2, AskedServes DEF Asks
  <2>3. CASE Drops(p, l)  BY <1>1, <1>2, <2>3, ReleasedServes DEF Drops
  <2> QED  BY <2>1, <2>2, <2>3 DEF Does
<1>4. pc' \in [Proc -> Label]  BY DEF LocksOK
<1> QED  BY <1>3, <1>4, AllLocks

\* A task lets the read lock go and starts a removal, which asks for it.
LEMMA RemovalServes ==
  ASSUME LocksOK, NEW p \in Fetcher, NEW label \in {"idle", "compact"}, pc[Remover(p)] = "idle",
         pc' = [pc EXCEPT ![p] = label, ![Remover(p)] = "rmread"],
         locks' = [l \in Lock |-> locks'[l]], p \in locks["read"].held,
         locks'["read"] = InLine(LetGo(locks["read"], p), Remover(p), TRUE),
         \A l \in Lock \ {"read"} : Does(p, l)
  PROVE  LocksOK'
<1>0. p \in Proc /\ Remover(p) \in Proc \ {p}
  BY MirrorAssumption DEF MirrorAssumption, Proc, Removers
<1> DEFINE r == Remover(p)
<1>1. pc'[p] = label /\ pc'[r] = "rmread" /\ \A q \in Proc \ {p, r} : pc'[q] = pc[q]
  BY <1>0 DEF LocksOK
<1> HIDE DEF r
<1>2. \A l \in Lock : LockOK(l)  BY DEF LocksOK, LocksInv, LockOK
<1>3. \A l \in Lock : \A q \in Proc \ {p, r} : Same(q, l)  BY <1>1 DEF Same
<1>4. LockOK("read")'
  <2>1. "read" \in Lock /\ pc[r] = "idle"  BY DEF Lock, r
  <2>2. locks'["read"] = InLine(LetGo(locks["read"], p), r, TRUE)  BY DEF r
  <2>3. /\ pc'[p] \notin Uses("read") /\ pc[r] \notin Uses("read") /\ pc'[r] \in Waits("read")
        /\ pc'[r] \in Uses("read") /\ (TRUE <=> pc'[r] \in Excludes("read"))
    BY <1>1, <2>1, Labels
  <2>4. r \in Proc \ {p}  BY <1>0 DEF r
  <2> QED  BY <1>0, <1>2, <1>3, <2>1, <2>2, <2>3, <2>4, PassedServes
<1>5. ASSUME NEW l \in Lock \ {"read"} PROVE LockOK(l)'
  <2>0. l = "write" \/ l = "refs" \/ l = "refresh"  BY DEF Lock
  <2>1. Same(r, l)
    <3>1. pc[r] = "idle"  BY DEF r
    <3> QED  BY <1>1, <2>0, <3>1, Labels DEF Same
  <2>2. \A q \in Proc \ {p} : Same(q, l)  BY <1>3, <2>1
  <2>3. CASE Keeps(p, l)  BY <1>0, <1>2, <2>2, <2>3, KeptServes DEF Keeps
  <2>4. ASSUME NEW alone \in BOOLEAN, Asks(p, l, alone) PROVE LockOK(l)'
    BY <1>0, <1>2, <2>2, <2>4, AskedServes DEF Asks
  <2>5. CASE Drops(p, l)  BY <1>0, <1>2, <2>2, <2>5, ReleasedServes DEF Drops
  <2> QED  BY <2>3, <2>4, <2>5 DEF Does
<1>6. pc' \in [Proc -> Label]
  <2>1. label \in Label /\ "rmread" \in Label  BY Labels
  <2> QED  BY <2>1 DEF LocksOK
<1> QED  BY <1>4, <1>5, <1>6, AllLocks

\* A task that ends lets its locks go, and may start a removal.
LEMMA EndServes ==
  ASSUME LocksOK, NEW p \in Fetcher, NEW label \in {"idle", "compact"}, NEW over \in BOOLEAN,
         EndWith(p, label, over), locks' = [l \in Lock |-> locks'[l]], p \in locks["read"].held,
         locks'["read"] = IF over /\ pc[Remover(p)] = "idle"
                          THEN InLine(LetGo(locks["read"], p), Remover(p), TRUE) ELSE LetGo(locks["read"], p),
         \A l \in Lock \ {"read"} :
           IF pc[p] \in Uses(l) THEN p \in locks[l].held /\ locks'[l] = LetGo(locks[l], p)
           ELSE locks'[l] = locks[l]
  PROVE  LocksOK'
<1>0. p \in Proc /\ Remover(p) \in Proc /\ Remover(p) # p
  BY MirrorAssumption DEF MirrorAssumption, Proc, Removers
<1>1. pc'[p] = label /\ \A l \in Lock : label \notin Uses(l)
  <2>1. pc'[p] = label  BY <1>0 DEF EndWith, LocksOK
  <2> QED  BY <2>1, Labels DEF Lock
<1>2. \A l \in Lock \ {"read"} : Does(p, l)
  <2> TAKE l \in Lock \ {"read"}
  <2>1. CASE pc[p] \in Uses(l)  BY <1>1, <2>1 DEF Does, Drops
  <2>2. CASE pc[p] \notin Uses(l)  BY <1>1, <2>2 DEF Does, Keeps
  <2> QED  BY <2>1, <2>2
<1>3. CASE over /\ pc[Remover(p)] = "idle"
  <2>1. pc' = [pc EXCEPT ![p] = label, ![Remover(p)] = "rmread"]  BY <1>0, <1>3 DEF EndWith, LocksOK
  <2> QED  BY <1>2, <1>3, <2>1, RemovalServes
<1>4. CASE ~(over /\ pc[Remover(p)] = "idle")
  <2>1. pc' = [pc EXCEPT ![p] = label]  BY <1>0, <1>4 DEF EndWith, LocksOK
  <2>2. Does(p, "read")  BY <1>1, <1>4 DEF Does, Drops, Lock
  <2>3. label \in Label /\ \A l \in Lock : Does(p, l)  BY <1>2, <2>2, Labels
  <2> QED  BY <1>0, <2>1, <2>3, TaskServes
<1> QED  BY <1>3, <1>4

\* A build that fails, with the write lock or without.
LEMMA FailServes ==
  ASSUME LocksOK, NEW b \in Builder, NEW over \in BOOLEAN, b \in locks["read"].held,
         pc[b] \in {"reading", "using", "writing", "fetching", "packed"},
         pc[b] \in {"writing", "fetching", "packed"} => b \in locks["write"].held,
         FailTo(b, IF pc[b] \in {"reading", "using"} THEN locks ELSE Released(locks, b, "write"), over)
  PROVE  LocksOK'
<1> DEFINE starts == over /\ pc[Remover(b)] = "idle"
           label == IF Kind[b] = "Head" THEN "idle" ELSE "compact"
           ls == IF pc[b] \in {"reading", "using"} THEN locks ELSE Released(locks, b, "write")
<1>1. label \in {"idle", "compact"} /\ EndWith(b, label, over) /\ b \in Fetcher  BY DEF FailTo, Fetcher
<1>2. locks' = IF starts THEN Asked(Released(ls, b, "read"), Remover(b), "read", TRUE)
               ELSE Released(ls, b, "read")
  BY DEF FailTo, Removal
<1> HIDE DEF starts, label
<1>3. ls = [l \in Lock |-> ls[l]] /\ ls["read"] = locks["read"] /\ ls["refs"] = locks["refs"]
      /\ ls["refresh"] = locks["refresh"]
      /\ ls["write"] = IF pc[b] \in {"reading", "using"} THEN locks["write"] ELSE LetGo(locks["write"], b)
  BY DEF LocksOK, Lock, Released
<1> HIDE DEF ls
<1>4. /\ locks' = [l \in Lock |-> locks'[l]] /\ \A l \in Lock \ {"read"} : locks'[l] = ls[l]
      /\ locks'["read"] = IF starts THEN InLine(LetGo(locks["read"], b), Remover(b), TRUE)
                          ELSE LetGo(locks["read"], b)
  BY <1>2, <1>3 DEF Lock, Asked, Released
<1>5. \A l \in Lock \ {"read"} : IF pc[b] \in Uses(l) THEN b \in locks[l].held /\ locks'[l] = LetGo(locks[l], b)
                                 ELSE locks'[l] = locks[l]
  <2> SUFFICES ASSUME NEW l \in {"write", "refs", "refresh"}
               PROVE  IF pc[b] \in Uses(l) THEN b \in locks[l].held /\ locks'[l] = LetGo(locks[l], b)
                      ELSE locks'[l] = locks[l]
    BY DEF Lock
  <2> QED  BY <1>3, <1>4, Labels DEF Lock
<1> QED  BY <1>1, <1>4, <1>5, EndServes DEF starts

\* A refresh that ends: before its publish with the write lock, after it with
\* the refs lock.
LEMMA RefreshEnds ==
  ASSUME LocksOK, NEW p \in Fetcher, NEW over \in BOOLEAN, NEW l \in {"write", "refs"},
         pc[p] = IF l = "write" THEN "refwrite" ELSE "pubrefs", p \in locks[l].held,
         EndRefresh(p, Released(locks, p, l), over)
  PROVE  LocksOK'
<1> DEFINE starts == over /\ pc[Remover(p)] = "idle"
           ls == Released(Released(locks, p, l), p, "read")
<1>0. p \in Proc /\ p \in locks["read"].held /\ p \in locks["refresh"].held
  BY Labels, OwnerHolds DEF Proc, Lock
<1>1. AfterRefresh(p) \in {"idle", "compact"} /\ EndWith(p, AfterRefresh(p), over)
  BY DEF EndRefresh, AfterRefresh
<1>2. locks' = Released(IF starts THEN Asked(ls, Remover(p), "read", TRUE) ELSE ls, p, "refresh")
  BY DEF EndRefresh, Removal
<1> HIDE DEF starts
<1>3. ls = [m \in Lock |-> ls[m]] /\ ls["read"] = LetGo(locks["read"], p)
      /\ ls[l] = LetGo(locks[l], p) /\ \A m \in Lock \ {l, "read"} : ls[m] = locks[m]
  BY DEF LocksOK, Lock, Released
<1> HIDE DEF ls
<1>4. /\ locks' = [m \in Lock |-> locks'[m]] /\ locks'["write"] = ls["write"] /\ locks'["refs"] = ls["refs"]
      /\ locks'["refresh"] = LetGo(ls["refresh"], p)
      /\ locks'["read"] = IF starts THEN InLine(ls["read"], Remover(p), TRUE) ELSE ls["read"]
  <2>1. CASE starts  BY <1>2, <1>3, <2>1 DEF Lock, Asked, Released
  <2>2. CASE ~starts  BY <1>2, <1>3, <2>2 DEF Lock, Released
  <2> QED  BY <2>1, <2>2
<1>5. \A m \in Lock \ {"read"} : IF pc[p] \in Uses(m) THEN p \in locks[m].held /\ locks'[m] = LetGo(locks[m], p)
                                 ELSE locks'[m] = locks[m]
  <2>1. CASE l = "write"
    <3>1. pc[p] \in Uses("write") /\ pc[p] \notin Uses("refs") /\ pc[p] \in Uses("refresh")  BY <2>1, Labels
    <3> QED  BY <1>0, <1>3, <1>4, <2>1, <3>1 DEF Lock
  <2>2. CASE l = "refs"
    <3>1. pc[p] \notin Uses("write") /\ pc[p] \in Uses("refs") /\ pc[p] \in Uses("refresh")  BY <2>2, Labels
    <3> QED  BY <1>0, <1>3, <1>4, <2>2, <3>1 DEF Lock
  <2> QED  BY <2>1, <2>2
<1> QED  BY <1>0, <1>1, <1>3, <1>4, <1>5, EndServes DEF starts

\* Every step leaves the locks in order.
LEMMA LocksKept ==
  LocksOK /\ mirror \in MirrorState /\ MirrorNext => LocksOK'
<1> SUFFICES ASSUME LocksOK, mirror \in MirrorState, MirrorNext PROVE LocksOK'  OBVIOUS
<1>0. Fetcher \subseteq Proc /\ Builder \subseteq Fetcher /\ Refresher \in Fetcher /\ Removers \subseteq Proc
      /\ Remover(Purger) \in Removers
  BY DEF Proc, Fetcher, Removers
<1>1. ASSUME NEW b \in Builder, Claim(b) PROVE LocksOK'
  <2>1. CASE Kind[b] = "Full" /\ Free(locks, "write")
    <3>1. pc[b] = "idle" /\ pc' = [pc EXCEPT ![b] = "graph"] /\ locks' = Asked(locks, b, "write", TRUE)
      BY <1>1, <2>1 DEF Claim, Goto
    <3>2. /\ locks' = [l \in Lock |-> locks'[l]] /\ locks'["read"] = locks["read"]
          /\ locks'["write"] = InLine(locks["write"], b, TRUE) /\ locks'["refs"] = locks["refs"]
          /\ locks'["refresh"] = locks["refresh"]
      BY <3>1 DEF LocksOK, Lock, Asked, Released
    <3>3. b \in Proc /\ pc'[b] = "graph" /\ "graph" \in Label  BY <1>0, <1>1, <2>1, <3>1, Labels DEF LocksOK
    <3>4. locks["write"].held = {}  BY <1>1, <2>1 DEF Claim, Goto, Free
    <3>5. Keeps(b, "read")  BY <3>1, <3>2, <3>3, <3>4, Labels DEF Keeps
    <3>6. Asks(b, "write", TRUE)  BY <3>1, <3>2, <3>3, <3>4, Labels DEF Asks
    <3>7. Keeps(b, "refs")  BY <3>1, <3>2, <3>3, <3>4, Labels DEF Keeps
    <3>8. Keeps(b, "refresh")  BY <3>1, <3>2, <3>3, <3>4, Labels DEF Keeps
    <3> QED  BY <3>1, <3>2, <3>3, <3>5, <3>6, <3>7, <3>8, TaskServes DEF Does, Lock
  <2>2. CASE ~(Kind[b] = "Full" /\ Free(locks, "write"))
    <3>1. pc[b] = "idle" /\ pc' = [pc EXCEPT ![b] = "reading"] /\ locks' = Asked(locks, b, "read", FALSE)
      BY <1>1, <2>2 DEF Claim, Goto
    <3>2. /\ locks' = [l \in Lock |-> locks'[l]] /\ locks'["read"] = InLine(locks["read"], b, FALSE)
          /\ locks'["write"] = locks["write"] /\ locks'["refs"] = locks["refs"]
          /\ locks'["refresh"] = locks["refresh"]
      BY <3>1 DEF LocksOK, Lock, Asked, Released
    <3>3. b \in Proc /\ pc'[b] = "reading" /\ "reading" \in Label  BY <1>0, <1>1, <2>2, <3>1, Labels DEF LocksOK
    <3>4. Asks(b, "read", FALSE)  BY <3>1, <3>2, <3>3, Labels DEF Asks
    <3>5. Keeps(b, "write")  BY <3>1, <3>2, <3>3, Labels DEF Keeps
    <3>6. Keeps(b, "refs")  BY <3>1, <3>2, <3>3, Labels DEF Keeps
    <3>7. Keeps(b, "refresh")  BY <3>1, <3>2, <3>3, Labels DEF Keeps
    <3> QED  BY <3>1, <3>2, <3>3, <3>4, <3>5, <3>6, <3>7, TaskServes DEF Does, Lock
  <2> QED  BY <1>1, <2>1, <2>2 DEF Claim, Goto
<1>2. ASSUME NEW b \in Builder, Graph(b) PROVE LocksOK'
  <2>1. pc[b] = "graph" /\ pc' = [pc EXCEPT ![b] = "reading"]
        /\ locks' = Asked(Released(locks, b, "write"), b, "read", FALSE)
    BY <1>2 DEF Graph, Goto
  <2>2. /\ locks' = [l \in Lock |-> locks'[l]] /\ locks'["read"] = InLine(locks["read"], b, FALSE)
        /\ locks'["write"] = LetGo(locks["write"], b) /\ locks'["refs"] = locks["refs"]
        /\ locks'["refresh"] = locks["refresh"]
    BY <2>1 DEF LocksOK, Lock, Asked, Released
  <2>3. b \in Proc /\ pc'[b] = "reading" /\ "reading" \in Label  BY <1>0, <1>2, <2>1, Labels DEF LocksOK
  <2>4. b \in locks["write"].held  BY <2>1, <2>3, Labels, OwnerHolds DEF Lock
  <2>5. Asks(b, "read", FALSE)  BY <2>1, <2>2, <2>3, <2>4, Labels DEF Asks
  <2>6. Drops(b, "write")  BY <2>1, <2>2, <2>3, <2>4, Labels DEF Drops
  <2>7. Keeps(b, "refs")  BY <2>1, <2>2, <2>3, <2>4, Labels DEF Keeps
  <2>8. Keeps(b, "refresh")  BY <2>1, <2>2, <2>3, <2>4, Labels DEF Keeps
  <2> QED  BY <2>1, <2>2, <2>3, <2>5, <2>6, <2>7, <2>8, TaskServes DEF Does, Lock
<1>3. ASSUME NEW b \in Builder, CheckFetched(b) PROVE LocksOK'
  <2>1. CASE FailTo(b, locks, TRUE)
    BY <1>3, <2>1, FailServes DEF CheckFetched, Holds
  <2>2. CASE Use(b, locks, mirror.packs)
    <3>1. pc[b] = "reading" /\ pc' = [pc EXCEPT ![b] = "using"] /\ locks' = locks
      BY <1>3, <2>2 DEF CheckFetched, Use, Goto
    <3>2. /\ locks' = [l \in Lock |-> locks'[l]] /\ locks'["read"] = locks["read"]
          /\ locks'["write"] = locks["write"] /\ locks'["refs"] = locks["refs"]
          /\ locks'["refresh"] = locks["refresh"]
      BY <3>1 DEF LocksOK, Lock, Asked, Released
    <3>3. b \in Proc /\ pc'[b] = "using" /\ "using" \in Label  BY <1>0, <1>3, <2>2, <3>1, Labels DEF LocksOK
    <3>4. b \in locks["read"].held  BY <1>3, <2>2 DEF CheckFetched, Use, Goto, Holds
    <3>5. Keeps(b, "read")  BY <3>1, <3>2, <3>3, <3>4, Labels DEF Keeps
    <3>6. Keeps(b, "write")  BY <3>1, <3>2, <3>3, <3>4, Labels DEF Keeps
    <3>7. Keeps(b, "refs")  BY <3>1, <3>2, <3>3, <3>4, Labels DEF Keeps
    <3>8. Keeps(b, "refresh")  BY <3>1, <3>2, <3>3, <3>4, Labels DEF Keeps
    <3> QED  BY <3>1, <3>2, <3>3, <3>5, <3>6, <3>7, <3>8, TaskServes DEF Does, Lock
  <2>3. CASE locks' = Asked(locks, b, "write", TRUE) /\ Goto(b, "writing")
    <3>1. pc[b] = "reading" /\ pc' = [pc EXCEPT ![b] = "writing"] /\ locks' = Asked(locks, b, "write", TRUE)
      BY <1>3, <2>3 DEF CheckFetched, Use, Goto
    <3>2. /\ locks' = [l \in Lock |-> locks'[l]] /\ locks'["read"] = locks["read"]
          /\ locks'["write"] = InLine(locks["write"], b, TRUE) /\ locks'["refs"] = locks["refs"]
          /\ locks'["refresh"] = locks["refresh"]
      BY <3>1 DEF LocksOK, Lock, Asked, Released
    <3>3. b \in Proc /\ pc'[b] = "writing" /\ "writing" \in Label  BY <1>0, <1>3, <2>3, <3>1, Labels DEF LocksOK
    <3>4. b \in locks["read"].held  BY <1>3, <2>3 DEF CheckFetched, Use, Goto, Holds
    <3>5. Keeps(b, "read")  BY <3>1, <3>2, <3>3, <3>4, Labels DEF Keeps
    <3>6. Asks(b, "write", TRUE)  BY <3>1, <3>2, <3>3, <3>4, Labels DEF Asks
    <3>7. Keeps(b, "refs")  BY <3>1, <3>2, <3>3, <3>4, Labels DEF Keeps
    <3>8. Keeps(b, "refresh")  BY <3>1, <3>2, <3>3, <3>4, Labels DEF Keeps
    <3> QED  BY <3>1, <3>2, <3>3, <3>5, <3>6, <3>7, <3>8, TaskServes DEF Does, Lock
  <2> QED  BY <1>3, <2>1, <2>2, <2>3 DEF CheckFetched, Use, Goto
<1>4. ASSUME NEW b \in Builder, CheckAgain(b) PROVE LocksOK'
  <2>1. CASE Use(b, Released(locks, b, "write"), mirror.packs)
    <3>1. pc[b] = "writing" /\ pc' = [pc EXCEPT ![b] = "using"] /\ locks' = Released(locks, b, "write")
      BY <1>4, <2>1 DEF CheckAgain, Use, Goto
    <3>2. /\ locks' = [l \in Lock |-> locks'[l]] /\ locks'["read"] = locks["read"]
          /\ locks'["write"] = LetGo(locks["write"], b) /\ locks'["refs"] = locks["refs"]
          /\ locks'["refresh"] = locks["refresh"]
      BY <3>1 DEF LocksOK, Lock, Asked, Released
    <3>3. b \in Proc /\ pc'[b] = "using" /\ "using" \in Label  BY <1>0, <1>4, <2>1, <3>1, Labels DEF LocksOK
    <3>4. b \in locks["write"].held  BY <1>4, <2>1 DEF CheckAgain, Use, Goto, Holds
    <3>5. b \in locks["read"].held  BY <3>1, <3>3, Labels, OwnerHolds DEF Lock
    <3>6. Keeps(b, "read")  BY <3>1, <3>2, <3>3, <3>4, <3>5, Labels DEF Keeps
    <3>7. Drops(b, "write")  BY <3>1, <3>2, <3>3, <3>4, <3>5, Labels DEF Drops
    <3>8. Keeps(b, "refs")  BY <3>1, <3>2, <3>3, <3>4, <3>5, Labels DEF Keeps
    <3>9. Keeps(b, "refresh")  BY <3>1, <3>2, <3>3, <3>4, <3>5, Labels DEF Keeps
    <3> QED  BY <3>1, <3>2, <3>3, <3>6, <3>7, <3>8, <3>9, TaskServes DEF Does, Lock
  <2>2. CASE FailTo(b, Released(locks, b, "write"), TRUE)
    BY <1>0, <1>4, <2>2, FailServes, OwnerHolds, Labels DEF CheckAgain, Holds, Lock
  <2>3. CASE UNCHANGED locks /\ Goto(b, "fetching")
    <3>1. pc[b] = "writing" /\ pc' = [pc EXCEPT ![b] = "fetching"] /\ locks' = locks
      BY <1>4, <2>3 DEF CheckAgain, Use, Goto
    <3>2. /\ locks' = [l \in Lock |-> locks'[l]] /\ locks'["read"] = locks["read"]
          /\ locks'["write"] = locks["write"] /\ locks'["refs"] = locks["refs"]
          /\ locks'["refresh"] = locks["refresh"]
      BY <3>1 DEF LocksOK, Lock, Asked, Released
    <3>3. b \in Proc /\ pc'[b] = "fetching" /\ "fetching" \in Label
      BY <1>0, <1>4, <2>3, <3>1, Labels DEF LocksOK
    <3>4. b \in locks["write"].held  BY <1>4, <2>3 DEF CheckAgain, Use, Goto, Holds
    <3>5. b \in locks["read"].held  BY <3>1, <3>3, Labels, OwnerHolds DEF Lock
    <3>6. Keeps(b, "read")  BY <3>1, <3>2, <3>3, <3>4, <3>5, Labels DEF Keeps
    <3>7. Keeps(b, "write")  BY <3>1, <3>2, <3>3, <3>4, <3>5, Labels DEF Keeps
    <3>8. Keeps(b, "refs")  BY <3>1, <3>2, <3>3, <3>4, <3>5, Labels DEF Keeps
    <3>9. Keeps(b, "refresh")  BY <3>1, <3>2, <3>3, <3>4, <3>5, Labels DEF Keeps
    <3> QED  BY <3>1, <3>2, <3>3, <3>6, <3>7, <3>8, <3>9, TaskServes DEF Does, Lock
  <2> QED  BY <1>4, <2>1, <2>2, <2>3 DEF CheckAgain, Use, Goto
<1>5. ASSUME NEW b \in Builder, FetchPack(b) PROVE LocksOK'
  <2>1. pc[b] = "fetching" /\ pc' = [pc EXCEPT ![b] = "packed"] /\ locks' = locks
    BY <1>5 DEF FetchPack, Goto
  <2>2. /\ locks' = [l \in Lock |-> locks'[l]] /\ locks'["read"] = locks["read"]
        /\ locks'["write"] = locks["write"] /\ locks'["refs"] = locks["refs"]
        /\ locks'["refresh"] = locks["refresh"]
    BY <2>1 DEF LocksOK, Lock, Asked, Released
  <2>3. b \in Proc /\ pc'[b] = "packed" /\ "packed" \in Label  BY <1>0, <1>5, <2>1, Labels DEF LocksOK
  <2>4. b \in locks["read"].held /\ b \in locks["write"].held  BY <2>1, <2>3, Labels, OwnerHolds DEF Lock
  <2>5. Keeps(b, "read")  BY <2>1, <2>2, <2>3, <2>4, Labels DEF Keeps
  <2>6. Keeps(b, "write")  BY <2>1, <2>2, <2>3, <2>4, Labels DEF Keeps
  <2>7. Keeps(b, "refs")  BY <2>1, <2>2, <2>3, <2>4, Labels DEF Keeps
  <2>8. Keeps(b, "refresh")  BY <2>1, <2>2, <2>3, <2>4, Labels DEF Keeps
  <2> QED  BY <2>1, <2>2, <2>3, <2>5, <2>6, <2>7, <2>8, TaskServes DEF Does, Lock
<1>6. ASSUME NEW b \in Builder, FetchEnds(b) PROVE LocksOK'
  <2>1. CASE Use(b, Released(locks, b, "write"), mirror.packs)
    <3>1. pc[b] = "packed" /\ pc' = [pc EXCEPT ![b] = "using"] /\ locks' = Released(locks, b, "write")
      BY <1>6, <2>1 DEF FetchEnds, Use, Goto
    <3>2. /\ locks' = [l \in Lock |-> locks'[l]] /\ locks'["read"] = locks["read"]
          /\ locks'["write"] = LetGo(locks["write"], b) /\ locks'["refs"] = locks["refs"]
          /\ locks'["refresh"] = locks["refresh"]
      BY <3>1 DEF LocksOK, Lock, Asked, Released
    <3>3. b \in Proc /\ pc'[b] = "using" /\ "using" \in Label  BY <1>0, <1>6, <2>1, <3>1, Labels DEF LocksOK
    <3>4. b \in locks["read"].held /\ b \in locks["write"].held  BY <3>1, <3>3, Labels, OwnerHolds DEF Lock
    <3>5. Keeps(b, "read")  BY <3>1, <3>2, <3>3, <3>4, Labels DEF Keeps
    <3>6. Drops(b, "write")  BY <3>1, <3>2, <3>3, <3>4, Labels DEF Drops
    <3>7. Keeps(b, "refs")  BY <3>1, <3>2, <3>3, <3>4, Labels DEF Keeps
    <3>8. Keeps(b, "refresh")  BY <3>1, <3>2, <3>3, <3>4, Labels DEF Keeps
    <3> QED  BY <3>1, <3>2, <3>3, <3>5, <3>6, <3>7, <3>8, TaskServes DEF Does, Lock
  <2>2. CASE FailTo(b, Released(locks, b, "write"), TRUE)
    BY <1>0, <1>6, <2>2, FailServes, OwnerHolds, Labels DEF FetchEnds, Lock
  <2> QED  BY <1>6, <2>1, <2>2 DEF FetchEnds, Use, Goto
<1>7. ASSUME NEW b \in Builder, FetchFails(b) PROVE LocksOK'
  BY <1>0, <1>7, FailServes, OwnerHolds, Labels DEF FetchFails, Lock
<1>8. ASSUME NEW b \in Builder, Built(b) PROVE LocksOK'
  <2>1. CASE Kind[b] = "Head"
    <3>1. pc[b] = "using" /\ pc' = [pc EXCEPT ![b] = "tags"] /\ locks' = Asked(locks, b, "refs", TRUE)
      BY <1>8, <2>1 DEF Built, Goto
    <3>2. /\ locks' = [l \in Lock |-> locks'[l]] /\ locks'["read"] = locks["read"]
          /\ locks'["write"] = locks["write"] /\ locks'["refs"] = InLine(locks["refs"], b, TRUE)
          /\ locks'["refresh"] = locks["refresh"]
      BY <3>1 DEF LocksOK, Lock, Asked, Released
    <3>3. b \in Proc /\ pc'[b] = "tags" /\ "tags" \in Label  BY <1>0, <1>8, <2>1, <3>1, Labels DEF LocksOK
    <3>4. b \in locks["read"].held  BY <3>1, <3>3, Labels, OwnerHolds DEF Lock
    <3>5. Keeps(b, "read")  BY <3>1, <3>2, <3>3, <3>4, Labels DEF Keeps
    <3>6. Keeps(b, "write")  BY <3>1, <3>2, <3>3, <3>4, Labels DEF Keeps
    <3>7. Asks(b, "refs", TRUE)  BY <3>1, <3>2, <3>3, <3>4, Labels DEF Asks
    <3>8. Keeps(b, "refresh")  BY <3>1, <3>2, <3>3, <3>4, Labels DEF Keeps
    <3> QED  BY <3>1, <3>2, <3>3, <3>5, <3>6, <3>7, <3>8, TaskServes DEF Does, Lock
  <2>2. CASE Kind[b] # "Head"
    <3>1. pc[b] = "using" /\ pc' = [pc EXCEPT ![b] = (IF Kind[b] = "Full"
          /\ ~published THEN "refs" ELSE "compact")] /\ locks' = Released(locks, b, "read")
      BY <1>8, <2>2 DEF Built, Goto
    <3>2. /\ locks' = [l \in Lock |-> locks'[l]] /\ locks'["read"] = LetGo(locks["read"], b)
          /\ locks'["write"] = locks["write"] /\ locks'["refs"] = locks["refs"]
          /\ locks'["refresh"] = locks["refresh"]
      BY <3>1 DEF LocksOK, Lock, Asked, Released
    <3>3. b \in Proc /\ pc'[b] = (IF Kind[b] = "Full" /\ ~published THEN "refs" ELSE "compact")
          /\ (IF Kind[b] = "Full" /\ ~published THEN "refs" ELSE "compact") \in Label
      BY <1>0, <1>8, <2>2, <3>1, Labels DEF LocksOK
    <3>4. b \in locks["read"].held  BY <3>1, <3>3, Labels, OwnerHolds DEF Lock
    <3>5. Drops(b, "read")  BY <3>1, <3>2, <3>3, <3>4, Labels DEF Drops
    <3>6. Keeps(b, "write")  BY <3>1, <3>2, <3>3, <3>4, Labels DEF Keeps
    <3>7. Keeps(b, "refs")  BY <3>1, <3>2, <3>3, <3>4, Labels DEF Keeps
    <3>8. Keeps(b, "refresh")  BY <3>1, <3>2, <3>3, <3>4, Labels DEF Keeps
    <3> QED  BY <3>1, <3>2, <3>3, <3>5, <3>6, <3>7, <3>8, TaskServes DEF Does, Lock
  <2> QED  BY <1>8, <2>1, <2>2 DEF Built, Goto
<1>9. ASSUME NEW b \in Builder, BuildFails(b) PROVE LocksOK'
  BY <1>0, <1>9, FailServes, OwnerHolds, Labels DEF BuildFails, Lock
<1>10. ASSUME NEW b \in Builder, PublishTags(b) PROVE LocksOK'
  <2>1. pc[b] = "tags" /\ pc' = [pc EXCEPT ![b] = "idle"]
        /\ locks' = Released(Released(locks, b, "refs"), b, "read")
    BY <1>10 DEF PublishTags, Goto
  <2>2. /\ locks' = [l \in Lock |-> locks'[l]] /\ locks'["read"] = LetGo(locks["read"], b)
        /\ locks'["write"] = locks["write"] /\ locks'["refs"] = LetGo(locks["refs"], b)
        /\ locks'["refresh"] = locks["refresh"]
    BY <2>1 DEF LocksOK, Lock, Asked, Released
  <2>3. b \in Proc /\ pc'[b] = "idle" /\ "idle" \in Label  BY <1>0, <1>10, <2>1, Labels DEF LocksOK
  <2>4. b \in locks["refs"].held  BY <1>10 DEF PublishTags, Goto, Holds
  <2>5. b \in locks["read"].held  BY <2>1, <2>3, Labels, OwnerHolds DEF Lock
  <2>6. Drops(b, "read")  BY <2>1, <2>2, <2>3, <2>4, <2>5, Labels DEF Drops
  <2>7. Keeps(b, "write")  BY <2>1, <2>2, <2>3, <2>4, <2>5, Labels DEF Keeps
  <2>8. Drops(b, "refs")  BY <2>1, <2>2, <2>3, <2>4, <2>5, Labels DEF Drops
  <2>9. Keeps(b, "refresh")  BY <2>1, <2>2, <2>3, <2>4, <2>5, Labels DEF Keeps
  <2> QED  BY <2>1, <2>2, <2>3, <2>6, <2>7, <2>8, <2>9, TaskServes DEF Does, Lock
<1>11. ASSUME NEW b \in Builder, FirstBranches(b) PROVE LocksOK'
  <2>1. CASE pc[b] = "refs" /\ Free(locks, "refresh")
    <3>1. pc[b] = "refs" /\ pc' = [pc EXCEPT ![b] = "list"] /\ locks' = Asked(locks, b, "refresh", TRUE)
      BY <1>11, <2>1 DEF FirstBranches, Goto
    <3>2. /\ locks' = [l \in Lock |-> locks'[l]] /\ locks'["read"] = locks["read"]
          /\ locks'["write"] = locks["write"] /\ locks'["refs"] = locks["refs"]
          /\ locks'["refresh"] = InLine(locks["refresh"], b, TRUE)
      BY <3>1 DEF LocksOK, Lock, Asked, Released
    <3>3. b \in Proc /\ pc'[b] = "list" /\ "list" \in Label  BY <1>0, <1>11, <2>1, <3>1, Labels DEF LocksOK
    <3>4. locks["refresh"].held = {}  BY <1>11, <2>1 DEF FirstBranches, Goto, Free
    <3>5. Keeps(b, "read")  BY <3>1, <3>2, <3>3, <3>4, Labels DEF Keeps
    <3>6. Keeps(b, "write")  BY <3>1, <3>2, <3>3, <3>4, Labels DEF Keeps
    <3>7. Keeps(b, "refs")  BY <3>1, <3>2, <3>3, <3>4, Labels DEF Keeps
    <3>8. Asks(b, "refresh", TRUE)  BY <3>1, <3>2, <3>3, <3>4, Labels DEF Asks
    <3> QED  BY <3>1, <3>2, <3>3, <3>5, <3>6, <3>7, <3>8, TaskServes DEF Does, Lock
  <2>2. CASE pc[b] = "refs" /\ ~Free(locks, "refresh")
    <3>1. pc[b] = "refs" /\ pc' = [pc EXCEPT ![b] = "await"] /\ locks' = Asked(locks, b, "refresh", TRUE)
      BY <1>11, <2>2 DEF FirstBranches, Goto
    <3>2. /\ locks' = [l \in Lock |-> locks'[l]] /\ locks'["read"] = locks["read"]
          /\ locks'["write"] = locks["write"] /\ locks'["refs"] = locks["refs"]
          /\ locks'["refresh"] = InLine(locks["refresh"], b, TRUE)
      BY <3>1 DEF LocksOK, Lock, Asked, Released
    <3>3. b \in Proc /\ pc'[b] = "await" /\ "await" \in Label  BY <1>0, <1>11, <2>2, <3>1, Labels DEF LocksOK
    <3>4. Keeps(b, "read")  BY <3>1, <3>2, <3>3, Labels DEF Keeps
    <3>5. Keeps(b, "write")  BY <3>1, <3>2, <3>3, Labels DEF Keeps
    <3>6. Keeps(b, "refs")  BY <3>1, <3>2, <3>3, Labels DEF Keeps
    <3>7. Asks(b, "refresh", TRUE)  BY <3>1, <3>2, <3>3, Labels DEF Asks
    <3> QED  BY <3>1, <3>2, <3>3, <3>4, <3>5, <3>6, <3>7, TaskServes DEF Does, Lock
  <2>3. CASE pc[b] = "await"
    <3>1. pc[b] = "await" /\ pc' = [pc EXCEPT ![b] = "compact"] /\ locks' = Released(locks, b, "refresh")
      BY <1>11, <2>3 DEF FirstBranches, Goto
    <3>2. /\ locks' = [l \in Lock |-> locks'[l]] /\ locks'["read"] = locks["read"]
          /\ locks'["write"] = locks["write"] /\ locks'["refs"] = locks["refs"]
          /\ locks'["refresh"] = LetGo(locks["refresh"], b)
      BY <3>1 DEF LocksOK, Lock, Asked, Released
    <3>3. b \in Proc /\ pc'[b] = "compact" /\ "compact" \in Label
      BY <1>0, <1>11, <2>3, <3>1, Labels DEF LocksOK
    <3>4. b \in locks["refresh"].held  BY <1>11, <2>3 DEF FirstBranches, Goto, Holds
    <3>5. Keeps(b, "read")  BY <3>1, <3>2, <3>3, <3>4, Labels DEF Keeps
    <3>6. Keeps(b, "write")  BY <3>1, <3>2, <3>3, <3>4, Labels DEF Keeps
    <3>7. Keeps(b, "refs")  BY <3>1, <3>2, <3>3, <3>4, Labels DEF Keeps
    <3>8. Drops(b, "refresh")  BY <3>1, <3>2, <3>3, <3>4, Labels DEF Drops
    <3> QED  BY <3>1, <3>2, <3>3, <3>5, <3>6, <3>7, <3>8, TaskServes DEF Does, Lock
  <2> QED  BY <1>11, <2>1, <2>2, <2>3 DEF FirstBranches, Goto
<1>12. ASSUME NEW b \in Builder, Compact(b) PROVE LocksOK'
  <2>1. CASE /\ pc[b] = "compact" /\ Goto(b, "compacting") /\ Free(locks, "read") /\ Free(locks, "write")
            /\ locks' = Asked(Asked(locks, b, "read", TRUE), b, "write", TRUE)
    <3>1. pc[b] = "compact" /\ pc' = [pc EXCEPT ![b] = "compacting"]
          /\ locks' = Asked(Asked(locks, b, "read", TRUE), b, "write", TRUE)
      BY <1>12, <2>1 DEF Compact, Goto
    <3>2. /\ locks' = [l \in Lock |-> locks'[l]] /\ locks'["read"] = InLine(locks["read"], b, TRUE)
          /\ locks'["write"] = InLine(locks["write"], b, TRUE) /\ locks'["refs"] = locks["refs"]
          /\ locks'["refresh"] = locks["refresh"]
      BY <3>1 DEF LocksOK, Lock, Asked, Released
    <3>3. b \in Proc /\ pc'[b] = "compacting" /\ "compacting" \in Label
      BY <1>0, <1>12, <2>1, <3>1, Labels DEF LocksOK
    <3>4. locks["read"].held = {} /\ locks["write"].held = {}  BY <1>12, <2>1 DEF Compact, Goto, Free
    <3>5. Asks(b, "read", TRUE)  BY <3>1, <3>2, <3>3, <3>4, Labels DEF Asks
    <3>6. Asks(b, "write", TRUE)  BY <3>1, <3>2, <3>3, <3>4, Labels DEF Asks
    <3>7. Keeps(b, "refs")  BY <3>1, <3>2, <3>3, <3>4, Labels DEF Keeps
    <3>8. Keeps(b, "refresh")  BY <3>1, <3>2, <3>3, <3>4, Labels DEF Keeps
    <3> QED  BY <3>1, <3>2, <3>3, <3>5, <3>6, <3>7, <3>8, TaskServes DEF Does, Lock
  <2>2. CASE pc[b] = "compact" /\ UNCHANGED locks /\ Goto(b, "idle")
    <3>1. pc[b] = "compact" /\ pc' = [pc EXCEPT ![b] = "idle"] /\ locks' = locks
      BY <1>12, <2>2 DEF Compact, Goto
    <3>2. /\ locks' = [l \in Lock |-> locks'[l]] /\ locks'["read"] = locks["read"]
          /\ locks'["write"] = locks["write"] /\ locks'["refs"] = locks["refs"]
          /\ locks'["refresh"] = locks["refresh"]
      BY <3>1 DEF LocksOK, Lock, Asked, Released
    <3>3. b \in Proc /\ pc'[b] = "idle" /\ "idle" \in Label  BY <1>0, <1>12, <2>2, <3>1, Labels DEF LocksOK
    <3>4. Keeps(b, "read")  BY <3>1, <3>2, <3>3, Labels DEF Keeps
    <3>5. Keeps(b, "write")  BY <3>1, <3>2, <3>3, Labels DEF Keeps
    <3>6. Keeps(b, "refs")  BY <3>1, <3>2, <3>3, Labels DEF Keeps
    <3>7. Keeps(b, "refresh")  BY <3>1, <3>2, <3>3, Labels DEF Keeps
    <3> QED  BY <3>1, <3>2, <3>3, <3>4, <3>5, <3>6, <3>7, TaskServes DEF Does, Lock
  <2>3. CASE pc[b] = "compacting"
    <3>1. pc[b] = "compacting" /\ pc' = [pc EXCEPT ![b] = "idle"]
          /\ locks' = Released(Released(locks, b, "write"), b, "read")
      BY <1>12, <2>3 DEF Compact, Goto
    <3>2. /\ locks' = [l \in Lock |-> locks'[l]] /\ locks'["read"] = LetGo(locks["read"], b)
          /\ locks'["write"] = LetGo(locks["write"], b) /\ locks'["refs"] = locks["refs"]
          /\ locks'["refresh"] = locks["refresh"]
      BY <3>1 DEF LocksOK, Lock, Asked, Released
    <3>3. b \in Proc /\ pc'[b] = "idle" /\ "idle" \in Label  BY <1>0, <1>12, <2>3, <3>1, Labels DEF LocksOK
    <3>4. b \in locks["read"].held /\ b \in locks["write"].held  BY <3>1, <3>3, Labels, OwnerHolds DEF Lock
    <3>5. Drops(b, "read")  BY <3>1, <3>2, <3>3, <3>4, Labels DEF Drops
    <3>6. Drops(b, "write")  BY <3>1, <3>2, <3>3, <3>4, Labels DEF Drops
    <3>7. Keeps(b, "refs")  BY <3>1, <3>2, <3>3, <3>4, Labels DEF Keeps
    <3>8. Keeps(b, "refresh")  BY <3>1, <3>2, <3>3, <3>4, Labels DEF Keeps
    <3> QED  BY <3>1, <3>2, <3>3, <3>5, <3>6, <3>7, <3>8, TaskServes DEF Does, Lock
  <2> QED  BY <1>12, <2>1, <2>2, <2>3 DEF Compact, Goto
<1>13. ASSUME StartRefresh PROVE LocksOK'
  <2>1. pc[Refresher] = "idle" /\ pc' = [pc EXCEPT ![Refresher] = "list"]
        /\ locks' = Asked(locks, Refresher, "refresh", TRUE)
    BY <1>13 DEF StartRefresh, Goto
  <2>2. /\ locks' = [l \in Lock |-> locks'[l]] /\ locks'["read"] = locks["read"]
        /\ locks'["write"] = locks["write"] /\ locks'["refs"] = locks["refs"]
        /\ locks'["refresh"] = InLine(locks["refresh"], Refresher, TRUE)
    BY <2>1 DEF LocksOK, Lock, Asked, Released
  <2>3. Refresher \in Proc /\ pc'[Refresher] = "list" /\ "list" \in Label
    BY <1>0, <1>13, <2>1, Labels DEF LocksOK
  <2>4. locks["refresh"].held = {}  BY <1>13 DEF StartRefresh, Goto, Free
  <2>5. Keeps(Refresher, "read")  BY <2>1, <2>2, <2>3, <2>4, Labels DEF Keeps
  <2>6. Keeps(Refresher, "write")  BY <2>1, <2>2, <2>3, <2>4, Labels DEF Keeps
  <2>7. Keeps(Refresher, "refs")  BY <2>1, <2>2, <2>3, <2>4, Labels DEF Keeps
  <2>8. Asks(Refresher, "refresh", TRUE)  BY <2>1, <2>2, <2>3, <2>4, Labels DEF Asks
  <2> QED  BY <2>1, <2>2, <2>3, <2>5, <2>6, <2>7, <2>8, TaskServes DEF Does, Lock
<1>14. ASSUME NEW p \in Fetcher, ListUpstream(p) PROVE LocksOK'
  <2>1. CASE locks' = Asked(locks, p, "read", FALSE) /\ Goto(p, "refread")
    <3>1. pc[p] = "list" /\ pc' = [pc EXCEPT ![p] = "refread"] /\ locks' = Asked(locks, p, "read", FALSE)
      BY <1>14, <2>1 DEF ListUpstream, Goto
    <3>2. /\ locks' = [l \in Lock |-> locks'[l]] /\ locks'["read"] = InLine(locks["read"], p, FALSE)
          /\ locks'["write"] = locks["write"] /\ locks'["refs"] = locks["refs"]
          /\ locks'["refresh"] = locks["refresh"]
      BY <3>1 DEF LocksOK, Lock, Asked, Released
    <3>3. p \in Proc /\ pc'[p] = "refread" /\ "refread" \in Label
      BY <1>0, <1>14, <2>1, <3>1, Labels DEF LocksOK, AfterRefresh
    <3>4. p \in locks["refresh"].held  BY <3>1, <3>3, Labels, OwnerHolds DEF Lock
    <3>5. Asks(p, "read", FALSE)  BY <3>1, <3>2, <3>3, <3>4, Labels DEF Asks, AfterRefresh
    <3>6. Keeps(p, "write")  BY <3>1, <3>2, <3>3, <3>4, Labels DEF Keeps, AfterRefresh
    <3>7. Keeps(p, "refs")  BY <3>1, <3>2, <3>3, <3>4, Labels DEF Keeps, AfterRefresh
    <3>8. Keeps(p, "refresh")  BY <3>1, <3>2, <3>3, <3>4, Labels DEF Keeps, AfterRefresh
    <3> QED  BY <3>1, <3>2, <3>3, <3>5, <3>6, <3>7, <3>8, TaskServes DEF Does, Lock
  <2>2. CASE locks' = Released(locks, p, "refresh") /\ Goto(p, AfterRefresh(p))
    <3>1. pc[p] = "list" /\ pc' = [pc EXCEPT ![p] = AfterRefresh(p)] /\ locks' = Released(locks, p, "refresh")
      BY <1>14, <2>2 DEF ListUpstream, Goto
    <3>2. /\ locks' = [l \in Lock |-> locks'[l]] /\ locks'["read"] = locks["read"]
          /\ locks'["write"] = locks["write"] /\ locks'["refs"] = locks["refs"]
          /\ locks'["refresh"] = LetGo(locks["refresh"], p)
      BY <3>1 DEF LocksOK, Lock, Asked, Released
    <3>3. p \in Proc /\ pc'[p] = AfterRefresh(p) /\ AfterRefresh(p) \in Label
      BY <1>0, <1>14, <2>2, <3>1, Labels DEF LocksOK, AfterRefresh
    <3>4. p \in locks["refresh"].held  BY <3>1, <3>3, Labels, OwnerHolds DEF Lock
    <3>5. Keeps(p, "read")  BY <3>1, <3>2, <3>3, <3>4, Labels DEF Keeps, AfterRefresh
    <3>6. Keeps(p, "write")  BY <3>1, <3>2, <3>3, <3>4, Labels DEF Keeps, AfterRefresh
    <3>7. Keeps(p, "refs")  BY <3>1, <3>2, <3>3, <3>4, Labels DEF Keeps, AfterRefresh
    <3>8. Drops(p, "refresh")  BY <3>1, <3>2, <3>3, <3>4, Labels DEF Drops, AfterRefresh
    <3> QED  BY <3>1, <3>2, <3>3, <3>5, <3>6, <3>7, <3>8, TaskServes DEF Does, Lock
  <2> QED  BY <1>14, <2>1, <2>2 DEF ListUpstream, Goto
<1>15. ASSUME NEW p \in Fetcher, RefreshAsksWrite(p) PROVE LocksOK'
  <2>1. pc[p] = "refread" /\ pc' = [pc EXCEPT ![p] = "refwrite"] /\ locks' = Asked(locks, p, "write", TRUE)
    BY <1>15 DEF RefreshAsksWrite, Goto
  <2>2. /\ locks' = [l \in Lock |-> locks'[l]] /\ locks'["read"] = locks["read"]
        /\ locks'["write"] = InLine(locks["write"], p, TRUE) /\ locks'["refs"] = locks["refs"]
        /\ locks'["refresh"] = locks["refresh"]
    BY <2>1 DEF LocksOK, Lock, Asked, Released
  <2>3. p \in Proc /\ pc'[p] = "refwrite" /\ "refwrite" \in Label  BY <1>0, <1>15, <2>1, Labels DEF LocksOK
  <2>4. p \in locks["read"].held  BY <1>15 DEF RefreshAsksWrite, Goto, Holds
  <2>5. p \in locks["refresh"].held  BY <2>1, <2>3, Labels, OwnerHolds DEF Lock
  <2>6. Keeps(p, "read")  BY <2>1, <2>2, <2>3, <2>4, <2>5, Labels DEF Keeps
  <2>7. Asks(p, "write", TRUE)  BY <2>1, <2>2, <2>3, <2>4, <2>5, Labels DEF Asks
  <2>8. Keeps(p, "refs")  BY <2>1, <2>2, <2>3, <2>4, <2>5, Labels DEF Keeps
  <2>9. Keeps(p, "refresh")  BY <2>1, <2>2, <2>3, <2>4, <2>5, Labels DEF Keeps
  <2> QED  BY <2>1, <2>2, <2>3, <2>6, <2>7, <2>8, <2>9, TaskServes DEF Does, Lock
<1>16. ASSUME NEW p \in Fetcher, FetchHeads(p) PROVE LocksOK'
  <2>0. mirror.over \in BOOLEAN  BY DEF MirrorState
  <2>1. ASSUME NEW over \in BOOLEAN, EndRefresh(p, Released(locks, p, "write"), over) PROVE LocksOK'
    BY <1>16, <2>1, RefreshEnds DEF FetchHeads, Holds
  <2>2. CASE locks' = Released(locks, p, "write") /\ Goto(p, "publish")
    <3>1. pc[p] = "refwrite" /\ pc' = [pc EXCEPT ![p] = "publish"] /\ locks' = Released(locks, p, "write")
      BY <1>16, <2>2 DEF FetchHeads, Goto
    <3>2. /\ locks' = [l \in Lock |-> locks'[l]] /\ locks'["read"] = locks["read"]
          /\ locks'["write"] = LetGo(locks["write"], p) /\ locks'["refs"] = locks["refs"]
          /\ locks'["refresh"] = locks["refresh"]
      BY <3>1 DEF LocksOK, Lock, Asked, Released
    <3>3. p \in Proc /\ pc'[p] = "publish" /\ "publish" \in Label
      BY <1>0, <1>16, <2>2, <3>1, Labels DEF LocksOK
    <3>4. p \in locks["write"].held  BY <1>16, <2>2 DEF FetchHeads, Goto, Holds
    <3>5. p \in locks["read"].held /\ p \in locks["refresh"].held  BY <3>1, <3>3, Labels, OwnerHolds DEF Lock
    <3>6. Keeps(p, "read")  BY <3>1, <3>2, <3>3, <3>4, <3>5, Labels DEF Keeps
    <3>7. Drops(p, "write")  BY <3>1, <3>2, <3>3, <3>4, <3>5, Labels DEF Drops
    <3>8. Keeps(p, "refs")  BY <3>1, <3>2, <3>3, <3>4, <3>5, Labels DEF Keeps
    <3>9. Keeps(p, "refresh")  BY <3>1, <3>2, <3>3, <3>4, <3>5, Labels DEF Keeps
    <3> QED  BY <3>1, <3>2, <3>3, <3>6, <3>7, <3>8, <3>9, TaskServes DEF Does, Lock
  <2>3. CASE EndRefresh(p, Released(locks, p, "write"), OverLimit)  BY <2>0, <2>1, <2>3 DEF OverLimit
  <2> QED  BY <1>16, <2>1, <2>2, <2>3 DEF FetchHeads
<1>17. ASSUME NEW p \in Fetcher, BuildSidePack(p) PROVE LocksOK'
  <2>1. pc[p] = "publish" /\ pc' = [pc EXCEPT ![p] = "pubrefs"] /\ locks' = Asked(locks, p, "refs", TRUE)
    BY <1>17 DEF BuildSidePack, Goto
  <2>2. /\ locks' = [l \in Lock |-> locks'[l]] /\ locks'["read"] = locks["read"]
        /\ locks'["write"] = locks["write"] /\ locks'["refs"] = InLine(locks["refs"], p, TRUE)
        /\ locks'["refresh"] = locks["refresh"]
    BY <2>1 DEF LocksOK, Lock, Asked, Released
  <2>3. p \in Proc /\ pc'[p] = "pubrefs" /\ "pubrefs" \in Label  BY <1>0, <1>17, <2>1, Labels DEF LocksOK
  <2>4. p \in locks["read"].held /\ p \in locks["refresh"].held  BY <2>1, <2>3, Labels, OwnerHolds DEF Lock
  <2>5. Keeps(p, "read")  BY <2>1, <2>2, <2>3, <2>4, Labels DEF Keeps
  <2>6. Keeps(p, "write")  BY <2>1, <2>2, <2>3, <2>4, Labels DEF Keeps
  <2>7. Asks(p, "refs", TRUE)  BY <2>1, <2>2, <2>3, <2>4, Labels DEF Asks
  <2>8. Keeps(p, "refresh")  BY <2>1, <2>2, <2>3, <2>4, Labels DEF Keeps
  <2> QED  BY <2>1, <2>2, <2>3, <2>5, <2>6, <2>7, <2>8, TaskServes DEF Does, Lock
<1>18. ASSUME NEW p \in Fetcher, PublishRefs(p) PROVE LocksOK'
  BY <1>18, RefreshEnds DEF PublishRefs, Holds
<1>19. ASSUME NEW r \in Removers, RemoverLocks(r) PROVE LocksOK'
  <2>1. CASE pc[r] = "rmread"
    <3>1. pc[r] = "rmread" /\ pc' = [pc EXCEPT ![r] = "rmwrite"] /\ locks' = Asked(locks, r, "write", TRUE)
      BY <1>19, <2>1 DEF RemoverLocks, Goto
    <3>2. /\ locks' = [l \in Lock |-> locks'[l]] /\ locks'["read"] = locks["read"]
          /\ locks'["write"] = InLine(locks["write"], r, TRUE) /\ locks'["refs"] = locks["refs"]
          /\ locks'["refresh"] = locks["refresh"]
      BY <3>1 DEF LocksOK, Lock, Asked, Released
    <3>3. r \in Proc /\ pc'[r] = "rmwrite" /\ "rmwrite" \in Label
      BY <1>0, <1>19, <2>1, <3>1, Labels DEF LocksOK
    <3>4. r \in locks["read"].held  BY <1>19, <2>1 DEF RemoverLocks, Goto, Holds
    <3>5. Keeps(r, "read")  BY <3>1, <3>2, <3>3, <3>4, Labels DEF Keeps
    <3>6. Asks(r, "write", TRUE)  BY <3>1, <3>2, <3>3, <3>4, Labels DEF Asks
    <3>7. Keeps(r, "refs")  BY <3>1, <3>2, <3>3, <3>4, Labels DEF Keeps
    <3>8. Keeps(r, "refresh")  BY <3>1, <3>2, <3>3, <3>4, Labels DEF Keeps
    <3> QED  BY <3>1, <3>2, <3>3, <3>5, <3>6, <3>7, <3>8, TaskServes DEF Does, Lock
  <2>2. CASE pc[r] = "rmwrite" /\ r = Remover(Purger) /\ known
    <3>1. pc[r] = "rmwrite" /\ pc' = [pc EXCEPT ![r] = "idle"]
          /\ locks' = Released(Released(locks, r, "write"), r, "read")
      BY <1>19, <2>2 DEF RemoverLocks, Goto
    <3>2. /\ locks' = [l \in Lock |-> locks'[l]] /\ locks'["read"] = LetGo(locks["read"], r)
          /\ locks'["write"] = LetGo(locks["write"], r) /\ locks'["refs"] = locks["refs"]
          /\ locks'["refresh"] = locks["refresh"]
      BY <3>1 DEF LocksOK, Lock, Asked, Released
    <3>3. r \in Proc /\ pc'[r] = "idle" /\ "idle" \in Label  BY <1>0, <1>19, <2>2, <3>1, Labels DEF LocksOK
    <3>4. r \in locks["write"].held  BY <1>19, <2>2 DEF RemoverLocks, Goto, Holds
    <3>5. r \in locks["read"].held  BY <3>1, <3>3, Labels, OwnerHolds DEF Lock
    <3>6. Drops(r, "read")  BY <3>1, <3>2, <3>3, <3>4, <3>5, Labels DEF Drops
    <3>7. Drops(r, "write")  BY <3>1, <3>2, <3>3, <3>4, <3>5, Labels DEF Drops
    <3>8. Keeps(r, "refs")  BY <3>1, <3>2, <3>3, <3>4, <3>5, Labels DEF Keeps
    <3>9. Keeps(r, "refresh")  BY <3>1, <3>2, <3>3, <3>4, <3>5, Labels DEF Keeps
    <3> QED  BY <3>1, <3>2, <3>3, <3>6, <3>7, <3>8, <3>9, TaskServes DEF Does, Lock
  <2>3. CASE pc[r] = "rmwrite" /\ ~(r = Remover(Purger) /\ known)
    <3>1. pc[r] = "rmwrite" /\ pc' = [pc EXCEPT ![r] = "removing"] /\ locks' = locks
      BY <1>19, <2>3 DEF RemoverLocks, Goto
    <3>2. /\ locks' = [l \in Lock |-> locks'[l]] /\ locks'["read"] = locks["read"]
          /\ locks'["write"] = locks["write"] /\ locks'["refs"] = locks["refs"]
          /\ locks'["refresh"] = locks["refresh"]
      BY <3>1 DEF LocksOK, Lock, Asked, Released
    <3>3. r \in Proc /\ pc'[r] = "removing" /\ "removing" \in Label
      BY <1>0, <1>19, <2>3, <3>1, Labels DEF LocksOK
    <3>4. r \in locks["write"].held  BY <1>19, <2>3 DEF RemoverLocks, Goto, Holds
    <3>5. r \in locks["read"].held  BY <3>1, <3>3, Labels, OwnerHolds DEF Lock
    <3>6. Keeps(r, "read")  BY <3>1, <3>2, <3>3, <3>4, <3>5, Labels DEF Keeps
    <3>7. Keeps(r, "write")  BY <3>1, <3>2, <3>3, <3>4, <3>5, Labels DEF Keeps
    <3>8. Keeps(r, "refs")  BY <3>1, <3>2, <3>3, <3>4, <3>5, Labels DEF Keeps
    <3>9. Keeps(r, "refresh")  BY <3>1, <3>2, <3>3, <3>4, <3>5, Labels DEF Keeps
    <3> QED  BY <3>1, <3>2, <3>3, <3>6, <3>7, <3>8, <3>9, TaskServes DEF Does, Lock
  <2> QED  BY <1>19, <2>1, <2>2, <2>3 DEF RemoverLocks, Goto
<1>20. ASSUME NEW r \in Removers, RemoveDir(r) PROVE LocksOK'
  <2>1. pc[r] = "removing" /\ pc' = [pc EXCEPT ![r] = "idle"]
        /\ locks' = Released(Released(locks, r, "write"), r, "read")
    BY <1>20 DEF RemoveDir, Goto
  <2>2. /\ locks' = [l \in Lock |-> locks'[l]] /\ locks'["read"] = LetGo(locks["read"], r)
        /\ locks'["write"] = LetGo(locks["write"], r) /\ locks'["refs"] = locks["refs"]
        /\ locks'["refresh"] = locks["refresh"]
    BY <2>1 DEF LocksOK, Lock, Asked, Released
  <2>3. r \in Proc /\ pc'[r] = "idle" /\ "idle" \in Label  BY <1>0, <1>20, <2>1, Labels DEF LocksOK
  <2>4. r \in locks["read"].held /\ r \in locks["write"].held  BY <2>1, <2>3, Labels, OwnerHolds DEF Lock
  <2>5. Drops(r, "read")  BY <2>1, <2>2, <2>3, <2>4, Labels DEF Drops
  <2>6. Drops(r, "write")  BY <2>1, <2>2, <2>3, <2>4, Labels DEF Drops
  <2>7. Keeps(r, "refs")  BY <2>1, <2>2, <2>3, <2>4, Labels DEF Keeps
  <2>8. Keeps(r, "refresh")  BY <2>1, <2>2, <2>3, <2>4, Labels DEF Keeps
  <2> QED  BY <2>1, <2>2, <2>3, <2>5, <2>6, <2>7, <2>8, TaskServes DEF Does, Lock
<1>21. ASSUME PurgeMirror PROVE LocksOK'
  <2> DEFINE r == Remover(Purger)
  <2>1. pc[r] = "idle" /\ pc' = [pc EXCEPT ![r] = "rmread"] /\ locks' = Asked(locks, r, "read", TRUE)
    BY <1>21 DEF PurgeMirror, Goto
  <2>2. /\ locks' = [l \in Lock |-> locks'[l]] /\ locks'["read"] = InLine(locks["read"], r, TRUE)
        /\ locks'["write"] = locks["write"] /\ locks'["refs"] = locks["refs"]
        /\ locks'["refresh"] = locks["refresh"]
    BY <2>1 DEF LocksOK, Lock, Asked, Released
  <2>3. r \in Proc /\ pc'[r] = "rmread" /\ "rmread" \in Label  BY <1>0, <1>21, <2>1, Labels DEF LocksOK
  <2>4. Asks(r, "read", TRUE)  BY <2>1, <2>2, <2>3, Labels DEF Asks
  <2>5. Keeps(r, "write")  BY <2>1, <2>2, <2>3, Labels DEF Keeps
  <2>6. Keeps(r, "refs")  BY <2>1, <2>2, <2>3, Labels DEF Keeps
  <2>7. Keeps(r, "refresh")  BY <2>1, <2>2, <2>3, Labels DEF Keeps
  <2> QED  BY <2>1, <2>2, <2>3, <2>4, <2>5, <2>6, <2>7, TaskServes DEF Does, Lock
<1>22. ASSUME Readd PROVE LocksOK'
  BY <1>22 DEF Readd, LocksOK, LocksInv, Users, Owners, Loners
<1>23. ASSUME Restart PROVE LocksOK'
  <2>1. Unlocked \in LockState /\ \A loners : Serves(Unlocked, {}, {}, loners)
    BY DEF Unlocked, LockState, Serves
  <2>2. pc' = [p \in Proc |-> "idle"] /\ locks' = [l \in Lock |-> Unlocked]  BY <1>23 DEF Restart
  <2>3. "idle" \in Label /\ \A l \in Lock : "idle" \notin Uses(l)  BY Labels DEF Lock
  <2>4. \A l \in Lock : Users(l)' = {} /\ Owners(l)' = {}  BY <2>2, <2>3 DEF Users, Owners
  <2>5. \A l \in Lock : LockOK(l)'
    <3> HIDE DEF Serves, LockState
    <3> QED  BY <2>1, <2>2, <2>4 DEF LockOK
  <2>6. locks' = [l \in Lock |-> locks'[l]] /\ pc' \in [Proc -> Label]  BY <2>2, <2>3
  <2> QED  BY <2>5, <2>6, AllLocks
<1> QED  BY <1>1, <1>2, <1>3, <1>4, <1>5, <1>6, <1>7, <1>8, <1>9, <1>10, <1>11, <1>12, <1>13, <1>14, <1>15,
  <1>16, <1>17, <1>18, <1>19, <1>20, <1>21, <1>22, <1>23
  DEF MirrorNext, BuilderStep, RefreshStep

-----------------------------------------------------------------------------
(* What the locks keep apart.                                               *)

\* One task at most has the write lock.
LEMMA WriteAlone ==
  ASSUME LocksOK, NEW p \in locks["write"].held, NEW q \in locks["write"].held
  PROVE  p = q
<1>1. "write" \in Lock /\ Loners("write") = Proc  BY Labels DEF Lock, Loners, LocksOK
<1>2. p \in Users("write")  BY <1>1 DEF LocksOK, LocksInv, Serves
<1>3. locks["write"].held \cap Loners("write") # {}  BY <1>1, <1>2 DEF Users
<1>4. locks["write"].alone => \E r : locks["write"].held = {r}  BY <1>1 DEF LocksOK, LocksInv, Serves
<1>5. ~locks["write"].alone => locks["write"].held \cap Loners("write") = {}
  BY <1>1 DEF LocksOK, LocksInv, Serves
<1> QED  BY <1>3, <1>4, <1>5

\* Whoever compacts or removes the mirror is alone with it.
LEMMA ReadAlone ==
  ASSUME LocksOK, NEW p \in locks["read"].held, NEW q \in locks["read"].held, pc[p] \in Excludes("read")
  PROVE  p = q
<1>1. "read" \in Lock /\ p \in Proc  BY DEF Lock, LocksOK, LockState
<1>2. p \in Loners("read")  BY <1>1 DEF Loners
<1>3. locks["read"].alone => \E r : locks["read"].held = {r}  BY <1>1 DEF LocksOK, LocksInv, Serves
<1>4. ~locks["read"].alone => locks["read"].held \cap Loners("read") = {}
  BY <1>1 DEF LocksOK, LocksInv, Serves
<1> QED  BY <1>2, <1>3, <1>4

\* A fetch, a compaction, a removal or a refs fetch has the mirror's write lock.
Writing == {"fetching", "packed", "compacting", "removing"}
LEMMA OneWriter ==
  ASSUME LocksOK, NEW p \in Proc, pc[p] \in Writing \/ p \in locks["write"].held,
         NEW q \in Proc, pc[q] \in Writing
  PROVE  p = q
<1>1. \A r \in Proc : pc[r] \in Writing => r \in locks["write"].held
  BY Labels, OwnerHolds DEF Writing, Lock
<1> QED  BY <1>1, WriteAlone

\* Nobody reads a mirror that is compacted or removed.
Reading == {"packed", "using", "tags", "publish", "pubrefs"}
LEMMA NobodyReads ==
  ASSUME LocksOK, NEW p \in Proc, pc[p] \in {"compacting", "removing"}, NEW q \in Proc
  PROVE  pc[q] \notin Reading
<1>1. p \in locks["read"].held /\ pc[p] \in Excludes("read")  BY Labels, OwnerHolds DEF Lock
<1>2. pc[q] \in Reading => q \in locks["read"].held  BY Labels, OwnerHolds DEF Lock, Reading
<1> QED  BY <1>1, <1>2, ReadAlone DEF Reading

\* The history of a commit, and of some.
LEMMA HistoryType ==
  /\ \A c \in Commit : Hist(c) \subseteq Commit /\ c \in Hist(c)
  /\ \A S \in SUBSET Commit : HistOf(S) \subseteq Commit
<1>1. \A c \in Commit : Hist(c) \subseteq Commit /\ c \in Hist(c)  BY DEF Hist, Ancestors
<1> QED  BY <1>1 DEF HistOf

LEMMA IncomingType ==
  ASSUME mirror \in MirrorState, NEW tips \in SUBSET Commit
  PROVE  Incoming(tips) \in SUBSET Commit
BY HistoryType DEF Incoming

LEMMA WithPackType ==
  ASSUME mirror \in MirrorState, NEW pack \in SUBSET Commit
  PROVE  WithPack(pack) \in SUBSET SUBSET Commit /\ mirror.packs \subseteq WithPack(pack)
         /\ Objects(WithPack(pack)) = Objects(mirror.packs) \cup pack
<1>1. mirror.packs \in SUBSET SUBSET Commit  BY DEF MirrorState
<1>2. CASE pack = {}  BY <1>1, <1>2 DEF WithPack, Objects
<1>3. CASE pack # {}  BY <1>1, <1>3 DEF WithPack, Objects
<1> QED  BY <1>2, <1>3

\* A repack keeps every object.
LEMMA RepackedKeeps ==
  ASSUME mirror \in MirrorState, NEW packs \in Repacked \cup {mirror.packs}
  PROVE  packs \in SUBSET SUBSET Commit /\ Objects(packs) = Objects(mirror.packs)
<1>1. mirror.packs \in SUBSET SUBSET Commit  BY DEF MirrorState
<1>2. CASE packs = mirror.packs  BY <1>1, <1>2
<1>3. ASSUME NEW merged \in SUBSET mirror.packs, packs = (mirror.packs \ merged) \cup {Objects(merged)}
      PROVE  packs \in SUBSET SUBSET Commit /\ Objects(packs) = Objects(mirror.packs)
  <2>1. Objects(merged) \in SUBSET Commit  BY <1>1, <1>3 DEF Objects
  <2>2. ASSUME NEW c \in Objects(packs) PROVE c \in Objects(mirror.packs)  BY <1>3, <2>2 DEF Objects
  <2>3. ASSUME NEW c \in Objects(mirror.packs) PROVE c \in Objects(packs)
    <3>1. PICK s \in mirror.packs : c \in s  BY <2>3 DEF Objects
    <3>2. CASE s \in merged  BY <1>3, <3>1, <3>2 DEF Objects
    <3>3. CASE s \notin merged  BY <1>3, <3>1, <3>3 DEF Objects
    <3> QED  BY <3>2, <3>3
  <2> QED  BY <1>1, <1>3, <2>1, <2>2, <2>3
<1> QED  BY <1>2, <1>3 DEF Repacked

-----------------------------------------------------------------------------
(* What the mirror holds.                                                   *)

\* Locks and tasks aside, the variables' types.
DataOK ==
  /\ known \in BOOLEAN /\ published \in BOOLEAN /\ first \in BOOLEAN /\ faults \in Nat
  /\ mirror \in MirrorState
  /\ reads \in [Proc -> SUBSET SUBSET Commit]

\* The tasks are apart.
LEMMA Tasks ==
  /\ Fetcher \subseteq Proc /\ Builder \subseteq Fetcher /\ Refresher \in Fetcher /\ Removers \subseteq Proc
  /\ \A p \in Fetcher : p \notin Removers /\ Remover(p) \in Removers
  /\ Remover(Purger) \in Removers
  /\ \A b \in Builder : Of[b] \in Commit
  /\ Tips \subseteq Commit
BY MirrorAssumption DEF MirrorAssumption, Proc, Fetcher, Removers

\* Every step keeps the types.
LEMMA DataKept ==
  DataOK /\ MirrorNext => DataOK'
<1> SUFFICES ASSUME DataOK, MirrorNext PROVE DataOK'  OBVIOUS
<1> USE Tasks DEF DataOK
<1> HIDE DEF Fetcher
<1>a. /\ mirror.packs \in SUBSET SUBSET Commit /\ mirror.revs \in SUBSET Commit
      /\ mirror.marker \in {None} \cup [commit : Commit, pack : SUBSET Commit]
  BY DEF MirrorState
<1>b. Fault => faults' \in Nat  BY DEF Fault
<1>1. ASSUME NEW b \in Builder, Claim(b) PROVE DataOK'  BY <1>1 DEF Claim, Goto
<1>2. ASSUME NEW b \in Builder, Graph(b) PROVE DataOK'  BY <1>2 DEF Graph, Goto
<1>3. ASSUME NEW b \in Builder, CheckFetched(b) PROVE DataOK'
  <2>1. reads' \in [Proc -> SUBSET SUBSET Commit]  BY <1>3, <1>a DEF CheckFetched, FailTo, Leave, Use
  <2> QED  BY <1>3, <2>1 DEF CheckFetched
<1>4. ASSUME NEW b \in Builder, CheckAgain(b) PROVE DataOK'
  <2>1. reads' \in [Proc -> SUBSET SUBSET Commit]  BY <1>4, <1>a DEF CheckAgain, FailTo, Leave, Use
  <2>2. mirror' \in MirrorState  BY <1>4 DEF CheckAgain, MirrorState
  <2>3. first' \in BOOLEAN  BY <1>4 DEF CheckAgain
  <2> QED  BY <1>4, <2>1, <2>2, <2>3 DEF CheckAgain
<1>5. ASSUME NEW b \in Builder, FetchPack(b) PROVE DataOK'
  <2>1. {Of[b]} \in SUBSET Commit  BY <1>5
  <2>2. WithPack(Incoming({Of[b]})) \in SUBSET SUBSET Commit  BY <2>1, IncomingType, WithPackType
  <2>3. mirror' \in MirrorState  BY <1>5, <2>2 DEF FetchPack, MirrorState
  <2> QED  BY <1>5, <2>3 DEF FetchPack
<1>6. ASSUME NEW b \in Builder, FetchEnds(b) PROVE DataOK'
  <2>1. reads' \in [Proc -> SUBSET SUBSET Commit]  BY <1>6, <1>a DEF FetchEnds, FailTo, Leave, Use
  <2>2. Mark(Of[b]) \in {None} \cup [commit : Commit, pack : SUBSET Commit]
    <3>1. CASE first /\ Cardinality(mirror.packs) = 1
      <4>0. Cardinality({}) = 0  BY FS_EmptySet
      <4>1. ASSUME mirror.packs = {} PROVE FALSE
        <5>1. Cardinality(mirror.packs) = Cardinality({})  BY <4>1, Zenon
        <5> QED  BY <3>1, <4>0, <5>1
      <4>2. (CHOOSE p \in mirror.packs : TRUE) \in SUBSET Commit  BY <1>a, <4>1
      <4> QED  BY <3>1, <4>2 DEF Mark
    <3>2. CASE ~(first /\ Cardinality(mirror.packs) = 1)  BY <1>a, <3>2 DEF Mark
    <3> QED  BY <3>1, <3>2
  <2>3. mirror' \in MirrorState
    <3>0. mirror.revs \cup {Of[b]} \in SUBSET Commit  BY <1>a
    <3>1. CASE mirror' = [mirror EXCEPT !.revs = @ \cup {Of[b]}, !.marker = Mark(Of[b])]
      BY <2>2, <3>0, <3>1 DEF MirrorState
    <3>2. CASE mirror' = [mirror EXCEPT !.revs = @ \cup {Of[b]}, !.over = TRUE]
      BY <3>0, <3>2 DEF MirrorState
    <3> QED  BY <1>6, <3>1, <3>2 DEF FetchEnds
  <2>4. faults' \in Nat  BY <1>6, <1>b DEF FetchEnds
  <2> QED  BY <1>6, <2>1, <2>3, <2>4 DEF FetchEnds
<1>7. ASSUME NEW b \in Builder, FetchFails(b) PROVE DataOK'
  <2>1. reads' \in [Proc -> SUBSET SUBSET Commit]  BY <1>7 DEF FetchFails, FailTo, Leave
  <2>2. \A left \in {{}, {Of[b]}} : WithPack(left) \in SUBSET SUBSET Commit  BY WithPackType
  <2>3. PICK left \in {{}, {Of[b]}} :
          mirror' = IF pc[b] = "packed" THEN mirror ELSE [mirror EXCEPT !.packs = WithPack(left)]
    BY <1>7 DEF FetchFails
  <2>4. mirror' \in MirrorState  BY <2>2, <2>3 DEF MirrorState
  <2> QED  BY <1>7, <1>b, <2>1, <2>4 DEF FetchFails
<1>8. ASSUME NEW b \in Builder, Built(b) PROVE DataOK'  BY <1>8 DEF Built, Goto, Leave
<1>9. ASSUME NEW b \in Builder, BuildFails(b) PROVE DataOK'
  BY <1>9, <1>b DEF BuildFails, FailTo, Leave
<1>10. ASSUME NEW b \in Builder, PublishTags(b) PROVE DataOK'  BY <1>10 DEF PublishTags, Goto, Leave
<1>11. ASSUME NEW b \in Builder, FirstBranches(b) PROVE DataOK'  BY <1>11 DEF FirstBranches, Goto
<1>12. ASSUME NEW b \in Builder, Compact(b) PROVE DataOK'
  <2>1. mirror' \in MirrorState
    <3>1. ASSUME NEW packs \in Repacked \cup {mirror.packs}, mirror' = [mirror EXCEPT !.packs = packs]
          PROVE  mirror' \in MirrorState
      <4>1. packs \in SUBSET SUBSET Commit  BY RepackedKeeps
      <4> QED  BY <3>1, <4>1 DEF MirrorState
    <3> QED  BY <1>12, <3>1 DEF Compact
  <2> QED  BY <1>12, <2>1 DEF Compact
<1>13. ASSUME StartRefresh PROVE DataOK'  BY <1>13 DEF StartRefresh, Goto
<1>14. ASSUME NEW p \in Fetcher, ListUpstream(p) PROVE DataOK'  BY <1>14 DEF ListUpstream, Goto
<1>15. ASSUME NEW p \in Fetcher, RefreshAsksWrite(p) PROVE DataOK'  BY <1>15 DEF RefreshAsksWrite, Goto
<1>16. ASSUME NEW p \in Fetcher, FetchHeads(p) PROVE DataOK'
  <2>1. WithPack(Incoming(Tips)) \in SUBSET SUBSET Commit  BY IncomingType, WithPackType
  <2>2. mirror' \in MirrorState /\ faults' \in Nat
    <3>1. CASE UNCHANGED <<mirror, faults>>  BY <3>1
    <3>2. CASE mirror' = [mirror EXCEPT !.heads = Tips, !.packs = WithPack(Incoming(Tips))] /\ UNCHANGED faults
      BY <2>1, <3>2 DEF MirrorState
    <3>3. CASE /\ mirror' = [mirror EXCEPT !.heads = Tips, !.packs = WithPack(Incoming(Tips)), !.over = TRUE]
               /\ Fault
      BY <1>b, <2>1, <3>3 DEF MirrorState
    <3> QED  BY <1>16, <3>1, <3>2, <3>3 DEF FetchHeads
  <2>3. reads' \in [Proc -> SUBSET SUBSET Commit]
    <3>1. CASE Leave(p)  BY <3>1 DEF Leave
    <3>2. CASE reads' = [reads EXCEPT ![p] = mirror'.packs]  BY <2>2, <3>2 DEF MirrorState
    <3> QED  BY <1>16, <3>1, <3>2 DEF FetchHeads, EndRefresh
  <2> QED  BY <1>16, <2>2, <2>3 DEF FetchHeads
<1>17. ASSUME NEW p \in Fetcher, BuildSidePack(p) PROVE DataOK'  BY <1>17 DEF BuildSidePack, Goto
<1>18. ASSUME NEW p \in Fetcher, PublishRefs(p) PROVE DataOK'
  BY <1>18 DEF PublishRefs, EndRefresh, EndWith, Leave
<1>19. ASSUME NEW r \in Removers, RemoverLocks(r) PROVE DataOK'  BY <1>19 DEF RemoverLocks, Goto
<1>20. ASSUME NEW r \in Removers, RemoveDir(r) PROVE DataOK'
  <2>1. Absent \in MirrorState  BY DEF Absent, MirrorState
  <2> QED  BY <1>20, <2>1 DEF RemoveDir
<1>21. ASSUME PurgeMirror PROVE DataOK'
  BY <1>21, <1>b DEF PurgeMirror
<1>22. ASSUME Readd PROVE DataOK'  BY <1>22 DEF Readd
<1>23. ASSUME Restart PROVE DataOK'
  <2>1. Absent \in MirrorState  BY DEF Absent, MirrorState
  <2>2. HalfRemoved \subseteq MirrorState
    <3>1. \A packs \in SUBSET mirror.packs : packs \in SUBSET SUBSET Commit  BY <1>a
    <3>2. ASSUME NEW packs \in SUBSET mirror.packs
          PROVE  [mirror EXCEPT !.packs = packs, !.over = FALSE] \in MirrorState
      BY <3>1 DEF MirrorState
    <3> QED  BY <3>2 DEF HalfRemoved
  <2>3. mirror' \in MirrorState  BY <1>23, <2>1, <2>2 DEF Restart
  <2> QED  BY <1>23, <1>b, <2>3 DEF Restart
<1> QED  BY <1>1, <1>2, <1>3, <1>4, <1>5, <1>6, <1>7, <1>8, <1>9, <1>10, <1>11, <1>12, <1>13, <1>14, <1>15,
  <1>16, <1>17, <1>18, <1>19, <1>20, <1>21, <1>22, <1>23
  DEF MirrorNext, BuilderStep, RefreshStep

\* What the mirror holds for its readers, its marker and its refs.
HoldsAll == ReadsKept /\ MarkerExact /\ (~StopsInRemoval => HistoryWhole)

\* A step of p that leaves the mirror as it is.
Quiet(p) ==
  /\ mirror' = mirror /\ first' = first
  /\ \A q \in Fetcher \ {p} : pc'[q] = pc[q] /\ reads'[q] = reads[q]
  /\ p \in Fetcher =>
       /\ pc'[p] \notin {"fetching", "packed"}
       /\ pc'[p] = "using" => Fetched(Of[p])
       /\ \/ reads'[p] = {}
          \/ reads'[p] \subseteq mirror.packs /\ pc'[p] \in {"using", "tags", "publish", "pubrefs"}

\* A commit whose ref is there has its history there.
LEMMA FetchedWhole ==
  ASSUME HistoryWhole, NEW c \in Commit, Fetched(c)
  PROVE  Hist(c) \subseteq Objects(mirror.packs)
<1>1. Hist(c) \subseteq HistOf(mirror.revs \cup mirror.heads)  BY DEF Fetched, HistOf
<1> QED  BY <1>1 DEF HistoryWhole

LEMMA QuietKeeps ==
  ASSUME HoldsAll, NEW p \in Proc, Quiet(p)
  PROVE  HoldsAll'
<1> USE Tasks
<1>1. ReadsKept'
  <2> SUFFICES ASSUME NEW q \in Fetcher
               PROVE  /\ reads'[q] \subseteq mirror'.packs
                      /\ reads'[q] # {} => pc'[q] \in {"using", "tags", "publish", "pubrefs"}
    BY DEF ReadsKept
  <2>1. CASE q = p  BY <2>1 DEF Quiet
  <2>2. CASE q # p  BY <2>2 DEF Quiet, HoldsAll, ReadsKept
  <2> QED  BY <2>1, <2>2
<1>2. MarkerExact'
  <2>1. \A b \in Builder : pc'[b] \in {"fetching", "packed"} => pc'[b] = pc[b]  BY DEF Quiet
  <2> QED  BY <2>1 DEF Quiet, HoldsAll, MarkerExact
<1>3. ASSUME HistoryWhole PROVE HistoryWhole'
  <2>1. \A b \in Builder : pc'[b] \in {"packed", "using"} => pc'[b] = pc[b] \/ Fetched(Of[b])  BY DEF Quiet
  <2>2. \A b \in Builder : pc'[b] \in {"packed", "using"} => Hist(Of[b]) \subseteq Objects(mirror.packs)
    BY <1>3, <2>1, FetchedWhole DEF HistoryWhole
  <2> QED  BY <1>3, <2>2 DEF Quiet, HistoryWhole
<1> QED  BY <1>1, <1>2, <1>3 DEF HoldsAll

\* The reads of a step that only adds packs, or that nobody reads beside.
LEMMA ReadsStep ==
  ASSUME LocksOK, ReadsKept, NEW p \in Proc,
         \A q \in Fetcher \ {p} : pc'[q] = pc[q] /\ reads'[q] = reads[q],
         p \in Fetcher =>
           \/ reads'[p] = {}
           \/ reads'[p] \subseteq mirror'.packs /\ pc'[p] \in {"using", "tags", "publish", "pubrefs"},
         mirror.packs \subseteq mirror'.packs \/ pc[p] \in {"compacting", "removing"}
  PROVE  ReadsKept'
<1> SUFFICES ASSUME NEW q \in Fetcher
             PROVE  /\ reads'[q] \subseteq mirror'.packs
                    /\ reads'[q] # {} => pc'[q] \in {"using", "tags", "publish", "pubrefs"}
  BY DEF ReadsKept
<1>1. CASE q = p  BY <1>1
<1>2. CASE q # p
  <2>1. pc[p] \in {"compacting", "removing"} => reads[q] = {}
    BY NobodyReads, Tasks DEF Reading, ReadsKept
  <2> QED  BY <1>2, <2>1 DEF ReadsKept
<1> QED  BY <1>1, <1>2

\* The marker of a step by the one task that has the write lock.
LEMMA MarkerStep ==
  ASSUME LocksOK, NEW p \in Proc, pc[p] \in Writing \/ p \in locks["write"].held,
         \A q \in Fetcher \ {p} : pc'[q] = pc[q],
         mirror'.marker # None => mirror'.marker.pack = Hist(mirror'.marker.commit),
         first' /\ p \in Builder => /\ pc'[p] = "fetching" => mirror'.packs = {}
                                    /\ pc'[p] = "packed" => mirror'.packs = {Hist(Of[p])}
  PROVE  MarkerExact'
<1>1. \A b \in Builder \ {p} : pc[b] \notin Writing  BY OneWriter, Tasks
<1>2. \A b \in Builder \ {p} : pc'[b] \notin {"fetching", "packed"}  BY <1>1, Tasks DEF Writing
<1> QED  BY <1>2 DEF MarkerExact

\* The history of a step that loses no object, or that nobody reads beside.
LEMMA HistoryStep ==
  ASSUME LocksOK, HistoryWhole, NEW p \in Proc, \A q \in Fetcher \ {p} : pc'[q] = pc[q],
         HistOf(mirror'.revs \cup mirror'.heads) \subseteq Objects(mirror'.packs),
         p \in Builder /\ pc'[p] \in {"packed", "using"} => Hist(Of[p]) \subseteq Objects(mirror'.packs),
         Objects(mirror.packs) \subseteq Objects(mirror'.packs) \/ pc[p] \in {"compacting", "removing"}
  PROVE  HistoryWhole'
<1> SUFFICES ASSUME NEW b \in Builder, pc'[b] \in {"packed", "using"}
             PROVE  Hist(Of[b]) \subseteq Objects(mirror'.packs)
  BY DEF HistoryWhole
<1>1. CASE b = p  BY <1>1
<1>2. CASE b # p
  <2>1. pc[b] \in {"packed", "using"}  BY <1>2, Tasks
  <2>2. pc[p] \notin {"compacting", "removing"}  BY <2>1, NobodyReads, Tasks DEF Reading
  <2> QED  BY <2>1, <2>2 DEF HistoryWhole
<1> QED  BY <1>1, <1>2

\* A fetch brings all that its tips reach and the mirror lacks.
LEMMA FetchesWhole ==
  ASSUME mirror \in MirrorState, HistoryWhole, NEW tips \in SUBSET Commit
  PROVE  HistOf(tips) \subseteq Objects(mirror.packs) \cup Incoming(tips)
<1>1. HistOf((mirror.revs \cup mirror.heads) \cap Objects(mirror.packs)) \subseteq Objects(mirror.packs)
  BY DEF HistoryWhole, HistOf
<1> QED  BY <1>1 DEF Incoming

\* Every step leaves readers, marker and refs with what they need.
LEMMA HoldsKept ==
  DataOK /\ LocksOK /\ HoldsAll /\ MirrorNext => HoldsAll'
<1> SUFFICES ASSUME DataOK, LocksOK, HoldsAll, MirrorNext PROVE HoldsAll'  OBVIOUS
<1> USE Tasks
<1> HIDE DEF Fetcher
<1>a. /\ mirror \in MirrorState /\ mirror.packs \in SUBSET SUBSET Commit
      /\ pc \in [Proc -> Label] /\ reads \in [Proc -> SUBSET SUBSET Commit]
      /\ mirror.marker # None => mirror.marker.pack = Hist(mirror.marker.commit)
  BY DEF DataOK, MirrorState, LocksOK, HoldsAll, MarkerExact
<1>b. \A q \in Fetcher : /\ reads[q] \subseteq mirror.packs
                         /\ reads[q] # {} => pc[q] \in {"using", "tags", "publish", "pubrefs"}
  BY DEF HoldsAll, ReadsKept
<1>1. ASSUME NEW b \in Builder, Claim(b) PROVE HoldsAll'
  <2>1. Quiet(b)  BY <1>1, <1>a, <1>b DEF Claim, Quiet, Goto
  <2> QED  BY <2>1, QuietKeeps
<1>2. ASSUME NEW b \in Builder, Graph(b) PROVE HoldsAll'
  <2>1. Quiet(b)  BY <1>2, <1>a, <1>b DEF Graph, Quiet, Goto
  <2> QED  BY <2>1, QuietKeeps
<1>3. ASSUME NEW b \in Builder, CheckFetched(b) PROVE HoldsAll'
  <2>1. CASE FailTo(b, locks, TRUE)
    <3>1. Quiet(b)  BY <1>3, <1>a, <1>b, <2>1 DEF CheckFetched, Quiet, FailTo, EndWith, Leave
    <3> QED  BY <3>1, QuietKeeps
  <2>2. CASE Fetched(Of[b]) /\ Use(b, locks, mirror.packs)
    <3>1. Quiet(b)  BY <1>3, <1>a, <1>b, <2>2 DEF CheckFetched, Quiet, Use, Goto
    <3> QED  BY <3>1, QuietKeeps
  <2>3. CASE Goto(b, "writing") /\ UNCHANGED reads
    <3>1. Quiet(b)  BY <1>3, <1>a, <1>b, <2>3 DEF CheckFetched, Quiet, Goto
    <3> QED  BY <3>1, QuietKeeps
  <2> QED  BY <1>3, <2>1, <2>2, <2>3 DEF CheckFetched
<1>4. ASSUME NEW b \in Builder, CheckAgain(b) PROVE HoldsAll'
  <2>1. CASE FailTo(b, Released(locks, b, "write"), TRUE) /\ UNCHANGED <<mirror, first>>
    <3>1. Quiet(b)  BY <1>4, <1>a, <1>b, <2>1 DEF Quiet, FailTo, EndWith, Leave
    <3> QED  BY <3>1, QuietKeeps
  <2>2. CASE Fetched(Of[b]) /\ Use(b, Released(locks, b, "write"), mirror.packs) /\ UNCHANGED <<mirror, first>>
    <3>1. Quiet(b)  BY <1>4, <1>a, <1>b, <2>2 DEF Quiet, Use, Goto
    <3> QED  BY <3>1, QuietKeeps
  <2>3. CASE /\ mirror' = [mirror EXCEPT !.exists = TRUE] /\ first' = (mirror.packs = {})
             /\ Goto(b, "fetching") /\ UNCHANGED <<locks, reads>>
    <3>1. /\ mirror'.packs = mirror.packs /\ mirror'.marker = mirror.marker
          /\ mirror'.revs = mirror.revs /\ mirror'.heads = mirror.heads
      BY <1>a, <2>3 DEF MirrorState
    <3>2. b \in locks["write"].held /\ pc[b] = "writing"  BY <1>4 DEF CheckAgain, Holds
    <3>3. \A q \in Fetcher \ {b} : pc'[q] = pc[q] /\ reads'[q] = reads[q]  BY <1>a, <2>3 DEF Goto
    <3>4. pc'[b] = "fetching" /\ reads'[b] = {}  BY <1>a, <1>b, <2>3, <3>2 DEF Goto
    <3>5. ReadsKept'  BY <3>1, <3>3, <3>4, ReadsStep DEF HoldsAll
    <3>6. MarkerExact'  BY <1>a, <2>3, <3>1, <3>2, <3>3, <3>4, MarkerStep
    <3>7. ASSUME HistoryWhole PROVE HistoryWhole'  BY <3>1, <3>3, <3>4, <3>7, HistoryStep DEF HistoryWhole
    <3> QED  BY <3>5, <3>6, <3>7 DEF HoldsAll
  <2> QED  BY <1>4, <2>1, <2>2, <2>3 DEF CheckAgain
<1>5. ASSUME NEW b \in Builder, FetchPack(b) PROVE HoldsAll'
  <2> DEFINE pack == Incoming({Of[b]})
  <2>0. {Of[b]} \in SUBSET Commit /\ pack \in SUBSET Commit  BY IncomingType, <1>a
  <2>1. /\ WithPack(pack) \in SUBSET SUBSET Commit /\ mirror.packs \subseteq WithPack(pack)
        /\ Objects(WithPack(pack)) = Objects(mirror.packs) \cup pack
    <3> HIDE DEF pack
    <3> QED  BY <1>a, <2>0, WithPackType
  <2>2. /\ mirror'.packs = WithPack(pack) /\ mirror'.marker = mirror.marker
        /\ mirror'.revs = mirror.revs /\ mirror'.heads = mirror.heads
    BY <1>5, <1>a DEF FetchPack, MirrorState
  <2>3. pc[b] = "fetching" /\ pc'[b] = "packed" /\ reads'[b] = {}  BY <1>5, <1>a, <1>b DEF FetchPack, Goto
  <2>4. \A q \in Fetcher \ {b} : pc'[q] = pc[q] /\ reads'[q] = reads[q]  BY <1>5, <1>a DEF FetchPack, Goto
  <2>5. ReadsKept'  BY <2>1, <2>2, <2>3, <2>4, ReadsStep DEF HoldsAll
  <2>6. first' => mirror'.packs = {Hist(Of[b])}
    <3> SUFFICES ASSUME first PROVE WithPack(pack) = {Hist(Of[b])}  BY <1>5, <2>2 DEF FetchPack
    <3>1. mirror.packs = {}  BY <2>3 DEF HoldsAll, MarkerExact
    <3>2. pack = Hist(Of[b])  BY <3>1 DEF Incoming, HistOf, Objects
    <3> HIDE DEF pack
    <3> QED  BY <3>1, <3>2, HistoryType DEF WithPack
  <2> HIDE DEF pack
  <2>7. MarkerExact'  BY <1>a, <2>2, <2>3, <2>4, <2>6, MarkerStep DEF Writing
  <2>8. ASSUME HistoryWhole PROVE HistoryWhole'
    <3>1. HistOf({Of[b]}) \subseteq Objects(mirror'.packs)
      BY <1>a, <2>0, <2>1, <2>2, <2>8, FetchesWhole DEF pack
    <3>2. Hist(Of[b]) \subseteq Objects(mirror'.packs)  BY <3>1 DEF HistOf
    <3>3. Objects(mirror.packs) \subseteq Objects(mirror'.packs)  BY <2>1, <2>2
    <3> QED  BY <2>2, <2>4, <2>8, <3>2, <3>3, HistoryStep DEF HistoryWhole
  <2> QED  BY <2>5, <2>7, <2>8 DEF HoldsAll
<1>6. ASSUME NEW b \in Builder, FetchEnds(b) PROVE HoldsAll'
  <2>0. pc[b] = "packed"  BY <1>6 DEF FetchEnds
  <2>1. \A q \in Fetcher \ {b} : pc'[q] = pc[q] /\ reads'[q] = reads[q]
    <3>1. CASE Use(b, Released(locks, b, "write"), mirror.packs)  BY <1>a, <3>1 DEF Use, Goto
    <3>2. CASE FailTo(b, Released(locks, b, "write"), TRUE)  BY <1>a, <3>2 DEF FailTo, EndWith, Leave
    <3> QED  BY <1>6, <3>1, <3>2 DEF FetchEnds
  <2>2. mirror'.packs = mirror.packs /\ mirror'.heads = mirror.heads /\ mirror'.revs = mirror.revs \cup {Of[b]}
    BY <1>6, <1>a DEF FetchEnds, MirrorState
  <2>3. \/ pc'[b] = "using" /\ reads'[b] = mirror.packs
        \/ pc'[b] \in {"idle", "compact"} /\ reads'[b] = {}
    <3>1. CASE Use(b, Released(locks, b, "write"), mirror.packs)  BY <1>a, <3>1 DEF Use, Goto
    <3>2. CASE FailTo(b, Released(locks, b, "write"), TRUE)  BY <1>a, <3>2 DEF FailTo, EndWith, Leave
    <3> QED  BY <1>6, <3>1, <3>2 DEF FetchEnds
  <2>4. mirror'.marker # None => mirror'.marker.pack = Hist(mirror'.marker.commit)
    <3>1. mirror'.marker = mirror.marker \/ mirror'.marker = Mark(Of[b])
      BY <1>6, <1>a DEF FetchEnds, MirrorState
    <3>2. Mark(Of[b]) = mirror.marker \/ Mark(Of[b]) = [commit |-> Of[b], pack |-> Hist(Of[b])]
      <4>1. first => mirror.packs = {Hist(Of[b])}  BY <2>0 DEF HoldsAll, MarkerExact
      <4> QED  BY <4>1 DEF Mark
    <3> QED  BY <1>a, <3>1, <3>2
  <2>5. ReadsKept'  BY <2>1, <2>2, <2>3, ReadsStep DEF HoldsAll
  <2>6. MarkerExact'  BY <2>4, <1>6 DEF FetchEnds, MarkerExact
  <2>7. ASSUME HistoryWhole PROVE HistoryWhole'
    <3>1. Hist(Of[b]) \subseteq Objects(mirror.packs)  BY <2>0, <2>7 DEF HistoryWhole
    <3>2. HistOf(mirror'.revs \cup mirror'.heads) \subseteq Objects(mirror'.packs)
      BY <2>2, <2>7, <3>1 DEF HistoryWhole, HistOf
    <3> QED  BY <2>1, <2>2, <2>7, <3>1, <3>2, HistoryStep
  <2> QED  BY <2>5, <2>6, <2>7 DEF HoldsAll
<1>7. ASSUME NEW b \in Builder, FetchFails(b) PROVE HoldsAll'
  <2>0. \A q \in Fetcher \ {b} : pc'[q] = pc[q] /\ reads'[q] = reads[q]
    BY <1>7, <1>a DEF FetchFails, FailTo, EndWith, Leave
  <2>1. pc'[b] \in {"idle", "compact"} /\ reads'[b] = {}
    BY <1>7, <1>a DEF FetchFails, FailTo, EndWith, Leave
  <2>2. PICK left \in {{}, {Of[b]}} :
          mirror' = IF pc[b] = "packed" THEN mirror ELSE [mirror EXCEPT !.packs = WithPack(left)]
    BY <1>7 DEF FetchFails
  <2>3. mirror.packs \subseteq WithPack(left) /\ Objects(WithPack(left)) = Objects(mirror.packs) \cup left
    BY <1>a, WithPackType
  <2>4. /\ mirror.packs \subseteq mirror'.packs /\ Objects(mirror.packs) \subseteq Objects(mirror'.packs)
        /\ mirror'.marker = mirror.marker /\ mirror'.revs = mirror.revs /\ mirror'.heads = mirror.heads
    BY <1>a, <2>2, <2>3 DEF MirrorState
  <2>5. ReadsKept'  BY <2>0, <2>1, <2>4, ReadsStep DEF HoldsAll
  <2>6. MarkerExact'  BY <1>7, <1>a, <2>4 DEF FetchFails, MarkerExact
  <2>7. ASSUME HistoryWhole PROVE HistoryWhole'
    BY <2>0, <2>1, <2>4, <2>7, HistoryStep DEF HistoryWhole
  <2> QED  BY <2>5, <2>6, <2>7 DEF HoldsAll
<1>8. ASSUME NEW b \in Builder, Built(b) PROVE HoldsAll'
  <2>1. Quiet(b)  BY <1>8, <1>a, <1>b DEF Built, Quiet, Goto, Leave
  <2> QED  BY <2>1, QuietKeeps
<1>9. ASSUME NEW b \in Builder, BuildFails(b) PROVE HoldsAll'
  <2>1. Quiet(b)  BY <1>9, <1>a, <1>b DEF BuildFails, Quiet, FailTo, EndWith, Leave
  <2> QED  BY <2>1, QuietKeeps
<1>10. ASSUME NEW b \in Builder, PublishTags(b) PROVE HoldsAll'
  <2>1. Quiet(b)  BY <1>10, <1>a, <1>b DEF PublishTags, Quiet, Goto, Leave
  <2> QED  BY <2>1, QuietKeeps
<1>11. ASSUME NEW b \in Builder, FirstBranches(b) PROVE HoldsAll'
  <2>1. Quiet(b)  BY <1>11, <1>a, <1>b DEF FirstBranches, Quiet, Goto
  <2> QED  BY <2>1, QuietKeeps
<1>12. ASSUME NEW b \in Builder, Compact(b) PROVE HoldsAll'
  <2>1. CASE pc[b] = "compact"
    <3>1. Quiet(b)  BY <1>12, <1>a, <1>b, <2>1 DEF Compact, Quiet, Goto
    <3> QED  BY <3>1, QuietKeeps
  <2>2. CASE pc[b] = "compacting"
    <3>1. PICK packs \in Repacked \cup {mirror.packs} : mirror' = [mirror EXCEPT !.packs = packs]
      BY <1>12, <2>2 DEF Compact
    <3>2. Objects(packs) = Objects(mirror.packs)  BY <1>a, RepackedKeeps
    <3>3. /\ mirror'.packs = packs /\ mirror'.marker = mirror.marker
          /\ mirror'.revs = mirror.revs /\ mirror'.heads = mirror.heads
      BY <1>a, <3>1 DEF MirrorState
    <3>4. \A q \in Fetcher \ {b} : pc'[q] = pc[q] /\ reads'[q] = reads[q]
      BY <1>12, <1>a, <2>2 DEF Compact, Goto
    <3>5. pc'[b] = "idle" /\ reads'[b] = {}  BY <1>12, <1>a, <1>b, <2>2 DEF Compact, Goto
    <3>6. ReadsKept'  BY <2>2, <3>4, <3>5, ReadsStep DEF HoldsAll
    <3>7. MarkerExact'  BY <1>a, <2>2, <3>3, <3>4, <3>5, MarkerStep DEF Writing
    <3>8. ASSUME HistoryWhole PROVE HistoryWhole'
      BY <3>2, <3>3, <3>4, <3>5, <3>8, HistoryStep DEF HistoryWhole
    <3> QED  BY <3>6, <3>7, <3>8 DEF HoldsAll
  <2> QED  BY <1>12, <2>1, <2>2 DEF Compact
<1>13. ASSUME StartRefresh PROVE HoldsAll'
  <2>1. Quiet(Refresher)  BY <1>13, <1>a, <1>b DEF StartRefresh, Quiet, Goto
  <2> QED  BY <2>1, QuietKeeps
<1>14. ASSUME NEW p \in Fetcher, ListUpstream(p) PROVE HoldsAll'
  <2>1. Quiet(p)  BY <1>14, <1>a, <1>b DEF ListUpstream, Quiet, Goto, AfterRefresh
  <2> QED  BY <2>1, QuietKeeps
<1>15. ASSUME NEW p \in Fetcher, RefreshAsksWrite(p) PROVE HoldsAll'
  <2>1. Quiet(p)  BY <1>15, <1>a, <1>b DEF RefreshAsksWrite, Quiet, Goto
  <2> QED  BY <2>1, QuietKeeps
<1>16. ASSUME NEW p \in Fetcher, FetchHeads(p) PROVE HoldsAll'
  <2>0. pc[p] = "refwrite" /\ p \in locks["write"].held  BY <1>16 DEF FetchHeads, Holds
  <2>1. \A q \in Fetcher \ {p} : pc'[q] = pc[q] /\ reads'[q] = reads[q]
    BY <1>16, <1>a DEF FetchHeads, Goto, EndRefresh, EndWith, Leave
  <2>2. \/ pc'[p] = "publish" /\ reads'[p] = mirror'.packs
        \/ pc'[p] \in {"idle", "compact"} /\ reads'[p] = {}
    <3>1. CASE Goto(p, "publish") /\ reads' = [reads EXCEPT ![p] = mirror'.packs]  BY <1>a, <3>1 DEF Goto
    <3>2. ASSUME NEW over, EndRefresh(p, Released(locks, p, "write"), over)
          PROVE  pc'[p] \in {"idle", "compact"} /\ reads'[p] = {}
      BY <1>a, <3>2 DEF EndRefresh, EndWith, Leave, AfterRefresh
    <3> QED  BY <1>16, <3>1, <3>2 DEF FetchHeads
  <2>3. CASE mirror' = mirror
    <3>1. ReadsKept'  BY <2>1, <2>2, <2>3, ReadsStep DEF HoldsAll
    <3>2. MarkerExact'  BY <1>a, <2>0, <2>1, <2>2, <2>3, MarkerStep
    <3>3. ASSUME HistoryWhole PROVE HistoryWhole'  BY <2>1, <2>2, <2>3, <3>3, HistoryStep DEF HistoryWhole
    <3> QED  BY <3>1, <3>2, <3>3 DEF HoldsAll
  <2>4. CASE mirror' \in {[mirror EXCEPT !.heads = Tips, !.packs = WithPack(Incoming(Tips)), !.over = over] :
                            over \in BOOLEAN}
    <3> DEFINE pack == Incoming(Tips)
    <3>0. Tips \in SUBSET Commit /\ pack \in SUBSET Commit  BY IncomingType, <1>a
    <3>1. /\ mirror'.packs = WithPack(pack) /\ mirror'.marker = mirror.marker
          /\ mirror'.revs = mirror.revs /\ mirror'.heads = Tips
      BY <1>a, <2>4 DEF MirrorState
    <3>2. HistoryWhole => HistOf(Tips) \subseteq Objects(mirror.packs) \cup pack  BY <1>a, <3>0, FetchesWhole
    <3> HIDE DEF pack
    <3>3. mirror.packs \subseteq WithPack(pack) /\ Objects(WithPack(pack)) = Objects(mirror.packs) \cup pack
      BY <1>a, <3>0, WithPackType
    <3>4. ReadsKept'  BY <2>1, <2>2, <3>1, <3>3, ReadsStep DEF HoldsAll
    <3>5. MarkerExact'  BY <1>a, <2>0, <2>1, <2>2, <3>1, MarkerStep
    <3>6. ASSUME HistoryWhole PROVE HistoryWhole'
      <4>1. HistOf(mirror'.revs \cup mirror'.heads) \subseteq Objects(mirror'.packs)
        BY <3>1, <3>2, <3>3, <3>6 DEF HistoryWhole, HistOf
      <4> QED  BY <2>1, <2>2, <3>1, <3>3, <3>6, <4>1, HistoryStep
    <3> QED  BY <3>4, <3>5, <3>6 DEF HoldsAll
  <2>5. mirror' = mirror \/ mirror' = [mirror EXCEPT !.heads = Tips, !.packs = WithPack(Incoming(Tips))]
        \/ mirror' = [mirror EXCEPT !.heads = Tips, !.packs = WithPack(Incoming(Tips)), !.over = TRUE]
    BY <1>16 DEF FetchHeads
  <2>6. [mirror EXCEPT !.heads = Tips, !.packs = WithPack(Incoming(Tips))]
          = [mirror EXCEPT !.heads = Tips, !.packs = WithPack(Incoming(Tips)), !.over = mirror.over]
        /\ mirror.over \in BOOLEAN
    BY <1>a DEF MirrorState
  <2> QED  BY <2>3, <2>4, <2>5, <2>6
<1>17. ASSUME NEW p \in Fetcher, BuildSidePack(p) PROVE HoldsAll'
  <2>1. Quiet(p)  BY <1>17, <1>a, <1>b DEF BuildSidePack, Quiet, Goto
  <2> QED  BY <2>1, QuietKeeps
<1>18. ASSUME NEW p \in Fetcher, PublishRefs(p) PROVE HoldsAll'
  <2>1. Quiet(p)  BY <1>18, <1>a, <1>b DEF PublishRefs, Quiet, EndRefresh, EndWith, Leave, AfterRefresh
  <2> QED  BY <2>1, QuietKeeps
<1>19. ASSUME NEW r \in Removers, RemoverLocks(r) PROVE HoldsAll'
  <2>1. Quiet(r)  BY <1>19, <1>a, <1>b DEF RemoverLocks, Quiet, Goto
  <2> QED  BY <2>1, QuietKeeps
<1>20. ASSUME NEW r \in Removers, RemoveDir(r) PROVE HoldsAll'
  <2>1. mirror' = Absent /\ pc[r] = "removing"  BY <1>20 DEF RemoveDir
  <2>2. /\ mirror'.marker = None /\ mirror'.revs = {} /\ mirror'.heads = {} /\ r \notin Fetcher
    BY <2>1 DEF Absent
  <2>3. \A q \in Fetcher \ {r} : pc'[q] = pc[q] /\ reads'[q] = reads[q]  BY <1>20, <1>a DEF RemoveDir, Goto
  <2>4. ReadsKept'  BY <2>1, <2>2, <2>3, ReadsStep DEF HoldsAll
  <2>5. MarkerExact'  BY <2>1, <2>2, <2>3, MarkerStep DEF Writing
  <2>6. HistOf(mirror'.revs \cup mirror'.heads) = {}  BY <2>2 DEF HistOf
  <2>7. ASSUME HistoryWhole PROVE HistoryWhole'  BY <2>1, <2>2, <2>3, <2>6, <2>7, HistoryStep
  <2> QED  BY <2>4, <2>5, <2>7 DEF HoldsAll
<1>21. ASSUME PurgeMirror PROVE HoldsAll'
  <2>1. Quiet(Remover(Purger))  BY <1>21, <1>a, <1>b DEF PurgeMirror, Quiet, Goto
  <2> QED  BY <2>1, QuietKeeps
<1>22. ASSUME Readd PROVE HoldsAll'
  BY <1>22 DEF Readd, HoldsAll, ReadsKept, MarkerExact, HistoryWhole
<1>23. ASSUME Restart PROVE HoldsAll'
  <2>1. /\ first' = FALSE /\ pc' = [p \in Proc |-> "idle"] /\ reads' = [p \in Proc |-> {}]
        /\ mirror' = Absent \/ mirror' = mirror \/ (StopsInRemoval /\ mirror' \in HalfRemoved)
    <3>1. CASE ~known  BY <1>23, <3>1 DEF Restart
    <3>2. CASE known /\ \A r \in Removers : pc[r] # "removing"  BY <1>23, <3>2 DEF Restart
    <3>3. CASE known /\ ~\A r \in Removers : pc[r] # "removing"  BY <1>23, <3>3 DEF Restart
    <3> QED  BY <3>1, <3>2, <3>3
  <2>2. ReadsKept'  BY <2>1 DEF ReadsKept
  <2>3. mirror'.marker = None \/ mirror'.marker = mirror.marker
    <3>1. CASE mirror' = Absent  BY <3>1 DEF Absent
    <3>2. CASE mirror' = mirror  BY <3>2
    <3>3. CASE mirror' \in HalfRemoved  BY <1>a, <3>3 DEF HalfRemoved, MirrorState
    <3> QED  BY <2>1, <3>1, <3>2, <3>3
  <2>4. MarkerExact'  BY <1>a, <2>1, <2>3 DEF MarkerExact
  <2>5. ASSUME ~StopsInRemoval, HistoryWhole PROVE HistoryWhole'
    BY <2>1, <2>5 DEF HistoryWhole, Absent, HistOf
  <2> QED  BY <2>2, <2>4, <2>5 DEF HoldsAll
<1> QED  BY <1>1, <1>2, <1>3, <1>4, <1>5, <1>6, <1>7, <1>8, <1>9, <1>10, <1>11, <1>12, <1>13, <1>14, <1>15,
  <1>16, <1>17, <1>18, <1>19, <1>20, <1>21, <1>22, <1>23
  DEF MirrorNext, BuilderStep, RefreshStep

-----------------------------------------------------------------------------
(* Nobody waits in a circle.                                                *)

\* Whoever is in line for a lock waits where that lock is waited for.
LEMMA InLineWaits ==
  ASSUME LocksOK, NEW l \in Lock, NEW i \in DOMAIN locks[l].queue
  PROVE  LET p == locks[l].queue[i].proc IN p \in Proc /\ p \notin locks[l].held /\ pc[p] \in Waits(l)
<1>1. DOMAIN locks[l].queue = 1..Len(locks[l].queue)  BY DEF LocksOK, LockState
<1>2. locks[l].queue[i].proc \in Users(l) \ locks[l].held  BY <1>1 DEF LocksOK, LocksInv, Serves
<1>3. locks[l].queue[i].proc \notin Owners(l)  BY <1>2 DEF LocksOK, LocksInv, Serves
<1> QED  BY <1>2, <1>3 DEF Users, Owners

\* No label waits for two locks.
LEMMA WaitsApart ==
  ASSUME NEW l \in Lock, NEW m \in Lock, NEW label \in Waits(l), label \in Waits(m)
  PROVE  l = m
BY Labels DEF Lock

\* Whom p waits for.
LEMMA WaitsForWhom ==
  ASSUME LocksOK, NEW p, NEW x \in WaitsFor(p)
  PROVE  \E l \in Lock : \E i \in DOMAIN locks[l].queue :
           /\ locks[l].queue[i].proc = p
           /\ x \in locks[l].held \/ \E j \in 1..(i - 1) : locks[l].queue[j].proc = x
BY DEF WaitsFor

\* The first in line for lock l, of some who wait for nothing else with it in
\* hand, waits for none of them.
LEMMA FirstInLine ==
  ASSUME LocksOK, NEW l \in Lock, NEW ps, ps \subseteq UNION {Line(locks[m]) : m \in Lock},
         NEW some \in ps, some \in Line(locks[l]),
         \A p \in ps : pc[p] \in Uses(l) => pc[p] \in Waits(l)
  PROVE  \E p \in ps : WaitsFor(p) \cap ps = {}
<1> DEFINE q == locks[l].queue
           S == {i \in DOMAIN q : q[i].proc \in ps}
<1>0. q \in Seq([proc : Proc, alone : BOOLEAN]) /\ DOMAIN q = 1..Len(q) /\ Len(q) \in Nat
  <2>1. q \in Seq([proc : Proc, alone : BOOLEAN])  BY DEF LocksOK, LockState
  <2> HIDE DEF q
  <2> QED  BY <2>1
<1>1. S # {} /\ S \subseteq Nat  BY <1>0 DEF Line
<1>2. PICK i \in S : \A n \in S : i <= n
  <2> HIDE DEF S
  <2> QED  BY <1>1, LeastNatural
<1> DEFINE p == q[i].proc
<1>3. p \in ps /\ i \in DOMAIN q  BY <1>2
<1>4. ASSUME NEW h \in ps, h \in locks[l].held PROVE FALSE
  <2>1. PICK m \in Lock : \E k \in DOMAIN locks[m].queue : locks[m].queue[k].proc = h  BY DEF Line
  <2>2. pc[h] \in Waits(m) /\ h \notin locks[m].held  BY <2>1, InLineWaits
  <2>3. pc[h] \in Uses(l)  BY <1>4 DEF LocksOK, LocksInv, Serves, Users
  <2>4. l = m  BY <2>2, <2>3, WaitsApart
  <2> QED  BY <1>4, <2>2, <2>4
<1>5. ASSUME NEW x \in WaitsFor(p), x \in ps PROVE FALSE
  <2>1. PICK m \in Lock : \E k \in DOMAIN locks[m].queue :
          /\ locks[m].queue[k].proc = p
          /\ x \in locks[m].held \/ \E j \in 1..(k - 1) : locks[m].queue[j].proc = x
    <3> HIDE DEF p
    <3> QED  BY <1>5, WaitsForWhom
  <2>2. PICK k \in DOMAIN locks[m].queue :
          /\ locks[m].queue[k].proc = p
          /\ x \in locks[m].held \/ \E j \in 1..(k - 1) : locks[m].queue[j].proc = x
    BY <2>1
  <2>3. l = m  BY <1>3, <2>2, InLineWaits, WaitsApart
  <2>4. k = i
    <3>1. \A a, b \in 1..Len(q) : q[a].proc = q[b].proc => a = b  BY <2>3 DEF LocksOK, LocksInv, Serves
    <3> QED  BY <1>0, <1>3, <2>2, <2>3, <3>1
  <2>5. x \notin locks[m].held  BY <1>4, <1>5, <2>3
  <2>6. PICK j \in 1..(i - 1) : q[j].proc = x  BY <2>2, <2>3, <2>4, <2>5
  <2>7. j \in S /\ j < i  BY <1>0, <1>3, <1>5, <2>6
  <2> QED  BY <1>0, <1>2, <1>3, <2>7
<1> QED  BY <1>3, <1>5

\* The read, write, refs and refresh locks are asked for in an order: who has the
\* write or the refs lock waits for none, who has the read lock for one of those.
LEMMA NobodyInCircle ==
  LocksOK => NoCircularWait
<1> SUFFICES ASSUME LocksOK PROVE NoCircularWait  OBVIOUS
<1> DEFINE waiting == UNION {Line(locks[l]) : l \in Lock}
<1>1. ASSUME NEW p \in waiting PROVE WaitsFor(p) # {}
  <2>1. PICK l \in Lock : \E i \in DOMAIN locks[l].queue : locks[l].queue[i].proc = p  BY <1>1 DEF Line
  <2>2. PICK i \in DOMAIN locks[l].queue : locks[l].queue[i].proc = p  BY <2>1
  <2>3. locks[l].queue # <<>>  BY <2>2
  <2>4. locks[l].held # {}  BY <2>3 DEF LocksOK, LocksInv, Serves
  <2>5. locks[l].held \subseteq WaitsFor(p)  BY <2>2 DEF WaitsFor
  <2> QED  BY <2>4, <2>5
<1>2. ASSUME NEW ps \in (SUBSET waiting) \ {{}} PROVE \E p \in ps : WaitsFor(p) \cap ps = {}
  <2> DEFINE In(l) == \E p \in ps : p \in Line(locks[l])
  <2>0. \A p \in ps : \E l \in Lock : p \in Line(locks[l]) /\ pc[p] \in Waits(l)
    BY InLineWaits DEF Line
  <2>1. ASSUME NEW l \in Lock, In(l), \A p \in ps : pc[p] \in Uses(l) => pc[p] \in Waits(l)
        PROVE  \E p \in ps : WaitsFor(p) \cap ps = {}
    BY <2>1, FirstInLine
  <2>2. CASE In("write")
    <3>1. \A p \in ps : pc[p] \in Uses("write") => pc[p] \in Waits("write")
      BY <2>0, Labels DEF Lock
    <3> QED  BY <2>1, <2>2, <3>1 DEF Lock
  <2>3. CASE In("refs")
    <3>1. \A p \in ps : pc[p] \in Uses("refs") => pc[p] \in Waits("refs")  BY Labels
    <3> QED  BY <2>1, <2>3, <3>1 DEF Lock
  <2>4. CASE ~In("write") /\ ~In("refs") /\ In("read")
    <3>1. \A p \in ps : pc[p] \in Waits("read") \cup Waits("refresh")  BY <2>0, <2>4 DEF Lock
    <3>2. \A p \in ps : pc[p] \in Uses("read") => pc[p] \in Waits("read")  BY <3>1, Labels
    <3> QED  BY <2>1, <2>4, <3>2 DEF Lock
  <2>5. CASE ~In("write") /\ ~In("refs") /\ ~In("read")
    <3>1. \A p \in ps : p \in Line(locks["refresh"]) /\ pc[p] \in Waits("refresh")  BY <2>0, <2>5 DEF Lock
    <3>2. In("refresh")  BY <3>1
    <3> QED  BY <2>1, <3>1, <3>2 DEF Lock
  <2> QED  BY <2>2, <2>3, <2>4, <2>5
<1> QED  BY <1>1, <1>2 DEF NoCircularWait

-----------------------------------------------------------------------------
(* The theorems.                                                            *)

LEMMA InvariantParts ==
  MirrorInv <=> DataOK /\ LocksOK /\ HoldsAll
BY DEF MirrorInv, MirrorTypeOK, DataOK, LocksOK, HoldsAll

LEMMA MirrorStarts ==
  MirrorInit => MirrorInv
<1> SUFFICES ASSUME MirrorInit PROVE MirrorInv  OBVIOUS
<1> USE DEF MirrorInit
<1>1. DataOK
  <2>1. Absent \in MirrorState  BY DEF Absent, MirrorState
  <2> QED  BY <2>1 DEF DataOK
<1>2. LocksOK
  <2>1. "idle" \in Label /\ \A l \in Lock : "idle" \notin Uses(l)  BY Labels DEF Lock
  <2>2. Unlocked \in LockState /\ \A loners : Serves(Unlocked, {}, {}, loners)
    BY DEF Unlocked, LockState, Serves
  <2>3. \A l \in Lock : Users(l) = {} /\ Owners(l) = {}  BY <2>1 DEF Users, Owners
  <2>4. LocksInv
    <3> HIDE DEF Unlocked
    <3> QED  BY <2>2, <2>3 DEF LocksInv
  <2> QED  BY <2>1, <2>2, <2>4 DEF LocksOK
<1>3. HoldsAll
  <2>1. ReadsKept  BY Tasks DEF ReadsKept
  <2>2. MarkerExact  BY DEF MarkerExact, Absent
  <2>3. HistoryWhole  BY Tasks DEF HistoryWhole, Absent, HistOf
  <2> QED  BY <2>1, <2>2, <2>3 DEF HoldsAll
<1> QED  BY <1>1, <1>2, <1>3, InvariantParts

\* The variables have their types, the four locks of a repository serve their
\* users in order and keep apart who must be, and the mirror holds what its
\* readers, its marker and (with no stop amid a removal) its refs stand for.
THEOREM MirrorInvariant == MirrorSpec => []MirrorInv
<1>1. MirrorInv /\ [MirrorNext]_mirrorVars => MirrorInv'
  <2> SUFFICES ASSUME MirrorInv, [MirrorNext]_mirrorVars PROVE MirrorInv'  OBVIOUS
  <2>1. DataOK /\ LocksOK /\ HoldsAll  BY InvariantParts
  <2>2. CASE MirrorNext
    <3>1. mirror \in MirrorState  BY <2>1 DEF DataOK
    <3>2. DataOK' /\ LocksOK' /\ HoldsAll'  BY <2>1, <2>2, <3>1, DataKept, LocksKept, HoldsKept
    <3> QED  BY <3>2 DEF MirrorInv, MirrorTypeOK, DataOK, LocksOK, HoldsAll
  <2>3. CASE UNCHANGED mirrorVars
    BY <2>3 DEF mirrorVars, MirrorInv, MirrorTypeOK, LocksInv, Users, Owners, Loners, ReadsKept, MarkerExact,
                HistoryWhole
  <2> QED  BY <2>2, <2>3
<1> QED  BY <1>1, MirrorStarts, PTL DEF MirrorSpec

\* No fetch, compaction, purge or removal takes a pack from under a build or a
\* refs refresh that reads it.
THEOREM PacksStayForReaders == MirrorSpec => []ReadersKeepPacks
<1>1. MirrorInv => ReadersKeepPacks  BY DEF MirrorInv, ReadsKept, ReadersKeepPacks
<1> QED  BY <1>1, MirrorInvariant, PTL

\* fetched_history_pack gives a cold Full the history of its commit or nothing,
\* whatever failed fetches, repacks and stops left.
THEOREM MarkedPackIsHistory == MirrorSpec => []ColdFullExact
<1>1. MirrorInv => ColdFullExact
  BY DEF MirrorInv, MarkerExact, ColdFullExact, FetchedHistoryPack
<1> QED  BY <1>1, MirrorInvariant, PTL

\* RepoLock's four locks are never waited for in a circle, nor while nobody
\* holds them, however many builds, refreshes and removals ask for them.
THEOREM LocksNeverCircle == MirrorSpec => []NoCircularWait
<1>1. MirrorInv => NoCircularWait  BY InvariantParts, NobodyInCircle
<1> QED  BY <1>1, MirrorInvariant, PTL

\* A mirror that no stop left half removed holds all that the commit of a
\* running build reaches, though fetches are cut short and the check runs beside
\* a fetch.
THEOREM HistoryIsWhole ==
  ASSUME ~StopsInRemoval
  PROVE  MirrorSpec => []BuildsOnWholeHistory
<1>1. MirrorInv => BuildsOnWholeHistory  BY DEF MirrorInv, HistoryWhole, BuildsOnWholeHistory
<1> QED  BY <1>1, MirrorInvariant, PTL
=============================================================================
