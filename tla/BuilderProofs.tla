--------------------------- MODULE BuilderProofs ---------------------------
(***************************************************************************)
(* Theorems about what builds write: the packs of Heads and Fulls           *)
(* (PackLevels) and the tables of Files archives (FilesArchive), for every  *)
(* commit graph, objects, trees, sizes, limits and order of builds.         *)
(*                                                                          *)
(* Bytes, Batches, KeptPacks, CompactLevels and Within are folds, and what  *)
(* they compute is shown by induction over the set that is folded, on its   *)
(* cardinality.                                                             *)
(***************************************************************************)
EXTENDS PackLevels, FilesArchive,
        SequenceTheorems, FiniteSetTheorems, WellFoundedInduction, TLAPS

-----------------------------------------------------------------------------
(* Folds.                                                                   *)

\* Every non-empty set of naturals has a least element.
LEMMA LeastNatural ==
  ASSUME NEW S, S \subseteq Nat, S # {}
  PROVE  \E m \in S : \A n \in S : m <= n
<1> DEFINE R == OpToRel(<, Nat)
<1>1. \E m \in S : \A n \in S : <<n, m>> \notin R  BY NatLessThanWellFounded, WFMin
<1>2. \A m, n \in Nat : <<n, m>> \notin R => m <= n  BY DEF OpToRel
<1> QED  BY <1>1, <1>2

\* A set that holds a natural holds a largest one if it is bounded.
LEMMA MaxIsIn ==
  ASSUME NEW n \in Nat, NEW S \in SUBSET (1..n), S # {}
  PROVE  Max(S) \in S
<1> DEFINE T == {n - x : x \in S}
<1>0. \A x \in S : x \in Nat /\ x <= n
  <2>1. \A x \in 1..n : x \in Nat /\ x <= n  OBVIOUS
  <2> QED  BY <2>1
<1>1. T \subseteq Nat /\ T # {}
  <2>1. \A x \in S : n - x \in Nat  BY <1>0
  <2> QED  BY <2>1
<1>2. PICK m \in T : \A k \in T : m <= k  BY <1>1, LeastNatural
<1>3. PICK x \in S : m = n - x  OBVIOUS
<1>4. ASSUME NEW y \in S PROVE x >= y
  <2>1. n - y \in T  OBVIOUS
  <2>2. n - x <= n - y  BY <1>2, <1>3, <2>1
  <2> HIDE DEF T
  <2> QED  BY <1>0, <2>2
<1> QED  BY <1>3, <1>4 DEF Max

\* Removing an element from a finite set lowers its cardinality by one.
LEMMA OneLess ==
  ASSUME NEW S, IsFiniteSet(S), NEW s \in SUBSET S, NEW x \in s
  PROVE  /\ Cardinality(s) \in Nat /\ Cardinality(s \ {x}) \in Nat
         /\ Cardinality(s \ {x}) = Cardinality(s) - 1
<1>1. IsFiniteSet(s)  BY FS_Subset
<1> QED  BY <1>1, FS_CardinalityType, FS_RemoveElement

\* it folds the subsets of S from a on: pick says which element is taken out
\* of a set, and step what it does to the value of the rest.
Picks(pick, S) == \A s \in SUBSET S : s # {} => pick[s] \in s
Steps(step, S, V) == \A x \in S : \A v \in V : step[<<x, v>>] \in V
FoldsTo(it, S, a, pick, step) ==
  \A s \in SUBSET S : it[s] = IF s = {} THEN a ELSE step[<<pick[s], it[s \ {pick[s]}]>>]

\* A fold is well defined.
LEMMA FoldExists ==
  ASSUME NEW S, IsFiniteSet(S), NEW V, NEW a, a \in V, NEW pick, NEW step, Picks(pick, S), Steps(step, S, V)
  PROVE  \E it \in [SUBSET S -> V] : FoldsTo(it, S, a, pick, step)
<1> USE DEF Picks, Steps, FoldsTo
<1> DEFINE D(n) == {s \in SUBSET S : Cardinality(s) <= n}
           Rest(s) == s \ {pick[s]}
           Fold(it, d) == \A s \in d : it[s] = IF s = {} THEN a ELSE step[<<pick[s], it[Rest(s)]>>]
           Missing == {n \in Nat : ~ \E it \in [D(n) -> V] : Fold(it, D(n))}
<1>1. \A s \in SUBSET S : Cardinality(s) \in Nat /\ IsFiniteSet(s)  BY FS_Subset, FS_CardinalityType
<1>2. \A s \in SUBSET S : s # {} => Rest(s) \in SUBSET S /\ Cardinality(Rest(s)) = Cardinality(s) - 1
  BY OneLess
<1>3. \A s \in SUBSET S : Cardinality(s) = 0 <=> s = {}  BY <1>1, FS_EmptySet
<1>4. Missing = {}
  <2> SUFFICES ASSUME Missing # {} PROVE FALSE  OBVIOUS
  <2>1. PICK m \in Missing : \A n \in Missing : m <= n  BY LeastNatural
  <2>2. m # 0
    <3> SUFFICES ASSUME m = 0 PROVE FALSE  OBVIOUS
    <3> DEFINE it == [s \in D(0) |-> a]
    <3>1. \A s \in D(0) : s = {}  BY <1>1, <1>3
    <3>2. it \in [D(0) -> V] /\ Fold(it, D(0))  BY <3>1
    <3> QED  BY <3>2
  <2>3. m - 1 \in Nat /\ m - 1 \notin Missing
    <3>1. m \in Nat  BY <2>1
    <3> HIDE DEF Missing
    <3> QED  BY <2>1, <2>2, <3>1
  <2> DEFINE n == m - 1
  <2>4. PICK it \in [D(n) -> V] : Fold(it, D(n))  BY <2>3
  <2> DEFINE up == [s \in D(m) |-> IF s \in D(n) THEN it[s] ELSE step[<<pick[s], it[Rest(s)]>>]]
  <2>5. ASSUME NEW s \in D(m), s # {} PROVE Rest(s) \in D(n) /\ Rest(s) \in D(m) /\ pick[s] \in S
    <3>1. s \in SUBSET S /\ Cardinality(s) <= m /\ Cardinality(s) \in Nat  BY <1>1
    <3>2. Rest(s) \in SUBSET S /\ Cardinality(Rest(s)) = Cardinality(s) - 1  BY <1>2, <2>5, <3>1
    <3>3. Cardinality(Rest(s)) <= n /\ Cardinality(Rest(s)) <= m  BY <2>1, <3>1, <3>2
    <3>4. pick[s] \in S  BY <2>5, <3>1
    <3> QED  BY <3>2, <3>3, <3>4
  <2>6. {} \in D(n)  BY <1>3, <2>3
  <2>7. up \in [D(m) -> V]
    <3> SUFFICES ASSUME NEW s \in D(m) PROVE (IF s \in D(n) THEN it[s] ELSE step[<<pick[s], it[Rest(s)]>>]) \in V
      OBVIOUS
    <3>1. CASE s \in D(n)  BY <2>4, <3>1
    <3>2. CASE s \notin D(n)
      <4>1. Rest(s) \in D(n) /\ pick[s] \in S  BY <2>5, <2>6, <3>2
      <4>2. it[Rest(s)] \in V  BY <2>4, <4>1
      <4> QED  BY <3>2, <4>1, <4>2
    <3> QED  BY <3>1, <3>2
  <2>8. Fold(up, D(m))
    <3> SUFFICES ASSUME NEW s \in D(m)
                 PROVE  up[s] = IF s = {} THEN a ELSE step[<<pick[s], up[Rest(s)]>>]
      OBVIOUS
    <3>1. s # {} => up[Rest(s)] = it[Rest(s)]  BY <2>5
    <3>2. CASE s \in D(n)
      <4>1. it[s] = IF s = {} THEN a ELSE step[<<pick[s], it[Rest(s)]>>]  BY <2>4, <3>2
      <4>2. up[s] = it[s]  BY <3>2
      <4> QED  BY <3>1, <4>1, <4>2
    <3>3. CASE s \notin D(n)
      <4>1. s # {} /\ up[s] = step[<<pick[s], it[Rest(s)]>>]  BY <2>6, <3>3
      <4> QED  BY <3>1, <4>1
    <3> QED  BY <3>2, <3>3
  <2> QED  BY <2>1, <2>7, <2>8
<1>5. Cardinality(S) \in Nat  BY FS_CardinalityType
<1>6. PICK it \in [D(Cardinality(S)) -> V] : Fold(it, D(Cardinality(S)))  BY <1>4, <1>5
<1>7. D(Cardinality(S)) = SUBSET S
  <2>1. \A s \in SUBSET S : Cardinality(s) <= Cardinality(S)  BY FS_Subset
  <2> QED  BY <2>1
<1> QED  BY <1>6, <1>7

\* What holds of the empty set, and of a set if it holds of it without some
\* element, holds of every finite set.
LEMMA FoldInduction ==
  ASSUME NEW S, IsFiniteSet(S), NEW G, {} \in G,
         \A s \in SUBSET S : s # {} => \E x \in s : s \ {x} \in G => s \in G
  PROVE  SUBSET S \subseteq G
<1> DEFINE Sizes == {n \in Nat : \E s \in SUBSET S : Cardinality(s) = n /\ s \notin G}
<1>1. \A s \in SUBSET S : Cardinality(s) \in Nat  BY FS_Subset, FS_CardinalityType
<1>2. Sizes = {}
  <2> SUFFICES ASSUME Sizes # {} PROVE FALSE  OBVIOUS
  <2>1. PICK m \in Sizes : \A n \in Sizes : m <= n  BY LeastNatural
  <2>2. PICK s \in SUBSET S : Cardinality(s) = m /\ s \notin G  BY <2>1
  <2>3. PICK x \in s : s \ {x} \in G => s \in G  BY <2>2
  <2>4. Cardinality(s \ {x}) = m - 1 /\ Cardinality(s \ {x}) \in Nat  BY <2>2, OneLess
  <2>5. m - 1 \in Sizes  BY <2>2, <2>3, <2>4
  <2> QED  BY <2>1, <2>4, <2>5
<1> QED  BY <1>1, <1>2

-----------------------------------------------------------------------------
(* Packs.                                                                   *)

\* The objects are finitely many and have sizes.
LEMMA ObjectsAre ==
  /\ Len(ObjectSize) \in Nat /\ DOMAIN ObjectSize = 1..Len(ObjectSize)
  /\ IsFiniteSet(DOMAIN ObjectSize) /\ \A o \in DOMAIN ObjectSize : ObjectSize[o] \in Nat
<1>1. /\ Len(ObjectSize) \in Nat /\ DOMAIN ObjectSize = 1..Len(ObjectSize)
      /\ \A o \in DOMAIN ObjectSize : ObjectSize[o] \in Nat
  BY PackAssumption
<1>2. Len(ObjectSize) \in Int /\ 1 \in Int  BY <1>1
<1>3. IsFiniteSet(1..Len(ObjectSize))  BY ONLY <1>2, FS_Interval
<1> QED  BY <1>1, <1>3

\* A pack has a length.
LEMMA BytesAre ==
  ASSUME NEW pack \in SUBSET DOMAIN ObjectSize
  PROVE  Bytes(pack) \in Nat
<1> DEFINE pick == [s \in SUBSET pack |-> CHOOSE x \in s : TRUE]
           step == [p \in pack \X Nat |-> p[2] + ObjectSize[p[1]]]
           Folds_(it) == it = [s \in SUBSET pack |-> IF s = {} THEN 0
                                ELSE it[s \ {CHOOSE x \in s : TRUE}] + ObjectSize[CHOOSE x \in s : TRUE]]
           f == CHOOSE it : Folds_(it)
<1>0. IsFiniteSet(pack) /\ \A o \in pack : ObjectSize[o] \in Nat  BY ObjectsAre, FS_Subset
<1>1. Bytes(pack) = f[pack]  BY DEF Bytes, FoldSet, MapThenFoldSet
<1>2. Folds_(f)
  <2>0. \A x \in pack : \A v \in Nat : step[<<x, v>>] = v + ObjectSize[x]  OBVIOUS
  <2>1. \A s \in SUBSET pack : s # {} => pick[s] \in s /\ pick[s] = CHOOSE x \in s : TRUE  OBVIOUS
  <2> HIDE DEF step, pick, f, Folds_
  <2>2. Picks(pick, pack) /\ Steps(step, pack, Nat) /\ 0 \in Nat  BY <1>0, <2>0, <2>1 DEF Picks, Steps
  <2>3. PICK it \in [SUBSET pack -> Nat] : FoldsTo(it, pack, 0, pick, step)  BY <1>0, <2>2, FoldExists
  <2>4. ASSUME NEW s \in SUBSET pack, s # {}
        PROVE  it[s] = it[s \ {CHOOSE x \in s : TRUE}] + ObjectSize[CHOOSE x \in s : TRUE]
    <3>1. it[s] = step[<<pick[s], it[s \ {pick[s]}]>>]  BY <2>3, <2>4 DEF FoldsTo
    <3>2. pick[s] \in pack /\ it[s \ {pick[s]}] \in Nat  BY <2>1, <2>3, <2>4
    <3>3. it[s] = it[s \ {pick[s]}] + ObjectSize[pick[s]]  BY <2>0, <3>1, <3>2
    <3>4. pick[s] = CHOOSE x \in s : TRUE  BY <2>1, <2>4
    <3> QED  BY <3>3, <3>4
  <2>5. it[{}] = 0  BY <2>3 DEF FoldsTo
  <2>6. Folds_(it)  BY <2>3, <2>4, <2>5 DEF Folds_
  <2> QED  BY <2>6 DEF f
<1> HIDE DEF f
<1> DEFINE G == {s \in SUBSET pack : f[s] \in Nat}
<1>3. \A s \in SUBSET pack : s # {} => \E x \in s : s \ {x} \in G => s \in G
  <2> SUFFICES ASSUME NEW s \in SUBSET pack, s # {} PROVE \E x \in s : s \ {x} \in G => s \in G
    OBVIOUS
  <2>1. PICK x \in s : x = CHOOSE y \in s : TRUE  OBVIOUS
  <2>2. f[s] = f[s \ {x}] + ObjectSize[x]  BY <1>2, <2>1
  <2>3. ObjectSize[x] \in Nat  BY <1>0
  <2>4. \A m, n \in Nat : m + n \in Nat  OBVIOUS
  <2>5. f[s \ {x}] \in Nat => f[s] \in Nat  BY <2>2, <2>3, <2>4
  <2> QED  BY <2>5
<1>4. {} \in G  BY <1>2
<1>5. SUBSET pack \subseteq G
  <2> HIDE DEF G
  <2> QED  BY <1>0, <1>3, <1>4, FoldInduction
<1> QED  BY <1>1, <1>5

\* An object is in packs if it is in one of them.
LEMMA InPacks == \A packs, o : o \in ObjectsIn(packs) <=> \E i \in DOMAIN packs : o \in packs[i]
BY DEF ObjectsIn, ToSet

\* The empty list of packs.
LEMMA NoPacks == Packed(<<>>, {})
BY DEF Packed, Apart, ObjectsIn, ToSet

\* An object joins as a pack of its own or in the last pack.
LEMMA ObjectJoins ==
  ASSUME NEW packs, NEW T, Packed(packs, T), NEW o \in DOMAIN ObjectSize, o \notin T
  PROVE  /\ Packed(Append(packs, {o}), T \cup {o})
         /\ packs # <<>> => Packed([packs EXCEPT ![Len(packs)] = @ \cup {o}], T \cup {o})
<1> DEFINE O == DOMAIN ObjectSize
           p == Append(packs, {o})
           q == [packs EXCEPT ![Len(packs)] = @ \cup {o}]
<1>1. /\ packs \in Seq(SUBSET O) /\ Len(packs) \in Nat /\ DOMAIN packs = 1..Len(packs)
      /\ \A i \in DOMAIN packs : packs[i] \in SUBSET O /\ packs[i] \subseteq T
      /\ \A x \in T : \E i \in DOMAIN packs : x \in packs[i]
      /\ \A i, j \in DOMAIN packs : i # j => packs[i] \cap packs[j] = {}
  <2>1. packs \in Seq(SUBSET O) /\ ObjectsIn(packs) = T /\ Apart(packs)  BY DEF Packed
  <2>2. Len(packs) \in Nat /\ DOMAIN packs = 1..Len(packs) /\ \A i \in DOMAIN packs : packs[i] \in SUBSET O
    BY <2>1
  <2>3. \A x \in T : \E i \in DOMAIN packs : x \in packs[i]  BY <2>1, InPacks
  <2>4. \A i \in DOMAIN packs : packs[i] \subseteq T  BY <2>1, InPacks
  <2> QED  BY <2>1, <2>2, <2>3, <2>4 DEF Apart
<1>2. Packed(p, T \cup {o})
  <2>1. /\ p \in Seq(SUBSET O) /\ DOMAIN p = 1..(Len(packs) + 1)
        /\ \A i \in 1..Len(packs) : p[i] = packs[i]
        /\ p[Len(packs) + 1] = {o}
    BY <1>1
  <2> HIDE DEF p
  <2>2. \A i \in DOMAIN p : i \in DOMAIN packs \/ i = Len(packs) + 1  BY <1>1, <2>1
  <2>3. \A i \in DOMAIN packs : i \in DOMAIN p /\ p[i] = packs[i]  BY <1>1, <2>1
  <2>4. Len(packs) + 1 \in DOMAIN p  BY <1>1, <2>1
  <2>5. ObjectsIn(p) = T \cup {o}
    <3>1. ASSUME NEW x \in ObjectsIn(p) PROVE x \in T \cup {o}
      <4> PICK i \in DOMAIN p : x \in p[i]  BY InPacks
      <4> QED  BY <1>1, <2>1, <2>2, <2>3
    <3>2. ASSUME NEW x \in T \cup {o} PROVE \E i \in DOMAIN p : x \in p[i]  BY <1>1, <2>1, <2>3, <2>4
    <3> QED  BY <3>1, <3>2, InPacks
  <2>6. Apart(p)  BY <1>1, <2>1, <2>2, <2>3 DEF Apart
  <2> QED  BY <2>1, <2>5, <2>6 DEF Packed
<1>3. ASSUME packs # <<>> PROVE Packed(q, T \cup {o})
  <2>0. Len(packs) \in DOMAIN packs  BY <1>1, <1>3
  <2>1. /\ q \in Seq(SUBSET O) /\ DOMAIN q = DOMAIN packs
        /\ \A i \in DOMAIN packs : i # Len(packs) => q[i] = packs[i]
        /\ q[Len(packs)] = packs[Len(packs)] \cup {o}
    BY <1>1, <2>0
  <2> HIDE DEF q
  <2>2. ObjectsIn(q) = T \cup {o}
    <3>1. ASSUME NEW x \in ObjectsIn(q) PROVE x \in T \cup {o}
      <4> PICK i \in DOMAIN q : x \in q[i]  BY InPacks
      <4> QED  BY <1>1, <2>1
    <3>2. ASSUME NEW x \in T \cup {o} PROVE \E i \in DOMAIN q : x \in q[i]
      <4>1. CASE x = o  BY <2>0, <2>1, <4>1
      <4>2. CASE x \in T
        <5> PICK i \in DOMAIN packs : x \in packs[i]  BY <1>1, <4>2
        <5> QED  BY <2>1
      <4> QED  BY <4>1, <4>2
    <3> QED  BY <3>1, <3>2, InPacks
  <2>3. Apart(q)  BY <1>1, <2>0, <2>1 DEF Apart
  <2> QED  BY <2>1, <2>2, <2>3 DEF Packed
<1> QED  BY <1>2, <1>3

\* build_packs_from_oids packs the objects it is given, each once.
LEMMA BatchesPack ==
  ASSUME NEW oids \in SUBSET DOMAIN ObjectSize
  PROVE  Packed(Batches(oids), oids)
<1> DEFINE O == DOMAIN ObjectSize
           V == Seq(SUBSET O)
           seq == [o \in O |-> o]
           Add(packs, o) ==
             IF o \notin oids THEN packs
             ELSE IF packs = <<>> \/ Bytes(Last(packs)) + ObjectSize[o] > PackTarget
                  THEN Append(packs, {o})
                  ELSE [packs EXCEPT ![Len(packs)] = @ \cup {o}]
           pick == [s \in SUBSET O |-> Max(s)]
           step == [p \in O \X V |-> Add(p[2], p[1])]
           Folds_(it) == it = [s \in SUBSET O |-> IF s = {} THEN <<>>
                                ELSE Add(it[s \ {Max(s)}], seq[Max(s)])]
           f == CHOOSE it : Folds_(it)
<1>1. Batches(oids) = f[O]  BY DEF Batches, FoldLeft, MapThenFoldSet
<1>2. \A s \in SUBSET O : s # {} => Max(s) \in s /\ pick[s] = Max(s)  BY ObjectsAre, MaxIsIn
<1>3. \A packs, o : \/ o \notin oids /\ Add(packs, o) = packs
                    \/ o \in oids /\ Add(packs, o) = Append(packs, {o})
                    \/ o \in oids /\ packs # <<>> /\ Add(packs, o) = [packs EXCEPT ![Len(packs)] = @ \cup {o}]
  OBVIOUS
<1>4. \A o \in O : \A packs \in V : step[<<o, packs>>] = Add(packs, o)  OBVIOUS
<1>5. \A o \in O : seq[o] = o  OBVIOUS
<1> HIDE DEF Add, step, pick, f, seq
<1>6. \A packs \in V, o \in O : Add(packs, o) \in V
  <2> SUFFICES ASSUME NEW packs \in V, NEW o \in O PROVE Add(packs, o) \in V  OBVIOUS
  <2>1. {o} \in SUBSET O  OBVIOUS
  <2>2. Append(packs, {o}) \in V  BY <2>1
  <2>3. packs # <<>> => [packs EXCEPT ![Len(packs)] = @ \cup {o}] \in V
    <3> SUFFICES ASSUME packs # <<>> PROVE [packs EXCEPT ![Len(packs)] = @ \cup {o}] \in V  OBVIOUS
    <3>1. Len(packs) \in DOMAIN packs /\ packs[Len(packs)] \in SUBSET O  OBVIOUS
    <3>2. packs[Len(packs)] \cup {o} \in SUBSET O  BY <3>1
    <3> QED  BY <3>1, <3>2
  <2> QED  BY <1>3, <2>2, <2>3
<1>7. Folds_(f)
  <2> HIDE DEF V
  <2>1. Picks(pick, O) /\ Steps(step, O, V)  BY <1>2, <1>4, <1>6 DEF Picks, Steps
  <2>2. <<>> \in V  BY DEF V
  <2>3. PICK it \in [SUBSET O -> V] : FoldsTo(it, O, <<>>, pick, step)
    BY <2>1, <2>2, ObjectsAre, FoldExists
  <2>4. ASSUME NEW s \in SUBSET O, s # {}
        PROVE  it[s] = Add(it[s \ {Max(s)}], seq[Max(s)])
    <3>1. it[s] = step[<<pick[s], it[s \ {pick[s]}]>>]  BY <2>3, <2>4 DEF FoldsTo
    <3>2. pick[s] \in O /\ it[s \ {pick[s]}] \in V  BY <1>2, <2>3, <2>4
    <3>3. it[s] = Add(it[s \ {pick[s]}], pick[s])  BY <1>4, <3>1, <3>2
    <3>4. pick[s] = Max(s) /\ seq[pick[s]] = pick[s]  BY <1>2, <1>5, <2>4, <3>2
    <3> QED  BY <3>3, <3>4
  <2>5. it[{}] = <<>>  BY <2>3 DEF FoldsTo
  <2>6. Folds_(it)  BY <2>3, <2>4, <2>5
  <2> HIDE DEF Folds_
  <2> QED  BY <2>6 DEF f
<1> DEFINE G == {s \in SUBSET O : Packed(f[s], s \cap oids)}
<1>8. {} \in G
  <2>1. f[{}] = <<>> /\ {} \cap oids = {}  BY <1>7
  <2> QED  BY <2>1, NoPacks
<1>9. ASSUME NEW s \in SUBSET O, s # {} PROVE \E x \in s : s \ {x} \in G => s \in G
  <2>1. PICK x \in s : x = Max(s)  BY <1>2, <1>9
  <2>2. f[s] = Add(f[s \ {x}], x)  BY <1>5, <1>7, <1>9, <2>1
  <2> DEFINE rest == f[s \ {x}]
             T == (s \ {x}) \cap oids
  <2>3. ASSUME Packed(rest, T) PROVE Packed(f[s], s \cap oids)
    <3>0. x \in O /\ x \notin T  OBVIOUS
    <3>1. CASE x \notin oids
      <4>1. f[s] = rest  BY <1>3, <2>2, <3>1
      <4>2. s \cap oids = T  BY <3>1
      <4> QED  BY <2>3, <4>1, <4>2
    <3>2. CASE x \in oids
      <4>1. s \cap oids = T \cup {x}  BY <3>2
      <4>2. \/ f[s] = Append(rest, {x})
            \/ rest # <<>> /\ f[s] = [rest EXCEPT ![Len(rest)] = @ \cup {x}]
        BY <1>3, <2>2, <3>2
      <4> HIDE DEF rest, T
      <4>3. /\ Packed(Append(rest, {x}), T \cup {x})
            /\ rest # <<>> => Packed([rest EXCEPT ![Len(rest)] = @ \cup {x}], T \cup {x})
        BY <2>3, <3>0, ObjectJoins
      <4>4. Packed(f[s], T \cup {x})  BY <4>2, <4>3
      <4> QED  BY <4>1, <4>4
    <3> QED  BY <3>1, <3>2
  <2> QED  BY <2>3
<1>10. SUBSET O \subseteq G
  <2> HIDE DEF G
  <2>1. IsFiniteSet(O)  BY ObjectsAre
  <2>2. \A s \in SUBSET O : s # {} => \E x \in s : s \ {x} \in G => s \in G  BY <1>9
  <2> HIDE DEF O
  <2> QED  BY <1>8, <2>1, <2>2, FoldInduction
<1>11. Packed(f[O], O \cap oids) /\ O \cap oids = oids  BY <1>10
<1> QED  BY <1>1, <1>11

\* Lists of packs with no object in common.
LEMMA ListsJoin ==
  ASSUME NEW p, NEW q, NEW A, NEW B, Packed(p, A), Packed(q, B), A \cap B = {}
  PROVE  Packed(p \o q, A \cup B)
<1> DEFINE O == DOMAIN ObjectSize
           r == p \o q
<1>1. /\ p \in Seq(SUBSET O) /\ q \in Seq(SUBSET O) /\ ObjectsIn(p) = A /\ ObjectsIn(q) = B
      /\ Apart(p) /\ Apart(q)
  BY DEF Packed
<1>2. /\ Len(p) \in Nat /\ Len(q) \in Nat /\ r \in Seq(SUBSET O)
      /\ DOMAIN p = 1..Len(p) /\ DOMAIN q = 1..Len(q) /\ DOMAIN r = 1..(Len(p) + Len(q))
      /\ \A i \in 1..Len(p) : r[i] = p[i]
      /\ \A i \in 1..Len(q) : r[Len(p) + i] = q[i]
  BY <1>1
<1> HIDE DEF r
<1>3. \A i \in DOMAIN p : i \in DOMAIN r /\ r[i] = p[i]  BY <1>2
<1>4. \A i \in DOMAIN q : Len(p) + i \in DOMAIN r /\ r[Len(p) + i] = q[i]  BY <1>2
<1>5. \A i \in DOMAIN r : i \in DOMAIN p \/ \E k \in DOMAIN q : i = Len(p) + k
  <2> SUFFICES ASSUME NEW i \in DOMAIN r, i \notin DOMAIN p PROVE i - Len(p) \in DOMAIN q /\ i = Len(p) + (i - Len(p))
    OBVIOUS
  <2> QED  BY <1>2
<1>6. ObjectsIn(r) = A \cup B
  <2>1. ASSUME NEW x \in ObjectsIn(r) PROVE x \in A \cup B
    <3> PICK i \in DOMAIN r : x \in r[i]  BY InPacks
    <3>1. CASE i \in DOMAIN p  BY <1>1, <1>3, <3>1, InPacks
    <3>2. ASSUME NEW k \in DOMAIN q, i = Len(p) + k PROVE x \in A \cup B  BY <1>1, <1>4, <3>2, InPacks
    <3> QED  BY <1>5, <3>1, <3>2
  <2>2. ASSUME NEW x \in A \cup B PROVE x \in ObjectsIn(r)
    <3>1. CASE x \in A
      <4> PICK i \in DOMAIN p : x \in p[i]  BY <1>1, <3>1, InPacks
      <4> QED  BY <1>3, InPacks
    <3>2. CASE x \in B
      <4> PICK i \in DOMAIN q : x \in q[i]  BY <1>1, <3>2, InPacks
      <4>1. Len(p) + i \in DOMAIN r /\ x \in r[Len(p) + i]  BY <1>4
      <4> QED  BY <4>1, InPacks
    <3> QED  BY <3>1, <3>2
  <2> QED  BY <2>1, <2>2
<1>7. ASSUME NEW i \in DOMAIN r, NEW j \in DOMAIN r, i # j PROVE r[i] \cap r[j] = {}
  <2>1. CASE i \in DOMAIN p /\ j \in DOMAIN p  BY <1>1, <1>3, <1>7, <2>1 DEF Apart
  <2>2. ASSUME NEW k \in DOMAIN q, NEW l \in DOMAIN q, i = Len(p) + k, j = Len(p) + l PROVE r[i] \cap r[j] = {}
    <3>1. k # l  BY <1>7, <2>2
    <3> QED  BY <1>1, <1>4, <2>2, <3>1 DEF Apart
  <2>3. \A k \in DOMAIN p : p[k] \subseteq A  BY <1>1, InPacks
  <2>4. \A k \in DOMAIN q : q[k] \subseteq B  BY <1>1, InPacks
  <2>5. ASSUME NEW m \in DOMAIN p, NEW k \in DOMAIN q PROVE r[m] \cap r[Len(p) + k] = {}
    BY <1>3, <1>4, <2>3, <2>4
  <2>6. CASE i \in DOMAIN p /\ j \notin DOMAIN p  BY <1>5, <2>5, <2>6
  <2>7. CASE i \notin DOMAIN p /\ j \in DOMAIN p
    <3>1. r[j] \cap r[i] = {}  BY <1>5, <2>5, <2>7
    <3> QED  BY <3>1
  <2>8. CASE i \notin DOMAIN p /\ j \notin DOMAIN p  BY <1>5, <2>2, <2>8
  <2> QED  BY <2>1, <2>6, <2>7, <2>8
<1> QED  BY <1>2, <1>6, <1>7 DEF Packed, Apart, r

-----------------------------------------------------------------------------
(* Heads.                                                                   *)

\* Ancestors of ancestors are ancestors.
LEMMA AncestorsTransitive ==
  ASSUME NEW c \in Commit, NEW a \in Ancestors[c]
  PROVE  a \in Commit /\ Ancestors[a] \subseteq Ancestors[c]
<1>1. a \in Commit  BY DEF Ancestors
<1>2. ASSUME NEW b \in Ancestors[a] PROVE b \in Ancestors[c]
  <2>1. b \in Commit  BY <1>1 DEF Ancestors
  <2>2. ASSUME NEW S \in SUBSET Commit, Parents[c] \subseteq S, HoldsParents(S) PROVE b \in S
    <3>1. a \in S  BY <2>2 DEF Ancestors
    <3>2. Parents[a] \subseteq S  BY <2>2, <3>1 DEF HoldsParents
    <3> QED  BY <1>1, <2>2, <3>2 DEF Ancestors
  <2> QED  BY <2>1, <2>2 DEF Ancestors
<1> QED  BY <1>1, <1>2

\* A commit's history holds its tree and the history of every ancestor.
LEMMA HistoryGrows ==
  ASSUME NEW c \in Commit
  PROVE  /\ HeadObjects[c] \subseteq History(c) /\ History(c) \subseteq DOMAIN ObjectSize
         /\ \A a : IsAncestor(a, c) => a \in Commit /\ History(a) \subseteq History(c)
<1>1. Ancestors[c] \subseteq Commit  BY DEF Ancestors
<1>2. \A d \in Commit : HeadObjects[d] \subseteq DOMAIN ObjectSize  BY PackAssumption
<1>3. ASSUME NEW a, IsAncestor(a, c) PROVE a \in Commit /\ History(a) \subseteq History(c)
  <2>1. CASE a = c  BY <2>1
  <2>2. CASE a \in Ancestors[c]
    <3>1. a \in Commit /\ Ancestors[a] \subseteq Ancestors[c]  BY <2>2, AncestorsTransitive
    <3> QED  BY <2>2, <3>1 DEF History
  <2> QED  BY <1>3, <2>1, <2>2 DEF IsAncestor
<1> QED  BY <1>1, <1>2, <1>3 DEF History

\* The base of a build is an ancestor that is ready.
LEMMA BaseIsReady ==
  ASSUME NEW c \in Commit, NEW ready, NEW b \in BasesOf(c, ready), b # None
  PROVE  b \in Commit /\ b \in ready /\ IsAncestor(b, c) /\ b \in Ancestors[c]
<1>1. b \in Ancestors[c] /\ b \in ready  BY DEF BasesOf
<1> QED  BY <1>1, AncestorsTransitive DEF IsAncestor

\* build_head_packs.
LEMMA ColdHeadHolds ==
  ASSUME NEW c \in Commit
  PROVE  Packed(HeadPacks(c), HeadObjects[c]) /\ Holds(c, HeadObjects[c])
<1>1. HeadObjects[c] \subseteq DOMAIN ObjectSize  BY PackAssumption
<1> QED  BY <1>1, BatchesPack, HistoryGrows DEF HeadPacks, Holds

\* A level on packs that hold only what c reaches completes c's tree.
LEMMA LevelHolds ==
  ASSUME NEW c \in Commit, NEW packs, NEW have, Packed(packs, have), have \subseteq History(c)
  PROVE  \E level : /\ Packed(HeadLevel(c, have), level) /\ have \cap level = {}
                    /\ Holds(c, have \cup level)
<1> DEFINE level == HeadObjects[c] \ have
<1>1. level \subseteq DOMAIN ObjectSize /\ level \subseteq History(c)  BY PackAssumption, HistoryGrows
<1>2. Packed(HeadLevel(c, have), level)  BY <1>1, BatchesPack DEF HeadLevel
<1> QED  BY <1>1, <1>2 DEF Holds

\* What a Head on b starts from holds only what b reaches.
LEMMA HeadBaseHolds ==
  ASSUME HeadInv, FullInv, NEW b \in Commit, head[b] # None
  PROVE  \E base, levels : /\ Packed(HeadBase(b).packs, base) /\ Packed(HeadBase(b).levels, levels)
                           /\ base \cap levels = {} /\ base \cup levels \subseteq History(b)
<1>1. CASE full[b] # None /\ full[b].headBase # None
  <2>1. HeadBase(b).packs = full[b].headBase /\ HeadBase(b).levels = <<>>  BY <1>1 DEF HeadBase
  <2>2. PICK objects : Packed(full[b].headBase, objects) /\ Holds(b, objects)  BY <1>1 DEF FullInv
  <2>3. Packed(<<>>, {})  BY NoPacks
  <2> QED  BY <2>1, <2>2, <2>3 DEF Holds
<1>2. CASE ~(full[b] # None /\ full[b].headBase # None)
  <2>1. HeadBase(b).packs = head[b].base /\ HeadBase(b).levels = head[b].levels  BY <1>2 DEF HeadBase
  <2>2. PICK base, levels : /\ Packed(head[b].base, base) /\ Packed(head[b].levels, levels)
                            /\ base \cap levels = {} /\ Holds(b, base \cup levels)
    BY DEF HeadInv
  <2> QED  BY <2>1, <2>2 DEF Holds
<1> QED  BY <1>1, <1>2

\* build_head_result, cold or on whichever base.
LEMMA BuildHeadKeeps ==
  ASSUME PackInv, NEW c \in Pushed, BuildHead(c)
  PROVE  PackInv'
<1>0. c \in Commit /\ full' = full /\ head = [d \in Commit |-> head[d]] /\ full = [d \in Commit |-> full[d]]
  BY PackAssumption DEF BuildHead, PackInv
<1>1. PICK b \in BasesOf(c, {p \in Commit : head[p] # None}) :
        \E result \in {ColdHead(c)} \cup (IF b = None THEN {} ELSE {LeveledHead(c, b)}) :
          head' = [head EXCEPT ![c] = result]
  BY DEF BuildHead
<1>2. PICK result \in {ColdHead(c)} \cup (IF b = None THEN {} ELSE {LeveledHead(c, b)}) :
        head' = [head EXCEPT ![c] = result]
  BY <1>1
<1>3. \E base, levels : /\ Packed(result.base, base) /\ Packed(result.levels, levels)
                        /\ base \cap levels = {} /\ Holds(c, base \cup levels)
  <2>1. CASE result = ColdHead(c)
    <3>1. result.base = HeadPacks(c) /\ result.levels = <<>>  BY <2>1 DEF ColdHead
    <3>2. HeadObjects[c] \cup {} = HeadObjects[c]  OBVIOUS
    <3>3. /\ Packed(result.base, HeadObjects[c]) /\ Packed(result.levels, {})
          /\ HeadObjects[c] \cap {} = {} /\ Holds(c, HeadObjects[c] \cup {})
      BY <1>0, <3>1, <3>2, ColdHeadHolds, NoPacks
    <3> QED  BY <3>3
  <2>2. CASE b # None /\ result = LeveledHead(c, b)
    <3>1. b \in Commit /\ head[b] # None /\ IsAncestor(b, c)  BY <1>0, <1>1, <2>2, BaseIsReady
    <3>2. PICK base, levels : /\ Packed(HeadBase(b).packs, base) /\ Packed(HeadBase(b).levels, levels)
                              /\ base \cap levels = {} /\ base \cup levels \subseteq History(b)
      BY <3>1, HeadBaseHolds DEF PackInv
    <3> DEFINE have == ObjectsIn(HeadBase(b).packs \o HeadBase(b).levels)
               joined == HeadBase(b).packs \o HeadBase(b).levels
    <3>3. Packed(joined, base \cup levels)  BY <3>2, ListsJoin
    <3>4. have = base \cup levels  BY <3>3 DEF Packed
    <3>5. have \subseteq History(c)  BY <1>0, <3>1, <3>2, <3>4, HistoryGrows
    <3>6. result.base = HeadBase(b).packs /\ result.levels = HeadBase(b).levels \o HeadLevel(c, have)
      BY <2>2 DEF LeveledHead
    <3> HIDE DEF have, joined
    <3>7. PICK level : /\ Packed(HeadLevel(c, have), level) /\ have \cap level = {} /\ Holds(c, have \cup level)
      BY <1>0, <3>3, <3>4, <3>5, LevelHolds
    <3>8. Packed(result.levels, levels \cup level)
      <4>1. levels \cap level = {}  BY <3>4, <3>7
      <4> QED  BY <3>2, <3>6, <3>7, <4>1, ListsJoin
    <3>9. base \cap (levels \cup level) = {} /\ base \cup (levels \cup level) = have \cup level
      BY <3>2, <3>4, <3>7
    <3> QED  BY <3>2, <3>6, <3>7, <3>8, <3>9
  <2> QED  BY <1>2, <2>1, <2>2
<1>4. head' = [d \in Commit |-> head'[d]] /\ \A d \in Commit : head'[d] = IF d = c THEN result ELSE head[d]
  BY <1>0, <1>2
<1>5. HeadInv'
  <2> SUFFICES ASSUME NEW d \in Commit, head'[d] # None
               PROVE  \E base, levels : /\ Packed(head'[d].base, base) /\ Packed(head'[d].levels, levels)
                                        /\ base \cap levels = {} /\ Holds(d, base \cup levels)
    BY DEF HeadInv
  <2>1. CASE d = c  BY <1>3, <1>4, <2>1
  <2>2. CASE d # c  BY <1>4, <2>2 DEF PackInv, HeadInv
  <2> QED  BY <2>1, <2>2
<1>6. FullInv'  BY <1>0 DEF PackInv, FullInv
<1> QED  BY <1>0, <1>4, <1>5, <1>6 DEF PackInv

\* A pack joins.
LEMMA PackJoins ==
  ASSUME NEW packs, NEW T, Packed(packs, T), NEW x \in SUBSET DOMAIN ObjectSize, x \cap T = {}
  PROVE  Packed(Append(packs, x), T \cup x)
<1>1. Packed(<<x>>, x)
  <2> DEFINE p == <<x>>
  <2>1. p \in Seq(SUBSET DOMAIN ObjectSize) /\ DOMAIN p = 1..1 /\ p[1] = x  OBVIOUS
  <2> HIDE DEF p
  <2>2. \A i : i \in DOMAIN p <=> i = 1  BY <2>1
  <2>3. ObjectsIn(p) = x
    <3>1. \A o : o \in ObjectsIn(p) <=> \E i \in DOMAIN p : o \in p[i]  BY InPacks
    <3>2. \A o : o \in ObjectsIn(p) <=> o \in x  BY <2>1, <2>2, <3>1
    <3> QED  BY <3>2
  <2>4. Apart(p)  BY <2>2 DEF Apart
  <2>5. Packed(p, x)  BY <2>1, <2>3, <2>4 DEF Packed
  <2> QED  BY <2>5 DEF p
<1>2. Packed(packs \o <<x>>, T \cup x)  BY <1>1, ListsJoin
<1>3. Append(packs, x) = packs \o <<x>>  BY DEF Packed
<1> QED  BY <1>2, <1>3

\* The base packs that a rebase keeps are some of them.
LEMMA KeptPacksHold ==
  ASSUME NEW c, NEW base, NEW B, Packed(base, B)
  PROVE  \E K \in SUBSET B : Packed(KeptPacks(c, base), K)
<1> DEFINE O == DOMAIN ObjectSize
           D == DOMAIN base
           V == Seq(SUBSET O)
           Add(packs, p) == IF MostlyAlive(c, p) THEN Append(packs, p) ELSE packs
           pick == [s \in SUBSET D |-> Max(s)]
           step == [p \in D \X V |-> Add(p[2], base[p[1]])]
           Folds_(it) == it = [s \in SUBSET D |-> IF s = {} THEN <<>>
                                ELSE Add(it[s \ {Max(s)}], base[Max(s)])]
           f == CHOOSE it : Folds_(it)
<1>0. /\ base \in V /\ Len(base) \in Nat /\ D = 1..Len(base) /\ \A i \in D : base[i] \in SUBSET O
      /\ ObjectsIn(base) = B /\ Apart(base)
  BY DEF Packed
<1>1. KeptPacks(c, base) = f[D]  BY DEF KeptPacks, FoldLeft, MapThenFoldSet
<1>2. \A s \in SUBSET D : s # {} => Max(s) \in s /\ pick[s] = Max(s)  BY <1>0, MaxIsIn
<1>3. \A packs, p : Add(packs, p) = packs \/ Add(packs, p) = Append(packs, p)  OBVIOUS
<1>4. \A i \in D : \A packs \in V : step[<<i, packs>>] = Add(packs, base[i])  OBVIOUS
<1>5. IsFiniteSet(D)
  <2>1. Len(base) \in Int /\ 1 \in Int  BY <1>0
  <2>2. IsFiniteSet(1..Len(base))  BY ONLY <2>1, FS_Interval
  <2> QED  BY <1>0, <2>2
<1> HIDE DEF Add, step, pick, f, D
<1>6. \A packs \in V, i \in D : Add(packs, base[i]) \in V
  <2> SUFFICES ASSUME NEW packs \in V, NEW i \in D PROVE Add(packs, base[i]) \in V  OBVIOUS
  <2>1. base[i] \in SUBSET O  BY <1>0
  <2>2. Append(packs, base[i]) \in V  BY <2>1
  <2> QED  BY <1>3, <2>2
<1>7. Folds_(f)
  <2> HIDE DEF V
  <2>1. Picks(pick, D) /\ Steps(step, D, V)  BY <1>2, <1>4, <1>6 DEF Picks, Steps
  <2>2. <<>> \in V  BY DEF V
  <2>3. PICK it \in [SUBSET D -> V] : FoldsTo(it, D, <<>>, pick, step)
    BY <1>5, <2>1, <2>2, FoldExists
  <2>4. ASSUME NEW s \in SUBSET D, s # {}
        PROVE  it[s] = Add(it[s \ {Max(s)}], base[Max(s)])
    <3>1. it[s] = step[<<pick[s], it[s \ {pick[s]}]>>]  BY <2>3, <2>4 DEF FoldsTo
    <3>2. pick[s] \in D /\ it[s \ {pick[s]}] \in V  BY <1>2, <2>3, <2>4
    <3>3. it[s] = Add(it[s \ {pick[s]}], base[pick[s]])  BY <1>4, <3>1, <3>2
    <3>4. pick[s] = Max(s)  BY <1>2, <2>4
    <3> QED  BY <3>3, <3>4
  <2>5. it[{}] = <<>>  BY <2>3 DEF FoldsTo
  <2>6. Folds_(it)  BY <2>3, <2>4, <2>5
  <2> HIDE DEF Folds_
  <2> QED  BY <2>6 DEF f
<1> DEFINE From(s, T) == \A o \in T : \E i \in s : o \in base[i]
           G == {s \in SUBSET D : \E T : Packed(f[s], T) /\ From(s, T)}
<1>8. {} \in G
  <2>1. f[{}] = <<>>  BY <1>7
  <2>2. Packed(f[{}], {}) /\ From({}, {})  BY <2>1, NoPacks
  <2> QED  BY <2>2
<1>9. ASSUME NEW s \in SUBSET D, s # {} PROVE \E x \in s : s \ {x} \in G => s \in G
  <2>1. PICK x \in s : x = Max(s)  BY <1>2, <1>9
  <2>2. f[s] = Add(f[s \ {x}], base[x])  BY <1>7, <1>9, <2>1
  <2>3. ASSUME NEW T, Packed(f[s \ {x}], T), From(s \ {x}, T) PROVE \E U : Packed(f[s], U) /\ From(s, U)
    <3>0. x \in D /\ base[x] \in SUBSET O  BY <1>0
    <3>1. CASE f[s] = f[s \ {x}]
      <4>1. From(s, T)  BY <2>3
      <4> QED  BY <2>3, <3>1, <4>1
    <3>2. CASE f[s] = Append(f[s \ {x}], base[x])
      <4>1. base[x] \cap T = {}
        <5>1. \A i \in s \ {x} : base[i] \cap base[x] = {}  BY <1>0, <3>0 DEF Apart, D
        <5> QED  BY <2>3, <5>1
      <4>2. Packed(f[s], T \cup base[x])  BY <2>3, <3>0, <3>2, <4>1, PackJoins
      <4>3. From(s, T \cup base[x])  BY <2>3
      <4> QED  BY <4>2, <4>3
    <3> QED  BY <1>3, <2>2, <3>1, <3>2
  <2> QED  BY <2>3
<1>10. SUBSET D \subseteq G
  <2> HIDE DEF G
  <2>1. \A s \in SUBSET D : s # {} => \E x \in s : s \ {x} \in G => s \in G  BY <1>9
  <2> QED  BY <1>5, <1>8, <2>1, FoldInduction
<1>11. PICK T : Packed(f[D], T) /\ From(D, T)  BY <1>10
<1>12. T \subseteq B
  <2>1. \A o \in T : \E i \in DOMAIN base : o \in base[i]  BY <1>11 DEF D
  <2> QED  BY <1>0, <2>1, InPacks
<1> QED  BY <1>1, <1>11, <1>12

\* rebase_head_packs.
LEMMA RebasedHolds ==
  ASSUME NEW c \in Commit, NEW base, NEW B, Packed(base, B), B \subseteq History(c)
  PROVE  \E objects : Packed(Rebased(c, base), objects) /\ Holds(c, objects)
<1>1. PICK K \in SUBSET B : Packed(KeptPacks(c, base), K)  BY KeptPacksHold
<1>2. ObjectsIn(KeptPacks(c, base)) = K  BY <1>1 DEF Packed
<1>3. HeadObjects[c] \ K \in SUBSET DOMAIN ObjectSize  BY PackAssumption
<1>4. Packed(Batches(HeadObjects[c] \ K), HeadObjects[c] \ K)  BY <1>3, BatchesPack
<1>5. Packed(Rebased(c, base), K \cup (HeadObjects[c] \ K))
  <2>1. K \cap (HeadObjects[c] \ K) = {}  OBVIOUS
  <2>2. Packed(KeptPacks(c, base) \o Batches(HeadObjects[c] \ K), K \cup (HeadObjects[c] \ K))
    BY <1>1, <1>4, <2>1, ListsJoin
  <2> QED  BY <1>2, <2>2 DEF Rebased
<1>6. Holds(c, K \cup (HeadObjects[c] \ K))  BY HistoryGrows DEF Holds
<1> QED  BY <1>5, <1>6

-----------------------------------------------------------------------------
(* History levels.                                                          *)

\* An ancestor of an ancestor, a commit being one of itself.
LEMMA IsAncestorTransitive ==
  ASSUME NEW c \in Commit, NEW b, IsAncestor(b, c), NEW a, IsAncestor(a, b)
  PROVE  IsAncestor(a, c)
<1>1. CASE b = c  BY <1>1
<1>2. CASE b \in Ancestors[c]  BY <1>2, AncestorsTransitive DEF IsAncestor
<1> QED  BY <1>1, <1>2 DEF IsAncestor

\* The two neighbours with the fewest bytes.
LEMMA SmallestPair ==
  ASSUME NEW n \in Nat, n > 0, NEW Size \in [1..n -> Nat]
  PROVE  \E i \in 1..n : \A j \in 1..n : Size[i] < Size[j] \/ (Size[i] = Size[j] /\ i <= j)
<1> DEFINE sizes == {Size[i] : i \in 1..n}
<1>1. 1 \in 1..n /\ \A i \in 1..n : Size[i] \in Nat /\ i \in Nat  OBVIOUS
<1>2. sizes \subseteq Nat /\ sizes # {}  BY <1>1
<1>3. PICK m \in sizes : \A k \in sizes : m <= k
  <2> HIDE DEF sizes
  <2> QED  BY <1>2, LeastNatural
<1> DEFINE places == {i \in 1..n : Size[i] = m}
<1>4. places \subseteq Nat /\ places # {}  BY <1>1, <1>3
<1>5. PICK i \in places : \A j \in places : i <= j
  <2> HIDE DEF places
  <2> QED  BY <1>4, LeastNatural
<1>6. i \in 1..n /\ Size[i] = m  BY <1>5
<1>7. ASSUME NEW j \in 1..n PROVE Size[i] < Size[j] \/ (Size[i] = Size[j] /\ i <= j)
  <2>1. m <= Size[j] /\ Size[j] \in Nat /\ m \in Nat  BY <1>1, <1>3, <1>6
  <2>2. Size[j] = m => i <= j  BY <1>5
  <2> HIDE DEF sizes, places
  <2> QED  BY <1>6, <2>1, <2>2
<1> QED  BY <1>6, <1>7

\* compact_levels, one merge: two neighbours become one, the chain stays.
LEMMA MergeKeepsChain ==
  ASSUME NEW c \in Commit, NEW levels, Chained(c, levels), Len(levels) > 1
  PROVE  Chained(c, MergeSmallest(levels)) /\ Len(MergeSmallest(levels)) = Len(levels) - 1
<1> DEFINE Level == [tip : Commit, pack : SUBSET DOMAIN ObjectSize]
           n == Len(levels)
           pairs == 1..(n - 1)
           Pair(i) == LevelBytes(levels, i) + LevelBytes(levels, i + 1)
           best == CHOOSE i \in pairs : \A j \in pairs : Pair(i) < Pair(j) \/ (Pair(i) = Pair(j) /\ i <= j)
<1>0. /\ levels \in Seq(Level) /\ n \in Nat /\ n > 1 /\ DOMAIN levels = 1..n
      /\ \A i \in 1..n : levels[i] \in Level
      /\ levels[n].tip = c
      /\ \A i \in 1..n : /\ IsAncestor(levels[i].tip, c)
                         /\ levels[i].pack = HistoryRange(levels[i].tip, IF i = 1 THEN None ELSE levels[i - 1].tip)
  <2>1. levels \in Seq(Level) /\ n > 1  BY DEF Chained
  <2> HIDE DEF Level
  <2>2. n \in Nat /\ DOMAIN levels = 1..n /\ \A i \in 1..n : levels[i] \in Level  BY <2>1
  <2>3. /\ levels[n].tip = c
        /\ \A i \in DOMAIN levels :
             /\ IsAncestor(levels[i].tip, c)
             /\ levels[i].pack = HistoryRange(levels[i].tip, IF i = 1 THEN None ELSE levels[i - 1].tip)
    BY DEF Chained
  <2> QED  BY <2>1, <2>2, <2>3
<1>1. PICK k : k \in pairs /\ k = best
  <2> DEFINE Size == [i \in pairs |-> Pair(i)]
  <2>1. \A i \in 1..n : LevelBytes(levels, i) \in Nat  BY <1>0, BytesAre DEF LevelBytes
  <2>2. n - 1 \in Nat /\ n - 1 > 0  BY <1>0
  <2>3. Size \in [pairs -> Nat]
    <3> SUFFICES ASSUME NEW i \in pairs PROVE Pair(i) \in Nat  OBVIOUS
    <3>1. i \in 1..n /\ i + 1 \in 1..n  BY <1>0
    <3>2. LevelBytes(levels, i) \in Nat /\ LevelBytes(levels, i + 1) \in Nat  BY <2>1, <3>1
    <3> QED  BY <3>2
  <2>4. \E i \in pairs : \A j \in pairs : Size[i] < Size[j] \/ (Size[i] = Size[j] /\ i <= j)
    <3> HIDE DEF Size
    <3> QED  BY <2>2, <2>3, SmallestPair
  <2>5. \A i \in pairs : Size[i] = Pair(i)  OBVIOUS
  <2> HIDE DEF Size, Pair, pairs
  <2>6. \E i \in pairs : \A j \in pairs : Pair(i) < Pair(j) \/ (Pair(i) = Pair(j) /\ i <= j)  BY <2>4, <2>5
  <2>7. best \in pairs  BY <2>6
  <2> QED  BY <2>7
<1> DEFINE start == IF k = 1 THEN None ELSE levels[k - 1].tip
           merged == [tip |-> levels[k + 1].tip, pack |-> HistoryRange(levels[k + 1].tip, start)]
           front == SubSeq(levels, 1, k - 1)
           back == SubSeq(levels, k + 2, n)
           r == front \o <<merged>> \o back
<1>2. MergeSmallest(levels) = r  BY <1>1 DEF MergeSmallest
<1> HIDE DEF best, n
<1>3. k \in Nat /\ k >= 1 /\ k + 1 <= n /\ k \in 1..n /\ k + 1 \in 1..n  BY <1>0, <1>1
<1>4. merged \in Level
  <2>1. levels[k + 1].tip \in Commit /\ IsAncestor(levels[k + 1].tip, c)  BY <1>0, <1>3
  <2>2. HistoryRange(levels[k + 1].tip, start) \subseteq DOMAIN ObjectSize
    BY <2>1, HistoryGrows DEF HistoryRange
  <2> QED  BY <2>1, <2>2
<1>5. /\ front \in Seq(Level) /\ Len(front) = k - 1
      /\ \A i \in 1..(k - 1) : front[i] = levels[i]
  BY <1>0, <1>3, SubSeqProperties DEF n
<1>6. /\ back \in Seq(Level) /\ Len(back) = n - k - 1
      /\ \A i \in 1..(n - k - 1) : back[i] = levels[k + 1 + i]
  <2>1. /\ k + 2 \in 1..(n + 1) /\ n \in (k + 2 - 1)..n /\ n - (k + 2) + 1 = n - k - 1
        /\ \A i \in 1..(n - k - 1) : k + 2 + i - 1 = k + 1 + i
    BY <1>0, <1>3
  <2>2. /\ back \in Seq(Level) /\ Len(back) = n - (k + 2) + 1
        /\ \A i \in 1..(n - (k + 2) + 1) : back[i] = levels[k + 2 + i - 1]
    <3> HIDE DEF Level
    <3> QED  BY <1>0, <2>1, SubSeqProperties DEF n
  <2> HIDE DEF back
  <2> QED  BY <2>1, <2>2
<1> HIDE DEF merged, front, back
<1>7. /\ r \in Seq(Level) /\ Len(r) = n - 1 /\ DOMAIN r = 1..(n - 1)
      /\ \A i \in 1..(k - 1) : r[i] = levels[i]
      /\ r[k] = merged
      /\ \A i \in (k + 1)..(n - 1) : r[i] = levels[i + 1]
  <2> DEFINE q == front \o <<merged>>
  <2>1. /\ q \in Seq(Level) /\ Len(q) = k
        /\ \A i \in 1..(k - 1) : q[i] = front[i]
        /\ q[k] = merged
    BY <1>3, <1>4, <1>5
  <2> HIDE DEF q
  <2>2. /\ q \o back \in Seq(Level) /\ Len(q \o back) = n - 1 /\ DOMAIN (q \o back) = 1..(n - 1)
        /\ \A i \in 1..k : (q \o back)[i] = q[i]
        /\ \A i \in (k + 1)..(n - 1) : (q \o back)[i] = back[i - k]
    <3> HIDE DEF Level
    <3>1. Len(q) + Len(back) = n - 1  BY <1>0, <1>3, <1>6, <2>1
    <3>2. /\ q \o back \in Seq(Level) /\ Len(q \o back) = n - 1
          /\ \A i \in 1..(n - 1) : (q \o back)[i] = IF i <= k THEN q[i] ELSE back[i - k]
      <4>0. q \in Seq(Level) /\ back \in Seq(Level)  BY <1>6, <2>1
      <4>1. /\ q \o back \in Seq(Level) /\ Len(q \o back) = Len(q) + Len(back)
            /\ \A i \in 1..(Len(q) + Len(back)) :
                 (q \o back)[i] = IF i <= Len(q) THEN q[i] ELSE back[i - Len(q)]
        BY ONLY <4>0, ConcatProperties
      <4>2. Len(q) = k  BY <2>1
      <4> QED  BY ONLY <3>1, <4>1, <4>2
    <3>3. DOMAIN (q \o back) = 1..(n - 1)  BY <3>2
    <3>4. \A i \in 1..k : i \in 1..(n - 1) /\ i <= k  BY <1>0, <1>3
    <3>5. \A i \in (k + 1)..(n - 1) : i \in 1..(n - 1) /\ ~(i <= k)  BY <1>0, <1>3
    <3> QED  BY <3>2, <3>3, <3>4, <3>5
  <2>3. \A i \in 1..(k - 1) : (q \o back)[i] = levels[i]
    <3> SUFFICES ASSUME NEW i \in 1..(k - 1) PROVE (q \o back)[i] = levels[i]  OBVIOUS
    <3>1. i \in 1..k  BY <1>3
    <3> QED  BY <1>5, <2>1, <2>2, <3>1
  <2>4. (q \o back)[k] = merged
    <3>1. k \in 1..k  BY <1>3
    <3> QED  BY <2>1, <2>2, <3>1
  <2>5. \A i \in (k + 1)..(n - 1) : (q \o back)[i] = levels[i + 1]
    <3> SUFFICES ASSUME NEW i \in (k + 1)..(n - 1) PROVE (q \o back)[i] = levels[i + 1]  OBVIOUS
    <3>1. i - k \in 1..(n - k - 1) /\ k + 1 + (i - k) = i + 1  BY <1>0, <1>3
    <3> QED  BY <1>6, <2>2, <3>1
  <2>6. r = q \o back  BY DEF q
  <2> QED  BY <2>2, <2>3, <2>4, <2>5, <2>6
<1> HIDE DEF r
<1>8. r[n - 1].tip = c
  <2>1. CASE k = n - 1  BY <1>0, <1>7, <2>1 DEF merged
  <2>2. CASE k # n - 1
    <3>1. n - 1 \in (k + 1)..(n - 1) /\ (n - 1) + 1 = n  BY <1>0, <1>3, <2>2
    <3> QED  BY <1>0, <1>7, <3>1
  <2> QED  BY <2>1, <2>2
<1>9. ASSUME NEW i \in 1..(n - 1)
      PROVE  /\ IsAncestor(r[i].tip, c)
             /\ r[i].pack = HistoryRange(r[i].tip, IF i = 1 THEN None ELSE r[i - 1].tip)
  <2>1. CASE i \in 1..(k - 1)
    <3>1. i \in 1..n /\ r[i] = levels[i]  BY <1>0, <1>3, <1>7, <2>1
    <3>2. i # 1 => r[i - 1] = levels[i - 1]
      <4> SUFFICES ASSUME i # 1 PROVE i - 1 \in 1..(k - 1)  BY <1>7
      <4> QED  BY <1>3, <2>1
    <3> QED  BY <1>0, <3>1, <3>2
  <2>2. CASE i = k
    <3>1. r[i].tip = levels[k + 1].tip /\ r[i].pack = HistoryRange(levels[k + 1].tip, start)
      BY <1>7, <2>2 DEF merged
    <3>2. i # 1 => r[i - 1] = levels[k - 1]
      <4> SUFFICES ASSUME i # 1 PROVE i - 1 \in 1..(k - 1)  BY <1>7, <2>2
      <4> QED  BY <1>3, <2>2
    <3> QED  BY <1>0, <1>3, <2>2, <3>1, <3>2
  <2>3. CASE i \in (k + 1)..(n - 1)
    <3>1. i + 1 \in 1..n /\ i + 1 # 1 /\ i # 1 /\ (i + 1) - 1 = i  BY <1>0, <1>3, <2>3
    <3>2. r[i] = levels[i + 1]  BY <1>7, <2>3
    <3>3. r[i - 1].tip = levels[i].tip
      <4>1. CASE i = k + 1
        <5>1. i - 1 = k  BY <1>3, <4>1
        <5> QED  BY <1>7, <4>1, <5>1 DEF merged
      <4>2. CASE i # k + 1
        <5>1. i - 1 \in (k + 1)..(n - 1) /\ (i - 1) + 1 = i  BY <1>0, <1>3, <2>3, <4>2
        <5> QED  BY <1>7, <5>1
      <4> QED  BY <4>1, <4>2
    <3> QED  BY <1>0, <3>1, <3>2, <3>3
  <2> QED  BY <1>0, <1>3, <2>1, <2>2, <2>3
<1>10. r # <<>>  BY <1>0, <1>7
<1>11. Chained(c, r)  BY <1>7, <1>8, <1>9, <1>10 DEF Chained
<1> QED  BY <1>2, <1>7, <1>11 DEF n

\* The number of levels is at least one.
LEMMA LimitIs == LevelLimit \in Nat /\ LevelLimit >= 1
BY PackAssumption DEF LevelLimit

\* compact_levels: the chain stays, and at most LevelLimit levels are left.
LEMMA CompactKeepsChain ==
  ASSUME NEW c \in Commit, NEW levels, Chained(c, levels)
  PROVE  Chained(c, CompactLevels(levels)) /\ Len(CompactLevels(levels)) <= LevelLimit
<1> DEFINE Level == [tip : Commit, pack : SUBSET DOMAIN ObjectSize]
           n == Len(levels)
           D == DOMAIN levels
           V == {ls \in Seq(Level) : Chained(c, ls)}
           Add(ls, l) == IF Len(ls) > LevelLimit THEN MergeSmallest(ls) ELSE ls
           pick == [s \in SUBSET D |-> Max(s)]
           step == [p \in D \X V |-> Add(p[2], levels[p[1]])]
           Folds_(it) == it = [s \in SUBSET D |-> IF s = {} THEN levels
                                ELSE Add(it[s \ {Max(s)}], levels[Max(s)])]
           f == CHOOSE it : Folds_(it)
<1>0. levels \in Seq(Level) /\ levels \in V /\ n \in Nat /\ D = 1..n
  <2>1. levels \in Seq(Level)  BY DEF Chained
  <2> HIDE DEF Level
  <2> QED  BY <2>1
<1>1. CompactLevels(levels) = f[D]  BY DEF CompactLevels, FoldLeft, MapThenFoldSet
<1>2. \A s \in SUBSET D : s # {} => Max(s) \in s /\ pick[s] = Max(s)  BY <1>0, MaxIsIn
<1>3. \A ls \in V : \A l : /\ Add(ls, l) \in V /\ Len(ls) \in Nat
                           /\ Len(ls) <= LevelLimit => Add(ls, l) = ls
                           /\ Len(ls) > LevelLimit => Len(Add(ls, l)) = Len(ls) - 1
  <2> SUFFICES ASSUME NEW ls \in V, NEW l
               PROVE  /\ Add(ls, l) \in V /\ Len(ls) \in Nat
                      /\ Len(ls) <= LevelLimit => Add(ls, l) = ls
                      /\ Len(ls) > LevelLimit => Len(Add(ls, l)) = Len(ls) - 1
    OBVIOUS
  <2>1. ls \in Seq(Level) /\ Chained(c, ls)  OBVIOUS
  <2>2. Len(ls) \in Nat
    <3> HIDE DEF Level
    <3> QED  BY <2>1
  <2>3. CASE Len(ls) > LevelLimit
    <3>1. Len(ls) > 1  BY <2>2, <2>3, LimitIs
    <3>2. Chained(c, MergeSmallest(ls)) /\ Len(MergeSmallest(ls)) = Len(ls) - 1
      BY <2>1, <3>1, MergeKeepsChain
    <3>3. MergeSmallest(ls) \in Seq(Level)  BY <3>2 DEF Chained
    <3>4. Add(ls, l) = MergeSmallest(ls)  BY <2>3
    <3>5. ~(Len(ls) <= LevelLimit)  BY <2>2, <2>3, LimitIs
    <3> HIDE DEF Add
    <3> QED  BY <2>2, <3>2, <3>3, <3>4, <3>5
  <2>4. CASE ~(Len(ls) > LevelLimit)
    <3>1. Add(ls, l) = ls  BY <2>4
    <3> HIDE DEF Add
    <3> QED  BY <2>1, <2>2, <2>4, <3>1
  <2> QED  BY <2>3, <2>4
<1>4. \A i \in D : \A ls \in V : step[<<i, ls>>] = Add(ls, levels[i])
  <2> HIDE DEF Add, V, D
  <2> QED  OBVIOUS
<1>5. IsFiniteSet(D) /\ Cardinality(D) = n
  <2>1. n \in Int /\ 1 \in Int  BY <1>0
  <2> HIDE DEF n
  <2>2. IsFiniteSet(1..n) /\ Cardinality(1..n) = IF 1 > n THEN 0 ELSE n - 1 + 1  BY ONLY <2>1, FS_Interval
  <2>3. Cardinality(1..n) = n  BY <1>0, <2>2
  <2> QED  BY <1>0, <2>2, <2>3
<1> HIDE DEF Add, step, pick, f, D, V, n
<1>7. Folds_(f)
  <2>1. Picks(pick, D) /\ Steps(step, D, V)  BY <1>2, <1>3, <1>4 DEF Picks, Steps
  <2>3. PICK it \in [SUBSET D -> V] : FoldsTo(it, D, levels, pick, step)
    BY <1>0, <1>5, <2>1, FoldExists
  <2>4. ASSUME NEW s \in SUBSET D, s # {}
        PROVE  it[s] = Add(it[s \ {Max(s)}], levels[Max(s)])
    <3>1. it[s] = step[<<pick[s], it[s \ {pick[s]}]>>]  BY <2>3, <2>4 DEF FoldsTo
    <3>2. pick[s] \in D /\ it[s \ {pick[s]}] \in V  BY <1>2, <2>3, <2>4
    <3>3. it[s] = Add(it[s \ {pick[s]}], levels[pick[s]])  BY <1>4, <3>1, <3>2
    <3>4. pick[s] = Max(s)  BY <1>2, <2>4
    <3> QED  BY <3>3, <3>4
  <2>5. it[{}] = levels  BY <2>3 DEF FoldsTo
  <2>6. Folds_(it)  BY <2>3, <2>4, <2>5
  <2> HIDE DEF Folds_
  <2> QED  BY <2>6 DEF f
<1> DEFINE Short(s) == Len(f[s]) <= LevelLimit \/ Len(f[s]) <= n - Cardinality(s)
           G == {s \in SUBSET D : f[s] \in V /\ Short(s)}
<1>8. {} \in G
  <2>1. f[{}] = levels /\ Cardinality({}) = 0  BY <1>7, FS_EmptySet
  <2>2. Short({})  BY <1>0, <2>1 DEF n
  <2> QED  BY <1>0, <2>1, <2>2
<1>9. ASSUME NEW s \in SUBSET D, s # {} PROVE \E x \in s : s \ {x} \in G => s \in G
  <2>1. PICK x \in s : x = Max(s)  BY <1>2, <1>9
  <2>2. f[s] = Add(f[s \ {x}], levels[x])  BY <1>7, <1>9, <2>1
  <2>3. Cardinality(s) \in Nat /\ Cardinality(s \ {x}) = Cardinality(s) - 1  BY <1>5, OneLess
  <2>4. ASSUME f[s \ {x}] \in V, Short(s \ {x}) PROVE f[s] \in V /\ Short(s)
    <3> DEFINE m == Len(f[s \ {x}])
    <3>1. /\ f[s] \in V /\ m \in Nat
          /\ m <= LevelLimit => f[s] = f[s \ {x}]
          /\ m > LevelLimit => Len(f[s]) = m - 1
      BY <1>3, <2>2, <2>4
    <3>2. CASE m <= LevelLimit  BY <3>1, <3>2
    <3>3. CASE m > LevelLimit
      <4>1. ~(m <= LevelLimit)  BY <3>1, <3>3, LimitIs
      <4>2. m <= n - (Cardinality(s) - 1)  BY <2>3, <2>4, <4>1
      <4>3. Len(f[s]) = m - 1  BY <3>1, <3>3
      <4> HIDE DEF m
      <4>4. m - 1 <= n - Cardinality(s)  BY <1>0, <2>3, <3>1, <4>2
      <4> QED  BY <3>1, <4>3, <4>4
    <3> QED  BY <3>1, <3>2, <3>3, LimitIs
  <2> QED  BY <2>4
<1>10. SUBSET D \subseteq G
  <2> HIDE DEF G
  <2>1. \A s \in SUBSET D : s # {} => \E x \in s : s \ {x} \in G => s \in G  BY <1>9
  <2> QED  BY <1>5, <1>8, <2>1, FoldInduction
<1>11. f[D] \in V /\ Short(D)  BY <1>10
<1>12. Chained(c, f[D]) /\ Len(f[D]) \in Nat  BY <1>3, <1>11 DEF V
<1>13. Len(f[D]) <= LevelLimit
  <2>1. n - Cardinality(D) = 0  BY <1>0, <1>5
  <2>2. CASE Len(f[D]) <= LevelLimit  BY <2>2
  <2>3. CASE Len(f[D]) <= 0  BY <1>12, <2>3, LimitIs
  <2> QED  BY <1>11, <2>1, <2>2, <2>3
<1> QED  BY <1>1, <1>12, <1>13

\* A tail from the last sealed tip extends the chain to c.
LEMMA SealChains ==
  ASSUME NEW c \in Commit, NEW b \in Ancestors[c], NEW levels, Chained(b, levels)
  PROVE  /\ Chained(c, SealAndCompact(c, levels)) /\ Len(SealAndCompact(c, levels)) <= LevelLimit
<1> DEFINE Level == [tip : Commit, pack : SUBSET DOMAIN ObjectSize]
           tail == HistoryRange(c, b)
           n == Len(levels)
           sealed == Append(levels, [tip |-> c, pack |-> tail])
<1>0. b \in Commit /\ IsAncestor(b, c) /\ b # None  BY AncestorsTransitive, HistoryAssumption DEF IsAncestor
<1>1. /\ levels \in Seq(Level) /\ levels # <<>> /\ levels[n].tip = b
      /\ \A i \in DOMAIN levels :
           /\ IsAncestor(levels[i].tip, b)
           /\ levels[i].pack = HistoryRange(levels[i].tip, IF i = 1 THEN None ELSE levels[i - 1].tip)
  BY DEF Chained
<1>2. PICK o \in HeadObjects[c] : \A a \in Ancestors[c] : o \notin HeadObjects[a]  BY PackAssumption
<1>3. o \notin History(b) /\ o \in History(c)
  <2>1. \A a \in Ancestors[b] \cup {b} : a \in Ancestors[c]  BY AncestorsTransitive
  <2>2. o \notin History(b)  BY <1>2, <2>1 DEF History
  <2> QED  BY <1>2, <2>2, HistoryGrows
<1>4. tail # {} /\ b # c /\ tail \subseteq DOMAIN ObjectSize
  <2>1. tail = History(c) \ History(b)  BY <1>0 DEF HistoryRange
  <2> QED  BY <1>3, <2>1, HistoryGrows
<1>5. SealAndCompact(c, levels) = CompactLevels(sealed)
  <2>1. Last(levels).tip = b  BY <1>1 DEF Last
  <2> QED  BY <1>1, <1>4, <2>1 DEF SealAndCompact
<1>6. [tip |-> c, pack |-> tail] \in Level  BY <1>4
<1> HIDE DEF Level, tail
<1>7. n \in Nat /\ n > 0 /\ DOMAIN levels = 1..n  BY <1>1
<1>8. /\ sealed \in Seq(Level) /\ Len(sealed) = n + 1 /\ DOMAIN sealed = 1..(n + 1)
      /\ \A i \in 1..n : sealed[i] = levels[i]
      /\ sealed[n + 1] = [tip |-> c, pack |-> tail]
  BY <1>1, <1>6
<1> HIDE DEF sealed, n
<1>9. ASSUME NEW i \in DOMAIN sealed
      PROVE  /\ IsAncestor(sealed[i].tip, c)
             /\ sealed[i].pack = HistoryRange(sealed[i].tip, IF i = 1 THEN None ELSE sealed[i - 1].tip)
  <2>1. CASE i \in 1..n
    <3>1. sealed[i] = levels[i] /\ IsAncestor(levels[i].tip, b)  BY <1>1, <1>7, <1>8, <2>1
    <3>2. IsAncestor(levels[i].tip, c)  BY <1>0, <3>1, IsAncestorTransitive
    <3>3. i # 1 => sealed[i - 1] = levels[i - 1]
      <4> SUFFICES ASSUME i # 1 PROVE i - 1 \in 1..n  BY <1>8
      <4> QED  BY <1>7, <2>1
    <3> QED  BY <1>1, <1>7, <2>1, <3>1, <3>2, <3>3
  <2>2. CASE i = n + 1
    <3>1. i # 1 /\ i - 1 = n /\ n \in 1..n  BY <1>7, <2>2
    <3>2. sealed[i - 1].tip = b  BY <1>1, <1>8, <3>1
    <3>3. sealed[i].tip = c /\ sealed[i].pack = HistoryRange(c, b)  BY <1>8, <2>2 DEF tail
    <3> QED  BY <3>1, <3>2, <3>3 DEF IsAncestor
  <2> QED  BY <1>7, <1>8, <2>1, <2>2
<1>10. sealed # <<>> /\ sealed[Len(sealed)].tip = c  BY <1>7, <1>8
<1>11. Chained(c, sealed)  BY <1>8, <1>9, <1>10 DEF Chained, Level
<1> QED  BY <1>5, <1>11, CompactKeepsChain

\* A cold history.
LEMMA ColdChains ==
  ASSUME NEW c \in Commit
  PROVE  /\ Chained(c, SealAndCompact(c, <<>>)) /\ Len(SealAndCompact(c, <<>>)) <= LevelLimit
<1> DEFINE Level == [tip : Commit, pack : SUBSET DOMAIN ObjectSize]
           tail == HistoryRange(c, None)
           level == [tip |-> c, pack |-> tail]
           cold == Append(<<>>, level)
<1>1. tail # {} /\ tail \subseteq DOMAIN ObjectSize
  <2>1. tail = History(c)  BY DEF HistoryRange
  <2>2. HeadObjects[c] # {}  BY PackAssumption
  <2> QED  BY <2>1, <2>2, HistoryGrows
<1>2. SealAndCompact(c, <<>>) = CompactLevels(cold)
  BY <1>1, HistoryAssumption DEF SealAndCompact
<1>3. level \in Level /\ level.tip = c /\ level.pack = tail  BY <1>1
<1> HIDE DEF Level, level, tail
<1>4. cold \in Seq(Level) /\ Len(cold) = 1 /\ DOMAIN cold = 1..1 /\ cold[1] = level /\ cold # <<>>
  BY <1>3
<1> HIDE DEF cold
<1>5. \A i \in DOMAIN cold : i = 1  BY <1>4
<1>6. Chained(c, cold)  BY <1>3, <1>4, <1>5 DEF Chained, IsAncestor, Level, tail
<1> QED  BY <1>2, <1>6, CompactKeepsChain

\* The levels of a chain hold the history of its last tip.
LEMMA ChainHolds ==
  ASSUME NEW c \in Commit, NEW levels, Chained(c, levels)
  PROVE  UNION {levels[i].pack : i \in DOMAIN levels} = History(c) /\ Last(levels).tip = c
<1> DEFINE n == Len(levels)
<1>1. /\ levels # <<>> /\ n \in Nat /\ DOMAIN levels = 1..n /\ levels[n].tip = c
      /\ \A i \in DOMAIN levels :
           /\ IsAncestor(levels[i].tip, c)
           /\ levels[i].pack = HistoryRange(levels[i].tip, IF i = 1 THEN None ELSE levels[i - 1].tip)
  <2> DEFINE Level == [tip : Commit, pack : SUBSET DOMAIN ObjectSize]
  <2>1. levels \in Seq(Level)  BY DEF Chained
  <2> HIDE DEF Level
  <2>2. n \in Nat /\ DOMAIN levels = 1..n  BY <2>1
  <2> QED  BY <2>2 DEF Chained
<1>2. n \in DOMAIN levels
  <2>1. n # 0
    <3> DEFINE Level == [tip : Commit, pack : SUBSET DOMAIN ObjectSize]
    <3>1. levels \in Seq(Level)  BY DEF Chained
    <3> HIDE DEF Level
    <3> QED  BY <1>1, <3>1
  <2> QED  BY <1>1, <2>1
<1> HIDE DEF n
<1>3. ASSUME NEW i \in DOMAIN levels PROVE levels[i].pack \subseteq History(c)
  <2>1. History(levels[i].tip) \subseteq History(c)  BY <1>1, HistoryGrows
  <2> QED  BY <1>1, <2>1 DEF HistoryRange
<1>4. ASSUME NEW o \in History(c) PROVE \E i \in DOMAIN levels : o \in levels[i].pack
  <2> DEFINE have == {i \in DOMAIN levels : o \in History(levels[i].tip)}
  <2>1. have \subseteq Nat /\ have # {}
    <3>1. \A i \in DOMAIN levels : i \in Nat  BY <1>1
    <3>2. n \in have  BY <1>1, <1>2
    <3> QED  BY <3>1, <3>2
  <2>2. PICK i \in have : \A j \in have : i <= j
    <3> HIDE DEF have
    <3> QED  BY <2>1, LeastNatural
  <2>3. i \in DOMAIN levels /\ o \in History(levels[i].tip)  BY <2>2
  <2>4. i # 1 => o \notin History(levels[i - 1].tip)
    <3> SUFFICES ASSUME i # 1, o \in History(levels[i - 1].tip) PROVE FALSE  OBVIOUS
    <3>1. i - 1 \in DOMAIN levels /\ i \in Nat  BY <1>1, <2>3
    <3>2. i <= i - 1  BY <2>2, <3>1
    <3> HIDE DEF have
    <3> QED  BY <3>1, <3>2
  <2>5. o \in levels[i].pack
    <3>1. levels[i].pack = HistoryRange(levels[i].tip, IF i = 1 THEN None ELSE levels[i - 1].tip)
      BY <1>1, <2>3
    <3>2. CASE i = 1  BY <2>3, <3>1, <3>2 DEF HistoryRange
    <3>3. CASE i # 1  BY <2>3, <2>4, <3>1, <3>3 DEF HistoryRange
    <3> QED  BY <3>2, <3>3
  <2> QED  BY <2>3, <2>5
<1>5. Last(levels).tip = c  BY <1>1 DEF Last, n
<1> QED  BY <1>3, <1>4, <1>5

-----------------------------------------------------------------------------
(* Fulls.                                                                   *)

\* own_history: with the history of a commit that holds the base, the own
\* pack and the Head levels, nothing of c's history is missing.
LEMMA OwnIsComplete ==
  ASSUME NEW c \in Commit, NEW ownBase \in Commit, NEW levels, NEW first, NEW packs,
         \A i \in DOMAIN levels : packs[first + i] = levels[i]
  PROVE  OwnCompletes(c, OwnHistory(c, ownBase, levels, first), packs)
<1> DEFINE own == OwnHistory(c, ownBase, levels, first)
<1>1. own.base = ownBase  BY DEF OwnHistory
<1>2. ASSUME NEW b \in Commit, IsAncestor(ownBase, b), NEW o \in History(c)
      PROVE  o \in History(b) \cup own.pack \cup UNION {packs[i] : i \in own.heads}
  <2>1. History(ownBase) \subseteq History(b)  BY <1>2, HistoryGrows
  <2>2. CASE IsAncestor(c, ownBase)
    <3>1. History(c) \subseteq History(ownBase)  BY <2>2, HistoryGrows
    <3> QED  BY <2>1, <3>1
  <2>3. CASE ~IsAncestor(c, ownBase)
    <3>1. /\ own.pack = HistoryRange(c, ownBase) \ ObjectsIn(levels)
          /\ own.heads = {first + i : i \in DOMAIN levels}
      BY <2>3 DEF OwnHistory, OwnPack
    <3> HIDE DEF own
    <3>2. CASE o \in ObjectsIn(levels)
      <4> PICK i \in DOMAIN levels : o \in levels[i]  BY <3>2, InPacks
      <4>1. first + i \in own.heads /\ o \in packs[first + i]  BY <3>1
      <4> QED  BY <4>1
    <3>3. CASE o \notin ObjectsIn(levels) /\ o \notin History(ownBase)
      <4>1. o \in HistoryRange(c, ownBase)  BY <3>3 DEF HistoryRange
      <4> QED  BY <3>1, <3>3, <4>1
    <3> QED  BY <2>1, <3>2, <3>3
  <2> QED  BY <2>2, <2>3
<1> HIDE DEF own
<1>3. OwnCompletes(c, own, packs)  BY <1>1, <1>2 DEF OwnCompletes
<1> QED  BY <1>3 DEF own

\* build_full_result, with any of its choices of history, Head base and own
\* history.
LEMMA BuildFullKeeps ==
  ASSUME PackInv, NEW c \in Pushed, NEW ownBase \in Pushed \cup {None}, BuildFull(c, ownBase)
  PROVE  PackInv'
<1>0. /\ c \in Commit /\ head' = head /\ head[c] # None
      /\ head = [d \in Commit |-> head[d]] /\ full = [d \in Commit |-> full[d]]
  BY PackAssumption DEF BuildFull, PackInv
<1>1. PICK b \in BasesOf(c, {p \in Commit : full[p] # None}) :
        \E history \in Histories(c, b), rebased \in HeadBases(c) :
          LET levels == IF rebased = None THEN head[c].levels ELSE <<>>
              packs == IF rebased = None THEN ManifestPacks(head[c]) ELSE rebased
          IN \E own \in OwnHistories(c, ownBase, levels, Len(head[c].base)) :
               full' = [full EXCEPT ![c] =
                 [levels |-> history, headPacks |-> packs, headBase |-> rebased, own |-> own]]
  BY DEF BuildFull
<1>2. PICK history \in Histories(c, b), rebased \in HeadBases(c) :
        LET levels == IF rebased = None THEN head[c].levels ELSE <<>>
            packs == IF rebased = None THEN ManifestPacks(head[c]) ELSE rebased
        IN \E own \in OwnHistories(c, ownBase, levels, Len(head[c].base)) :
             full' = [full EXCEPT ![c] =
               [levels |-> history, headPacks |-> packs, headBase |-> rebased, own |-> own]]
  BY <1>1
<1>3. PICK levels, packs : /\ levels = IF rebased = None THEN head[c].levels ELSE <<>>
                           /\ packs = IF rebased = None THEN ManifestPacks(head[c]) ELSE rebased
  OBVIOUS
<1>4. PICK own \in OwnHistories(c, ownBase, levels, Len(head[c].base)) :
        full' = [full EXCEPT ![c] =
          [levels |-> history, headPacks |-> packs, headBase |-> rebased, own |-> own]]
  BY <1>2, <1>3
<1>5. PICK B, L : /\ Packed(head[c].base, B) /\ Packed(head[c].levels, L)
                  /\ B \cap L = {} /\ Holds(c, B \cup L)
  BY <1>0 DEF PackInv, HeadInv
<1>6. Chained(c, history) /\ Len(history) <= LevelLimit
  <2>1. CASE history = SealAndCompact(c, <<>>)  BY <1>0, <2>1, ColdChains
  <2>2. CASE b # None /\ history = SealAndCompact(c, full[b].levels)
    <3>0. b \in BasesOf(c, {p \in Commit : full[p] # None})  BY <1>1
    <3>1. b \in Commit /\ full[b] # None /\ b \in Ancestors[c]
      <4> DEFINE ready == {p \in Commit : full[p] # None}
      <4>1. \A p \in ready : full[p] # None  OBVIOUS
      <4> HIDE DEF ready
      <4>2. b \in BasesOf(c, ready) /\ c \in Commit /\ b # None  BY <1>0, <2>2, <3>0 DEF ready
      <4> QED  BY ONLY <4>1, <4>2, BaseIsReady
    <3>2. Chained(b, full[b].levels)  BY <3>1 DEF PackInv, FullInv
    <3> QED  BY <1>0, <2>2, <3>1, <3>2, SealChains
  <2> QED  BY <1>2, <2>1, <2>2 DEF Histories
<1>7. rebased # None => \E objects : Packed(rebased, objects) /\ Holds(c, objects)
  <2> SUFFICES ASSUME rebased # None PROVE \E objects : Packed(rebased, objects) /\ Holds(c, objects)
    OBVIOUS
  <2>1. CASE rebased = Rebased(c, head[c].base)
    <3>1. B \subseteq History(c)  BY <1>5 DEF Holds
    <3> QED  BY <1>0, <1>5, <2>1, <3>1, RebasedHolds
  <2>2. CASE rebased = HeadPacks(c)  BY <1>0, <2>2, ColdHeadHolds
  <2> QED  BY <1>2, <2>1, <2>2 DEF HeadBases
<1>8. \E objects : Packed(packs, objects) /\ Holds(c, objects)
  <2>1. CASE rebased = None
    <3>1. packs = head[c].base \o head[c].levels  BY <1>3, <2>1 DEF ManifestPacks
    <3>2. Packed(packs, B \cup L)  BY <1>5, <3>1, ListsJoin
    <3> QED  BY <1>5, <3>2
  <2>2. CASE rebased # None  BY <1>3, <1>7, <2>2
  <2> QED  BY <2>1, <2>2
<1>9. own # None => OwnCompletes(c, own, packs)
  <2> SUFFICES ASSUME own # None PROVE OwnCompletes(c, own, packs)  OBVIOUS
  <2>1. ownBase \in Commit /\ own = OwnHistory(c, ownBase, levels, Len(head[c].base))
    BY <1>4, PackAssumption DEF OwnHistories
  <2>2. \A i \in DOMAIN levels : packs[Len(head[c].base) + i] = levels[i]
    <3>1. CASE rebased = None
      <4>1. packs = head[c].base \o head[c].levels /\ levels = head[c].levels  BY <1>3, <3>1 DEF ManifestPacks
      <4>2. head[c].base \in Seq(SUBSET DOMAIN ObjectSize) /\ head[c].levels \in Seq(SUBSET DOMAIN ObjectSize)
        BY <1>5 DEF Packed
      <4>3. \A S : \A p, q \in Seq(S) : \A i \in DOMAIN q : (p \o q)[Len(p) + i] = q[i]  OBVIOUS
      <4>4. \A i \in DOMAIN head[c].levels :
              (head[c].base \o head[c].levels)[Len(head[c].base) + i] = head[c].levels[i]
        BY ONLY <4>2, <4>3, Zenon
      <4> QED  BY ONLY <4>1, <4>4
    <3>2. CASE rebased # None
      <4>1. levels = <<>>  BY <1>3, <3>2
      <4> QED  BY <4>1
    <3> QED  BY <3>1, <3>2
  <2> QED  BY <1>0, <2>1, <2>2, OwnIsComplete
<1>10. PICK new : /\ new.levels = history /\ new.headPacks = packs /\ new.headBase = rebased /\ new.own = own
                  /\ full' = [full EXCEPT ![c] = new]
  BY <1>4
<1>11. full' = [d \in Commit |-> full'[d]] /\ \A d \in Commit : full'[d] = IF d = c THEN new ELSE full[d]
  BY <1>0, <1>10
<1>12. FullInv'
  <2> SUFFICES ASSUME NEW d \in Commit, full'[d] # None
               PROVE  /\ \E objects : Packed(full'[d].headPacks, objects) /\ Holds(d, objects)
                      /\ full'[d].headBase # None =>
                           \E objects : Packed(full'[d].headBase, objects) /\ Holds(d, objects)
                      /\ Chained(d, full'[d].levels) /\ Len(full'[d].levels) <= LevelLimit
                      /\ full'[d].own # None => OwnCompletes(d, full'[d].own, full'[d].headPacks)
    BY DEF FullInv
  <2>1. CASE d = c
    <3>1. full'[d] = new  BY <1>11, <2>1
    <3> QED  BY <1>6, <1>7, <1>8, <1>9, <1>10, <2>1, <3>1
  <2>2. CASE d # c
    <3>1. full'[d] = full[d]  BY <1>11, <2>2
    <3> QED  BY <3>1 DEF PackInv, FullInv
  <2> QED  BY <2>1, <2>2
<1>13. HeadInv'  BY <1>0 DEF PackInv, HeadInv
<1> QED  BY <1>0, <1>11, <1>12, <1>13 DEF PackInv

\* In whatever order Heads and Fulls of whichever commits are built, on the
\* bases they find: Head packs hold the tree and no object twice, history
\* levels are a chain that ends at the commit, and own histories complete.
THEOREM PackInvariant == PackSpec => []PackInv
<1>1. PackInit => PackInv
  <2> SUFFICES ASSUME PackInit PROVE PackInv  OBVIOUS
  <2>1. \A c \in Commit : head[c] = None /\ full[c] = None  BY DEF PackInit
  <2>2. head = [c \in Commit |-> head[c]] /\ full = [c \in Commit |-> full[c]]  BY DEF PackInit
  <2> QED  BY <2>1, <2>2 DEF PackInv, HeadInv, FullInv
<1>2. PackInv /\ [PackNext]_packVars => PackInv'
  <2> SUFFICES ASSUME PackInv, [PackNext]_packVars PROVE PackInv'  OBVIOUS
  <2>1. CASE UNCHANGED packVars  BY <2>1 DEF packVars, PackInv, HeadInv, FullInv
  <2>2. ASSUME NEW c \in Pushed, BuildHead(c) PROVE PackInv'  BY <2>2, BuildHeadKeeps
  <2>3. ASSUME NEW c \in Pushed, NEW ownBase \in Pushed \cup {None}, BuildFull(c, ownBase) PROVE PackInv'
    BY <2>3, BuildFullKeeps
  <2> QED  BY <2>1, <2>2, <2>3 DEF PackNext
<1> QED  BY <1>1, <1>2, PTL DEF PackSpec

\* The Head packs of every Head, of every Full and of every new base hold the
\* commit's tree, no object twice and nothing the commit cannot reach, for any
\* commit graph, objects, sizes and limits (build_head, rebase_head_packs).
THEOREM HeadsAreExact == PackSpec => []HeadPacksExact
<1>1. PackInv => HeadPacksExact
  <2> SUFFICES ASSUME PackInv PROVE HeadPacksExact  OBVIOUS
  <2>1. \A c, packs, objects : Packed(packs, objects) /\ Holds(c, objects) =>
          /\ HeadObjects[c] \subseteq ObjectsIn(packs) /\ ObjectsIn(packs) \subseteq History(c)
          /\ \A i, j \in DOMAIN packs : i # j => packs[i] \cap packs[j] = {}
    BY DEF Packed, Holds, Apart
  <2>2. ASSUME NEW c \in Commit, head[c] # None
        PROVE  \E objects : Packed(ManifestPacks(head[c]), objects) /\ Holds(c, objects)
    <3>1. PICK B, L : /\ Packed(head[c].base, B) /\ Packed(head[c].levels, L)
                      /\ B \cap L = {} /\ Holds(c, B \cup L)
      BY <2>2 DEF PackInv, HeadInv
    <3>2. Packed(ManifestPacks(head[c]), B \cup L)  BY <3>1, ListsJoin DEF ManifestPacks
    <3> QED  BY <3>1, <3>2
  <2>3. ASSUME NEW c \in Commit, full[c] # None
        PROVE  \E objects : Packed(full[c].headPacks, objects) /\ Holds(c, objects)
    BY <2>3 DEF PackInv, FullInv
  <2> QED  BY <2>1, <2>2, <2>3 DEF HeadPacksExact
<1> QED  BY <1>1, PackInvariant, PTL

\* The history levels of every Full hold exactly the commit's history, in at
\* most LevelLimit levels, however they were extended and merged
\* (seal_and_compact, compact_levels).
THEOREM HistoryIsExact == PackSpec => []LevelsHoldHistory
<1>1. PackInv => LevelsHoldHistory
  <2> SUFFICES ASSUME PackInv, NEW c \in Commit, full[c] # None
               PROVE  /\ UNION {full[c].levels[i].pack : i \in DOMAIN full[c].levels} = History(c)
                      /\ Len(full[c].levels) <= LevelLimit
                      /\ Last(full[c].levels).tip = c
    BY DEF LevelsHoldHistory
  <2>1. Chained(c, full[c].levels) /\ Len(full[c].levels) <= LevelLimit  BY DEF PackInv, FullInv
  <2> QED  BY <2>1, ChainHolds
<1> QED  BY <1>1, PackInvariant, PTL

\* A clone that has the history of a commit that holds the base of an own
\* history has the whole history with the own pack and the Head packs it names
\* (own_history).
THEOREM OwnHistoriesComplete == PackSpec => []OwnHistoryCompletes
<1>1. PackInv => OwnHistoryCompletes
  BY DEF PackInv, FullInv, OwnCompletes, OwnHistoryCompletes
<1> QED  BY <1>1, PackInvariant, PTL

-----------------------------------------------------------------------------
(* Files tables.                                                            *)

\* A list without repetitions.
Unlike(s) == s \in Seq(ToSet(s)) /\ \A i, j \in DOMAIN s : i # j => s[i] # s[j]

\* What a list lists.
LEMMA Listed == \A s, x : x \in ToSet(s) <=> \E i \in DOMAIN s : x = s[i]
BY DEF ToSet

\* A list grows by what it lacks.
LEMMA ListGrows ==
  ASSUME NEW s, Unlike(s), NEW x, x \notin ToSet(s)
  PROVE  Unlike(Append(s, x)) /\ \A y : y \in ToSet(Append(s, x)) <=> y \in ToSet(s) \/ y = x
<1> DEFINE r == Append(s, x)
           V == ToSet(s) \cup {x}
<1>1. s \in Seq(V) /\ x \in V
  <2>1. s \in Seq(ToSet(s))  BY DEF Unlike
  <2> QED  BY <2>1
<1>2. Len(s) \in Nat /\ DOMAIN s = 1..Len(s)  BY <1>1
<1>3. /\ r \in Seq(V) /\ Len(r) = Len(s) + 1 /\ DOMAIN r = 1..(Len(s) + 1)
      /\ r[Len(s) + 1] = x /\ \A i \in DOMAIN s : r[i] = s[i]
  BY <1>1, <1>2
<1>4. \A i : i \in DOMAIN r <=> i \in DOMAIN s \/ i = Len(s) + 1  BY <1>2, <1>3
<1>5. Len(s) + 1 \notin DOMAIN s  BY <1>2
<1> HIDE DEF r
<1>6. \A y : y \in ToSet(r) <=> y \in ToSet(s) \/ y = x
  <2>1. \A y : y \in ToSet(r) <=> \E i \in DOMAIN r : y = r[i]  BY Listed
  <2>2. \A y : y \in ToSet(s) <=> \E i \in DOMAIN s : y = s[i]  BY Listed
  <2> QED  BY <1>3, <1>4, <2>1, <2>2
<1>7. \A i, j \in DOMAIN r : i # j => r[i] # r[j]
  <2>1. \A i \in DOMAIN s : s[i] # x  BY Listed
  <2>2. \A i, j \in DOMAIN s : i # j => s[i] # s[j]  BY DEF Unlike
  <2> QED  BY <1>3, <1>4, <1>5, <2>1, <2>2
<1>8. ToSet(r) = V  BY <1>6
<1>9. Unlike(r)  BY <1>3, <1>7, <1>8 DEF Unlike
<1> QED  BY <1>6, <1>9 DEF r

\* A filtered list lists what it filters for.
LEMMA WithinLists ==
  ASSUME NEW s, Unlike(s), NEW S
  PROVE  Unlike(Within(s, S)) /\ \A y : y \in ToSet(Within(s, S)) <=> y \in ToSet(s) /\ y \in S
<1> DEFINE D == DOMAIN s
           V == Seq(ToSet(s))
           Add(kept, x) == IF x \in S THEN Append(kept, x) ELSE kept
           pick == [d \in SUBSET D |-> Max(d)]
           step == [p \in D \X V |-> Add(p[2], s[p[1]])]
           Folds_(it) == it = [d \in SUBSET D |-> IF d = {} THEN <<>>
                                ELSE Add(it[d \ {Max(d)}], s[Max(d)])]
           f == CHOOSE it : Folds_(it)
<1>0. /\ s \in V /\ Len(s) \in Nat /\ D = 1..Len(s) /\ \A i \in D : s[i] \in ToSet(s)
      /\ \A i, j \in D : i # j => s[i] # s[j]
  <2>1. s \in V /\ \A i, j \in D : i # j => s[i] # s[j]  BY DEF Unlike
  <2> QED  BY <2>1
<1>1. Within(s, S) = f[D]  BY DEF Within, FoldLeft, MapThenFoldSet
<1>2. \A d \in SUBSET D : d # {} => Max(d) \in d /\ pick[d] = Max(d)  BY <1>0, MaxIsIn
<1>3. \A kept, x : Add(kept, x) = IF x \in S THEN Append(kept, x) ELSE kept  OBVIOUS
<1>4. \A i \in D : \A kept \in V : step[<<i, kept>>] = Add(kept, s[i])  OBVIOUS
<1>5. IsFiniteSet(D)
  <2>1. Len(s) \in Int /\ 1 \in Int  BY <1>0
  <2>2. IsFiniteSet(1..Len(s))  BY ONLY <2>1, FS_Interval
  <2> QED  BY <1>0, <2>2
<1> HIDE DEF Add, step, pick, f, D
<1>6. \A kept \in V, i \in D : Add(kept, s[i]) \in V
  <2> SUFFICES ASSUME NEW kept \in V, NEW i \in D PROVE Add(kept, s[i]) \in V  OBVIOUS
  <2>1. s[i] \in ToSet(s)  BY <1>0
  <2>2. Append(kept, s[i]) \in V  BY <2>1
  <2> QED  BY <1>3, <2>2
<1>7. Folds_(f)
  <2> HIDE DEF V
  <2>1. Picks(pick, D) /\ Steps(step, D, V)  BY <1>2, <1>4, <1>6 DEF Picks, Steps
  <2>2. <<>> \in V  BY DEF V
  <2>3. PICK it \in [SUBSET D -> V] : FoldsTo(it, D, <<>>, pick, step)
    BY <1>5, <2>1, <2>2, FoldExists
  <2>4. ASSUME NEW d \in SUBSET D, d # {} PROVE it[d] = Add(it[d \ {Max(d)}], s[Max(d)])
    <3>1. it[d] = step[<<pick[d], it[d \ {pick[d]}]>>]  BY <2>3, <2>4 DEF FoldsTo
    <3>2. pick[d] \in D /\ it[d \ {pick[d]}] \in V  BY <1>2, <2>3, <2>4
    <3>3. it[d] = Add(it[d \ {pick[d]}], s[pick[d]])  BY <1>4, <3>1, <3>2
    <3>4. pick[d] = Max(d)  BY <1>2, <2>4
    <3> QED  BY <3>3, <3>4
  <2>5. it[{}] = <<>>  BY <2>3 DEF FoldsTo
  <2>6. Folds_(it)  BY <2>3, <2>4, <2>5
  <2> HIDE DEF Folds_
  <2> QED  BY <2>6 DEF f
<1> DEFINE Lists(d) == Unlike(f[d]) /\ \A y : y \in ToSet(f[d]) <=> y \in S /\ \E i \in d : y = s[i]
           G == {d \in SUBSET D : Lists(d)}
<1>8. {} \in G
  <2>1. f[{}] = <<>>  BY <1>7
  <2>2. Unlike(<<>>) /\ \A y : y \notin ToSet(<<>>)  BY Listed DEF Unlike
  <2> QED  BY <2>1, <2>2
<1>9. ASSUME NEW d \in SUBSET D, d # {} PROVE \E x \in d : d \ {x} \in G => d \in G
  <2>1. PICK x \in d : x = Max(d)  BY <1>2, <1>9
  <2>2. f[d] = Add(f[d \ {x}], s[x])  BY <1>7, <1>9, <2>1
  <2>3. ASSUME Lists(d \ {x}) PROVE Lists(d)
    <3>1. CASE s[x] \notin S
      <4>1. f[d] = f[d \ {x}]  BY <1>3, <2>2, <3>1
      <4> QED  BY <2>3, <3>1, <4>1
    <3>2. CASE s[x] \in S
      <4>1. f[d] = Append(f[d \ {x}], s[x])  BY <1>3, <2>2, <3>2
      <4>0. x \in D /\ \A i \in d \ {x} : s[i] # s[x]  BY <1>0
      <4>2. s[x] \notin ToSet(f[d \ {x}])  BY <2>3, <4>0
      <4>3. Unlike(f[d])  BY <2>3, <4>1, <4>2, ListGrows
      <4>4. \A y : y \in ToSet(f[d]) <=> y \in ToSet(f[d \ {x}]) \/ y = s[x]
        BY <2>3, <4>1, <4>2, ListGrows
      <4> QED  BY <2>3, <3>2, <4>3, <4>4
    <3> QED  BY <3>1, <3>2
  <2> QED  BY <2>3
<1>10. SUBSET D \subseteq G
  <2> HIDE DEF G
  <2>1. \A d \in SUBSET D : d # {} => \E x \in d : d \ {x} \in G => d \in G  BY <1>9
  <2> QED  BY <1>5, <1>8, <2>1, FoldInduction
<1>11. Lists(D)  BY <1>10
<1> QED  BY <1>1, <1>11, Listed DEF D

\* Two lists with nothing in common.
LEMMA ListsConcat ==
  ASSUME NEW p, NEW q, Unlike(p), Unlike(q), \A x \in ToSet(p) : x \notin ToSet(q)
  PROVE  Unlike(p \o q) /\ \A x : x \in ToSet(p \o q) <=> x \in ToSet(p) \/ x \in ToSet(q)
<1> DEFINE r == p \o q
           V == ToSet(p) \cup ToSet(q)
<1>1. p \in Seq(V) /\ q \in Seq(V)
  <2>1. p \in Seq(ToSet(p)) /\ q \in Seq(ToSet(q))  BY DEF Unlike
  <2> QED  BY <2>1
<1>2. /\ Len(p) \in Nat /\ DOMAIN p = 1..Len(p) /\ Len(q) \in Nat /\ DOMAIN q = 1..Len(q)
      /\ r \in Seq(V) /\ Len(r) = Len(p) + Len(q) /\ DOMAIN r = 1..(Len(p) + Len(q))
  BY <1>1
<1>3. \A i \in DOMAIN p : i \in DOMAIN r /\ r[i] = p[i]  BY <1>1, <1>2
<1>4. \A i \in DOMAIN q : Len(p) + i \in DOMAIN r /\ r[Len(p) + i] = q[i]  BY <1>1, <1>2
<1>5. \A i \in DOMAIN r : i \notin DOMAIN p => \E j \in DOMAIN q : i = Len(p) + j
  <2> SUFFICES ASSUME NEW i \in DOMAIN r, i \notin DOMAIN p
               PROVE  i - Len(p) \in DOMAIN q /\ i = Len(p) + (i - Len(p))
    OBVIOUS
  <2> QED  BY <1>2
<1> HIDE DEF r
<1>6. \A x : x \in ToSet(r) <=> x \in ToSet(p) \/ x \in ToSet(q)
  <2>1. \A x : x \in ToSet(r) <=> \E i \in DOMAIN r : x = r[i]  BY Listed
  <2>2. \A x : x \in ToSet(p) <=> \E i \in DOMAIN p : x = p[i]  BY Listed
  <2>3. \A x : x \in ToSet(q) <=> \E i \in DOMAIN q : x = q[i]  BY Listed
  <2>4. ASSUME NEW x \in ToSet(r) PROVE x \in ToSet(p) \/ x \in ToSet(q)
    BY <1>3, <1>4, <1>5, <2>1, <2>2, <2>3
  <2>5. ASSUME NEW x, x \in ToSet(p) \/ x \in ToSet(q) PROVE x \in ToSet(r)
    BY <1>3, <1>4, <2>1, <2>2, <2>3, <2>5
  <2> QED  BY <2>4, <2>5
<1>7. ASSUME NEW i \in DOMAIN r, NEW j \in DOMAIN r, i # j PROVE r[i] # r[j]
  <2>1. \A k \in DOMAIN p : p[k] \in ToSet(p)  BY Listed
  <2>2. \A k \in DOMAIN q : q[k] \in ToSet(q)  BY Listed
  <2>3. \A k, l \in DOMAIN p : k # l => p[k] # p[l]  BY DEF Unlike
  <2>4. \A k, l \in DOMAIN q : k # l => q[k] # q[l]  BY DEF Unlike
  <2>5. CASE i \in DOMAIN p /\ j \in DOMAIN p  BY <1>3, <1>7, <2>3, <2>5
  <2>6. CASE i \in DOMAIN p /\ j \notin DOMAIN p
    <3>1. PICK l \in DOMAIN q : j = Len(p) + l  BY <1>5, <2>6
    <3> QED  BY <1>3, <1>4, <2>1, <2>2, <2>6, <3>1
  <2>7. CASE i \notin DOMAIN p /\ j \in DOMAIN p
    <3>1. PICK k \in DOMAIN q : i = Len(p) + k  BY <1>5, <2>7
    <3> QED  BY <1>3, <1>4, <2>1, <2>2, <2>7, <3>1
  <2>8. CASE i \notin DOMAIN p /\ j \notin DOMAIN p
    <3>1. PICK k \in DOMAIN q : i = Len(p) + k  BY <1>5, <2>8
    <3>2. PICK l \in DOMAIN q : j = Len(p) + l  BY <1>5, <2>8
    <3>3. k # l  BY <1>7, <3>1, <3>2
    <3> QED  BY <1>4, <2>4, <3>1, <3>2, <3>3
  <2> QED  BY <2>5, <2>6, <2>7, <2>8
<1>8. ToSet(r) = V  BY <1>6
<1>9. Unlike(r)  BY <1>2, <1>7, <1>8 DEF Unlike
<1> QED  BY <1>6, <1>9 DEF r

\* A list without repetitions is as long as the set it lists is large.
LEMMA ListCounts ==
  ASSUME NEW s, Unlike(s)
  PROVE  Len(s) = Cardinality(ToSet(s))
<1>1. s \in Seq(ToSet(s))  BY DEF Unlike
<1>2. Len(s) \in Nat /\ DOMAIN s = 1..Len(s) /\ s \in [1..Len(s) -> ToSet(s)]  BY <1>1
<1>3. \A x \in ToSet(s) : \E i \in 1..Len(s) : s[i] = x  BY <1>2, Listed
<1>4. \A i, j \in 1..Len(s) : s[i] = s[j] => i = j  BY <1>2 DEF Unlike
<1>5. s \in Bijection(1..Len(s), ToSet(s))
  BY <1>2, <1>3, <1>4 DEF Bijection, Injection, Surjection, IsInjective
<1>6. ExistsBijection(1..Len(s), ToSet(s))  BY <1>5 DEF ExistsBijection
<1> QED  BY <1>2, <1>6, FS_CountingElements

\* A table that lists files, each path once.
ListsFiles(table) ==
  /\ table.files \in Seq(ToSet(table.files))
  /\ \A f \in ToSet(table.files) : f = [path |-> f.path, blob |-> f.blob, frags |-> f.frags]
  /\ \A i, j \in DOMAIN table.files : i # j => table.files[i].path # table.files[j].path

\* The same files in the same places, in any order.
SameTable(loaded, table) ==
  /\ loaded.frames = table.frames
  /\ ToSet(loaded.files) = ToSet(table.files) /\ Len(loaded.files) = Len(table.files)

\* Files with the same path are the same file.
LEMMA FilesUnlike ==
  ASSUME NEW table, ListsFiles(table)
  PROVE  /\ Unlike(table.files)
         /\ \A f, g \in ToSet(table.files) : f.path = g.path => f = g
<1>1. Unlike(table.files)  BY DEF ListsFiles, Unlike
<1>2. \A f, g \in ToSet(table.files) : f.path = g.path => f = g  BY Listed DEF ListsFiles
<1> QED  BY <1>1, <1>2

\* A table of the files of another is as good as that one.
LEMMA GeometryOfFiles ==
  ASSUME NEW table, ListsFiles(table), NEW listed, Unlike(listed),
         \A f : f \in ToSet(listed) <=> f \in ToSet(table.files)
  PROVE  LET loaded == [frames |-> table.frames, files |-> listed]
         IN SameTable(loaded, table) /\ (ValidGeometry(table) => ValidGeometry(loaded))
<1> DEFINE loaded == [frames |-> table.frames, files |-> listed]
<1>1. loaded.frames = table.frames /\ loaded.files = listed  OBVIOUS
<1>2. ToSet(listed) = ToSet(table.files)  OBVIOUS
<1> HIDE DEF loaded
<1>3. ASSUME NEW i \in DOMAIN listed, NEW j \in DOMAIN listed, i # j PROVE listed[i].path # listed[j].path
  <2>1. listed[i] \in ToSet(table.files) /\ listed[j] \in ToSet(table.files)  BY <1>2, Listed
  <2>2. listed[i] # listed[j]  BY <1>3 DEF Unlike
  <2> QED  BY <2>1, <2>2, FilesUnlike
<1>4. ASSUME ValidGeometry(table) PROVE ValidGeometry(loaded)  BY <1>1, <1>2, <1>3, <1>4 DEF ValidGeometry
<1>5. Len(listed) = Len(table.files)  BY <1>2, ListCounts, FilesUnlike
<1>6. SameTable(loaded, table)  BY <1>1, <1>2, <1>5 DEF SameTable
<1> QED  BY <1>4, <1>6 DEF loaded

\* MetadataDelta::apply undoes MetadataDelta::between, unless it refuses: the
\* base's files that stay and the ones it lacks are the files of the table.
LEMMA DeltaLoads ==
  ASSUME NEW base, NEW map, NEW table, ListsFiles(base), ListsFiles(table)
  PROVE  \E loaded : /\ SameTable(loaded, table) /\ (ValidGeometry(table) => ValidGeometry(loaded))
                     /\ Apply(Between(base, map, table), base)
                          = IF ValidGeometry(loaded) THEN loaded ELSE None
<1> DEFINE B == ToSet(base.files)
           F == ToSet(table.files)
           Kept(f) == \E o \in B : /\ o.path = f.path /\ o.blob = f.blob
                                   /\ MapFrags(o.frags, map) = f.frags
           delta == Between(base, map, table)
           news == ToSet(delta.files)
           Changed(f) == {n \in news : n.path = f.path}
           Entry(f) == IF Changed(f) # {} THEN CHOOSE n \in Changed(f) : TRUE
                       ELSE [f EXCEPT !.frags = MapFrags(@, delta.map)]
           stay == Within(base.files, {f \in B : f.path \notin delta.removed})
           paths == {f.path : f \in ToSet(stay)}
           fresh == Within(delta.files, {f \in news : f.path \notin paths})
           entries == [n \in DOMAIN stay |-> Entry(stay[n])]
           loaded == [frames |-> delta.frames, files |-> entries \o fresh]
<1>1. /\ delta.frames = table.frames /\ delta.map = map
      /\ delta.files = Within(table.files, {f \in F : ~Kept(f)})
      /\ delta.removed = {f.path : f \in B} \ {f.path : f \in F}
  BY DEF Between
<1>2. Apply(delta, base) = IF ValidGeometry(loaded) THEN loaded ELSE None  BY DEF Apply
<1>3. /\ Unlike(base.files) /\ \A f, g \in B : f.path = g.path => f = g
      /\ Unlike(table.files) /\ \A f, g \in F : f.path = g.path => f = g
  BY FilesUnlike
<1>4. Unlike(delta.files) /\ \A f : f \in news <=> f \in F /\ ~Kept(f)  BY <1>1, <1>3, WithinLists
<1> HIDE DEF delta
<1>5. Unlike(stay) /\ \A f : f \in ToSet(stay) <=> f \in B /\ \E g \in F : g.path = f.path
  <2>1. Unlike(stay) /\ \A f : f \in ToSet(stay) <=> f \in B /\ f \in {g \in B : g.path \notin delta.removed}
    BY <1>3, WithinLists
  <2> QED  BY <1>1, <2>1
<1> HIDE DEF stay
<1>6. Unlike(fresh) /\ \A f : f \in ToSet(fresh) <=> f \in F /\ \A b \in B : b.path # f.path
  <2>1. Unlike(fresh) /\ \A f : f \in ToSet(fresh) <=> f \in news /\ f \in {g \in news : g.path \notin paths}
    BY <1>4, WithinLists
  <2>2. \A f : f \in ToSet(fresh) <=> f \in news /\ \A b \in ToSet(stay) : b.path # f.path  BY <2>1
  <2>3. \A f \in F : (\A b \in B : b.path # f.path) => ~Kept(f)  OBVIOUS
  <2> HIDE DEF Kept
  <2> QED  BY <1>4, <1>5, <2>1, <2>2, <2>3
<1>7. ASSUME NEW f \in ToSet(stay) PROVE Entry(f) \in F /\ Entry(f).path = f.path
  <2>1. f \in B  BY <1>5
  <2>2. PICK g \in F : g.path = f.path  BY <1>5
  <2>3. CASE ~Kept(g)
    <3>1. g \in Changed(f)  BY <1>4, <2>2, <2>3
    <3>2. \A n \in Changed(f) : n \in F /\ n.path = f.path  BY <1>4
    <3> QED  BY <3>1, <3>2
  <2>4. CASE Kept(g)
    <3>1. f.blob = g.blob /\ MapFrags(f.frags, map) = g.frags  BY <1>3, <2>1, <2>2, <2>4
    <3>2. Changed(f) = {}  BY <1>3, <1>4, <2>2, <2>4
    <3>3. Entry(f) = [f EXCEPT !.frags = MapFrags(f.frags, map)]  BY <1>1, <3>2
    <3>4. f = [path |-> f.path, blob |-> f.blob, frags |-> f.frags]  BY <2>1 DEF ListsFiles
    <3>5. g = [path |-> g.path, blob |-> g.blob, frags |-> g.frags]  BY <2>2 DEF ListsFiles
    <3>6. [f EXCEPT !.frags = MapFrags(f.frags, map)]
            = [path |-> f.path, blob |-> f.blob, frags |-> MapFrags(f.frags, map)]
      BY <3>4
    <3>7. Entry(f) = g  BY <2>2, <3>1, <3>3, <3>5, <3>6
    <3> QED  BY <2>2, <3>7
  <2> QED  BY <2>3, <2>4
<1> HIDE DEF Entry, fresh
<1>8. /\ Unlike(entries)
      /\ \A f : f \in ToSet(entries) <=> f \in F /\ \E b \in B : b.path = f.path
  <2>1. stay \in Seq(ToSet(stay)) /\ \A i, j \in DOMAIN stay : i # j => stay[i] # stay[j]
    BY <1>5 DEF Unlike
  <2>2. Len(stay) \in Nat /\ DOMAIN stay = 1..Len(stay) /\ \A i \in DOMAIN stay : stay[i] \in ToSet(stay)
    BY <2>1
  <2>3. \A i \in DOMAIN stay : /\ entries[i] = Entry(stay[i]) /\ entries[i] \in F
                               /\ entries[i].path = stay[i].path /\ stay[i] \in B
    BY <1>5, <1>7, <2>2
  <2>4. DOMAIN entries = DOMAIN stay  OBVIOUS
  <2>5. \A i \in DOMAIN entries : entries[i] \in ToSet(entries)  BY Listed
  <2>6. entries \in Seq(ToSet(entries))
    <3>1. entries \in [1..Len(stay) -> ToSet(entries)]  BY <2>2, <2>5
    <3> QED  BY <2>2, <3>1
  <2> HIDE DEF entries
  <2>7. \A i, j \in DOMAIN entries : i # j => entries[i] # entries[j]
    BY <1>3, <2>1, <2>3, <2>4
  <2>8. Unlike(entries)  BY <2>6, <2>7 DEF Unlike
  <2>9. ASSUME NEW f \in F, NEW b \in B, b.path = f.path PROVE f \in ToSet(entries)
    <3>1. b \in ToSet(stay)  BY <1>5, <2>9
    <3>2. PICK i \in DOMAIN stay : stay[i] = b  BY <3>1, Listed
    <3>3. entries[i] = f  BY <1>3, <2>3, <2>9, <3>2
    <3> QED  BY <2>4, <2>5, <3>3
  <2>10. ASSUME NEW f \in ToSet(entries) PROVE f \in F /\ \E b \in B : b.path = f.path
    <3>1. PICK i \in DOMAIN stay : f = entries[i]  BY <2>4, Listed
    <3> QED  BY <2>3, <3>1
  <2> QED  BY <2>8, <2>9, <2>10
<1> HIDE DEF entries
<1>9. Unlike(entries \o fresh) /\ \A f : f \in ToSet(entries \o fresh) <=> f \in F
  <2>1. \A f \in ToSet(entries) : f \notin ToSet(fresh)  BY <1>6, <1>8
  <2>2. /\ Unlike(entries \o fresh)
        /\ \A f : f \in ToSet(entries \o fresh) <=> f \in ToSet(entries) \/ f \in ToSet(fresh)
    BY <1>6, <1>8, <2>1, ListsConcat
  <2> QED  BY <1>6, <1>8, <2>2
<1>10. SameTable(loaded, table) /\ (ValidGeometry(table) => ValidGeometry(loaded))
  BY <1>1, <1>9, GeometryOfFiles
<1> QED  BY <1>2, <1>10 DEF delta

\* None is not a delta.
NoneIsNoDelta ==
  \A frames, map, news, removed :
    None # [frames |-> frames, map |-> map, files |-> news, removed |-> removed]

\* store_table stores the table or what changes an earlier table into it.
LEMMA StoredIs ==
  ASSUME NoneIsNoDelta, NEW table, NEW bundles, NEW previous,
         NEW stored \in StoredTables(table, bundles, previous)
  PROVE  \/ stored = [chunk |-> table, delta |-> None]
         \/ /\ previous # None /\ stored.delta # None
            /\ \E map : stored = [chunk |-> previous.chunk, delta |-> Between(previous.chunk, map, table)]
<1>1. SUFFICES ASSUME stored # [chunk |-> table, delta |-> None]
               PROVE  /\ previous # None /\ stored.delta # None
                      /\ \E map : stored = [chunk |-> previous.chunk,
                                            delta |-> Between(previous.chunk, map, table)]
  OBVIOUS
<1>2. previous # None /\ \E map : stored = [chunk |-> previous.chunk,
                                            delta |-> Between(previous.chunk, map, table)]
  BY <1>1 DEF StoredTables
<1>3. \A base, map : Between(base, map, table) # None  BY DEF NoneIsNoDelta, Between
<1> QED  BY <1>2, <1>3

\* Whether store_table stores a files table whole or as a delta on any earlier
\* table, load_metadata gives the same files in the same frames, each once,
\* and what a client reads for them is what it would read with the table as it
\* was built, for every table whose geometry is valid, every earlier result and
\* frame map (MetadataDelta::between, MetadataDelta::apply, validate_geometry).
THEOREM StoredTablesLoad ==
  ASSUME NoneIsNoDelta, NEW table, NEW bundles, NEW previous,
         NEW stored \in StoredTables(table, bundles, previous),
         ListsFiles(table), ValidGeometry(table), previous # None => ListsFiles(previous.chunk)
  PROVE  /\ SameTable(Loaded(stored), table)
         /\ \A result, f : ReadFile(result, Loaded(stored), f) = ReadFile(result, table, f)
<1>1. CASE stored = [chunk |-> table, delta |-> None]
  <2>1. Loaded(stored) = table  BY <1>1 DEF Loaded
  <2> QED  BY <2>1 DEF SameTable
<1>2. CASE stored # [chunk |-> table, delta |-> None]
  <2>1. previous # None /\ stored.delta # None  BY <1>2, StoredIs
  <2>2. PICK map : stored = [chunk |-> previous.chunk, delta |-> Between(previous.chunk, map, table)]
    BY <1>2, StoredIs
  <2>3. Loaded(stored) = Apply(Between(previous.chunk, map, table), previous.chunk)
    BY <2>1, <2>2 DEF Loaded
  <2>4. SameTable(Loaded(stored), table)  BY <2>1, <2>3, DeltaLoads
  <2>5. Loaded(stored).frames = table.frames  BY <2>4 DEF SameTable
  <2>6. ASSUME NEW result, NEW f PROVE ReadFile(result, Loaded(stored), f) = ReadFile(result, table, f)
    BY <2>5 DEF ReadFile
  <2> QED  BY <2>4, <2>6
<1> QED  BY <1>1, <1>2

\* The files of c's tree, each once.
ListsTree(c, table) ==
  /\ ListsFiles(table) /\ Len(table.files) = Len(Tree[c])
  /\ \A e : e \in ToSet(Tree[c]) <=> \E f \in ToSet(table.files) : e = <<f.path, f.blob>>

\* The table of a result lists the files of its tree, or changes one that lists
\* files into one that does.
FilesInv ==
  /\ files = [c \in Commit |-> files[c]]
  /\ \A c \in Commit : files[c] # None =>
       /\ ListsFiles(files[c].chunk)
       /\ files[c].delta = None => ListsTree(c, files[c].chunk)
       /\ files[c].delta # None =>
            \E table, map : /\ ListsTree(c, table)
                            /\ files[c].delta = Between(files[c].chunk, map, table)

\* A table with an entry for every file of a tree.
LEMMA EntriesListTree ==
  ASSUME NEW c \in Commit, NEW table, NEW frags,
         table.files = EntriesOf(Tree[c], frags)
  PROVE  ListsTree(c, table)
<1> DEFINE T == Tree[c]
           F == table.files
<1>1. /\ T \in Seq(ToSet(T)) /\ \A e \in ToSet(T) : e = <<e[1], e[2]>>
      /\ \A i, j \in DOMAIN T : i # j => T[i][1] # T[j][1]
  BY ArchiveAssumption
<1>2. Len(T) \in Nat /\ DOMAIN T = 1..Len(T) /\ \A i \in DOMAIN T : T[i] \in ToSet(T)  BY <1>1
<1>3. DOMAIN F = DOMAIN T /\ \A i \in DOMAIN T : F[i] = [path |-> T[i][1], blob |-> T[i][2], frags |-> frags[i]]
  BY DEF EntriesOf
<1>4. ASSUME NEW i \in DOMAIN T
      PROVE  /\ F[i].path = T[i][1] /\ F[i].blob = T[i][2]
             /\ F[i] = [path |-> F[i].path, blob |-> F[i].blob, frags |-> F[i].frags]
  <2> DEFINE p == T[i][1]
             b == T[i][2]
  <2> HIDE DEF F, T
  <2>1. F[i] = [path |-> p, blob |-> b, frags |-> frags[i]]  BY <1>3
  <2> HIDE DEF p, b
  <2>2. /\ F[i].path = p /\ F[i].blob = b
        /\ F[i] = [path |-> F[i].path, blob |-> F[i].blob, frags |-> F[i].frags]
    BY <2>1
  <2> QED  BY <2>2 DEF p, b
<1>5. \A f : f \in ToSet(F) <=> \E i \in DOMAIN F : f = F[i]  BY Listed
<1>6. F \in Seq(ToSet(F)) /\ Len(F) = Len(T)
  <2>1. F = [i \in 1..Len(T) |-> F[i]]  BY <1>2 DEF EntriesOf
  <2>2. \A i \in 1..Len(T) : F[i] \in ToSet(F)  BY <1>2, <1>3, <1>5
  <2>3. F \in [1..Len(T) -> ToSet(F)]  BY <2>1, <2>2
  <2> HIDE DEF F
  <2> QED  BY <1>2, <2>3
<1> HIDE DEF F, T
<1>7. \A f \in ToSet(F) : f = [path |-> f.path, blob |-> f.blob, frags |-> f.frags]  BY <1>3, <1>4, <1>5
<1>8. \A i, j \in DOMAIN F : i # j => F[i].path # F[j].path  BY <1>1, <1>3, <1>4
<1>9. \A e : e \in ToSet(T) <=> \E f \in ToSet(F) : e = <<f.path, f.blob>>
  <2>1. \A e : e \in ToSet(T) <=> \E i \in DOMAIN T : e = T[i]  BY Listed
  <2>2. ASSUME NEW i \in DOMAIN T PROVE T[i] = <<F[i].path, F[i].blob>>
    <3>1. T[i] = <<T[i][1], T[i][2]>>  BY <1>1, <1>2
    <3> QED  BY <1>4, <3>1
  <2> QED  BY <1>3, <1>5, <2>1, <2>2
<1>10. ListsFiles(table)  BY <1>6, <1>7, <1>8 DEF ListsFiles, F
<1> QED  BY <1>6, <1>9, <1>10 DEF ListsTree, F, T

\* TableOf has an entry for every file.
LEMMA ArchiveListsTree ==
  ASSUME NEW c \in Commit, NEW frames, NEW tail
  PROVE  ListsTree(c, ArchiveOf(Tree[c], frames, tail).table)
<1> DEFINE table == ArchiveOf(Tree[c], frames, tail).table
<1>1. table.files = TableOf(Tree[c], frames)  BY DEF ArchiveOf
<1>2. \E frags : table.files = EntriesOf(Tree[c], frags)  BY <1>1 DEF TableOf
<1> HIDE DEF table
<1>3. ListsTree(c, table)  BY <1>2, EntriesListTree
<1> QED  BY <1>3 DEF table

\* build_tail_into_cas has an entry for every file.
LEMMA TailListsTree ==
  ASSUME NEW c \in Commit, NEW base, NEW bundles, NEW frames
  PROVE  ListsTree(c, Tailed(Tree[c], base, bundles, frames).table)
<1> DEFINE a == Tailed(Tree[c], base, bundles, frames)
<1>1. \E bs, fs, infos, frags :
        a = [bundles |-> bs, frames |-> fs, tail |-> TRUE,
             table |-> [frames |-> infos, files |-> EntriesOf(Tree[c], frags)]]
  BY Zenon DEF Tailed
<1> HIDE DEF a
<1>2. \E frags : a.table.files = EntriesOf(Tree[c], frags)  BY <1>1
<1>3. ListsTree(c, a.table)  BY <1>2, EntriesListTree
<1> QED  BY <1>3 DEF a

\* Whatever build_files_result builds on lists the files of the tree.
LEMMA ArchivesListTree ==
  ASSUME NEW c \in Commit, NEW previous, NEW a \in Archives(c, previous)
  PROVE  ListsTree(c, a.table)
<1>1. \/ a = Cold(Tree[c])
      \/ \E base, bundles, frames : \/ a = Tailed(Tree[c], base, bundles, frames)
                                    \/ a = Compacted(Tree[c], base, frames)
  BY DEF Archives
<1>2. CASE a = Cold(Tree[c])  BY <1>2, ArchiveListsTree DEF Cold
<1>3. ASSUME NEW base, NEW bundles, NEW frames, a = Tailed(Tree[c], base, bundles, frames)
      PROVE  ListsTree(c, a.table)
  BY <1>3, TailListsTree
<1>4. ASSUME NEW base, NEW frames, a = Compacted(Tree[c], base, frames)
      PROVE  ListsTree(c, a.table)
  <2>1. \E fs : a = ArchiveOf(Tree[c], fs, FALSE)  BY <1>4 DEF Compacted
  <2> QED  BY <2>1, ArchiveListsTree
<1> QED  BY <1>1, <1>2, <1>3, <1>4

\* A build keeps FilesInv.
LEMMA BuildFilesKeeps ==
  ASSUME NoneIsNoDelta, FilesInv, NEW c \in Commit, BuildFiles(c)
  PROVE  FilesInv'
<1>1. PICK previous, a, t, compact :
        /\ a \in Archives(c, previous) /\ t \in StoredTables(a.table, a.bundles, previous)
        /\ previous # None => \E b \in Commit : previous = files[b]
        /\ files' = [files EXCEPT ![c] =
             [bundles |-> a.bundles, frames |-> a.frames, chunk |-> t.chunk, delta |-> t.delta,
              compact |-> compact]]
  <2>1. PICK b \in BasesOf(c, {p \in Commit : files[p] # None}) :
          LET previous == IF b = None THEN None ELSE files[b]
          IN \E a \in Archives(c, previous) :
               \E t \in StoredTables(a.table, a.bundles, previous) :
                 files' = [files EXCEPT ![c] =
                   [bundles |-> a.bundles, frames |-> a.frames, chunk |-> t.chunk, delta |-> t.delta,
                    compact |-> IF a.tail THEN CompactOf(previous) ELSE None]]
    BY DEF BuildFiles
  <2>2. b # None => b \in Commit  BY DEF BasesOf
  <2> DEFINE previous == IF b = None THEN None ELSE files[b]
  <2>3. previous # None => \E d \in Commit : previous = files[d]  BY <2>2
  <2> HIDE DEF previous
  <2>4. PICK a \in Archives(c, previous) : \E t \in StoredTables(a.table, a.bundles, previous) :
          files' = [files EXCEPT ![c] =
            [bundles |-> a.bundles, frames |-> a.frames, chunk |-> t.chunk, delta |-> t.delta,
             compact |-> IF a.tail THEN CompactOf(previous) ELSE None]]
    BY <2>1 DEF previous
  <2>5. PICK t \in StoredTables(a.table, a.bundles, previous) :
          files' = [files EXCEPT ![c] =
            [bundles |-> a.bundles, frames |-> a.frames, chunk |-> t.chunk, delta |-> t.delta,
             compact |-> IF a.tail THEN CompactOf(previous) ELSE None]]
    BY <2>4
  <2> QED  BY <2>3, <2>5, Zenon
<1>2. ListsTree(c, a.table) /\ ListsFiles(a.table)  BY <1>1, ArchivesListTree DEF ListsTree
<1>3. previous # None => ListsFiles(previous.chunk)  BY <1>1 DEF FilesInv
<1>4. files = [d \in Commit |-> files[d]]  BY DEF FilesInv
<1>5. /\ files' = [d \in Commit |-> files'[d]] /\ \A d \in Commit : d # c => files'[d] = files[d]
      /\ files'[c].chunk = t.chunk /\ files'[c].delta = t.delta
  BY <1>1, <1>4
<1>6. \/ t = [chunk |-> a.table, delta |-> None]
      \/ /\ previous # None /\ t.delta # None
         /\ \E map : t = [chunk |-> previous.chunk, delta |-> Between(previous.chunk, map, a.table)]
  BY <1>1, StoredIs
<1>7. /\ ListsFiles(t.chunk) /\ (t.delta = None => ListsTree(c, t.chunk))
      /\ t.delta # None => \E table, map : ListsTree(c, table) /\ t.delta = Between(t.chunk, map, table)
  <2>1. CASE t = [chunk |-> a.table, delta |-> None]  BY <1>2, <2>1
  <2>2. CASE t # [chunk |-> a.table, delta |-> None]
    <3>1. PICK map : t = [chunk |-> previous.chunk, delta |-> Between(previous.chunk, map, a.table)]
      BY <1>6, <2>2
    <3>2. t.chunk = previous.chunk /\ t.delta = Between(t.chunk, map, a.table)  BY <3>1
    <3> QED  BY <1>2, <1>3, <1>6, <2>2, <3>2
  <2> QED  BY <2>1, <2>2
<1>8. ASSUME NEW d \in Commit, files'[d] # None
      PROVE  /\ ListsFiles(files'[d].chunk)
             /\ files'[d].delta = None => ListsTree(d, files'[d].chunk)
             /\ files'[d].delta # None =>
                  \E table, map : /\ ListsTree(d, table)
                                  /\ files'[d].delta = Between(files'[d].chunk, map, table)
  <2>1. CASE d = c  BY <1>5, <1>7, <2>1
  <2>2. CASE d # c
    <3>1. files'[d] = files[d]  BY <1>5, <2>2
    <3> QED  BY <1>8, <3>1 DEF FilesInv
  <2> QED  BY <2>1, <2>2
<1> QED  BY <1>5, <1>8 DEF FilesInv, ListsTree, ListsFiles

\* In whatever order the Files of whichever commits are built, cold, as tails
\* or compacted, with tables stored whole or as deltas on any earlier ones: a
\* table that loads lists exactly the files of the commit's tree, each once,
\* for any trees, contents, frame and bundle sizes (build_files_result,
\* store_table, MetadataDelta::apply).
THEOREM FilesAreListed ==
  ASSUME NoneIsNoDelta
  PROVE  FilesSpec => []FilesListTree
<1>1. FilesInit => FilesInv  BY DEF FilesInit, FilesInv
<1>2. FilesInv /\ [FilesNext]_files => FilesInv'
  <2> SUFFICES ASSUME FilesInv, FilesNext \/ UNCHANGED files PROVE FilesInv'  OBVIOUS
  <2>1. CASE FilesNext  BY <2>1, BuildFilesKeeps DEF FilesNext
  <2>2. CASE UNCHANGED files  BY <2>2 DEF FilesInv, ListsTree, ListsFiles
  <2> QED  BY <2>1, <2>2
<1>3. FilesInv => FilesListTree
  <2> SUFFICES ASSUME FilesInv, NEW c \in Commit, files[c] # None, Loaded(files[c]) # None
               PROVE  LET listed == Loaded(files[c]).files
                      IN /\ {<<f.path, f.blob>> : f \in ToSet(listed)} = ToSet(Tree[c])
                         /\ Len(listed) = Len(Tree[c])
    BY DEF FilesListTree
  <2>1. ASSUME NEW table, ListsTree(c, table), SameTable(Loaded(files[c]), table)
        PROVE  LET listed == Loaded(files[c]).files
               IN /\ {<<f.path, f.blob>> : f \in ToSet(listed)} = ToSet(Tree[c])
                  /\ Len(listed) = Len(Tree[c])
    BY <2>1 DEF ListsTree, SameTable
  <2>2. CASE files[c].delta = None
    <3>1. Loaded(files[c]) = files[c].chunk  BY <2>2 DEF Loaded
    <3>2. SameTable(Loaded(files[c]), files[c].chunk)  BY <3>1 DEF SameTable
    <3> QED  BY <2>1, <2>2, <3>2 DEF FilesInv
  <2>3. CASE files[c].delta # None
    <3>1. PICK table, map : ListsTree(c, table) /\ files[c].delta = Between(files[c].chunk, map, table)
      BY <2>3 DEF FilesInv
    <3>2. Loaded(files[c]) = Apply(Between(files[c].chunk, map, table), files[c].chunk)
      BY <2>3, <3>1 DEF Loaded
    <3>3. SameTable(Loaded(files[c]), table)
      <4>1. ListsFiles(files[c].chunk) /\ ListsFiles(table)  BY <3>1 DEF FilesInv, ListsTree
      <4> QED  BY <3>2, <4>1, DeltaLoads
    <3> QED  BY <2>1, <3>1, <3>3
  <2> QED  BY <2>2, <2>3
<1> QED  BY <1>1, <1>2, <1>3, PTL DEF FilesSpec
=============================================================================
