------------------------- MODULE ControlStoreProofs -------------------------
(***************************************************************************)
(* Theorems about ControlStore, for every number of repositories, commits,  *)
(* tenants, lease owners, pools and attempts, about the turns its pools     *)
(* take among owners and the builds that were overtaken (StoreHistory), and *)
(* about the slots that build from it (BuildWorkers), for every number of   *)
(* slots, requests and crashes.                                             *)
(***************************************************************************)
EXTENDS BuildWorkers, StoreHistory, TLAPS

-----------------------------------------------------------------------------
(* Types.                                                                   *)

\* What a give-up pass writes has the type of the column it writes.
LEMMA GaveUpType ==
  ASSUME TypeOK, NEW k \in Kind
  PROVE  /\ GaveUp(k) \in [Row -> [Kind -> State]]
         /\ Cleared(lease, k, None) \in [Row -> [Kind -> OwnerId \cup {None}]]
         /\ Cleared(expired, k, FALSE) \in [Row -> [Kind -> BOOLEAN]]
  BY DEF TypeOK, GaveUp, Cleared, State

\* A row that does not exist has columns of the right type.
LEMMA BlankType ==
  /\ Blank("pending") \in [Kind -> State]
  /\ Blank(0) \in [Kind -> 0..MaxAttempts]
  /\ Blank(FALSE) \in [Kind -> BOOLEAN]
  /\ Blank(None) \in [Kind -> OwnerId \cup {None}]
<1>1. Blank("pending") \in [Kind -> State]
  BY DEF Blank, State
<1>2. Blank(0) \in [Kind -> 0..MaxAttempts]
  BY ConstantsAssumption DEF Blank
<1>3. Blank(FALSE) \in [Kind -> BOOLEAN]
  BY Zenon DEF Blank
<1>4. Blank(None) \in [Kind -> OwnerId \cup {None}]
  BY DEF Blank
<1> QED
  BY <1>1, <1>2, <1>3, <1>4

\* An owner's turn relates owners.
LEMMA ServedType ==
  ASSUME TypeOK, NEW k \in Kind, NEW p \in Repo
  PROVE  Served(k, TenantOf(p)) \in SUBSET (TenantName \X TenantName)
<1>1. TenantOf(p) \in TenantName
  BY DEF TypeOK, TenantOf, TenantName
<1>2. turns[k] \subseteq TenantName \X TenantName
  BY DEF TypeOK
<1>3. {<<u, TenantOf(p)>> : u \in TenantName \ {TenantOf(p)}} \subseteq TenantName \X TenantName
  BY <1>1
<1> QED
  BY <1>2, <1>3 DEF Served

\* Every operation of the store, the clock and a restart keep the types of
\* the columns.
LEMMA TypeStep == TypeOK /\ [Next]_vars => TypeOK'
<1> SUFFICES ASSUME TypeOK, [Next]_vars PROVE TypeOK'
  OBVIOUS
<1> USE DEF TypeOK
<1>1. ASSUME NEW r \in Row, NEW n \in 1..MaxSeq, Admit(r, n) PROVE TypeOK'
  <2>1. n \in Nat
    BY ConstantsAssumption
  <2>2. rows' \subseteq Row /\ seq' \in [Row -> Nat]
    BY <1>1, <2>1 DEF Admit
  <2> QED
    BY <1>1, <2>2, BlankType DEF Admit
<1>2. ASSUME NEW r \in Row, Retry(r) PROVE TypeOK'
  <2>1. state'[r] \in [Kind -> State] /\ attempts'[r] \in [Kind -> 0..MaxAttempts]
    BY <1>2, ConstantsAssumption DEF Retry, State
  <2>2. [k \in Kind |-> state[r][k] # "failed" /\ backoff[r][k]] \in [Kind -> BOOLEAN]
    BY Zenon
  <2>3. backoff' \in [Row -> [Kind -> BOOLEAN]]
    BY <1>2, <2>2 DEF Retry
  <2> QED
    BY <1>2, <2>1, <2>3 DEF Retry
<1>3. ASSUME NEW k \in Kind, ClaimNothing(k) PROVE TypeOK'
  BY <1>3, GaveUpType DEF ClaimNothing
<1>4. ASSUME NEW k \in Kind, NEW r \in Row, NEW o \in OwnerId, ClaimRow(k, r, o)
      PROVE  TypeOK'
  <2>1. state' \in [Row -> [Kind -> State]]
    BY <1>4, GaveUpType DEF ClaimRow
  <2>2. lease' \in [Row -> [Kind -> OwnerId \cup {None}]]
    BY <1>4, GaveUpType DEF ClaimRow
  <2>3. expired' \in [Row -> [Kind -> BOOLEAN]]
    BY <1>4, GaveUpType DEF ClaimRow
  <2>4. attempts' \in [Row -> [Kind -> 0..MaxAttempts]]
    <3>1. attempts[r][k] + 1 \in 0..MaxAttempts
      <4>1. attempts[r][k] < MaxAttempts
        BY <1>4 DEF ClaimRow, Candidates
      <4>2. attempts[r][k] \in 0..MaxAttempts
        OBVIOUS
      <4> QED
        BY <4>1, <4>2, ConstantsAssumption
    <3> QED
      BY <1>4, <3>1 DEF ClaimRow
  <2>5. turns' \in [Kind -> SUBSET (TenantName \X TenantName)]
    BY <1>4, ServedType DEF ClaimRow, Row
  <2>6. claims' \subseteq Claim
    <3>1. [row |-> r, kind |-> k, owner |-> o] \in Claim
      BY DEF Claim
    <3> QED
      BY <1>4, <3>1 DEF ClaimRow
  <2> QED
    BY <1>4, <2>1, <2>2, <2>3, <2>4, <2>5, <2>6 DEF ClaimRow
<1>5. ASSUME NEW c \in claims, ClaimStep(c) PROVE TypeOK'
  <2>0. c \in Claim
    OBVIOUS
  <2>1. CASE Renew(c)
    BY <2>0, <2>1 DEF Renew, Claim
  <2>2. CASE Publish(c)
    BY <2>0, <2>2 DEF Publish, Claim, State
  <2>3. ASSUME NEW y \in BOOLEAN, Fail(c, y) PROVE TypeOK'
    BY <2>0, <2>3 DEF Fail, Claim, State
  <2>4. CASE Release(c)
    BY <2>0, <2>4 DEF Release, Claim
  <2>5. CASE Forget(c)
    BY <2>5 DEF Forget
  <2> QED
    BY <1>5, <2>1, <2>2, <2>3, <2>4, <2>5 DEF ClaimStep
<1>6. ASSUME NEW p \in Repo, NEW t \in TenantName, AddRepo(p, t) PROVE TypeOK'
  BY <1>6 DEF AddRepo, buildVars
<1>7. ASSUME NEW p \in Repo, RemoveRepo(p) PROVE TypeOK'
  BY <1>7 DEF RemoveRepo, buildVars
<1>8. ASSUME NEW p \in Repo, PurgeRepo(p) PROVE TypeOK'
  BY <1>8, BlankType DEF PurgeRepo, RowsOf
<1>9. CASE Reopen
  <2>1. {lease[r][k] : r \in Row, k \in Kind} \ {None} \subseteq OwnerId
    OBVIOUS
  <2> QED
    BY <1>9, <2>1 DEF Reopen, buildVars
<1>10. CASE ResetLeases
  BY <1>10, BlankType DEF ResetLeases
<1>11. ASSUME NEW r \in Row, NEW k \in Kind, LeaseExpires(r, k) PROVE TypeOK'
  BY <1>11 DEF LeaseExpires
<1>12. ASSUME NEW r \in Row, NEW k \in Kind, BackoffElapses(r, k) PROVE TypeOK'
  BY <1>12 DEF BackoffElapses
<1>13. CASE UNCHANGED vars
  BY <1>13 DEF vars
<1> QED
  BY <1>1, <1>2, <1>3, <1>4, <1>5, <1>6, <1>7, <1>8, <1>9, <1>10, <1>11, <1>12, <1>13,
     ConstantsAssumption DEF Next

\* An empty store has the right types.
LEMMA InitType == Init => TypeOK
<1> SUFFICES ASSUME Init PROVE TypeOK
  OBVIOUS
<1>1. /\ rows \subseteq Row /\ seq \in [Row -> Nat] /\ claims \subseteq Claim
      /\ foreign \subseteq OwnerId
  BY DEF Init
<1>2. /\ state \in [Row -> [Kind -> State]]
      /\ attempts \in [Row -> [Kind -> 0..MaxAttempts]]
      /\ backoff \in [Row -> [Kind -> BOOLEAN]]
      /\ lease \in [Row -> [Kind -> OwnerId \cup {None}]]
      /\ expired \in [Row -> [Kind -> BOOLEAN]]
  BY BlankType DEF Init
<1>3. /\ added \in [Repo -> TenantName \cup {"notAdded"}]
      /\ turns \in [Kind -> SUBSET (TenantName \X TenantName)]
  BY DEF Init
<1> QED
  BY <1>1, <1>2, <1>3 DEF TypeOK

\* The build queue's type invariant.
THEOREM TypeCorrect == Spec => []TypeOK
BY InitType, TypeStep, PTL DEF Spec

-----------------------------------------------------------------------------
(* The inductive invariant, one lemma per conjunct.                         *)

\* The steps that touch the build rows, one by one; every other step leaves
\* them alone and only ever drops claims.
LEMMA StepCases ==
  ASSUME [Next]_vars
  PROVE  \/ \E r \in Row, n \in 1..MaxSeq : Admit(r, n)
         \/ \E r \in Row : Retry(r)
         \/ \E k \in Kind : ClaimNothing(k)
         \/ \E k \in Kind, r \in Row, o \in OwnerId : ClaimRow(k, r, o)
         \/ \E c \in claims : Renew(c)
         \/ \E c \in claims : Publish(c)
         \/ \E c \in claims, y \in BOOLEAN : Fail(c, y)
         \/ \E c \in claims : Release(c)
         \/ \E p \in Repo : PurgeRepo(p)
         \/ Reopen
         \/ ResetLeases
         \/ \E r \in Row, k \in Kind : LeaseExpires(r, k)
         \/ UNCHANGED <<rows, seq, state, attempts, lease, expired, foreign>>
            /\ claims' \subseteq claims
<1> DEFINE Quiet == UNCHANGED <<rows, seq, state, attempts, lease, expired, foreign>>
                    /\ claims' \subseteq claims
<1>1. ASSUME NEW c \in claims, Forget(c) PROVE Quiet
  BY <1>1 DEF Forget
<1>2. ASSUME NEW p \in Repo, NEW t \in TenantName, AddRepo(p, t) PROVE Quiet
  BY <1>2 DEF AddRepo, buildVars
<1>3. ASSUME NEW p \in Repo, RemoveRepo(p) PROVE Quiet
  BY <1>3 DEF RemoveRepo, buildVars
<1>4. ASSUME NEW r \in Row, NEW k \in Kind, BackoffElapses(r, k) PROVE Quiet
  BY <1>4 DEF BackoffElapses
<1>5. CASE UNCHANGED vars
  BY <1>5 DEF vars
<1> HIDE DEF Quiet
<1>6. ASSUME NEW k \in Pools PROVE k \in Kind
  BY ConstantsAssumption
<1>7. Next \/ UNCHANGED vars
  OBVIOUS
<1> QED
  BY <1>1, <1>2, <1>3, <1>4, <1>5, <1>6, <1>7, Zenon DEF Next, ClaimStep, Quiet

\* A failing Head never leaves its Full pending.
LEMMA HeadFailureStep ==
  TypeOK /\ HeadFailureTakesFull /\ [Next]_vars => HeadFailureTakesFull'
<1> SUFFICES ASSUME TypeOK, HeadFailureTakesFull, [Next]_vars,
                    NEW r \in rows', state'[r]["head"] = "failed"
             PROVE  state'[r]["full"] # "pending"
  BY DEF HeadFailureTakesFull
<1> USE DEF HeadFailureTakesFull, Kind, TypeOK
<1>1. ASSUME NEW q \in Row, NEW n \in 1..MaxSeq, Admit(q, n)
      PROVE  state'[r]["full"] # "pending"
  BY <1>1 DEF Admit, Blank
<1>2. ASSUME NEW q \in Row, Retry(q) PROVE state'[r]["full"] # "pending"
  BY <1>2 DEF Retry
<1>3. ASSUME NEW k \in Kind, r \in rows, state' = GaveUp(k)
      PROVE  state'[r]["full"] # "pending"
  BY <1>3 DEF GaveUp, Cascaded
<1>4. ASSUME NEW c \in claims, Publish(c) PROVE state'[r]["full"] # "pending"
  <2>1. c \in Claim
    OBVIOUS
  <2> QED
    BY <1>4, <2>1 DEF Publish, Claim
<1>5. ASSUME NEW c \in claims, NEW y \in BOOLEAN, Fail(c, y)
      PROVE  state'[r]["full"] # "pending"
  <2>1. c \in Claim
    OBVIOUS
  <2> QED
    BY <1>5, <2>1 DEF Fail, Cascaded, Claim
<1>6. ASSUME NEW p \in Repo, PurgeRepo(p) PROVE state'[r]["full"] # "pending"
  BY <1>6 DEF PurgeRepo, RowsOf
<1>7. CASE UNCHANGED <<rows, state>>
  BY <1>7
<1>8. ASSUME NEW k \in Kind, ClaimNothing(k) PROVE state'[r]["full"] # "pending"
  BY <1>3, <1>8 DEF ClaimNothing
<1>9. ASSUME NEW k \in Kind, NEW q \in Row, NEW o \in OwnerId, ClaimRow(k, q, o)
      PROVE  state'[r]["full"] # "pending"
  BY <1>3, <1>9 DEF ClaimRow
<1>10. ASSUME NEW c \in claims, Renew(c) \/ Release(c) PROVE state'[r]["full"] # "pending"
  BY <1>7, <1>10 DEF Renew, Release
<1>11. CASE Reopen
  BY <1>7, <1>11, Zenon DEF Reopen, buildVars
<1>13. CASE ResetLeases
  BY <1>7, <1>13, Zenon DEF ResetLeases
<1>12. ASSUME NEW q \in Row, NEW k \in Kind, LeaseExpires(q, k)
       PROVE  state'[r]["full"] # "pending"
  BY <1>7, <1>12 DEF LeaseExpires
<1> HIDE DEF HeadFailureTakesFull, TypeOK, Kind
<1> QED
  BY <1>1, <1>2, <1>4, <1>5, <1>6, <1>7, <1>8, <1>9, <1>10, <1>11, <1>12, <1>13, StepCases

\* A Full holds a lease, or is published, only over a ready Head.
LEMMA FullOnReadyHeadStep ==
  TypeOK /\ FullOnReadyHead /\ [Next]_vars => FullOnReadyHead'
<1> SUFFICES ASSUME TypeOK, FullOnReadyHead, [Next]_vars, NEW r \in rows',
                    lease'[r]["full"] # None \/ state'[r]["full"] = "ready"
             PROVE  state'[r]["head"] = "ready"
  BY DEF FullOnReadyHead
<1> USE DEF FullOnReadyHead, Kind, TypeOK
<1>1. ASSUME NEW q \in Row, NEW n \in 1..MaxSeq, Admit(q, n)
      PROVE  state'[r]["head"] = "ready"
  BY <1>1 DEF Admit, Blank
<1>2. ASSUME NEW q \in Row, Retry(q) PROVE state'[r]["head"] = "ready"
  BY <1>2 DEF Retry
<1>3. ASSUME NEW k \in Kind, r \in rows, state' = GaveUp(k), state[r]["head"] = "ready"
      PROVE  state'[r]["head"] = "ready"
  BY <1>3 DEF GaveUp, Exhausted, Cascaded
<1>4. ASSUME NEW k \in Kind, r \in rows, state' = GaveUp(k), state'[r]["full"] = "ready"
      PROVE  state[r]["full"] = "ready"
  BY <1>4 DEF GaveUp
<1>5. ASSUME NEW k \in Kind, r \in rows, Cleared(lease, k, None)[r]["full"] # None
      PROVE  lease[r]["full"] # None
  BY <1>5 DEF Cleared
<1>6. ASSUME NEW k \in Kind, ClaimNothing(k) PROVE state'[r]["head"] = "ready"
  BY <1>3, <1>4, <1>5, <1>6 DEF ClaimNothing
<1>7. ASSUME NEW k \in Kind, NEW q \in Row, NEW o \in OwnerId, ClaimRow(k, q, o)
      PROVE  state'[r]["head"] = "ready"
  <2>1. r \in rows /\ state' = GaveUp(k)
    BY <1>7 DEF ClaimRow
  <2>2. CASE r = q /\ k = "full"
    BY <1>7, <2>2 DEF ClaimRow, Candidates, Needs
  <2>3. CASE ~(r = q /\ k = "full")
    <3>1. lease'[r]["full"] = Cleared(lease, k, None)[r]["full"]
      BY <1>7, <2>3, GaveUpType DEF ClaimRow
    <3> QED
      BY <1>3, <1>4, <1>5, <2>1, <3>1
  <2> QED
    BY <2>2, <2>3
<1>8. ASSUME NEW c \in claims, Publish(c) PROVE state'[r]["head"] = "ready"
  <2>1. c \in Claim
    OBVIOUS
  <2> QED
    BY <1>8, <2>1, ConstantsAssumption DEF Publish, Owns, Claim
<1>9. ASSUME NEW c \in claims, NEW y \in BOOLEAN, Fail(c, y)
      PROVE  state'[r]["head"] = "ready"
  <2>1. c \in Claim
    OBVIOUS
  <2> QED
    BY <1>9, <2>1 DEF Fail, Cascaded, Claim
<1>10. ASSUME NEW c \in claims, Release(c) PROVE state'[r]["head"] = "ready"
  <2>1. c \in Claim
    OBVIOUS
  <2> QED
    BY <1>10, <2>1 DEF Release, Claim
<1>11. ASSUME NEW p \in Repo, PurgeRepo(p) PROVE state'[r]["head"] = "ready"
  BY <1>11 DEF PurgeRepo, RowsOf
<1>12. CASE ResetLeases
  BY <1>12 DEF ResetLeases, Blank
<1>13. CASE UNCHANGED <<rows, state, lease>>
  BY <1>13
<1>14. ASSUME NEW c \in claims, Renew(c) PROVE state'[r]["head"] = "ready"
  BY <1>13, <1>14 DEF Renew
<1>15. CASE Reopen
  BY <1>13, <1>15, Zenon DEF Reopen, buildVars
<1>16. ASSUME NEW q \in Row, NEW k \in Kind, LeaseExpires(q, k)
       PROVE  state'[r]["head"] = "ready"
  BY <1>13, <1>16 DEF LeaseExpires
<1> HIDE DEF FullOnReadyHead, TypeOK, Kind
<1> QED
  BY <1>1, <1>2, <1>6, <1>7, <1>8, <1>9, <1>10, <1>11, <1>12, <1>13, <1>14, <1>15, <1>16,
     StepCases

\* MAX(seq) + 1 is no other row's number.
LEMMA SeqUniqueStep == TypeOK /\ SeqUnique /\ [Next]_vars => SeqUnique'
<1> SUFFICES ASSUME TypeOK, SeqUnique, [Next]_vars PROVE SeqUnique'
  OBVIOUS
<1>1. ASSUME NEW r \in Row, NEW n \in 1..MaxSeq, Admit(r, n) PROVE SeqUnique'
  <2>1. \A q \in rows : seq[q] # n
    BY <1>1 DEF Admit, IsNextSeq, TypeOK
  <2>2. \A q \in rows' : seq'[q] = IF q = r THEN n ELSE seq[q]
    BY <1>1 DEF Admit, TypeOK
  <2> QED
    BY <1>1, <2>1, <2>2 DEF Admit, SeqUnique
<1>2. ASSUME NEW p \in Repo, PurgeRepo(p) PROVE SeqUnique'
  <2>1. rows' \subseteq rows /\ \A q \in rows' : seq'[q] = seq[q]
    BY <1>2 DEF PurgeRepo, RowsOf, TypeOK
  <2> QED
    BY <2>1 DEF SeqUnique
<1>3. CASE UNCHANGED <<rows, seq>>
  BY <1>3 DEF SeqUnique
<1>4. (\E r \in Row : Retry(r)) => UNCHANGED <<rows, seq>>
  BY DEF Retry
<1>5. (\E k \in Kind : ClaimNothing(k)) => UNCHANGED <<rows, seq>>
  BY DEF ClaimNothing
<1>6. (\E k \in Kind, r \in Row, o \in OwnerId : ClaimRow(k, r, o)) => UNCHANGED <<rows, seq>>
  BY DEF ClaimRow
<1>7. (\E c \in claims : Renew(c) \/ Publish(c) \/ Release(c)) => UNCHANGED <<rows, seq>>
  BY DEF Renew, Publish, Release
<1>8. (\E c \in claims, y \in BOOLEAN : Fail(c, y)) => UNCHANGED <<rows, seq>>
  BY DEF Fail
<1>9. Reopen => UNCHANGED <<rows, seq>>
  BY DEF Reopen, buildVars
<1>12. ResetLeases => UNCHANGED <<rows, seq>>
  BY DEF ResetLeases
<1>10. (\E r \in Row, k \in Kind : LeaseExpires(r, k)) => UNCHANGED <<rows, seq>>
  BY DEF LeaseExpires
<1>11. UNCHANGED <<rows, seq, state, attempts, lease, expired, foreign>> => UNCHANGED <<rows, seq>>
  OBVIOUS
<1> QED
  BY <1>1, <1>2, <1>3, <1>4, <1>5, <1>6, <1>7, <1>8, <1>9, <1>10, <1>11, <1>12, StepCases, Zenon

-----------------------------------------------------------------------------
(* Leases.                                                                  *)

OwnersFresh ==
  /\ \A c \in claims : c.owner \notin foreign
  /\ \A c, d \in claims : c.owner = d.owner => c = d

\* A new claim gets an owner string nobody else has; a restart leaves none of
\* the old claims alive.
LEMMA OwnersFreshStep == TypeOK /\ OwnersFresh /\ [Next]_vars => OwnersFresh'
<1> SUFFICES ASSUME TypeOK, OwnersFresh, [Next]_vars PROVE OwnersFresh'
  OBVIOUS
<1>1. ASSUME NEW k \in Kind, NEW r \in Row, NEW o \in OwnerId, ClaimRow(k, r, o)
      PROVE  OwnersFresh'
  <2>1. /\ claims' = claims \cup {[row |-> r, kind |-> k, owner |-> o]}
        /\ foreign' = foreign \ {o}
        /\ \A c \in claims : c.owner # o
    BY <1>1 DEF ClaimRow, Fresh
  <2> QED
    BY <2>1 DEF OwnersFresh
<1>2. CASE Reopen
  BY <1>2 DEF Reopen, OwnersFresh
<1>3. CASE claims' \subseteq claims /\ foreign' = foreign
  BY <1>3 DEF OwnersFresh
<1>4. (\E r \in Row, n \in 1..MaxSeq : Admit(r, n)) => claims' = claims /\ foreign' = foreign
  BY DEF Admit
<1>5. (\E r \in Row : Retry(r)) => claims' = claims /\ foreign' = foreign
  BY DEF Retry
<1>6. (\E k \in Kind : ClaimNothing(k)) => claims' = claims /\ foreign' = foreign
  BY DEF ClaimNothing
<1>7. (\E c \in claims : Renew(c) \/ Publish(c) \/ Release(c))
        => claims' = claims /\ foreign' = foreign
  BY DEF Renew, Publish, Release
<1>8. (\E c \in claims, y \in BOOLEAN : Fail(c, y)) => claims' = claims /\ foreign' = foreign
  BY DEF Fail
<1>9. (\E p \in Repo : PurgeRepo(p)) => claims' = claims /\ foreign' = foreign
  BY DEF PurgeRepo
<1>10. ResetLeases => claims' = claims /\ foreign' = foreign
  BY DEF ResetLeases
<1>11. (\E r \in Row, k \in Kind : LeaseExpires(r, k)) => claims' = claims /\ foreign' = foreign
  BY DEF LeaseExpires
<1>12. UNCHANGED <<rows, seq, state, attempts, lease, expired, foreign>> => foreign' = foreign
  OBVIOUS
<1>13. claims' = claims => claims' \subseteq claims
  OBVIOUS
<1> QED
  BY <1>1, <1>2, <1>3, <1>4, <1>5, <1>6, <1>7, <1>8, <1>9, <1>10, <1>11, <1>12, <1>13,
     StepCases, Zenon

\* Leases that were not held before a step and are held after it: only the
\* one a claim just took.
LEMMA OneLeaseStep ==
  TypeOK /\ OwnersFresh /\ OneLeasePerRepo /\ [Next]_vars => OneLeasePerRepo'
<1> SUFFICES ASSUME TypeOK, OwnersFresh, OneLeasePerRepo, [Next]_vars PROVE OneLeasePerRepo'
  OBVIOUS
<1> USE DEF TypeOK
\* A step that makes no lease held keeps the property.
<1>0. ASSUME \A r \in rows', k \in Kind : LeaseHeld(r, k)' => r \in rows /\ LeaseHeld(r, k)
      PROVE  OneLeasePerRepo'
  BY <1>0 DEF OneLeasePerRepo
<1>1. ASSUME NEW q \in Row, NEW n \in 1..MaxSeq, Admit(q, n) PROVE OneLeasePerRepo'
  <2>1. \A r \in rows', k \in Kind : LeaseHeld(r, k)' => r \in rows /\ LeaseHeld(r, k)
    BY <1>1 DEF Admit, Blank, LeaseHeld
  <2> QED
    BY <1>0, <2>1
<1>2. CASE UNCHANGED <<rows, lease, expired, foreign>>
  BY <1>2, <1>0 DEF LeaseHeld
<1>4. ASSUME NEW j \in Kind, ClaimNothing(j) PROVE OneLeasePerRepo'
  <2>1. \A r \in rows', k \in Kind : LeaseHeld(r, k)' => r \in rows /\ LeaseHeld(r, k)
    BY <1>4 DEF ClaimNothing, Cleared, LeaseHeld, Exhausted
  <2> QED
    BY <1>0, <2>1
<1>5. ASSUME NEW j \in Kind, NEW p \in Row, NEW o \in OwnerId, ClaimRow(j, p, o)
      PROVE  OneLeasePerRepo'
  <2>1. \A r \in rows', k \in Kind :
          LeaseHeld(r, k)' /\ ~(r = p /\ k = j) => r \in rows /\ LeaseHeld(r, k)
    BY <1>5, GaveUpType DEF ClaimRow, Cleared, LeaseHeld, Exhausted, Fresh
  <2>2. \A r \in rows : r[1] = p[1] => ~LeaseHeld(r, j)
    BY <1>5 DEF ClaimRow, Candidates
  <2>3. rows' = rows
    BY <1>5 DEF ClaimRow
  <2> QED
    BY <2>1, <2>2, <2>3 DEF OneLeasePerRepo
<1>6. ASSUME NEW c \in claims, Renew(c) PROVE OneLeasePerRepo'
  <2>1. c \in Claim /\ c.owner \notin foreign
    BY DEF OwnersFresh
  <2>2. \A r \in rows', k \in Kind : LeaseHeld(r, k)' => r \in rows /\ LeaseHeld(r, k)
    BY <1>6, <2>1 DEF Renew, Owns, Claim, LeaseHeld
  <2> QED
    BY <1>0, <2>2
<1>7. ASSUME NEW c \in claims, Release(c) PROVE OneLeasePerRepo'
  <2>1. c \in Claim
    OBVIOUS
  <2>2. \A r \in rows', k \in Kind : LeaseHeld(r, k)' => r \in rows /\ LeaseHeld(r, k)
    BY <1>7, <2>1 DEF Release, Claim, LeaseHeld
  <2> QED
    BY <1>0, <2>2
<1>8. ASSUME NEW p \in Repo, PurgeRepo(p) PROVE OneLeasePerRepo'
  <2>1. \A r \in rows', k \in Kind : LeaseHeld(r, k)' => r \in rows /\ LeaseHeld(r, k)
    BY <1>8 DEF PurgeRepo, RowsOf, LeaseHeld
  <2> QED
    BY <1>0, <2>1
<1>9. CASE Reopen
  <2>1. \A r \in rows', k \in Kind : LeaseHeld(r, k)' => r \in rows /\ LeaseHeld(r, k)
    BY <1>9 DEF Reopen, buildVars, LeaseHeld
  <2> QED
    BY <1>0, <2>1
<1>10. CASE ResetLeases
  <2>1. \A r \in rows', k \in Kind : ~LeaseHeld(r, k)'
    BY <1>10 DEF ResetLeases, Blank, LeaseHeld
  <2> QED
    BY <1>0, <2>1
<1>11. ASSUME NEW q \in Row, NEW j \in Kind, LeaseExpires(q, j) PROVE OneLeasePerRepo'
  <2>1. \A r \in rows', k \in Kind : LeaseHeld(r, k)' => r \in rows /\ LeaseHeld(r, k)
    BY <1>11 DEF LeaseExpires, LeaseHeld
  <2> QED
    BY <1>0, <2>1
<1>12. (\E r \in Row : Retry(r)) => UNCHANGED <<rows, lease, expired, foreign>>
  BY DEF Retry
<1>13. (\E c \in claims : Publish(c)) => UNCHANGED <<rows, lease, expired, foreign>>
  BY DEF Publish
<1>14. (\E c \in claims, y \in BOOLEAN : Fail(c, y)) => UNCHANGED <<rows, lease, expired, foreign>>
  BY DEF Fail
<1>15. UNCHANGED <<rows, seq, state, attempts, lease, expired, foreign>>
         => UNCHANGED <<rows, lease, expired, foreign>>
  OBVIOUS
<1> HIDE DEF TypeOK
<1> QED
  BY <1>1, <1>2, <1>4, <1>5, <1>6, <1>7, <1>8, <1>9, <1>10, <1>11, <1>12, <1>13, <1>14,
     <1>15, StepCases, Zenon

-----------------------------------------------------------------------------
\* The queue's safety: no Full waits on a failed Head, no Full runs without a
\* ready Head, one lease per repository and pool, admission numbers unique.
THEOREM StoreSafe == Spec => []StoreInv
<1>1. Init => StoreInv
  BY DEF Init, StoreInv, HeadFailureTakesFull, FullOnReadyHead, OneLeasePerRepo, SeqUnique
<1>2. TypeOK /\ StoreInv /\ [Next]_vars => StoreInv'
  BY HeadFailureStep, FullOnReadyHeadStep, SeqUniqueStep, OwnersFreshStep, OneLeaseStep
  DEF StoreInv, OwnersFresh
<1> QED
  BY <1>1, <1>2, TypeCorrect, PTL DEF Spec

\* However a Head fails (a failed build, or the give-up pass of a later claim),
\* its pending Full fails with it, so it blocks no younger Full.
THEOREM HeadFailureSafe == Spec => []HeadFailureTakesFull
<1>1. StoreInv => HeadFailureTakesFull
  BY DEF StoreInv
<1> QED
  BY <1>1, StoreSafe, PTL

\* A ready output is never rewritten while its row exists.
THEOREM ReadyForever == Spec => ReadyStays
<1>1. TypeOK /\ [Next]_vars
        => [\A r \in rows \cap rows', k \in Kind :
              state[r][k] = "ready" => state'[r][k] = "ready"]_vars
  <2> SUFFICES ASSUME TypeOK, [Next]_vars, NEW r \in rows \cap rows', NEW k \in Kind,
                      state[r][k] = "ready"
               PROVE  state'[r][k] = "ready"
    OBVIOUS
  <2> USE DEF TypeOK
  <2>1. ASSUME NEW q \in Row, NEW n \in 1..MaxSeq, Admit(q, n) PROVE state'[r][k] = "ready"
    BY <2>1 DEF Admit
  <2>2. ASSUME NEW q \in Row, Retry(q) PROVE state'[r][k] = "ready"
    BY <2>2 DEF Retry
  <2>3. ASSUME NEW j \in Kind, state' = GaveUp(j) PROVE state'[r][k] = "ready"
    BY <2>3 DEF GaveUp, Exhausted, Cascaded
  <2>4. ASSUME NEW j \in Kind, ClaimNothing(j) PROVE state'[r][k] = "ready"
    BY <2>3, <2>4 DEF ClaimNothing
  <2>5. ASSUME NEW j \in Kind, NEW q \in Row, NEW o \in OwnerId, ClaimRow(j, q, o)
        PROVE  state'[r][k] = "ready"
    BY <2>3, <2>5 DEF ClaimRow
  <2>6. ASSUME NEW c \in claims, Publish(c) PROVE state'[r][k] = "ready"
    <3>1. c \in Claim
      OBVIOUS
    <3> QED
      BY <2>6, <3>1 DEF Publish, Claim
  <2>7. ASSUME NEW c \in claims, NEW y \in BOOLEAN, Fail(c, y) PROVE state'[r][k] = "ready"
    <3>1. c \in Claim
      OBVIOUS
    <3> QED
      BY <2>7, <3>1 DEF Fail, Cascaded, Claim
  <2>8. ASSUME NEW p \in Repo, PurgeRepo(p) PROVE state'[r][k] = "ready"
    BY <2>8 DEF PurgeRepo, RowsOf
  <2>9. CASE state' = state
    BY <2>9
  <2>10. (\E c \in claims : Renew(c) \/ Release(c)) => state' = state
    BY DEF Renew, Release
  <2>11. Reopen => state' = state
    BY DEF Reopen, buildVars
  <2>12. ResetLeases => state' = state
    BY DEF ResetLeases
  <2>13. (\E q \in Row, j \in Kind : LeaseExpires(q, j)) => state' = state
    BY DEF LeaseExpires
  <2>14. UNCHANGED <<rows, seq, state, attempts, lease, expired, foreign>> => state' = state
    OBVIOUS
  <2> HIDE DEF TypeOK
  <2> QED
    BY <2>1, <2>2, <2>4, <2>5, <2>6, <2>7, <2>8, <2>9, <2>10, <2>11, <2>12, <2>13, <2>14,
       StepCases, Zenon
<1> QED
  BY <1>1, TypeCorrect, PTL DEF Spec, ReadyStays

-----------------------------------------------------------------------------
(* The control store implements BuildLifecycle.                             *)

\* The lifecycle's rows and kinds are the store's.
LEMMA SameNames ==
  /\ Lifecycle!Row = Row
  /\ Lifecycle!Kind = Kind
  /\ \A v : Lifecycle!All(v) = Blank(v)
BY DEF Lifecycle!Row, Row, Lifecycle!Kind, Kind, Lifecycle!All, Blank

\* The outside view of a step that writes no state and no row.
LEMMA SameOut == UNCHANGED <<rows, state>> => UNCHANGED Out
BY DEF Out

\* Admission, seen from outside.
LEMMA AdmitOut ==
  ASSUME TypeOK, NEW r \in Row, NEW n \in 1..MaxSeq, Admit(r, n)
  PROVE  Lifecycle!Admit(r)
<1>1. Out[r] = Blank("absent")
  BY DEF Admit, Out
<1>2. ASSUME NEW q \in Row
      PROVE  Out'[q] = IF q = r THEN Blank("pending") ELSE Out[q]
  BY DEF Admit, Out, TypeOK
<1>3. Out' = [Out EXCEPT ![r] = Blank("pending")]
  BY <1>2 DEF Out
<1> QED
  BY <1>1, <1>3, SameNames DEF Lifecycle!Admit, Lifecycle!Admitted

\* A retry, seen from outside.
LEMMA RetryOut ==
  ASSUME TypeOK, NEW r \in Row, Retry(r)
  PROVE  Lifecycle!Retry(r)
<1>1. r \in rows /\ Out[r] = state[r]
  BY DEF Retry, Out
<1>2. ASSUME NEW q \in Row
      PROVE  Out'[q] = IF q = r
                       THEN [k \in Kind |-> IF Out[r][k] = "failed" THEN "pending" ELSE Out[r][k]]
                       ELSE Out[q]
  BY <1>1 DEF Retry, Out, TypeOK
<1>3. Out' = [Out EXCEPT ![r] =
        [k \in Kind |-> IF Out[r][k] = "failed" THEN "pending" ELSE Out[r][k]]]
  BY <1>2 DEF Out
<1>4. \E k \in Kind : Out[r][k] = "failed"
  BY <1>1 DEF Retry
<1> QED
  BY <1>3, <1>4, SameNames DEF Lifecycle!Retry

\* A publish, seen from outside.  The lease shows that a Full has its Head.
LEMMA PublishOut ==
  ASSUME TypeOK, StoreInv, NEW c \in claims, Publish(c)
  PROVE  Lifecycle!Ready(c.row, c.kind)
<1>1. c.row \in Row /\ c.row \in rows /\ c.kind \in Kind /\ c.owner \in OwnerId
  BY DEF TypeOK, Claim, Publish, Owns
<1>2. Out[c.row] = state[c.row] /\ state[c.row][c.kind] = "pending"
  BY <1>1 DEF Out, Publish
<1>3. c.kind = "full" => state[c.row]["head"] = "ready"
  BY <1>1, ConstantsAssumption DEF StoreInv, FullOnReadyHead, Publish, Owns
<1>4. ASSUME NEW q \in Row
      PROVE  Out'[q] = IF q = c.row THEN [Out[q] EXCEPT ![c.kind] = "ready"] ELSE Out[q]
  BY <1>1, <1>2 DEF Publish, Out, TypeOK
<1>5. Out' = [Out EXCEPT ![c.row][c.kind] = "ready"]
  BY <1>1, <1>4 DEF Out
<1> QED
  BY <1>2, <1>3, <1>5 DEF Lifecycle!Ready

\* A failure that gives up, seen from outside.
LEMMA FailOut ==
  ASSUME TypeOK, NEW c \in claims, NEW y \in BOOLEAN, Fail(c, y)
  PROVE  Lifecycle!Failed({c.row}, c.kind) \/ UNCHANGED Out
<1>1. c.row \in Row /\ c.row \in rows /\ c.kind \in Kind
  BY DEF TypeOK, Claim, Fail, Owns
<1>2. Out[c.row] = state[c.row] /\ state[c.row][c.kind] = "pending"
  BY <1>1 DEF Out, Fail
<1> DEFINE givesUp == ~y \/ attempts[c.row][c.kind] >= MaxAttempts
<1>3. CASE ~givesUp
  <2>1. state' = state /\ rows' = rows
    BY <1>1, <1>3 DEF Fail, TypeOK
  <2> QED
    BY <2>1, SameOut
<1>4. CASE givesUp
  <2> DEFINE failed == [j \in Kind |->
               IF j = c.kind \/ (c.kind = "head" /\ j = "full" /\ Out[c.row][j] = "pending")
               THEN "failed" ELSE Out[c.row][j]]
  <2>0. rows' = rows /\ state' = [state EXCEPT ![c.row] = failed]
    BY <1>1, <1>2, <1>4 DEF Fail, Cascaded
  <2> HIDE DEF failed
  <2>1. ASSUME NEW q \in Row
        PROVE  Out'[q] = IF q \in {c.row} THEN failed ELSE Out[q]
    BY <1>1, <2>0 DEF Out, TypeOK
  <2>2. Out' = [q \in Row |-> IF q \in {c.row} THEN failed ELSE Out[q]]
    BY <2>1 DEF Out
  <2>3. \A q \in {c.row} : Out[q][c.kind] = "pending"
    BY <1>2
  <2>4. [q \in Row |-> IF q \in {c.row} THEN failed ELSE Out[q]]
        = [q \in Row |-> IF q \in {c.row}
             THEN [j \in Kind |-> IF j = c.kind \/ (c.kind = "head" /\ j = "full" /\ Out[q][j] = "pending")
                                  THEN "failed" ELSE Out[q][j]]
             ELSE Out[q]]
    BY DEF failed
  <2> QED
    BY <2>2, <2>3, <2>4, SameNames DEF Lifecycle!Failed
<1> QED
  BY <1>3, <1>4

\* The give-up pass of a claim, seen from outside.
LEMMA GiveUpOut ==
  ASSUME TypeOK, NEW k \in Kind, state' = GaveUp(k), rows' = rows
  PROVE  Lifecycle!Failed(Exhausted(k), k)
<1>1. Exhausted(k) \subseteq rows /\ rows \subseteq Row
  BY DEF Exhausted, TypeOK
<1>2. \A q \in Exhausted(k) : Out[q] = state[q] /\ Out[q][k] = "pending"
  BY <1>1 DEF Out, Exhausted
<1>3. ASSUME NEW q \in Row
      PROVE  Out'[q] = IF q \in Exhausted(k)
               THEN [j \in Kind |-> IF j = k \/ (k = "head" /\ j = "full" /\ Out[q][j] = "pending")
                                    THEN "failed" ELSE Out[q][j]]
               ELSE Out[q]
  <2>1. CASE q \in Exhausted(k)
    BY <1>1, <1>2, <2>1 DEF Out, GaveUp, Cascaded
  <2>2. CASE q \notin Exhausted(k)
    BY <2>2 DEF Out, GaveUp
  <2> QED
    BY <2>1, <2>2
<1>4. Out' = [q \in Row |-> Out'[q]]
  BY DEF Out
<1> QED
  BY <1>2, <1>3, <1>4, SameNames DEF Lifecycle!Failed

\* A purge, seen from outside.
LEMMA PurgeOut ==
  ASSUME TypeOK, NEW p \in Repo, PurgeRepo(p)
  PROVE  Lifecycle!Purge(p)
<1>1. ASSUME NEW q \in Row
      PROVE  Out'[q] = IF q[1] = p THEN Blank("absent") ELSE Out[q]
  BY DEF Out, PurgeRepo, RowsOf
<1>2. Out' = [q \in Row |-> Out'[q]]
  BY DEF Out
<1> QED
  BY <1>1, <1>2, SameNames DEF Lifecycle!Purge

\* The control store implements the build lifecycle.
THEOREM StoreImplementsLifecycle == Spec => ImplementsLifecycle
<1>1. Init => Lifecycle!Init
  BY SameNames DEF Init, Lifecycle!Init, Out
<1>2. TypeOK /\ StoreInv /\ [Next]_vars => [Lifecycle!Next]_Out
  <2> SUFFICES ASSUME TypeOK, StoreInv, [Next]_vars PROVE Lifecycle!Next \/ UNCHANGED Out
    OBVIOUS
  <2>1. ASSUME NEW r \in Row, NEW n \in 1..MaxSeq, Admit(r, n) PROVE Lifecycle!Next
    BY <2>1, AdmitOut, SameNames DEF Lifecycle!Next
  <2>2. ASSUME NEW r \in Row, Retry(r) PROVE Lifecycle!Next
    BY <2>2, RetryOut, SameNames DEF Lifecycle!Next
  <2>3. ASSUME NEW k \in Kind, state' = GaveUp(k), rows' = rows PROVE Lifecycle!Next
    <3>1. Exhausted(k) \in SUBSET Row
      BY DEF Exhausted, TypeOK
    <3> QED
      BY <2>3, <3>1, GiveUpOut, SameNames DEF Lifecycle!Next
  <2>4. ASSUME NEW k \in Kind, ClaimNothing(k) PROVE Lifecycle!Next
    BY <2>3, <2>4 DEF ClaimNothing
  <2>5. ASSUME NEW k \in Kind, NEW r \in Row, NEW o \in OwnerId, ClaimRow(k, r, o)
        PROVE  Lifecycle!Next
    BY <2>3, <2>5 DEF ClaimRow
  <2>6. ASSUME NEW c \in claims, Publish(c) PROVE Lifecycle!Next
    <3>1. c.row \in Row /\ c.kind \in Kind
      BY DEF TypeOK, Claim
    <3> QED
      BY <2>6, <3>1, PublishOut, SameNames DEF Lifecycle!Next
  <2>7. ASSUME NEW c \in claims, NEW y \in BOOLEAN, Fail(c, y)
        PROVE  Lifecycle!Next \/ UNCHANGED Out
    <3>1. {c.row} \in SUBSET Row /\ c.kind \in Kind
      BY DEF TypeOK, Claim
    <3> QED
      BY <2>7, <3>1, FailOut, SameNames DEF Lifecycle!Next
  <2>8. ASSUME NEW p \in Repo, PurgeRepo(p) PROVE Lifecycle!Next
    BY <2>8, PurgeOut DEF Lifecycle!Next
  <2>9. (\E c \in claims : Renew(c) \/ Release(c)) => UNCHANGED Out
    BY SameOut DEF Renew, Release
  <2>10. Reopen => UNCHANGED Out
    BY SameOut DEF Reopen, buildVars
  <2>11. ResetLeases => UNCHANGED Out
    BY SameOut DEF ResetLeases
  <2>12. (\E r \in Row, k \in Kind : LeaseExpires(r, k)) => UNCHANGED Out
    BY SameOut DEF LeaseExpires
  <2>13. UNCHANGED <<rows, seq, state, attempts, lease, expired, foreign>> => UNCHANGED Out
    BY SameOut
  <2> QED
    BY <2>1, <2>2, <2>4, <2>5, <2>6, <2>7, <2>8, <2>9, <2>10, <2>11, <2>12, <2>13,
       StepCases, Zenon
<1> QED
  BY <1>1, <1>2, StoreSafe, TypeCorrect, PTL DEF Spec, ImplementsLifecycle, Lifecycle!Spec

-----------------------------------------------------------------------------
(* The turns of the pools.                                                  *)

\* The history only watches: every step is a step of the store.
LEMMA HistoryStepIsStep == [HistoryNext]_historyVars => [Next]_vars
BY DEF HistoryNext, HistoryAdmit, HistoryClaim, HistoryPurge, HistoryOther, Next, historyVars

\* Only a claim changes a pool's turns.
LEMMA OthersKeepTurns == HistoryAdmit \/ HistoryPurge \/ HistoryOther => UNCHANGED turns
<1>1. HistoryAdmit \/ HistoryPurge => UNCHANGED turns
  BY DEF HistoryAdmit, HistoryPurge, Admit, PurgeRepo
<1>2. ASSUME NEW c \in claims, ClaimStep(c) PROVE UNCHANGED turns
  <2>1. ASSUME NEW y \in BOOLEAN, Fail(c, y) PROVE UNCHANGED turns
    BY <2>1 DEF Fail
  <2>2. CASE Renew(c) \/ Publish(c) \/ Release(c) \/ Forget(c)
    BY <2>2 DEF Renew, Publish, Release, Forget
  <2> QED
    BY <1>2, <2>1, <2>2 DEF ClaimStep
<1>3. ASSUME HistoryOther PROVE UNCHANGED turns
  <2>1. (\E c \in claims : ClaimStep(c)) => UNCHANGED turns
    BY <1>2
  <2>2. ASSUME NEW r \in Row, Retry(r) PROVE UNCHANGED turns
    BY <2>2 DEF Retry
  <2>3. ASSUME NEW k \in Pools, ClaimNothing(k) PROVE UNCHANGED turns
    BY <2>3 DEF ClaimNothing
  <2>4. ASSUME NEW p \in Repo, RemoveRepo(p) \/ \E t \in TenantName : AddRepo(p, t)
        PROVE  UNCHANGED turns
    BY <2>4 DEF RemoveRepo, AddRepo
  <2>5. Reopen => UNCHANGED turns
    BY DEF Reopen, buildVars
  <2>6. ResetLeases => UNCHANGED turns
    BY DEF ResetLeases
  <2>7. ASSUME NEW r \in Row, NEW k \in Kind, LeaseExpires(r, k) \/ BackoffElapses(r, k)
        PROVE  UNCHANGED turns
    BY <2>7 DEF LeaseExpires, BackoffElapses
  <2> QED
    BY <1>3, <2>1, <2>2, <2>3, <2>4, <2>5, <2>6, <2>7 DEF HistoryOther
<1> QED
  BY <1>1, <1>3

\* Waits relate owners.
PassedType == passed \in [Kind -> SUBSET (TenantName \X TenantName)]

\* Giving up on exhausted outputs takes no claimable row away.
LEMMA CandidatesSurvive ==
  ASSUME TypeOK, NEW k \in Kind, NEW q \in Candidates(state, k)
  PROVE  q \in Candidates(GaveUp(k), k)
<1>1. q \in rows /\ q \in Row /\ q \notin Exhausted(k)
  BY ConstantsAssumption DEF Candidates, Exhausted, TypeOK
<1>2. GaveUp(k)[q] = state[q]
  BY <1>1 DEF GaveUp
<1>3. ASSUME NEW p \in rows, GaveUp(k)[p]["full"] = "pending"
      PROVE  state[p]["full"] = "pending"
  BY <1>3 DEF GaveUp, TypeOK, Kind
<1>4. Needs(GaveUp(k), q, k)
  BY <1>1, <1>2, <1>3 DEF Candidates, Needs
<1> QED
  BY <1>1, <1>2, <1>4 DEF Candidates

\* The waits recorded by a step are those it was given, of owners that can be
\* served afterwards.
LEMMA RecordedWaits ==
  ASSUME NEW f, Recorded(f), NEW k \in Kind, NEW p \in passed'[k]
  PROVE  p \in f[k] /\ p[2] \in Waiting(k)'
BY DEF Recorded

\* A claim keeps the reason why turns are taken.
LEMMA ClaimKeepsTurns ==
  ASSUME TypeOK, PassedType, TurnsInv,
         NEW j \in Kind, NEW r \in Row, NEW o \in OwnerId, ClaimRow(j, r, o),
         Recorded([passed EXCEPT ![j] = AfterTurn(j, TenantOf(r[1]))])
  PROVE  TurnsInv' /\ PassedType'
<1> DEFINE t == TenantOf(r[1])
<1>0. t \in TenantName
  BY DEF TypeOK, TenantOf, TenantName, Row
<1>1. turns' = [turns EXCEPT ![j] = Served(j, t)] /\ turns \in [Kind -> SUBSET (TenantName \X TenantName)]
  BY DEF ClaimRow, TypeOK
<1>2. ASSUME NEW k \in Kind, NEW p \in passed'[k]
      PROVE  p \in TenantName \X TenantName /\ p[2] \in Waiting(k)' /\ <<p[2], p[1]>> \in turns'[k]
  <2>1. p \in [passed EXCEPT ![j] = AfterTurn(j, t)][k] /\ p[2] \in Waiting(k)'
    BY <1>2, RecordedWaits
  <2>2. CASE k # j
    BY <1>1, <2>1, <2>2 DEF TurnsInv, PassedType
  <2>3. CASE k = j
    <3>1. p \in AfterTurn(j, t)
      BY <2>1, <2>3 DEF PassedType
    <3>2. turns'[k] = Served(j, t)
      BY <1>1, <2>3
    <3>3. CASE p \in passed[j] /\ t \notin {p[1], p[2]}
      BY <2>1, <2>3, <3>2, <3>3 DEF TurnsInv, PassedType, Served
    <3>4. CASE p \in {<<t, u>> : u \in TenantName \ {t}}
      BY <1>0, <2>1, <3>2, <3>4 DEF Served
    <3> QED
      BY <3>1, <3>3, <3>4 DEF AfterTurn
  <2> QED
    BY <2>2, <2>3
<1>3. ASSUME NEW k \in Kind, NEW p \in turns'[k]
      PROVE  p[1] # p[2] /\ <<p[2], p[1]>> \notin turns'[k]
  <2>1. CASE k # j
    BY <1>1, <1>3, <2>1 DEF TurnsInv
  <2>2. CASE k = j
    <3>1. turns'[k] = Served(j, t)
      BY <1>1, <2>2
    <3>2. \A q \in turns[j] : q[1] # q[2] /\ <<q[2], q[1]>> \notin turns[j]
      BY DEF TurnsInv
    <3> QED
      BY <1>0, <1>1, <1>3, <3>1, <3>2 DEF Served
  <2> QED
    BY <2>1, <2>2
<1>4. passed' = [k \in Kind |-> passed'[k]]
  BY DEF Recorded
<1> QED
  BY <1>2, <1>3, <1>4 DEF TurnsInv, PassedType

\* TurnsInv holds in every behaviour of the store.
THEOREM TurnsInvariant == HistorySpec => [](TypeOK /\ PassedType /\ TurnsInv)
<1>1. HistoryInit => TypeOK /\ PassedType /\ TurnsInv
  <2> SUFFICES ASSUME HistoryInit PROVE TypeOK /\ PassedType /\ TurnsInv
    OBVIOUS
  <2>1. TypeOK
    BY InitType DEF HistoryInit
  <2>2. PassedType /\ TurnsInv
    BY DEF HistoryInit, Init, PassedType, TurnsInv
  <2> QED
    BY <2>1, <2>2
<1>2. TypeOK /\ PassedType /\ TurnsInv /\ [HistoryNext]_historyVars => (TypeOK /\ PassedType /\ TurnsInv)'
  <2> SUFFICES ASSUME TypeOK, PassedType, TurnsInv, [HistoryNext]_historyVars
               PROVE  (TypeOK /\ PassedType /\ TurnsInv)'
    OBVIOUS
  <2>1. TypeOK'
    BY HistoryStepIsStep, TypeStep
  <2>2. CASE HistoryClaim
    BY <2>1, <2>2, ClaimKeepsTurns, ConstantsAssumption DEF HistoryClaim
  <2>3. CASE HistoryAdmit \/ HistoryPurge \/ HistoryOther
    <3>1. Recorded(passed) /\ UNCHANGED turns
      BY <2>3, OthersKeepTurns DEF HistoryAdmit, HistoryPurge, HistoryOther
    <3>2. \A k \in Kind : \A p \in passed'[k] : p \in passed[k] /\ p[2] \in Waiting(k)'
      BY <3>1, RecordedWaits
    <3>3. passed' = [k \in Kind |-> passed'[k]]
      BY <3>1 DEF Recorded
    <3> QED
      BY <2>1, <3>1, <3>2, <3>3 DEF TurnsInv, PassedType
  <2>4. CASE UNCHANGED historyVars
    BY <2>1, <2>4 DEF historyVars, vars, TurnsInv, PassedType, Waiting, Candidates, Needs,
                      LeaseHeld, TenantOf
  <2> QED
    BY <2>2, <2>3, <2>4 DEF HistoryNext
<1> QED
  BY <1>1, <1>2, PTL DEF HistorySpec

\* Owners take turns: no pool serves an owner twice while another one has had
\* claimable work since its first turn.
THEOREM OwnersTakeTurns == HistorySpec => TurnsTaken
<1>1. TypeOK /\ TurnsInv /\ [HistoryNext]_historyVars =>
        [\A k \in Pools, r \in Row, o \in OwnerId :
           ClaimRow(k, r, o) => \A u \in TenantName : <<TenantOf(r[1]), u>> \notin passed[k]]_historyVars
  <2> SUFFICES ASSUME TypeOK, TurnsInv, NEW k \in Pools, NEW r \in Row, NEW o \in OwnerId,
                      ClaimRow(k, r, o), NEW u \in TenantName,
                      <<TenantOf(r[1]), u>> \in passed[k]
               PROVE  FALSE
    OBVIOUS
  <2>0. k \in Kind
    BY ConstantsAssumption
  <2>1. u \in Waiting(k) /\ <<u, TenantOf(r[1])>> \in turns[k]
    BY <2>0 DEF TurnsInv
  <2>2. PICK q \in Candidates(state, k) : u = TenantOf(q[1])
    BY <2>1 DEF Waiting
  <2>3. q \in Candidates(GaveUp(k), k)
    BY <2>0, <2>2, CandidatesSurvive
  <2> QED
    BY <2>1, <2>2, <2>3 DEF ClaimRow, IsFirst
<1> QED
  BY <1>1, TurnsInvariant, PTL DEF HistorySpec, TurnsTaken

-----------------------------------------------------------------------------
(* Overtaken builds.                                                        *)

\* A step leaves a lease, clears it, or grants it to an owner string that no
\* live claim has.
LEMMA LeaseChanges ==
  ASSUME TypeOK, [Next]_vars, NEW r \in Row, NEW k \in Kind
  PROVE  \/ lease'[r][k] \in {lease[r][k], None}
         \/ \A c \in claims : c.owner # lease'[r][k]
<1> USE DEF TypeOK
<1> DEFINE Goal == \/ lease'[r][k] \in {lease[r][k], None}
                   \/ \A c \in claims : c.owner # lease'[r][k]
<1>0. UNCHANGED lease => Goal
  OBVIOUS
<1>1. ASSUME NEW q \in Row, NEW n \in 1..MaxSeq, Admit(q, n) PROVE Goal
  BY <1>1 DEF Admit, Blank
<1>2. ASSUME NEW j \in Kind, ClaimNothing(j) PROVE Goal
  BY <1>2 DEF ClaimNothing, Cleared
<1>3. ASSUME NEW j \in Kind, NEW q \in Row, NEW o \in OwnerId, ClaimRow(j, q, o) PROVE Goal
  BY <1>3 DEF ClaimRow, Cleared, Fresh
<1>4. ASSUME NEW c \in claims, Release(c) PROVE Goal
  BY <1>4 DEF Release, Claim
<1>5. ASSUME NEW p \in Repo, PurgeRepo(p) PROVE Goal
  BY <1>5 DEF PurgeRepo, Blank
<1>6. ResetLeases => Goal
  BY DEF ResetLeases, Blank
<1>7. (\E q \in Row : Retry(q)) => UNCHANGED lease
  BY DEF Retry
<1>8. (\E c \in claims : Renew(c) \/ Publish(c)) => UNCHANGED lease
  BY DEF Renew, Publish
<1>9. (\E c \in claims, y \in BOOLEAN : Fail(c, y)) => UNCHANGED lease
  BY DEF Fail
<1>10. Reopen => UNCHANGED lease
  BY DEF Reopen, buildVars
<1>11. (\E q \in Row, j \in Kind : LeaseExpires(q, j)) => UNCHANGED lease
  BY DEF LeaseExpires
<1>12. UNCHANGED <<rows, seq, state, attempts, lease, expired, foreign>> => UNCHANGED lease
  OBVIOUS
<1> HIDE DEF TypeOK, Goal
<1>13. Goal
  BY <1>0, <1>1, <1>2, <1>3, <1>4, <1>5, <1>6, <1>7, <1>8, <1>9, <1>10, <1>11, <1>12, StepCases,
     Zenon
<1> QED
  BY <1>13 DEF Goal

\* The owner string of an overtaken claim stays out of its row.
LEMMA OvertakenStep ==
  ASSUME TypeOK, OvertakenInv, [HistoryNext]_historyVars
  PROVE  OvertakenInv'
<1>0. [Next]_vars
  BY HistoryStepIsStep
\* What is left to show of a step: the claims it overtakes lose their leases.
<1>1. ASSUME NEW O, Overtaking(O),
             \A c \in claims : <<c.row, c.kind>> \in O => lease'[c.row][c.kind] # c.owner
      PROVE  OvertakenInv'
  <2>1. overtaken' \subseteq claims'
    BY <1>1 DEF Overtaking
  <2>2. ASSUME NEW c \in overtaken' PROVE lease'[c.row][c.kind] # c.owner
    <3>1. c \in claims /\ (c \in overtaken \/ <<c.row, c.kind>> \in O)
      BY <1>1 DEF Overtaking, OvertakenInv
    <3>2. c \in Claim
      BY <3>1 DEF TypeOK
    <3>3. c.row \in Row /\ c.kind \in Kind /\ c.owner # None
      BY <3>2, ConstantsAssumption DEF Claim
    <3>4. CASE c \in overtaken
      <4>1. lease[c.row][c.kind] # c.owner
        BY <3>4 DEF OvertakenInv
      <4>2. \/ lease'[c.row][c.kind] \in {lease[c.row][c.kind], None}
            \/ \A d \in claims : d.owner # lease'[c.row][c.kind]
        BY <1>0, <3>3, LeaseChanges
      <4> QED
        BY <3>1, <3>3, <4>1, <4>2
    <3> QED
      BY <1>1, <3>1, <3>4
  <2> QED
    BY <2>1, <2>2 DEF OvertakenInv
<1>2. CASE HistoryAdmit \/ HistoryOther
  <2>1. Overtaking({})
    BY <1>2 DEF HistoryAdmit, HistoryOther
  <2> QED
    BY <1>1, <2>1
<1>3. CASE HistoryClaim
  <2>1. PICK k \in Pools, r \in Row, o \in OwnerId : ClaimRow(k, r, o) /\ Overtaking({<<r, k>>})
    BY <1>3 DEF HistoryClaim
  <2>2. k \in Kind
    BY ConstantsAssumption
  <2>3. lease'[r][k] = o /\ \A c \in claims : c.owner # o
    BY <2>1, <2>2 DEF ClaimRow, Cleared, Fresh, TypeOK
  <2>4. \A c \in claims : <<c.row, c.kind>> \in {<<r, k>>} => lease'[c.row][c.kind] # c.owner
    BY <2>3
  <2> QED
    BY <1>1, <2>1, <2>4
<1>4. CASE HistoryPurge
  <2>1. PICK p \in Repo : PurgeRepo(p) /\ Overtaking(RowsOf(p) \X Kind)
    BY <1>4 DEF HistoryPurge
  <2>2. \A r \in RowsOf(p), k \in Kind : lease'[r][k] = None
    BY <2>1 DEF PurgeRepo, RowsOf, Blank, TypeOK
  <2>3. \A c \in claims : c.owner # None
    BY ConstantsAssumption DEF TypeOK, Claim
  <2>4. \A c \in claims : <<c.row, c.kind>> \in RowsOf(p) \X Kind => lease'[c.row][c.kind] # c.owner
    BY <2>2, <2>3
  <2> QED
    BY <1>1, <2>1, <2>4
<1>5. CASE UNCHANGED historyVars
  BY <1>5 DEF historyVars, vars, OvertakenInv
<1> QED
  BY <1>2, <1>3, <1>4, <1>5 DEF HistoryNext

\* renew, publish, fail and release of an overtaken build change no row: the
\* build that took its place, or the one of the same commit after a purge and
\* a new admission, is neither settled nor released by it.
THEOREM OvertakenBuildsAreHarmless == HistorySpec => OvertakenWriteNothing
<1>1. HistoryInit => TypeOK /\ OvertakenInv
  BY InitType DEF HistoryInit, OvertakenInv
<1>2. TypeOK /\ OvertakenInv /\ [HistoryNext]_historyVars => TypeOK' /\ OvertakenInv'
  BY HistoryStepIsStep, TypeStep, OvertakenStep
<1>3. TypeOK /\ OvertakenInv /\ [HistoryNext]_historyVars
        => [\A c \in overtaken : ClaimStep(c) => UNCHANGED buildVars]_historyVars
  <2> SUFFICES ASSUME OvertakenInv, NEW c \in overtaken, ClaimStep(c) PROVE UNCHANGED buildVars
    OBVIOUS
  <2>1. ~Owns(c)
    BY DEF OvertakenInv, Owns
  <2>2. ASSUME NEW y \in BOOLEAN PROVE ~Fail(c, y)
    BY <2>1 DEF Fail
  <2>3. ~Renew(c) /\ ~Publish(c) /\ ~Release(c)
    BY <2>1 DEF Renew, Publish, Release
  <2>4. Forget(c)
    BY <2>2, <2>3 DEF ClaimStep
  <2> QED
    BY <2>4 DEF Forget, buildVars
<1> QED
  BY <1>1, <1>2, <1>3, PTL DEF HistorySpec, OvertakenWriteNothing

-----------------------------------------------------------------------------
(* The workers call the store as ControlStore allows.                       *)

\* A claim that a slot works on is one the process holds.
LEMMA SlotHoldsClaim ==
  ASSUME WorkInv, NEW s \in Slot, pc[s] # "idle"
  PROVE  claim[s] \in claims
BY DEF WorkInv

\* Whatever a slot, a request, a crash or the clock does is a step of the
\* store, or none.
LEMMA WorkStepIsStoreStep == WorkInv /\ [WorkNext]_workVars => [Next]_vars
<1> SUFFICES ASSUME WorkInv, WorkNext \/ UNCHANGED workVars PROVE Next \/ UNCHANGED vars
  OBVIOUS
<1>0. ASSUME NEW s \in Slot PROVE PoolOf[s] \in Pools /\ s \in OwnerId
  BY WorkersAssumption
<1>1. ASSUME NEW s \in Slot, SlotClaims(s) PROVE Next
  BY <1>0, <1>1 DEF SlotClaims, Next
<1>2. ASSUME NEW s \in Slot, SlotGivesUp(s) PROVE Next
  BY <1>0, <1>2 DEF SlotGivesUp, Next
<1>3. ASSUME NEW s \in Slot, RenewTick(s) PROVE Next \/ UNCHANGED vars
  BY <1>3, SlotHoldsClaim DEF RenewTick, Running, Next, ClaimStep
<1>4. ASSUME NEW s \in Slot, BuildEnds(s) PROVE UNCHANGED vars
  BY <1>4 DEF BuildEnds
<1>5. ASSUME NEW s \in Slot, Settle(s) PROVE Next \/ UNCHANGED vars
  <2>1. claim[s] \in claims
    BY <1>5, SlotHoldsClaim DEF Settle
  <2>2. (result[s] = "retryable") \in BOOLEAN
    OBVIOUS
  <2> QED
    BY <1>5, <2>1, <2>2 DEF Settle, StoreAnswers, StoreErrs, Next, ClaimStep
<1>6. ASSUME NEW s \in Slot, SlotReleases(s) PROVE Next \/ UNCHANGED vars
  BY <1>6, SlotHoldsClaim DEF SlotReleases, Next, ClaimStep
<1>7. ASSUME NEW s \in Slot, SlotLoops(s) PROVE Next
  BY <1>7, SlotHoldsClaim DEF SlotLoops, Next, ClaimStep
<1>8. CASE Request
  BY <1>8 DEF Request, Next
<1>9. CASE Crash
  BY <1>9 DEF Crash, Next
<1>10. CASE Start
  BY <1>10 DEF Start, Next
<1>11. CASE Clock
  BY <1>11 DEF Clock, Next
<1>12. CASE UNCHANGED workVars
  BY <1>12 DEF workVars
<1> QED
  BY <1>1, <1>2, <1>3, <1>4, <1>5, <1>6, <1>7, <1>8, <1>9, <1>10, <1>11, <1>12
  DEF WorkNext, SlotStep

-----------------------------------------------------------------------------
(* The inductive invariant.                                                 *)

\* A step after which every lease is one that was there before.
Fading ==
  \A r \in rows', k \in Kind :
    lease'[r][k] # None => r \in rows /\ lease'[r][k] = lease[r][k]

\* What a slot's steps and the requests do to the slots while leases fade: a
\* slot that lost its lease stays without it, and a lease that is left is still
\* that of the slot it belonged to.
LEMMA FadingKeeps ==
  ASSUME TypeOK, WorkInv, Fading
  PROVE  /\ \A c \in Claim : Owns(c)' => Owns(c)
         /\ \A r \in rows', k \in Kind : server = "serving" /\ lease'[r][k] # None =>
              LET s == lease'[r][k]
              IN  s \in Slot /\ pc[s] # "idle" /\ claim[s].row = r /\ claim[s].kind = k
<1>1. ASSUME NEW c \in Claim, Owns(c)' PROVE Owns(c)
  <2>1. c.owner # None /\ c.kind \in Kind
    BY ConstantsAssumption DEF Claim
  <2> QED
    BY <1>1, <2>1 DEF Owns, Fading
<1>2. ASSUME NEW r \in rows', NEW k \in Kind, server = "serving", lease'[r][k] # None
      PROVE  LET s == lease'[r][k]
             IN  s \in Slot /\ pc[s] # "idle" /\ claim[s].row = r /\ claim[s].kind = k
  <2>1. r \in rows /\ lease'[r][k] = lease[r][k]
    BY <1>2 DEF Fading
  <2> QED
    BY <1>2, <2>1 DEF WorkInv, NoOrphanLease
<1> QED
  BY <1>1, <1>2

\* A step in which leases fade and no slot takes or drops a claim.  A slot that
\* releases, or finds its lease lost, does not own its claim after it.
LEMMA SameClaims ==
  ASSUME TypeOK, WorkInv, Fading, UNCHANGED <<server, claim, claims>>,
         pc' \in [Slot -> {"idle", "building", "settling", "joined", "released"}],
         cancelled' \in [Slot -> BOOLEAN], result' \in [Slot -> Results],
         \A s \in Slot : (pc'[s] = "idle") = (pc[s] = "idle"),
         \A s \in Slot :
           \/ pc'[s] = "released" /\ pc[s] # "released"
           \/ cancelled'[s] /\ ~cancelled[s]
           => ~Owns(claim[s])'
  PROVE  WorkInv'
<1>1. \A s \in Slot : pc'[s] # "idle" =>
        /\ claim'[s] \in Claim /\ claim'[s].owner = s /\ claim'[s].kind = PoolOf[s]
        /\ pc'[s] = "released" \/ cancelled'[s] => ~Owns(claim[s])'
  BY FadingKeeps DEF WorkInv
<1>2. NoOrphanLease'
  BY FadingKeeps DEF NoOrphanLease
<1>3. claims' = {claim'[s] : s \in {t \in Slot : pc'[t] # "idle"}}
  BY DEF WorkInv
<1> QED
  BY <1>1, <1>2, <1>3 DEF WorkInv, Owns

\* A claim leases a row to its slot, which no lease and no claim named before.
LEMMA SlotClaimsKeeps ==
  ASSUME TypeOK, WorkInv, NEW s \in Slot, SlotClaims(s)
  PROVE  WorkInv'
<1>1. PICK r \in Row :
        /\ ClaimRow(PoolOf[s], r, s)
        /\ claim' = [claim EXCEPT ![s] = [row |-> r, kind |-> PoolOf[s], owner |-> s]]
  BY DEF SlotClaims
<1> DEFINE c == [row |-> r, kind |-> PoolOf[s], owner |-> s]
           k == PoolOf[s]
<1>2. k \in Kind /\ s \in OwnerId /\ c \in Claim
  BY WorkersAssumption DEF Claim
<1>3. /\ pc' = [pc EXCEPT ![s] = "building"] /\ pc[s] = "idle"
      /\ cancelled' = [cancelled EXCEPT ![s] = FALSE]
      /\ result' = [result EXCEPT ![s] = "none"]
      /\ server = "serving" /\ server' = server
  BY DEF SlotClaims
<1>4. rows' = rows /\ claims' = claims \cup {c} /\ \A d \in claims : d.owner # s
  BY <1>1 DEF ClaimRow, Fresh
<1>5. \A q \in rows, j \in Kind :
        /\ lease[q][j] # s
        /\ q = r /\ j = k => lease'[q][j] = s
        /\ ~(q = r /\ j = k) => lease'[q][j] \in {None, lease[q][j]}
  <2>1. Cleared(lease, k, None) \in [Row -> [Kind -> OwnerId \cup {None}]]
    BY <1>2, GaveUpType
  <2>2. \A q \in Row, j \in Kind : Cleared(lease, k, None)[q][j] \in {None, lease[q][j]}
    BY DEF Cleared, TypeOK
  <2>3. lease' = [Cleared(lease, k, None) EXCEPT ![r][k] = s] /\ \A q \in Row, j \in Kind : lease[q][j] # s
    BY <1>1 DEF ClaimRow, Fresh
  <2> HIDE DEF k
  <2>4. \A q \in Row, j \in Kind :
          lease'[q][j] = IF q = r /\ j = k THEN s ELSE Cleared(lease, k, None)[q][j]
    BY <1>2, <2>1, <2>3
  <2> QED
    BY <2>2, <2>3, <2>4 DEF TypeOK
<1> HIDE DEF c, k
<1>6. /\ pc' \in [Slot -> {"idle", "building", "settling", "joined", "released"}]
      /\ claim' \in [Slot -> Claim \cup {NoClaim}] /\ cancelled' \in [Slot -> BOOLEAN]
      /\ result' \in [Slot -> Results]
  BY <1>1, <1>2, <1>3 DEF WorkInv, Results, c, k
<1>7. claims' = {claim'[t] : t \in {u \in Slot : pc'[u] # "idle"}}
  <2>1. claim'[s] = c /\ pc'[s] = "building" /\ \A t \in Slot \ {s} : claim'[t] = claim[t] /\ pc'[t] = pc[t]
    BY <1>1, <1>3 DEF WorkInv, c, k
  <2>2. ASSUME NEW d \in claims' PROVE \E t \in Slot : pc'[t] # "idle" /\ d = claim'[t]
    BY <1>3, <1>4, <2>1, <2>2 DEF WorkInv
  <2>3. ASSUME NEW t \in Slot, pc'[t] # "idle" PROVE claim'[t] \in claims'
    BY <1>3, <1>4, <2>1, <2>3 DEF WorkInv
  <2> QED
    BY <2>2, <2>3
<1>8. ASSUME NEW t \in Slot, pc'[t] # "idle"
      PROVE  /\ claim'[t] \in Claim /\ claim'[t].owner = t /\ claim'[t].kind = PoolOf[t]
             /\ pc'[t] = "released" \/ cancelled'[t] => ~Owns(claim[t])'
  <2>1. CASE t = s
    BY <1>1, <1>2, <1>3, <2>1 DEF WorkInv, c, k
  <2>2. CASE t # s
    <3>1. claim'[t] = claim[t] /\ pc'[t] = pc[t] /\ cancelled'[t] = cancelled[t]
      BY <1>1, <1>3, <2>2 DEF WorkInv
    <3>2. claim[t] \in Claim /\ claim[t].owner = t /\ claim[t].kind = PoolOf[t]
      BY <1>8, <3>1 DEF WorkInv
    <3>3. claim[t].row \in rows /\ lease'[claim[t].row][claim[t].kind] = t => Owns(claim[t])
      BY <1>5, <2>2, <3>2, ConstantsAssumption DEF Owns, Claim
    <3> QED
      BY <1>4, <1>8, <3>1, <3>2, <3>3 DEF WorkInv, Owns
  <2> QED
    BY <2>1, <2>2
<1>9. NoOrphanLease'
  <2> SUFFICES ASSUME NEW q \in rows, NEW j \in Kind, lease'[q][j] # None
               PROVE  \E t \in Slot : pc'[t] # "idle" /\ claim'[t].row = q /\ claim'[t].kind = j
                                        /\ lease'[q][j] = t
    BY <1>4 DEF NoOrphanLease
  <2>1. CASE q = r /\ j = k
    BY <1>1, <1>3, <1>5, <2>1 DEF WorkInv, k
  <2>2. CASE ~(q = r /\ j = k)
    <3>1. lease'[q][j] = lease[q][j] /\ lease[q][j] # s
      BY <1>5, <2>2
    <3>2. PICK t \in Slot : pc[t] # "idle" /\ claim[t].row = q /\ claim[t].kind = j /\ lease[q][j] = t
      BY <1>3, <3>1 DEF WorkInv, NoOrphanLease
    <3> QED
      BY <1>1, <1>3, <3>1, <3>2 DEF WorkInv
  <2> QED
    BY <2>1, <2>2
<1> QED
  BY <1>3, <1>6, <1>7, <1>8, <1>9 DEF WorkInv

\* A slot that goes back to its loop leaves no lease behind.
LEMMA SlotLoopsKeeps ==
  ASSUME TypeOK, WorkInv, Fading, NEW s \in Slot, SlotLoops(s)
  PROVE  WorkInv'
<1>1. /\ pc[s] # "idle" /\ ~Owns(claim[s]) /\ claim[s] \in Claim /\ claim[s].owner = s
      /\ claim[s].kind = PoolOf[s]
  BY DEF SlotLoops, WorkInv
<1>2. /\ pc' = [pc EXCEPT ![s] = "idle"] /\ claim' = [claim EXCEPT ![s] = NoClaim]
      /\ cancelled' = [cancelled EXCEPT ![s] = FALSE] /\ result' = [result EXCEPT ![s] = "none"]
      /\ claims' = claims \ {claim[s]} /\ UNCHANGED <<server, rows, lease>>
  BY DEF SlotLoops, Forget
<1>3. \A t \in Slot \ {s} :
        /\ pc'[t] = pc[t] /\ claim'[t] = claim[t] /\ cancelled'[t] = cancelled[t]
        /\ pc[t] # "idle" => claim[t] # claim[s]
  BY <1>1, <1>2 DEF WorkInv
<1>4. pc'[s] = "idle"
  BY <1>2 DEF WorkInv
<1>5. claims' = {claim'[t] : t \in {u \in Slot : pc'[u] # "idle"}}
  BY <1>1, <1>2, <1>3, <1>4 DEF WorkInv
<1>6. ASSUME NEW t \in Slot, pc'[t] # "idle"
      PROVE  /\ claim'[t] \in Claim /\ claim'[t].owner = t /\ claim'[t].kind = PoolOf[t]
             /\ pc'[t] = "released" \/ cancelled'[t] => ~Owns(claim[t])'
  BY <1>2, <1>3, <1>4, <1>6 DEF WorkInv, Owns
<1>7. NoOrphanLease'
  <2> SUFFICES ASSUME NEW r \in rows, NEW k \in Kind, lease[r][k] # None, server = "serving"
               PROVE  \E t \in Slot : pc'[t] # "idle" /\ claim'[t].row = r /\ claim'[t].kind = k
                                        /\ lease[r][k] = t
    BY <1>2 DEF NoOrphanLease
  <2>1. PICK t \in Slot : pc[t] # "idle" /\ claim[t].row = r /\ claim[t].kind = k /\ lease[r][k] = t
    BY DEF WorkInv, NoOrphanLease
  <2>2. t # s
    BY <1>1, <2>1 DEF Owns
  <2> QED
    BY <1>3, <2>1, <2>2
<1> QED
  BY <1>2, <1>5, <1>6, <1>7 DEF WorkInv, Results

\* The workers and the process keep the invariant.
LEMMA WorkInvStep == TypeOK /\ WorkInv /\ [WorkNext]_workVars => WorkInv'
<1> SUFFICES ASSUME TypeOK, WorkInv, WorkNext \/ UNCHANGED workVars PROVE WorkInv'
  OBVIOUS
<1>0. [Next]_vars
  BY WorkStepIsStoreStep
\* Only a slot's claim makes a lease.
<1>1. ASSUME UNCHANGED vars PROVE Fading
  BY <1>1 DEF vars, Fading
<1>2. ASSUME NEW s \in Slot, SlotGivesUp(s) PROVE WorkInv'
  <2>1. PoolOf[s] \in Kind /\ ClaimNothing(PoolOf[s]) /\ UNCHANGED <<server, slotVars, claims>>
    BY <1>2, WorkersAssumption DEF SlotGivesUp, ClaimNothing
  <2>2. Fading
    BY <2>1 DEF ClaimNothing, Cleared, Fading, TypeOK
  <2> QED
    BY <2>1, <2>2, SameClaims DEF WorkInv, slotVars
<1>3. ASSUME NEW s \in Slot, RenewTick(s) PROVE WorkInv'
  <2>1. UNCHANGED <<server, pc, claim, result, claims, rows, lease>>
    BY <1>3 DEF RenewTick, Renew, vars
  <2>2. Fading
    BY <2>1 DEF Fading
  <2>3. /\ cancelled' \in [Slot -> BOOLEAN]
        /\ \A t \in Slot : cancelled'[t] /\ ~cancelled[t] => ~Owns(claim[t])
    BY <1>3 DEF RenewTick, WorkInv
  <2>4. \A t \in Slot : Owns(claim[t])' = Owns(claim[t])
    BY <2>1 DEF Owns
  <2> QED
    BY <2>1, <2>2, <2>3, <2>4, SameClaims DEF WorkInv
<1>4. ASSUME NEW s \in Slot, BuildEnds(s) PROVE WorkInv'
  <2>1. UNCHANGED <<server, claim, cancelled, claims, rows, lease>>
    BY <1>4 DEF BuildEnds, vars
  <2>2. /\ pc' \in [Slot -> {"idle", "building", "settling", "joined", "released"}]
        /\ result' \in [Slot -> Results]
        /\ \A t \in Slot : (pc'[t] = "idle") = (pc[t] = "idle")
        /\ \A t \in Slot : pc'[t] = "released" => pc[t] = "released"
    BY <1>4 DEF BuildEnds, WorkInv
  <2>3. Fading
    BY <2>1 DEF Fading
  <2> QED
    BY <2>1, <2>2, <2>3, SameClaims DEF WorkInv
<1>5. ASSUME NEW s \in Slot, Settle(s) PROVE WorkInv'
  <2>1. UNCHANGED <<server, claim, cancelled, result, claims, rows, lease>>
    BY <1>5 DEF Settle, StoreAnswers, StoreErrs, Publish, Fail, vars
  <2>2. /\ pc' \in [Slot -> {"idle", "building", "settling", "joined", "released"}]
        /\ \A t \in Slot : (pc'[t] = "idle") = (pc[t] = "idle")
        /\ \A t \in Slot : pc'[t] = "released" => pc[t] = "released"
    BY <1>5 DEF Settle, WorkInv
  <2>3. Fading
    BY <2>1 DEF Fading
  <2> QED
    BY <2>1, <2>2, <2>3, SameClaims DEF WorkInv
<1>6. ASSUME NEW s \in Slot, SlotReleases(s) PROVE WorkInv'
  <2>1. /\ UNCHANGED <<server, claim, cancelled, result, claims, rows>>
        /\ pc' = [pc EXCEPT ![s] = "released"] /\ pc[s] = "joined"
    BY <1>6 DEF SlotReleases, Release, vars
  <2>2. claim[s] \in Claim /\ claim[s] \in claims
    BY <2>1, SlotHoldsClaim DEF WorkInv
  <2>3. Fading /\ ~Owns(claim[s])'
    <3>1. CASE Release(claim[s])
      BY <2>1, <2>2, <3>1, ConstantsAssumption DEF Release, Fading, Owns, Claim, TypeOK
    <3>2. CASE ~Owns(claim[s]) /\ UNCHANGED vars
      BY <2>1, <3>2, <1>1 DEF Owns, vars
    <3> QED
      BY <1>6, <3>1, <3>2 DEF SlotReleases
  <2>4. /\ pc' \in [Slot -> {"idle", "building", "settling", "joined", "released"}]
        /\ \A t \in Slot : (pc'[t] = "idle") = (pc[t] = "idle")
        /\ \A t \in Slot \ {s} : pc'[t] = pc[t]
    BY <2>1 DEF WorkInv
  <2> QED
    BY <2>1, <2>3, <2>4, SameClaims DEF WorkInv
<1>7. ASSUME NEW s \in Slot, SlotLoops(s) PROVE WorkInv'
  <2>1. Fading
    BY <1>7 DEF SlotLoops, Forget, Fading
  <2> QED
    BY <1>7, <2>1, SlotLoopsKeeps
<1>8. CASE Request
  <2>1. UNCHANGED <<server, slotVars, claims>>
    BY <1>8 DEF Request, Admit, Retry, PurgeRepo, RemoveRepo, AddRepo
  <2>2. Fading
    <3>1. ASSUME NEW r \in Row, NEW n \in 1..MaxSeq, Admit(r, n) PROVE Fading
      BY <3>1 DEF Admit, Blank, Fading, TypeOK
    <3>2. ASSUME NEW r \in Row, Retry(r) PROVE Fading
      BY <3>2 DEF Retry, Fading
    <3>3. ASSUME NEW p \in Repo, PurgeRepo(p) PROVE Fading
      BY <3>3 DEF PurgeRepo, RowsOf, Fading, TypeOK
    <3>4. ASSUME NEW p \in Repo, RemoveRepo(p) \/ \E t \in TenantName : AddRepo(p, t) PROVE Fading
      BY <3>4 DEF RemoveRepo, AddRepo, buildVars, Fading
    <3> QED
      BY <1>8, <3>1, <3>2, <3>3, <3>4 DEF Request
  <2> QED
    BY <2>1, <2>2, SameClaims DEF WorkInv, slotVars
<1>9. CASE Crash
  <2>1. \A s \in Slot : pc'[s] = "idle"
    BY <1>9 DEF Crash
  <2>2. /\ server' = "starting" /\ claims' = {} /\ pc' = [s \in Slot |-> "idle"]
        /\ claim' = [s \in Slot |-> NoClaim] /\ cancelled' = [s \in Slot |-> FALSE]
        /\ result' = [s \in Slot |-> "none"]
    BY <1>9 DEF Crash, Reopen
  <2> QED
    BY <2>1, <2>2 DEF WorkInv, NoOrphanLease, Results
<1>10. CASE Start
  <2>1. /\ server' = "serving" /\ UNCHANGED <<pc, claim, cancelled, result, claims, rows>>
        /\ \A s \in Slot : pc[s] = "idle"
    BY <1>10 DEF Start, slotVars, ResetLeases, WorkInv
  <2>2. \A r \in rows', k \in Kind : lease'[r][k] = None
    BY <1>10, <2>1 DEF Start, ResetLeases, Blank, TypeOK
  <2> QED
    BY <2>1, <2>2 DEF WorkInv, NoOrphanLease
<1>11. CASE Clock
  <2>1. UNCHANGED <<server, slotVars, claims, rows, lease>>
    BY <1>11 DEF Clock, LeaseExpires, BackoffElapses
  <2>2. Fading
    BY <2>1 DEF Fading
  <2> QED
    BY <2>1, <2>2, SameClaims DEF WorkInv, slotVars
<1>12. CASE UNCHANGED workVars
  <2>1. UNCHANGED <<server, pc, claim, cancelled, result, claims>> /\ UNCHANGED vars
    BY <1>12 DEF workVars, vars
  <2> QED
    BY <1>1, <2>1, SameClaims DEF WorkInv
<1> QED
  BY <1>2, <1>3, <1>4, <1>5, <1>6, <1>7, <1>8, <1>9, <1>10, <1>11, <1>12, SlotClaimsKeeps
  DEF WorkNext, SlotStep

-----------------------------------------------------------------------------
\* The workers, their requests, crashes and restarts drive the store only
\* through steps that ControlStore allows, so that everything proved of the
\* store holds of the server that runs on it.
THEOREM WorkersRefineStore == WorkSpec => Spec /\ []WorkInv
<1>1. WorkInit => Init /\ TypeOK /\ WorkInv
  BY InitType DEF WorkInit, WorkInv, NoOrphanLease, Init, Results
<1>2. TypeOK /\ WorkInv /\ [WorkNext]_workVars => TypeOK' /\ WorkInv' /\ [Next]_vars
  BY WorkStepIsStoreStep, TypeStep, WorkInvStep
<1> QED
  BY <1>1, <1>2, PTL DEF WorkSpec, Spec

\* Between two restarts no output is locked by a build that ended, crashed or
\* was cancelled (run_slot, run_claim, release and reset_leases).
THEOREM NoLeaseIsOrphaned == WorkSpec => []NoOrphanLease
<1>1. WorkInv => NoOrphanLease
  BY DEF WorkInv
<1> QED
  BY <1>1, WorkersRefineStore, PTL

\* Of the running builds of a repository and kind at most one can publish:
\* run_claim goes on with a build whose lease was lost until it notices.
THEOREM OneBuildCounts == WorkSpec => []OneEffectiveBuild
<1>1. TypeOK /\ StoreInv /\ WorkInv => OneEffectiveBuild
  <2> SUFFICES ASSUME TypeOK, StoreInv, WorkInv, NEW s \in Slot, NEW t \in Slot,
                      Running(s), Running(t), claim[s].row[1] = claim[t].row[1],
                      claim[s].kind = claim[t].kind, Owns(claim[s]), Owns(claim[t])
               PROVE  s = t
    BY DEF OneEffectiveBuild
  <2>1. ASSUME NEW u \in Slot, Running(u), Owns(claim[u])
        PROVE  /\ claim[u].row \in rows /\ claim[u].kind \in Kind /\ claim[u].owner = u
               /\ lease[claim[u].row][claim[u].kind] = u
               /\ LeaseHeld(claim[u].row, claim[u].kind)
    <3>1. claim[u] \in Claim /\ claim[u] \in claims /\ claim[u].owner = u
      BY <2>1, SlotHoldsClaim DEF Running, WorkInv
    <3>2. claim[u].owner \notin foreign /\ claim[u].owner # None
      BY <3>1, ConstantsAssumption DEF StoreInv, Claim
    <3> QED
      BY <2>1, <3>1, <3>2 DEF Owns, LeaseHeld, Claim
  <2>2. claim[s].row = claim[t].row
    BY <2>1 DEF StoreInv, OneLeasePerRepo
  <2> QED
    BY <2>1, <2>2
<1> QED
  BY <1>1, WorkersRefineStore, StoreSafe, TypeCorrect, PTL

\* A publish counts for good: once the workers have an output ready, no late
\* answer, retry, crash or restart makes it anything else, only a purge.
THEOREM WorkersKeepReady == WorkSpec => ReadyStays
BY WorkersRefineStore, ReadyForever, PTL
=============================================================================
