---------------------------- MODULE ControlStore ----------------------------
(***************************************************************************)
(* The build queue of ripclone's control store: the `builds`, `added_repos` *)
(* and `owner_turns` tables and the transactions that change them           *)
(* (rust/src/control/sqlite.rs, schema/sqlite.sql).  Every SQL statement    *)
(* that changes these tables runs under SQLite's single write lock, so each *)
(* store call is one action.                                                *)
(*                                                                          *)
(* The callers are left open: any claim a live process still holds may be   *)
(* renewed, published, failed or released at any moment, in any order and   *)
(* more than once.  BuildWorkers restricts them to what the workers do.     *)
(*                                                                          *)
(* Abstractions.  A row is a <<repo, commit>> pair and its columns are      *)
(* functions of the row and of the output kind.  Time is kept as what the   *)
(* queries compare it with: `backoff` is "retry_after > now" and `expired`  *)
(* is "lease_until <= now"; the clock turns each of them over on its own.   *)
(* `owner_turns` keeps only the order of the turns.  ref_name, parent,      *)
(* output, error and created_at are payload no query of this module reads.  *)
(* The artifact tables changed by publish and purge are in ArtifactGC.      *)
(***************************************************************************)
EXTENDS Naturals, FiniteSets

CONSTANTS
  Repo,         \* repositories
  Commit,       \* commits
  Tenant,       \* owners of repositories, from /add
  OwnerId,      \* lease owner strings; bounds the claims and leases at a time
  None,         \* SQL NULL in a lease_owner column
  Pools,        \* the pools with slots: RIPCLONE_{FILES,FULL}_SLOTS = 0 pauses one
  MaxAttempts,  \* RIPCLONE_BUILD_MAX_ATTEMPTS
  MaxSeq        \* bound of the model: admissions stop at this sequence number

Kind == {"head", "files", "full"}

ASSUME ConstantsAssumption ==
  /\ Pools \subseteq Kind /\ "head" \in Pools
  /\ MaxAttempts \in Nat \ {0}
  /\ MaxSeq \in Nat
  /\ None \notin OwnerId
  /\ "noOwner" \notin Tenant /\ "notAdded" \notin Tenant

State == {"pending", "ready", "failed"}

Row == Repo \X Commit

\* `added_repos.owner` is '' when /add names none.
TenantName == Tenant \cup {"noOwner"}

VARIABLES
  rows,      \* the rows of `builds`
  seq,       \* seq[r]: admission order, 0 for a row that does not exist
  state,     \* state[r][k]
  attempts,  \* attempts[r][k]: claims since admission or the last retry
  backoff,   \* backoff[r][k]: retry_after lies in the future
  lease,     \* lease[r][k]: lease_owner
  expired,   \* expired[r][k]: lease_until has passed
  added,     \* added[p]: the owner of an added repository, or "notAdded"
  turns,     \* turns[k]: the pairs <<a, b>> with a's turn in the pool before b's
  claims,    \* the claims the live process still holds
  foreign    \* lease owners written by an earlier open of the store

buildVars == <<rows, seq, state, attempts, backoff, lease, expired>>
vars == <<rows, seq, state, attempts, backoff, lease, expired,
          added, turns, claims, foreign>>

Claim == [row : Row, kind : Kind, owner : OwnerId]

-----------------------------------------------------------------------------
(* What the queries read.                                                   *)

\* lease_held: a lease that has not expired, or one this open store wrote.
LeaseHeld(r, k) ==
  /\ lease[r][k] # None
  /\ ~expired[r][k] \/ lease[r][k] \notin foreign

\* `exhausted`: the last allowed attempt ended without a result.
Exhausted(k) ==
  {r \in rows : /\ state[r][k] = "pending"
                /\ attempts[r][k] >= MaxAttempts
                /\ ~LeaseHeld(r, k)}

\* Bug: a failed Head leaves its Full pending.
NoCascade(st, r, failing, k) == FALSE

\* head_failure_cascade: a failed Head takes the pending Full with it.
Cascaded(st, r, failing, k) ==
  failing = "head" /\ k = "full" /\ st[r]["full"] = "pending"

\* The give-up pass of a claim of pool k.
GaveUp(k) ==
  [r \in Row |->
    IF r \in Exhausted(k)
    THEN [j \in Kind |-> IF j = k \/ Cascaded(state, r, k, j)
                         THEN "failed" ELSE state[r][j]]
    ELSE state[r]]

\* Column f of kind k after the give-up pass wrote v, the lease columns being
\* cleared so that a late publish cannot land.
Cleared(f, k, v) ==
  [r \in Row |-> IF r \in Exhausted(k) THEN [f[r] EXCEPT ![k] = v] ELSE f[r]]

\* `needs`: Full is built from Head and waits for every older pending Full
\* of its repository.
Needs(st, r, k) ==
  k = "full" =>
    /\ st[r]["head"] = "ready"
    /\ \A q \in rows : q[1] = r[1] /\ st[q]["full"] = "pending" => seq[q] >= seq[r]

\* Bug: only the row's own lease is looked at, not its repository's others.
CandidatesOfAnyRepo(st, k) ==
  {r \in rows : /\ st[r][k] = "pending"
                /\ Needs(st, r, k)
                /\ ~LeaseHeld(r, k)
                /\ ~backoff[r][k]
                /\ attempts[r][k] < MaxAttempts}

\* The rows a claim of pool k may take, st being the states it reads.
Candidates(st, k) ==
  {r \in rows : /\ st[r][k] = "pending"
                /\ Needs(st, r, k)
                /\ ~LeaseHeld(r, k)
                /\ ~backoff[r][k]
                /\ attempts[r][k] < MaxAttempts
                /\ \A q \in rows : q[1] = r[1] => ~LeaseHeld(q, k)}

\* COALESCE(added.owner, '')
TenantOf(p) == IF added[p] = "notAdded" THEN "noOwner" ELSE added[p]

\* ORDER BY COALESCE(turns.turn, 0), b.seq LIMIT 1
IsFirst(r, k, cs) ==
  \A q \in cs :
    LET t == TenantOf(r[1])
        u == TenantOf(q[1])
    IN  /\ <<u, t>> \notin turns[k]
        /\ <<t, u>> \in turns[k] \/ seq[r] <= seq[q]

\* Bug: the turn is not recorded.
NotServed(k, t) == turns[k]

\* The owner's turn becomes the largest of all.
Served(k, t) ==
  {p \in turns[k] : p[1] # t} \cup {<<u, t>> : u \in TenantName \ {t}}

\* Owner strings are unique: instance prefix, pool, slot and a sequence number.
Fresh(o) ==
  /\ \A r \in Row, k \in Kind : lease[r][k] # o
  /\ \A c \in claims : c.owner # o

\* Bug: the WHERE clause matches the row and not the owner.
OwnsAnyLease(c) == c.row \in rows /\ lease[c.row][c.kind] # None

\* The WHERE clause of renew, publish, fail and release.
Owns(c) == c.row \in rows /\ lease[c.row][c.kind] = c.owner

-----------------------------------------------------------------------------
(* Admission.                                                               *)

Blank(v) == [k \in Kind |-> v]

\* Bug: COUNT(*) + 1 instead of MAX(seq) + 1.
IsNextCount(n) == n = Cardinality(rows) + 1

\* COALESCE(MAX(seq), 0) + 1 over the rows of every repository.
IsNextSeq(n) ==
  \/ rows = {} /\ n = 1
  \/ \E q \in rows : n = seq[q] + 1 /\ \A p \in rows : seq[p] < n

\* admit of a new commit.  Of a known one it changes nothing modelled here.
Admit(r, n) ==
  /\ r \notin rows
  /\ IsNextSeq(n)
  /\ rows' = rows \cup {r}
  /\ seq' = [seq EXCEPT ![r] = n]
  /\ state' = [state EXCEPT ![r] = Blank("pending")]
  /\ attempts' = [attempts EXCEPT ![r] = Blank(0)]
  /\ backoff' = [backoff EXCEPT ![r] = Blank(FALSE)]
  /\ lease' = [lease EXCEPT ![r] = Blank(None)]
  /\ expired' = [expired EXCEPT ![r] = Blank(FALSE)]
  /\ UNCHANGED <<added, turns, claims, foreign>>

\* retry: each failed output returns to pending with fresh attempts.  Leases
\* are left alone.
Retry(r) ==
  /\ r \in rows
  /\ \E k \in Kind : state[r][k] = "failed"
  /\ state' = [state EXCEPT ![r] =
       [k \in Kind |-> IF state[r][k] = "failed" THEN "pending" ELSE state[r][k]]]
  /\ attempts' = [attempts EXCEPT ![r] =
       [k \in Kind |-> IF state[r][k] = "failed" THEN 0 ELSE attempts[r][k]]]
  /\ backoff' = [backoff EXCEPT ![r] =
       [k \in Kind |-> state[r][k] # "failed" /\ backoff[r][k]]]
  /\ UNCHANGED <<rows, seq, lease, expired, added, turns, claims, foreign>>

-----------------------------------------------------------------------------
(* Claims.                                                                  *)

\* A claim that finds only exhausted outputs: it gives them up and commits.
ClaimNothing(k) ==
  /\ Exhausted(k) # {}
  /\ Candidates(GaveUp(k), k) = {}
  /\ state' = GaveUp(k)
  /\ lease' = Cleared(lease, k, None)
  /\ expired' = Cleared(expired, k, FALSE)
  /\ UNCHANGED <<rows, seq, attempts, backoff, added, turns, claims, foreign>>

\* A claim that leases row r: give-up pass, lease and the owner's turn in one
\* transaction.
ClaimRow(k, r, o) ==
  /\ Fresh(o)
  /\ r \in Candidates(GaveUp(k), k)
  /\ IsFirst(r, k, Candidates(GaveUp(k), k))
  /\ state' = GaveUp(k)
  /\ lease' = [Cleared(lease, k, None) EXCEPT ![r][k] = o]
  /\ expired' = [Cleared(expired, k, FALSE) EXCEPT ![r][k] = FALSE]
  /\ attempts' = [attempts EXCEPT ![r][k] = @ + 1]
  /\ turns' = [turns EXCEPT ![k] = Served(k, TenantOf(r[1]))]
  /\ claims' = claims \cup {[row |-> r, kind |-> k, owner |-> o]}
  /\ foreign' = foreign \ {o}
  /\ UNCHANGED <<rows, seq, backoff, added>>

Renew(c) ==
  /\ Owns(c)
  /\ expired' = [expired EXCEPT ![c.row][c.kind] = FALSE]
  /\ UNCHANGED <<rows, seq, state, attempts, backoff, lease, added, turns, claims, foreign>>

\* publish: the owner fences a lost lease, an expired one nobody took lands.
Publish(c) ==
  /\ Owns(c)
  /\ state[c.row][c.kind] = "pending"
  /\ state' = [state EXCEPT ![c.row][c.kind] = "ready"]
  /\ UNCHANGED <<rows, seq, attempts, backoff, lease, expired, added, turns, claims, foreign>>

\* Bug: fail does not look at the state of the output.
FailAnyState(c, retryable) ==
  LET r == c.row
      k == c.kind
      givesUp == ~retryable \/ attempts[r][k] >= MaxAttempts
  IN  /\ Owns(c)
      /\ state' = [state EXCEPT ![r] =
           [j \in Kind |-> IF givesUp /\ (j = k \/ Cascaded(state, r, k, j))
                           THEN "failed" ELSE state[r][j]]]
      /\ backoff' = [backoff EXCEPT ![r][k] = IF givesUp THEN @ ELSE TRUE]
      /\ UNCHANGED <<rows, seq, attempts, lease, expired, added, turns, claims, foreign>>

\* fail: failed when there is no retry or no attempt left, else pending with a
\* retry time.  A Head that fails takes the pending Full with it.
Fail(c, retryable) ==
  LET r == c.row
      k == c.kind
      givesUp == ~retryable \/ attempts[r][k] >= MaxAttempts
  IN  /\ Owns(c)
      /\ state[r][k] = "pending"
      /\ state' = [state EXCEPT ![r] =
           [j \in Kind |-> IF givesUp /\ (j = k \/ Cascaded(state, r, k, j))
                           THEN "failed" ELSE state[r][j]]]
      /\ backoff' = [backoff EXCEPT ![r][k] = IF givesUp THEN @ ELSE TRUE]
      /\ UNCHANGED <<rows, seq, attempts, lease, expired, added, turns, claims, foreign>>

Release(c) ==
  /\ Owns(c)
  /\ lease' = [lease EXCEPT ![c.row][c.kind] = None]
  /\ expired' = [expired EXCEPT ![c.row][c.kind] = FALSE]
  /\ UNCHANGED <<rows, seq, state, attempts, backoff, added, turns, claims, foreign>>

\* The process drops a claim it is done with.
Forget(c) ==
  /\ claims' = claims \ {c}
  /\ UNCHANGED <<rows, seq, state, attempts, backoff, lease, expired, added, turns, foreign>>

-----------------------------------------------------------------------------
(* Repositories.                                                            *)

\* add_repo: keeps the owner of a repository that has one.
AddRepo(p, t) ==
  /\ added[p] = "notAdded" \/ (added[p] = "noOwner" /\ t # "noOwner")
  /\ added' = [added EXCEPT ![p] = t]
  /\ UNCHANGED <<buildVars, turns, claims, foreign>>

\* remove_repo: the rows stay and keep building.
RemoveRepo(p) ==
  /\ added[p] # "notAdded"
  /\ added' = [added EXCEPT ![p] = "notAdded"]
  /\ UNCHANGED <<buildVars, turns, claims, foreign>>

RowsOf(p) == {r \in rows : r[1] = p}

\* purge_repo: the repository and its rows go in one transaction, whatever is
\* building.  owner_turns is kept.
PurgeRepo(p) ==
  LET Gone(f, v) == [r \in Row |-> IF r[1] = p THEN v ELSE f[r]]
  IN  /\ added' = [added EXCEPT ![p] = "notAdded"]
      /\ rows' = rows \ RowsOf(p)
      /\ seq' = Gone(seq, 0)
      /\ state' = Gone(state, Blank("pending"))
      /\ attempts' = Gone(attempts, Blank(0))
      /\ backoff' = Gone(backoff, Blank(FALSE))
      /\ lease' = Gone(lease, Blank(None))
      /\ expired' = Gone(expired, Blank(FALSE))
      /\ UNCHANGED <<turns, claims, foreign>>

-----------------------------------------------------------------------------
(* The process and the clock.                                               *)

\* The process dies and the store is opened again: its claims are gone and
\* every stored lease has another instance's prefix.  ControlPathLock keeps a
\* second process out while the first one lives.
Reopen ==
  /\ claims' = {}
  /\ foreign' = {lease[r][k] : r \in Row, k \in Kind} \ {None}
  /\ UNCHANGED <<buildVars, added, turns>>

\* reset_leases, the first thing a starting server does with the store.
ResetLeases ==
  /\ lease' = [r \in Row |-> Blank(None)]
  /\ expired' = [r \in Row |-> Blank(FALSE)]
  /\ UNCHANGED <<rows, seq, state, attempts, backoff, added, turns, claims, foreign>>

\* now passes a lease_until.
LeaseExpires(r, k) ==
  /\ r \in rows /\ lease[r][k] # None /\ ~expired[r][k]
  /\ expired' = [expired EXCEPT ![r][k] = TRUE]
  /\ UNCHANGED <<rows, seq, state, attempts, backoff, lease, added, turns, claims, foreign>>

\* now reaches a retry_after.
BackoffElapses(r, k) ==
  /\ r \in rows /\ backoff[r][k]
  /\ backoff' = [backoff EXCEPT ![r][k] = FALSE]
  /\ UNCHANGED <<rows, seq, state, attempts, lease, expired, added, turns, claims, foreign>>

-----------------------------------------------------------------------------
Init ==
  /\ rows = {}
  /\ seq = [r \in Row |-> 0]
  /\ state = [r \in Row |-> Blank("pending")]
  /\ attempts = [r \in Row |-> Blank(0)]
  /\ backoff = [r \in Row |-> Blank(FALSE)]
  /\ lease = [r \in Row |-> Blank(None)]
  /\ expired = [r \in Row |-> Blank(FALSE)]
  /\ added = [p \in Repo |-> "notAdded"]
  /\ turns = [k \in Kind |-> {}]
  /\ claims = {}
  /\ foreign = {}

ClaimStep(c) ==
  \/ Renew(c)
  \/ Publish(c)
  \/ \E retryable \in BOOLEAN : Fail(c, retryable)
  \/ Release(c)
  \/ Forget(c)

Next ==
  \/ \E r \in Row, n \in 1..MaxSeq : Admit(r, n)
  \/ \E r \in Row : Retry(r)
  \/ \E k \in Pools : ClaimNothing(k)
  \/ \E k \in Pools, r \in Row, o \in OwnerId : ClaimRow(k, r, o)
  \/ \E c \in claims : ClaimStep(c)
  \/ \E p \in Repo, t \in TenantName : AddRepo(p, t)
  \/ \E p \in Repo : RemoveRepo(p)
  \/ \E p \in Repo : PurgeRepo(p)
  \/ Reopen
  \/ ResetLeases
  \/ \E r \in Row, k \in Kind : LeaseExpires(r, k)
  \/ \E r \in Row, k \in Kind : BackoffElapses(r, k)

Spec == Init /\ [][Next]_vars

-----------------------------------------------------------------------------
(* Properties.                                                              *)

\* Every column keeps its type; the columns of a row that does not exist are
\* those a fresh admission would write.
TypeOK ==
  /\ rows \subseteq Row
  /\ seq \in [Row -> Nat]
  /\ state \in [Row -> [Kind -> State]]
  /\ attempts \in [Row -> [Kind -> 0..MaxAttempts]]
  /\ backoff \in [Row -> [Kind -> BOOLEAN]]
  /\ lease \in [Row -> [Kind -> OwnerId \cup {None}]]
  /\ expired \in [Row -> [Kind -> BOOLEAN]]
  /\ added \in [Repo -> TenantName \cup {"notAdded"}]
  /\ turns \in [Kind -> SUBSET (TenantName \X TenantName)]
  /\ claims \subseteq Claim
  /\ foreign \subseteq OwnerId

\* A Full never waits for a Head that has failed: wherever a Head fails (fail
\* or the give-up pass of claim) its pending Full fails in the same
\* transaction, and a retry brings both back.  A Full left pending would hold
\* up every younger Full of its repository for good.
HeadFailureTakesFull ==
  \A r \in rows : state[r]["head"] = "failed" => state[r]["full"] # "pending"

\* A Full is leased or published only on top of a ready Head, and the Head
\* stays ready under it whatever the other callers do meanwhile (build_full
\* reads the Head of the row it claimed).
FullOnReadyHead ==
  \A r \in rows :
    (lease[r]["full"] # None \/ state[r]["full"] = "ready") => state[r]["head"] = "ready"

\* A repository holds at most one lease of each pool, also when leases expire,
\* claims are retried, purged or left behind by a dead process.
OneLeasePerRepo ==
  \A k \in Kind : \A q, r \in rows :
    q[1] = r[1] /\ LeaseHeld(q, k) /\ LeaseHeld(r, k) => q = r

\* builds_seq is a unique index: two rows never share an admission number,
\* although purges delete rows and MAX(seq) with them.
SeqUnique == \A q, r \in rows : seq[q] = seq[r] => q = r

\* The inductive strengthening the proofs use: besides the properties above,
\* live claims have owner strings of their own, none of them written by an
\* earlier open of the store, so a renewal never revives an expired foreign
\* lease.
StoreInv ==
  /\ HeadFailureTakesFull
  /\ FullOnReadyHead
  /\ OneLeasePerRepo
  /\ SeqUnique
  /\ \A c \in claims : c.owner \notin foreign
  /\ \A c, d \in claims : c.owner = d.owner => c = d

\* A ready output is never rewritten: only a purge removes it.
ReadyStays ==
  [][\A r \in rows \cap rows', k \in Kind :
       state[r][k] = "ready" => state'[r][k] = "ready"]_vars

\* The queue seen from outside, and the lifecycle it promises there.
Out == [r \in Row |-> IF r \in rows THEN state[r] ELSE Blank("absent")]
Lifecycle == INSTANCE BuildLifecycle WITH out <- Out

\* The store implements the lifecycle: with leases that expire, are lost and
\* taken over, attempts that run out and rows that are purged under a build,
\* every change of an output is one the lifecycle allows.
ImplementsLifecycle == Lifecycle!Spec
=============================================================================
