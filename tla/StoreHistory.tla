---------------------------- MODULE StoreHistory ----------------------------
(***************************************************************************)
(* ControlStore with history variables, for the promises about the past of  *)
(* a behaviour: owners take turns in a pool, and a build that was overtaken *)
(* changes nothing any more.                                                *)
(***************************************************************************)
EXTENDS ControlStore

VARIABLES
  passed,    \* passed[k]: <<t, u>> when u has waited in pool k ever since t's last turn
  overtaken  \* live claims whose row was purged, or whose output was granted again

historyVars == <<vars, passed, overtaken>>

\* The owners pool k could serve now.
Waiting(k) == {TenantOf(r[1]) : r \in Candidates(state, k)}

\* A turn of t starts the wait of everybody else and ends t's own.
AfterTurn(k, t) ==
  {p \in passed[k] : t \notin {p[1], p[2]}} \cup {<<t, u>> : u \in TenantName \ {t}}

\* What every step does to the waits: an owner with nothing to claim is not
\* waiting any more.
Recorded(f) == passed' = [k \in Kind |-> {p \in f[k] : p[2] \in Waiting(k)'}]

\* The claims of the outputs O are overtaken; a claim that is gone is forgotten.
Overtaking(O) ==
  overtaken' = (overtaken \cup {c \in claims : <<c.row, c.kind>> \in O}) \cap claims'

HistoryInit ==
  /\ Init
  /\ passed = [k \in Kind |-> {}]
  /\ overtaken = {}

HistoryAdmit ==
  \E r \in Row, n \in 1..MaxSeq :
    /\ Admit(r, n)
    /\ Recorded(passed)
    /\ Overtaking({})

HistoryClaim ==
  \E k \in Pools, r \in Row, o \in OwnerId :
    /\ ClaimRow(k, r, o)
    /\ Recorded([passed EXCEPT ![k] = AfterTurn(k, TenantOf(r[1]))])
    /\ Overtaking({<<r, k>>})

HistoryPurge ==
  \E p \in Repo :
    /\ PurgeRepo(p)
    /\ Recorded(passed)
    /\ Overtaking(RowsOf(p) \X Kind)

\* Every other step of ControlStore.
HistoryOther ==
  /\ \/ \E r \in Row : Retry(r)
     \/ \E k \in Pools : ClaimNothing(k)
     \/ \E c \in claims : ClaimStep(c)
     \/ \E p \in Repo, t \in TenantName : AddRepo(p, t)
     \/ \E p \in Repo : RemoveRepo(p)
     \/ Reopen
     \/ ResetLeases
     \/ \E r \in Row, k \in Kind : LeaseExpires(r, k)
     \/ \E r \in Row, k \in Kind : BackoffElapses(r, k)
  /\ Recorded(passed)
  /\ Overtaking({})

HistoryNext == HistoryAdmit \/ HistoryClaim \/ HistoryPurge \/ HistoryOther

HistorySpec == HistoryInit /\ [][HistoryNext]_historyVars

-----------------------------------------------------------------------------
(* Properties.                                                              *)

\* Owners take turns: a claim never serves an owner for the second time while
\* another owner has had claimable work in that pool ever since its first.
\* One owner's many repositories cannot keep another owner waiting, whatever
\* is admitted, retried, purged or moved to another owner meanwhile.
TurnsTaken ==
  [][\A k \in Pools, r \in Row, o \in OwnerId :
       ClaimRow(k, r, o) => \A u \in TenantName : <<TenantOf(r[1]), u>> \notin passed[k]]_historyVars

\* A build that was overtaken changes nothing: whatever call it still makes,
\* late or twice, the rows stay as they are.  Its output may have been released
\* and claimed by another slot, or its repository purged, admitted again and
\* be building anew under the same commit and kind: the call must not settle
\* or release that other build.
OvertakenWriteNothing ==
  [][\A c \in overtaken : ClaimStep(c) => UNCHANGED buildVars]_historyVars

\* The inductive reason: whoever waits since t's turn comes before t in the
\* pool, and the recorded turns never put two owners before each other.
TurnsInv ==
  \A k \in Kind :
    /\ \A p \in passed[k] : p[2] \in Waiting(k) /\ <<p[2], p[1]>> \in turns[k]
    /\ \A p \in turns[k] : p[1] # p[2] /\ <<p[2], p[1]>> \notin turns[k]

\* The inductive reason: an overtaken claim's owner string is in its row no
\* more, and cannot come back while the claim lives.
OvertakenInv ==
  /\ overtaken \subseteq claims
  /\ \A c \in overtaken : lease[c.row][c.kind] # c.owner
=============================================================================
