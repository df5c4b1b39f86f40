--------------------------- MODULE MCRefsRefresh ----------------------------
(***************************************************************************)
(* RefsRefresh with webhooks, and with the poller and a Full that waits for *)
(* the first refs; part says which.                                         *)
(***************************************************************************)
EXTENDS RefsRefresh

VARIABLE part

AtRest == IF part = "webhooks" THEN Poller \cup FullBuild ELSE Refresher

RefsInit == Init /\ part \in {"webhooks", "polling"}

RefsNext == UNCHANGED part /\ Next /\ \A p \in AtRest : pc'[p] = pc[p]

RefsSpec ==
  /\ RefsInit /\ [][RefsNext]_<<part, refsVars>>
  /\ TaskFairness
  /\ \A p \in Poller : WF_<<part, refsVars>>(part = "polling" /\ Poll(p) /\ UNCHANGED part)

\* After every request of a webhook a pass fetches what upstream had, while no
\* Full waits.  A Full that waits for the first refs goes on, and with polling
\* on what upstream has is published in the end.
RefsServed ==
  /\ part = "webhooks" => EveryRequestServed
  /\ part = "polling" => FullsGoOn /\ RefsCatchUp
=============================================================================
