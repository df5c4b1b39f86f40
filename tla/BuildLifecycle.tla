--------------------------- MODULE BuildLifecycle ---------------------------
(***************************************************************************)
(* What the control store does for whoever admits a commit, without leases, *)
(* attempts, retry times, owners or turns: each output of an admitted       *)
(* commit is pending until it is ready or failed; a Full is ready only with *)
(* its Head; a failed Head fails the pending Full and leaves Files alone;   *)
(* only a retry brings a failed output back and only a purge takes a ready  *)
(* one away.  This is the lifecycle of the code and of the suite every      *)
(* store must pass (rust/src/control/conformance.rs).  The documentation of *)
(* the trait agrees but for Files, which it says fail with their Head       *)
(* (rust/src/control/mod.rs:352): that is not what the code does, and this  *)
(* specification does not say it.                                           *)
(***************************************************************************)
CONSTANTS Repo, Commit

Kind == {"head", "files", "full"}

VARIABLE out  \* out[<<repo, commit>>][kind]

Row == Repo \X Commit

All(v) == [k \in Kind |-> v]

Admitted(r) == out[r] # All("absent")

Admit(r) ==
  /\ ~Admitted(r)
  /\ out' = [out EXCEPT ![r] = All("pending")]

Retry(r) ==
  /\ \E k \in Kind : out[r][k] = "failed"
  /\ out' = [out EXCEPT ![r] =
       [k \in Kind |-> IF out[r][k] = "failed" THEN "pending" ELSE out[r][k]]]

Ready(r, k) ==
  /\ out[r][k] = "pending"
  /\ k = "full" => out[r]["head"] = "ready"
  /\ out' = [out EXCEPT ![r][k] = "ready"]

\* Output k of the rows of S fails; one transaction may fail several.
Failed(S, k) ==
  /\ \A r \in S : out[r][k] = "pending"
  /\ out' = [r \in Row |->
       IF r \in S
       THEN [j \in Kind |-> IF j = k \/ (k = "head" /\ j = "full" /\ out[r][j] = "pending")
                            THEN "failed" ELSE out[r][j]]
       ELSE out[r]]

Purge(p) == out' = [r \in Row |-> IF r[1] = p THEN All("absent") ELSE out[r]]

Init == out = [r \in Row |-> All("absent")]

Next ==
  \/ \E r \in Row : Admit(r) \/ Retry(r)
  \/ \E r \in Row, k \in Kind : Ready(r, k)
  \/ \E S \in SUBSET Row, k \in Kind : Failed(S, k)
  \/ \E p \in Repo : Purge(p)

Spec == Init /\ [][Next]_out
=============================================================================
