---------------------------- MODULE JobLifecycle ----------------------------
(***************************************************************************)
(* What the states of job_state promise (model.thrift, e_job_state): in    *)
(* each planning a job waits, is run once, and has succeeded or failed.    *)
(***************************************************************************)
CONSTANTS Plannings, Job

VARIABLE state    \* state[p][j]: job_state of row j, "none" without a row

Init == state = [p \in Plannings |-> [j \in Job |-> "none"]]

Move(p, j, from, to) ==
  /\ state[p][j] = from
  /\ state' = [state EXCEPT ![p][j] = to]

Prepare(p, j) == Move(p, j, "none", "waiting")
Start(p, j)   == Move(p, j, "waiting", "running")
Succeed(p, j) == Move(p, j, "running", "succeded")
Fail(p, j)    == Move(p, j, "running", "failed")

Next ==
  \E p \in Plannings, j \in Job :
    Prepare(p, j) \/ Start(p, j) \/ Succeed(p, j) \/ Fail(p, j)

Spec == Init /\ [][Next]_state
=============================================================================
