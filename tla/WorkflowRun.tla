---------------------------- MODULE WorkflowRun ----------------------------
(***************************************************************************)
(* What one run of a workflow promises to whoever polls GET                *)
(* /api/runs/{id}: the statuses of the run and of its TaskRun rows as the  *)
(* database shows them (models.RunStatus), whatever threads, retries and   *)
(* layers produce them.  Executor implements it.  A run may stop anywhere: *)
(* nothing here says that it ends.                                         *)
(***************************************************************************)
EXTENDS Naturals, Sequences

CONSTANTS
  Task,   \* the keys of the workflow's tasks
  Graphs  \* the depends_on columns a workflow may be stored with

VARIABLES
  depends_on,   \* the depends_on column of every task
  run_status,   \* WorkflowRun.status
  task_status   \* TaskRun.status of every task; "absent" before the row exists

runVars == <<depends_on, run_status, task_status>>

Ran == {"success", "failed"}
Bad == {"failed", "upstream_failed"}
Settled == Ran \cup {"skipped", "upstream_failed"}

(* The tasks t waits for; a key that is no task of the workflow is none. *)
Waits(t) == {d \in Task : \E i \in DOMAIN depends_on[t] : depends_on[t][i] = d}

Init ==
  /\ depends_on \in Graphs
  /\ run_status = "pending"
  /\ task_status = [t \in Task |-> "absent"]

Begin ==
  /\ run_status = "pending"
  /\ run_status' = "running"
  /\ UNCHANGED <<depends_on, task_status>>

CreateRows ==
  /\ run_status = "running"
  /\ task_status = [t \in Task |-> "absent"]
  /\ task_status' = [t \in Task |-> "pending"]
  /\ UNCHANGED <<depends_on, run_status>>

(* The verdict a pending task may get once all it waits for is settled: it runs
   only after successes, a failure above it always marks it upstream_failed,
   and a skip above it skips it. *)
Allowed(t, verdict) ==
  LET above == {task_status[d] : d \in Waits(t)}
  IN  /\ above \subseteq Settled
      /\ verdict = "upstream_failed" <=> above \cap Bad # {}
      /\ verdict \in Ran => above \subseteq {"success"}

(* One commit settles some of the pending tasks. *)
Settle ==
  /\ run_status = "running"
  /\ task_status' \in [Task -> {"pending"} \cup Settled]
  /\ \A t \in Task : task_status'[t] # task_status[t] =>
       task_status[t] = "pending" /\ Allowed(t, task_status'[t])
  /\ UNCHANGED <<depends_on, run_status>>

(* Every task is settled: the run has failed if one of them has. *)
Conclude ==
  /\ run_status = "running"
  /\ \A t \in Task : task_status[t] \in Settled
  /\ run_status' = IF \E t \in Task : task_status[t] \in Bad
                     THEN "failed" ELSE "success"
  /\ UNCHANGED <<depends_on, task_status>>

(* A workflow whose tasks wait for one another fails before any of them runs. *)
Refuse ==
  /\ run_status = "running"
  /\ \A t \in Task : task_status[t] = "pending"
  /\ \E S \in SUBSET Task : S # {} /\ \A t \in S : Waits(t) \cap S # {}
  /\ run_status' = "failed"
  /\ UNCHANGED <<depends_on, task_status>>

Next ==
  \/ Begin
  \/ CreateRows
  \/ Settle
  \/ Conclude
  \/ Refuse

Spec == Init /\ [][Next]_runVars
=============================================================================
