---------------------------- MODULE ExecutorInv ----------------------------
(***************************************************************************)
(* The inductive invariant of Executor: what its loop keeps true between   *)
(* two steps, in named parts.  ExecutorProofs proves that it holds.        *)
(***************************************************************************)
EXTENDS Executor

Planning == {"begin", "create", "plan"}
Looping == {"layer", "resolve", "pool", "drain"}
Concluding == {"notify", "usage", "report", "mark"}

(* The layers the for loop has left behind. *)
Before == UNION {layers[i] : i \in 1 .. (layer_no - 1)}

(* The tasks that have their final status: those of earlier layers, and those
   of the current one that are not waiting for a worker. *)
Decided ==
  IF main = "layer" THEN Before
  ELSE Before \cup {t \in layers[layer_no] : t \notin runnable \/ worker[t] = "collected"}

PlanningInv ==
  main \in Planning =>
    /\ layer_no = 1 /\ runnable = {} /\ failed_keys = {} /\ blocking_keys = {}
    /\ \A t \in Task :
         /\ worker[t] = "idle" /\ attempt[t] = 0
         /\ task_status[t] = (IF main = "plan" THEN "pending" ELSE "absent")

LoopInv ==
  /\ main \in Looping \cup Concluding => phase = "layered"
  /\ main \in {"resolve", "pool", "drain"} =>
       layer_no <= Len(layers) /\ runnable \subseteq layers[layer_no]
  /\ main \in Looping => \A t \in Task :
       task_status[t] \in (IF t \in Decided THEN Settled ELSE {"pending"})

(* Only tasks of the current layer have a live worker. *)
WorkerInv ==
  \A t \in Task :
    /\ main \in {"layer", "resolve"} =>
         worker[t] = "idle" \/ (worker[t] = "collected" /\ t \in Before)
    /\ main \in {"pool", "drain"} =>
         \/ /\ worker[t] = "idle"
            /\ t \notin runnable
         \/ /\ worker[t] = "collected"
            /\ t \in Before \cup runnable
         \/ /\ worker[t] \in {"running", "sleeping", "succeeded", "gave_up", "raised"}
            /\ t \in runnable
    /\ main \in Concluding \cup Ended => ~Busy(t)

AttemptInv ==
  \A t \in Task :
    /\ task_status[t] \notin {"success", "failed"} => task_attempt[t] = 0
    /\ worker[t] \in {"running", "sleeping", "succeeded", "gave_up", "raised", "collected"} =>
         attempt[t] \in 1 .. MaxAttempts(t)
    /\ worker[t] = "gave_up" => attempt[t] = MaxAttempts(t)
    /\ worker[t] = "sleeping" => attempt[t] < MaxAttempts(t)

(* failed_keys never holds a consequence without a cause. *)
CauseInv ==
  /\ main \in Planning \cup Looping => ~Concluded
  /\ main \in Looping /\ failed_keys # {} => \E t \in Task : task_status[t] = "failed"
  /\ main \in Concluding => Concluded
  /\ main = "notify" => run_status = "failed"

AfterwardsInv ==
  /\ main \in Planning \cup Looping => usage = "none" /\ ~stripe /\ notified = {}
  /\ main \in {"notify", "usage"} => usage = "none" /\ ~stripe
  /\ main = "report" => usage = "recorded" /\ ~stripe
  /\ main = "mark" => usage = "recorded" /\ stripe

(* What each settled task's status says of the tasks right above it: the step of
   PropagationExact, whose last step is that no set of tasks waits in a circle. *)
RuleInv ==
  \A t \in Task : task_status[t] \in Settled =>
    /\ \A d \in Upstream(t) : task_status[d] \in Settled
    /\ task_status[t] = "upstream_failed" <=> \E d \in Upstream(t) : task_status[d] \in Bad
    /\ task_status[t] \in {"success", "failed"} =>
         \A d \in Upstream(t) : task_status[d] = "success"
    /\ task_status[t] = "skipped" =>
         t \in Conditional \/ \E d \in Upstream(t) : task_status[d] = "skipped"

IInv ==
  /\ TypeOK
  /\ TopoInv
  /\ PlanningInv
  /\ LoopInv
  /\ WorkerInv
  /\ AttemptInv
  /\ CauseInv
  /\ AfterwardsInv
  /\ StartedAfterSuccess
  /\ MemoryMatchesRows
  /\ VerdictMatchesTasks
  /\ AttemptsAccounted
  /\ NotificationTrue
=============================================================================
