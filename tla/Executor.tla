------------------------------ MODULE Executor ------------------------------
(***************************************************************************)
(* execute_workflow_run of backend/app/executor.py: one run of a workflow. *)
(*                                                                         *)
(* The main thread (a daemon thread of the API or a scheduler thread)      *)
(* plans the layers, then decides, starts and collects them one by one; a  *)
(* worker thread per started task runs _run_task_with_retries.  One action *)
(* is the code from one commit to the next, or one event of a worker.  A   *)
(* poller and a restarted process see the committed rows only.             *)
(*                                                                         *)
(* The main thread's pc:                                                   *)
(*   begin, create, plan   before the first layer                          *)
(*   layer                 about to split the next layer, or to finish     *)
(*   resolve               run_if conditions and placeholders              *)
(*   pool                  inside the ThreadPoolExecutor block             *)
(*   drain                 an exception left that block: it waits for the  *)
(*                         workers, then re-raises                         *)
(*   notify, usage, report, mark  after the run's verdict is committed     *)
(*   returned, escaped, crashed   the ways out                             *)
(***************************************************************************)
EXTENDS TopoSort, Integers

CONSTANTS
  Conditional,  \* the tasks with a run_if expression
  Retries,      \* Task.retries: any integer, the schema has no bound
  Webhook,      \* the workflow has an on_failure_webhook
  Billed,       \* billing is enabled and the run's user has a subscription
  Faults        \* what may go wrong around the code, see the actions

ASSUME ConditionalAssumption == Conditional \subseteq Task
ASSUME RetriesAssumption == Retries \in [Task -> Int]
ASSUME FlagsAssumption == Webhook \in BOOLEAN /\ Billed \in BOOLEAN
ASSUME FaultsAssumption == Faults \subseteq {"runner_raises", "exception", "crash"}

VARIABLES
  \* the database
  run_status,          \* WorkflowRun.status
  task_status,         \* TaskRun.status, "absent" before the row exists
  task_attempt,        \* TaskRun.attempt
  usage,               \* UsageRecord of the run: "none", "recorded" or "reported"
  \* the outside world
  notified,            \* the failed_tasks of every webhook payload sent
  stripe,              \* Stripe has the run's usage, under the run's id
  \* the main thread
  main,                \* its pc
  layer_no,            \* the layer of the for loop
  runnable,            \* local list: tasks of the layer that may still run
  failed_keys,         \* local set: failed or upstream_failed
  blocking_keys,       \* local set: failed_keys and the skipped
  \* the workers
  worker,              \* what each task's thread is doing
  attempt              \* the attempt it is at

dbVars == <<run_status, task_status, task_attempt, usage>>
worldVars == <<notified, stripe>>
mainVars == <<main, layer_no, runnable, failed_keys, blocking_keys>>
workerVars == <<worker, attempt>>
vars == <<topoVars, dbVars, worldVars, mainVars, workerVars>>

(* attempts = max(1, task.retries + 1) *)
MaxAttempts(t) == IF Retries[t] + 1 > 1 THEN Retries[t] + 1 ELSE 1

Ended == {"returned", "escaped", "crashed"}

Busy(t) == worker[t] \in {"running", "sleeping"}
-----------------------------------------------------------------------------
Init ==
  /\ TopoInit
  /\ run_status = "pending"
  /\ task_status = [t \in Task |-> "absent"]
  /\ task_attempt = [t \in Task |-> 0]
  /\ usage = "none"
  /\ notified = {}
  /\ stripe = FALSE
  /\ main = "begin"
  /\ layer_no = 1
  /\ runnable = {}
  /\ failed_keys = {}
  /\ blocking_keys = {}
  /\ worker = [t \in Task |-> "idle"]
  /\ attempt = [t \in Task |-> 0]

Begin ==
  /\ main = "begin"
  /\ run_status' = "running"
  /\ main' = "create"
  /\ UNCHANGED <<topoVars, task_status, task_attempt, usage, worldVars, layer_no,
                 runnable, failed_keys, blocking_keys, workerVars>>

CreateTaskRuns ==
  /\ main = "create"
  /\ task_status' = [t \in Task |-> "pending"]
  /\ main' = "plan"
  /\ UNCHANGED <<topoVars, run_status, task_attempt, usage, worldVars, layer_no,
                 runnable, failed_keys, blocking_keys, workerVars>>

(* A step of topological_layers. *)
Plan ==
  /\ main = "plan"
  /\ TopoNext
  /\ UNCHANGED <<dbVars, worldVars, mainVars, workerVars>>

PlanLayered ==
  /\ main = "plan"
  /\ phase = "layered"
  /\ main' = "layer"
  /\ UNCHANGED <<topoVars, dbVars, worldVars, layer_no, runnable, failed_keys,
                 blocking_keys, workerVars>>

(* Mutant: the CycleError of a run is swallowed. *)
SwallowCycle ==
  /\ main = "plan"
  /\ phase = "CycleError"
  /\ main' = "returned"
  /\ UNCHANGED <<topoVars, dbVars, worldVars, layer_no, runnable, failed_keys,
                 blocking_keys, workerVars>>

(* except CycleError: the run is failed and nothing else happens. *)
PlanCyclic ==
  /\ main = "plan"
  /\ phase = "CycleError"
  /\ run_status' = "failed"
  /\ main' = "returned"
  /\ UNCHANGED <<topoVars, task_status, task_attempt, usage, worldVars, layer_no,
                 runnable, failed_keys, blocking_keys, workerVars>>

(* The ValueError of an unknown dependency is not caught. *)
PlanUnknown ==
  /\ main = "plan"
  /\ phase = "ValueError"
  /\ main' = "escaped"
  /\ UNCHANGED <<topoVars, dbVars, worldVars, layer_no, runnable, failed_keys,
                 blocking_keys, workerVars>>
-----------------------------------------------------------------------------
(* Mutant: a skipped dependency lets its dependents through. *)
ClearOfFailures(layer) == {t \in layer : Upstream(t) \cap failed_keys = {}}

Clear(layer) == {t \in layer : Upstream(t) \cap blocking_keys = {}}

(* Mutant: only a dependency that failed itself dooms a task. *)
DoomedDirectly(layer) == {t \in layer : \E u \in Upstream(t) : task_status[u] = "failed"}

Doomed(layer) == {t \in layer : Upstream(t) \cap failed_keys # {}}

(* The tasks of the layer that wait for a blocking task are settled without
   being run. *)
BlockLayer ==
  /\ main = "layer"
  /\ layer_no <= Len(layers)
  /\ LET layer == layers[layer_no]
         clear == Clear(layer)
         doomed == Doomed(layer)
     IN  /\ runnable' = clear
         /\ task_status' = [t \in Task |->
              IF t \in layer \ clear
                THEN IF t \in doomed THEN "upstream_failed" ELSE "skipped"
                ELSE task_status[t]]
         /\ failed_keys' = failed_keys \cup (doomed \ clear)
         /\ blocking_keys' = blocking_keys \cup (layer \ clear)
         /\ IF clear = {}
              THEN main' = "layer" /\ layer_no' = layer_no + 1
              ELSE main' = "resolve" /\ layer_no' = layer_no
  /\ UNCHANGED <<topoVars, run_status, task_attempt, usage, worldVars, workerVars>>

(* Each runnable task in turn: a falsy run_if skips it, a secret, a table or a
   task value that does not resolve (ValueError) fails it unattempted, and the
   rest is submitted to a pool with a thread for each. *)
ResolveLayer(skipped, unresolved) ==
  /\ main = "resolve"
  /\ skipped \subseteq runnable \cap Conditional
  /\ unresolved \subseteq runnable \ skipped
  /\ LET resolved == runnable \ (skipped \cup unresolved)
     IN  /\ task_status' = [t \in Task |->
              CASE t \in skipped -> "skipped"
                [] t \in unresolved -> "failed"
                [] OTHER -> task_status[t]]
         /\ failed_keys' = failed_keys \cup unresolved
         /\ blocking_keys' = blocking_keys \cup skipped \cup unresolved
         /\ runnable' = resolved
         /\ worker' = [t \in Task |-> IF t \in resolved THEN "running" ELSE worker[t]]
         /\ attempt' = [t \in Task |-> IF t \in resolved THEN 1 ELSE attempt[t]]
  /\ main' = "pool"
  /\ UNCHANGED <<topoVars, run_status, task_attempt, usage, worldVars, layer_no>>
-----------------------------------------------------------------------------
(* The worker of task t: _run_task_with_retries. *)
WorkerStep(t, from, to) ==
  /\ worker[t] = from
  /\ worker' = [worker EXCEPT ![t] = to]
  /\ UNCHANGED <<topoVars, dbVars, worldVars, mainVars>>

RunnerSucceeds(t) == WorkerStep(t, "running", "succeeded") /\ UNCHANGED attempt

(* Mutant: the last attempt is never made. *)
OneAttemptShort(t) == IF attempt[t] + 1 < MaxAttempts(t) THEN "sleeping" ELSE "gave_up"

AfterFailure(t) == IF attempt[t] < MaxAttempts(t) THEN "sleeping" ELSE "gave_up"

(* The runner reports failure, a timeout included. *)
RunnerFails(t) == WorkerStep(t, "running", AfterFailure(t)) /\ UNCHANGED attempt

(* Mutant: attempts are not counted. *)
RetryForever(t) == WorkerStep(t, "sleeping", "running") /\ UNCHANGED attempt

Retry(t) ==
  /\ WorkerStep(t, "sleeping", "running")
  /\ attempt' = [attempt EXCEPT ![t] = @ + 1]

(* An exception leaves the runner: sys.exit() in a python task, a parameter
   that json.dumps refuses, /jobs not writable, papermill missing. *)
RunnerRaises(t) ==
  /\ "runner_raises" \in Faults
  /\ WorkerStep(t, "running", "raised")
  /\ UNCHANGED attempt
-----------------------------------------------------------------------------
(* Mutant: a failure does not block. *)
CollectUnblocking(t) ==
  /\ main = "pool"
  /\ worker[t] \in {"succeeded", "gave_up"}
  /\ LET success == worker[t] = "succeeded"
     IN  /\ task_status' = [task_status EXCEPT ![t] = IF success THEN "success" ELSE "failed"]
         /\ failed_keys' = IF success THEN failed_keys ELSE failed_keys \cup {t}
  /\ task_attempt' = [task_attempt EXCEPT ![t] = attempt[t]]
  /\ worker' = [worker EXCEPT ![t] = "collected"]
  /\ UNCHANGED <<topoVars, run_status, usage, worldVars, main, layer_no, runnable,
                 blocking_keys, attempt>>

(* as_completed hands over a finished future, in any order. *)
Collect(t) ==
  /\ main = "pool"
  /\ worker[t] \in {"succeeded", "gave_up"}
  /\ LET success == worker[t] = "succeeded"
     IN  /\ task_status' = [task_status EXCEPT ![t] = IF success THEN "success" ELSE "failed"]
         /\ failed_keys' = IF success THEN failed_keys ELSE failed_keys \cup {t}
         /\ blocking_keys' = IF success THEN blocking_keys ELSE blocking_keys \cup {t}
  /\ task_attempt' = [task_attempt EXCEPT ![t] = attempt[t]]
  /\ worker' = [worker EXCEPT ![t] = "collected"]
  /\ UNCHANGED <<topoVars, run_status, usage, worldVars, main, layer_no, runnable, attempt>>

(* fut.result() re-raises what the runner raised. *)
CollectRaised(t) ==
  /\ main = "pool"
  /\ worker[t] = "raised"
  /\ main' = "drain"
  /\ UNCHANGED <<topoVars, dbVars, worldVars, layer_no, runnable, failed_keys,
                 blocking_keys, workerVars>>

(* Mutant: the first result ends the layer. *)
FirstCollected == runnable = {} \/ \E t \in runnable : worker[t] = "collected"

AllCollected == \A t \in runnable : worker[t] = "collected"

LayerDone ==
  /\ main = "pool"
  /\ AllCollected
  /\ main' = "layer"
  /\ layer_no' = layer_no + 1
  /\ UNCHANGED <<topoVars, dbVars, worldVars, runnable, failed_keys, blocking_keys,
                 workerVars>>

(* Mutant: the pool is left without waiting. *)
PoolAbandoned == main = "drain"

PoolIdle == \A t \in Task : ~Busy(t)

(* The pool's __exit__ has waited for every worker: the exception goes on. *)
Drained ==
  /\ main = "drain"
  /\ PoolIdle
  /\ main' = "escaped"
  /\ UNCHANGED <<topoVars, dbVars, worldVars, layer_no, runnable, failed_keys,
                 blocking_keys, workerVars>>
-----------------------------------------------------------------------------
(* Mutant: the run takes over the worst status of its tasks. *)
WorstStatus ==
  CASE \E t \in Task : task_status[t] = "upstream_failed" -> "upstream_failed"
    [] failed_keys # {} -> "failed"
    [] OTHER -> "success"

Verdict == IF failed_keys # {} THEN "failed" ELSE "success"

FinishRun ==
  /\ main = "layer"
  /\ layer_no > Len(layers)
  /\ run_status' = Verdict
  /\ main' = IF failed_keys # {} /\ Webhook THEN "notify" ELSE "usage"
  /\ UNCHANGED <<topoVars, task_status, task_attempt, usage, worldVars, layer_no,
                 runnable, failed_keys, blocking_keys, workerVars>>

(* Mutant: the skipped tasks are reported as failed. *)
BlockedTasks == blocking_keys

(* The failed_tasks of the payload. *)
FailedTasks == failed_keys

NotifyFailure ==
  /\ main = "notify"
  /\ notified' = notified \cup {FailedTasks}
  /\ main' = "usage"
  /\ UNCHANGED <<topoVars, dbVars, stripe, layer_no, runnable, failed_keys,
                 blocking_keys, workerVars>>

RecordUsage ==
  /\ main = "usage"
  /\ usage' = "recorded"
  /\ main' = IF Billed THEN "report" ELSE "returned"
  /\ UNCHANGED <<topoVars, run_status, task_status, task_attempt, worldVars, layer_no,
                 runnable, failed_keys, blocking_keys, workerVars>>

(* The run's id goes along as the idempotency key: a report that was made already
   changes nothing. *)
ReportUsage ==
  /\ main = "report"
  /\ stripe' = TRUE
  /\ main' = "mark"
  /\ UNCHANGED <<topoVars, dbVars, notified, layer_no, runnable, failed_keys,
                 blocking_keys, workerVars>>

MarkReported ==
  /\ main = "mark"
  /\ usage' = "reported"
  /\ main' = "returned"
  /\ UNCHANGED <<topoVars, run_status, task_status, task_attempt, worldVars, layer_no,
                 runnable, failed_keys, blocking_keys, workerVars>>
-----------------------------------------------------------------------------
(* A query, a commit or the refresh of an expired row raises (the database is
   away, the workflow was deleted, an output JSON cannot hold).  Inside the
   pool block the workers are waited for; the usage code swallows it. *)
MainRaises ==
  /\ "exception" \in Faults
  /\ main \notin Ended \cup {"drain"}
  /\ main' = CASE main = "pool" -> "drain"
               [] main \in {"usage", "report", "mark"} -> "returned"
               [] OTHER -> "escaped"
  /\ UNCHANGED <<topoVars, dbVars, worldVars, layer_no, runnable, failed_keys,
                 blocking_keys, workerVars>>

(* The process dies: every thread with it, nothing of the database.  No code
   picks a run up again when the process restarts. *)
Crash ==
  /\ "crash" \in Faults
  /\ main \notin Ended
  /\ main' = "crashed"
  /\ worker' = [t \in Task |-> "killed"]
  /\ UNCHANGED <<topoVars, dbVars, worldVars, layer_no, runnable, failed_keys,
                 blocking_keys, attempt>>
-----------------------------------------------------------------------------
MainStep ==
  \/ Begin
  \/ CreateTaskRuns
  \/ Plan
  \/ PlanLayered
  \/ PlanCyclic
  \/ PlanUnknown
  \/ BlockLayer
  \/ \E skipped, unresolved \in SUBSET Task : ResolveLayer(skipped, unresolved)
  \/ \E t \in Task : Collect(t)
  \/ \E t \in Task : CollectRaised(t)
  \/ LayerDone
  \/ Drained
  \/ FinishRun
  \/ NotifyFailure
  \/ RecordUsage
  \/ ReportUsage
  \/ MarkReported

Work(t) == RunnerSucceeds(t) \/ RunnerFails(t) \/ Retry(t) \/ RunnerRaises(t)

Fault == MainRaises \/ Crash

(* The threads are gone; the rows stay as they are. *)
Terminated == main \in Ended /\ UNCHANGED vars

Next == MainStep \/ (\E t \in Task : Work(t)) \/ Fault \/ Terminated

(* The threads run: each does its next step if it has one.  A runner comes back
   because a timeout ends it (python tasks, which have none, are taken to end).
   Nothing makes a fault happen. *)
Fairness == WF_vars(MainStep) /\ \A t \in Task : WF_vars(Work(t))

Spec == Init /\ [][Next]_vars

FairSpec == Spec /\ Fairness
-----------------------------------------------------------------------------
RunStatus == {"pending", "running", "success", "failed"}
TaskStatus == {"absent", "pending", "success", "failed", "skipped", "upstream_failed"}
Bad == {"failed", "upstream_failed"}
Settled == {"success", "failed", "skipped", "upstream_failed"}
Concluded == run_status \in {"success", "failed"}

TypeOK ==
  /\ TopoTypeOK
  /\ run_status \in RunStatus
  /\ task_status \in [Task -> TaskStatus]
  /\ task_attempt \in [Task -> Nat]
  /\ usage \in {"none", "recorded", "reported"}
  /\ notified \in SUBSET SUBSET Task
  /\ stripe \in BOOLEAN
  /\ main \in {"begin", "create", "plan", "layer", "resolve", "pool", "drain", "notify",
                "usage", "report", "mark"} \cup Ended
  /\ layer_no \in Nat \ {0}
  /\ runnable \in SUBSET Task
  /\ failed_keys \in SUBSET Task
  /\ blocking_keys \in SUBSET Task
  /\ worker \in [Task -> {"idle", "running", "sleeping", "succeeded", "gave_up", "raised",
                         "collected", "killed"}]
  /\ attempt \in [Task -> Nat]

(* A task is started, and its run_if read, only when every task it waits for has
   a committed success: no failure, skip, unfinished sibling or duplicate entry
   lets it through (lines 113 and 134-136; INTEGRATION.md:274). *)
StartedAfterSuccess ==
  \A t \in Task : t \in runnable \/ attempt[t] > 0 =>
    \A d \in Upstream(t) : task_status[d] = "success"

(* The local sets the loop decides by say what the committed rows say, whatever
   order the futures came in (lines 107-109 against 116-126, 138-159, 170-178). *)
MemoryMatchesRows ==
  main \in {"layer", "resolve", "pool", "drain", "notify", "usage"} =>
    /\ failed_keys = {t \in Task : task_status[t] \in Bad}
    /\ blocking_keys = {t \in Task : task_status[t] \in Bad \cup {"skipped"}}

(* The tasks t waits for, directly or through others. *)
Ancestors(t) ==
  {a \in Task : \A S \in SUBSET Task :
     Upstream(t) \subseteq S /\ (\A s \in S : Upstream(s) \subseteq S) => a \in S}

(* Once a run has its verdict, exactly the tasks below a failure, however far,
   are upstream_failed, and a skip without a run_if of its own comes from a skip
   above it and from no failure (lines 7-11; INTEGRATION.md:52-53 and 274). *)
PropagationExact ==
  Concluded /\ phase = "layered" =>
    \A t \in Task :
      LET above == {task_status[a] : a \in Ancestors(t)}
      IN  /\ task_status[t] = "upstream_failed" <=> "failed" \in above
          /\ task_status[t] = "skipped" =>
               above \cap Bad = {} /\ (t \in Conditional \/ "skipped" \in above)

(* The verdict of a run says what its tasks did: success only when every task
   succeeded or was skipped, failed only for a task or a cycle (lines 99-105 and
   180; INTEGRATION.md:275-276). *)
VerdictMatchesTasks ==
  /\ run_status = "success" => \A t \in Task : task_status[t] \in {"success", "skipped"}
  /\ run_status = "failed" =>
       \/ Cyclic /\ \A t \in Task : task_status[t] = "pending"
       \/ /\ \E t \in Task : task_status[t] = "failed"
          /\ \A t \in Task : task_status[t] \in Settled

(* A failed task had either all of its attempts or none, never some of them: an
   interrupted retry loop is not recorded as a failure (lines 152-159 and
   253-263). *)
AttemptsAccounted ==
  \A t \in Task :
    /\ task_status[t] = "failed" => task_attempt[t] \in {0, MaxAttempts(t)}
    /\ task_status[t] = "success" => task_attempt[t] \in 1 .. MaxAttempts(t)

(* Whatever raises where, the thread of a run is gone only after its workers:
   no task of a run goes on behind it (the with block of lines 162-178). *)
NoOrphanWorker == main \in Ended => \A t \in Task : ~Busy(t)

(* The webhook speaks of a run whose failure is committed, and names exactly the
   tasks whose rows say failed or upstream_failed (lines 180-185, 228-237). *)
NotificationTrue ==
  \A payload \in notified :
    run_status = "failed" /\ payload = {t \in Task : task_status[t] \in Bad}

(* What a poller has seen settled never changes, neither a task nor the run. *)
VerdictsStay ==
  [][/\ \A t \in Task : task_status[t] \in Settled => task_status'[t] = task_status[t]
     /\ Concluded => run_status' = run_status]_vars

(* The rows of the run are written as WorkflowRun promises. *)
Promise == INSTANCE WorkflowRun WITH
  depends_on <- depends_on, run_status <- run_status, task_status <- task_status
ImplementsPromise == Promise!Spec

(* A run that began gets its verdict, unless an exception of those the code lets
   through leaves its thread: no cycle, empty layer, skip or retry makes it hang. *)
RunConcludes == run_status = "running" ~> Concluded \/ main \in {"escaped", "crashed"}

(* Whatever raises, the thread of the run ends: nobody waits for anybody. *)
ThreadEnds == <>(main \in Ended)
-----------------------------------------------------------------------------
(* What the documents say and the code does not do.                        *)

(* INTEGRATION.md:64: "Your system polls ... until status is success or failed".
   An exception that leaves the thread, the ValueError of an unknown dependency
   (line 47) or what a runner raises (line 169), leaves the run running for ever. *)
PollEnds == run_status = "running" ~> Concluded
=============================================================================
