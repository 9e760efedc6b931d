----------------------------- MODULE Autoscaler -----------------------------
(***************************************************************************)
(* The autoscaler (backend/app/autoscaler.py 57-139) of each backend on one *)
(* Docker host, and the count of Spark tasks it goes by (task_runners.py    *)
(* 33-40, 114-125).  Docker lists containers newest first, and refuses a    *)
(* name that is taken.                                                      *)
(***************************************************************************)
EXTENDS Integers, Sequences, FiniteSets

CONSTANTS
  Process,     \* backends
  MinWorkers,  \* MIN_EXTRA_WORKERS
  MaxWorkers,  \* MAX_EXTRA_WORKERS
  MaxTasks,    \* bound of the Spark tasks of a backend
  Faults       \* "docker": a call of Docker fails; "removed": someone removes a worker

VARIABLES
  workers,     \* the numbers in the names of the workers, newest first
  tasks,       \* running_spark_task_count of each backend
  controller   \* where the loop of each backend is

vars == <<workers, tasks, controller>>

Names == 0 .. MaxWorkers - 1
Asleep == [at |-> "sleep"]
At(pc, target, todo) == [at |-> pc, target |-> target, todo |-> todo]

Init ==
  /\ workers = <<>>
  /\ tasks = [p \in Process |-> 0]
  /\ controller = [p \in Process |-> Asleep]

(* run_spark_submit counts up under the lock and, finally, down. *)
TaskStarts(p) ==
  /\ tasks[p] < MaxTasks
  /\ tasks' = [tasks EXCEPT ![p] = @ + 1]
  /\ UNCHANGED <<workers, controller>>

TaskEnds(p) ==
  /\ tasks[p] > 0
  /\ tasks' = [tasks EXCEPT ![p] = @ - 1]
  /\ UNCHANGED <<workers, controller>>

Bounded(n) ==
  LET least == IF n > MaxWorkers THEN MaxWorkers ELSE n
  IN  IF least < MinWorkers THEN MinWorkers ELSE least

(* _decide_and_scale, from the count of tasks and of workers; the cooldown of a
   scale-down may have passed or not. *)
Decide(p) ==
  /\ controller[p].at = "sleep"
  /\ \/ /\ tasks[p] > Len(workers)
        /\ Len(workers) < MaxWorkers
        /\ controller' = [controller EXCEPT ![p] = At("list", Bounded(Len(workers) + 1), <<>>)]
     \/ /\ tasks[p] < Len(workers)
        /\ Len(workers) > MinWorkers
        /\ controller' = [controller EXCEPT ![p] = At("list", Bounded(Len(workers) - 1), <<>>)]
  /\ UNCHANGED <<workers, tasks>>

(* scale_to lists the workers again: those missing by number, or the ones after
   the first `target` in the list. *)
List(p) ==
  /\ controller[p].at = "list"
  /\ LET target == controller[p].target
         n == Len(workers)
     IN  controller' = [controller EXCEPT ![p] =
              CASE n < target -> At("add", target, [i \in 1 .. target - n |-> n + i - 1])
                [] n > target -> At("remove", target, SubSeq(workers, target + 1, n))
                [] OTHER      -> Asleep]
  /\ UNCHANGED <<workers, tasks>>

(* Without a worker that was started by hand, scale_to does nothing. *)
NoReference(p) ==
  /\ controller[p].at = "list"
  /\ controller' = [controller EXCEPT ![p] = Asleep]
  /\ UNCHANGED <<workers, tasks>>

Has(n) == \E i \in DOMAIN workers : workers[i] = n
Without(i) == [j \in 1 .. Len(workers) - 1 |-> workers[IF j < i THEN j ELSE j + 1]]

(* After a call: on to the next, or done. *)
Called(p, now) ==
  /\ workers' = now
  /\ LET rest == Tail(controller[p].todo)
     IN  controller' = [controller EXCEPT ![p] =
           IF rest = <<>> THEN Asleep ELSE [controller[p] EXCEPT !.todo = rest]]
  /\ UNCHANGED tasks

(* Mutant: a worker is added under any free name. *)
AddRenamed(p) ==
  /\ controller[p].at = "add"
  /\ \E n \in 0 .. MaxWorkers : ~Has(n) /\ Called(p, <<n>> \o workers)

(* containers.run, under the next number. *)
Add(p) ==
  /\ controller[p].at = "add"
  /\ ~Has(Head(controller[p].todo))
  /\ Called(p, <<Head(controller[p].todo)>> \o workers)

(* stop and remove, of a worker that is still there. *)
Remove(p) ==
  /\ controller[p].at = "remove"
  /\ \E i \in DOMAIN workers :
       workers[i] = Head(controller[p].todo) /\ Called(p, Without(i))

(* A call raises: the name is taken, the worker gone, or Docker fails (a worker
   that was stopped and not removed is still listed).  The loop catches it and
   sleeps. *)
Raises(p) ==
  /\ \/ controller[p].at = "add" /\ Has(Head(controller[p].todo))
     \/ controller[p].at = "remove" /\ ~Has(Head(controller[p].todo))
     \/ controller[p].at \in {"add", "remove"} /\ "docker" \in Faults
  /\ controller' = [controller EXCEPT ![p] = Asleep]
  /\ UNCHANGED <<workers, tasks>>

(* Someone at the host removes a worker. *)
Removed ==
  /\ "removed" \in Faults
  /\ \E i \in DOMAIN workers : workers' = Without(i)
  /\ UNCHANGED <<tasks, controller>>

Next ==
  \/ \E p \in Process :
       \/ TaskStarts(p) \/ TaskEnds(p)
       \/ Decide(p) \/ NoReference(p) \/ List(p) \/ Add(p) \/ Remove(p) \/ Raises(p)
  \/ Removed

Spec == Init /\ [][Next]_vars
-----------------------------------------------------------------------------
(* However many backends scale one host at once, there are never more workers
   than MAX_EXTRA_WORKERS: what bounds them is that a name is given once and
   that every number asked for is below the target (77, 87-89), not the count,
   which is stale when it is used. *)
NeverTooMany == Len(workers) <= MaxWorkers

(* "Ensures exactly `target_extra_workers` auto-created worker containers exist"
   (autoscaler.py:70): what scale_to leaves when it is done, where only one
   backend scales the host and nothing fails. *)
ScaleExact ==
  [][\A p \in Process :
       controller[p].at \in {"add", "remove"} /\ controller'[p] = Asleep =>
         Len(workers') = controller[p].target]_vars
-----------------------------------------------------------------------------
(* The inductive invariant.  Every target, and every number that is to be added or
   removed, is within the maximum. *)
Working == [at : {"list", "add", "remove"}, target : 0 .. MaxWorkers, todo : Seq(Names)]

TypeInv ==
  /\ workers \in Seq(Names)
  /\ tasks \in [Process -> Nat]
  /\ controller \in [Process -> {Asleep} \cup Working]

(* A name is given once. *)
Apart(s) == \A i, j \in DOMAIN s : s[i] = s[j] => i = j

NeverIdle ==
  \A p \in Process : controller[p].at \in {"add", "remove"} => controller[p].todo # <<>>

AutoscalerInv == TypeInv /\ Apart(workers) /\ NeverIdle
=============================================================================
