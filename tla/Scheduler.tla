------------------------------ MODULE Scheduler ------------------------------
(***************************************************************************)
(* backend/app/scheduler.py and the handlers of main.py that call it: the  *)
(* cron jobs a backend process holds in memory for the workflows, alerts   *)
(* and pipelines of the database (all three go the same way; an item is    *)
(* any of them).                                                           *)
(*                                                                         *)
(* A handler commits its change to the row and then runs sync_jobs, which  *)
(* empties the job store and registers again what three queries return.    *)
(* Nothing locks: handlers run on a pool of threads, and a cron instant    *)
(* or another replica may come between any two steps.                      *)
(***************************************************************************)
EXTENDS Naturals, FiniteSets

CONSTANTS
  Item,     \* workflows, alerts and pipelines; a deleted one is not created again
  Kind,     \* the query of sync_jobs that finds an item: 1 workflows, 2 alerts, 3 pipelines
  Cron,     \* an item's schedule_cron: "none", "valid" or "invalid"
  Cyclic,   \* the pipelines whose tables read one another
  Process,  \* backend replicas on one database
  Thread,   \* threads that serve requests, or start a process
  MaxTick,  \* bound: the cron instants of each item
  Faults    \* "crash": a process dies; "sync_raises": a query of sync_jobs fails

ASSUME KindAssumption == Kind \in [Item -> 1 .. 3]
ASSUME CronAssumption == Cron \in [Item -> {"none", "valid", "invalid"}]
ASSUME CyclicAssumption == Cyclic \subseteq {i \in Item : Kind[i] = 3}
ASSUME MaxTickAssumption == MaxTick \in [Item -> Nat]
ASSUME SchedulerFaultsAssumption == Faults \subseteq {"crash", "sync_raises"}

VARIABLES
  row,      \* the item's row: "absent", "active", "paused" or "deleted"
  used,     \* the workflows with a UsageRecord, which their deletion violates
  up,       \* "down", "starting" or "up", for each process
  jobs,     \* the items each process has a job for
  torn,     \* the last sync_jobs of a process emptied its jobs and then failed
  fire,     \* what each process is doing for a due item
  clock,    \* how many cron instants of the item have passed
  started,  \* <<item, instant, process>> of every run the scheduler started
  thread    \* where each thread is, with its locals

rowVars == <<row, used>>
jobVars == <<up, jobs, torn>>
fireVars == <<fire, clock, started>>
vars == <<rowVars, jobVars, fireVars, thread>>

Exists(i) == row[i] \in {"active", "paused"}

(* What sync_jobs registers: schedule_cron is set, parses, and is not paused. *)
Schedulable(i) == row[i] = "active" /\ Cron[i] = "valid"

(* The places of a thread.  "loaded": a handler has read the item; "sync": it
   has committed and calls sync_jobs, as a process does when it starts (boot);
   "query" and "add": inside sync_jobs. *)
Idle == [at |-> "idle"]
Loaded(p, action, i) ==
  [at |-> "loaded", home |-> p, action |-> action, item |-> i, saw |-> row[i]]
Syncing(p, boot) == [at |-> "sync", home |-> p, boot |-> boot]
Querying(p, boot, k) == [at |-> "query", home |-> p, boot |-> boot, kind |-> k]
Adding(p, boot, k, S) == [at |-> "add", home |-> p, boot |-> boot, kind |-> k, todo |-> S]

Init ==
  /\ row \in [Item -> {"absent", "active", "paused"}]
  /\ used = {}
  /\ up = [p \in Process |-> "down"]
  /\ jobs = [p \in Process |-> {}]
  /\ torn = [p \in Process |-> FALSE]
  /\ fire = [p \in Process |-> [i \in Item |-> "idle"]]
  /\ clock = [i \in Item |-> 0]
  /\ started = {}
  /\ thread = [r \in Thread |-> Idle]

(* start: a process registers its jobs before it serves requests. *)
Boot(r, p) ==
  /\ thread[r] = Idle
  /\ up[p] = "down"
  /\ up' = [up EXCEPT ![p] = "starting"]
  /\ thread' = [thread EXCEPT ![r] = Syncing(p, TRUE)]
  /\ UNCHANGED <<rowVars, jobs, torn, fireVars>>
-----------------------------------------------------------------------------
(* The handlers that change a schedule.                                     *)
Serves(r, p) == thread[r] = Idle /\ up[p] = "up"

(* Mutant: a new item is not synced. *)
CreateUnsynced(r, p, i) ==
  /\ Serves(r, p)
  /\ row[i] = "absent"
  /\ row' = [row EXCEPT ![i] = "active"]
  /\ UNCHANGED <<used, jobVars, fireVars, thread>>

(* create_workflow, quick_schedule_notebook, create_alert, create_pipeline.  A
   cyclic pipeline is refused after its row is committed; its PipelineTable rows
   forbid the delete that would take it back. *)
Create(r, p, i) ==
  /\ Serves(r, p)
  /\ row[i] = "absent"
  /\ row' = [row EXCEPT ![i] = "active"]
  /\ thread' = [thread EXCEPT ![r] = IF i \in Cyclic THEN Idle ELSE Syncing(p, FALSE)]
  /\ UNCHANGED <<used, jobVars, fireVars>>

(* clone_workflow: the clone starts paused, and nothing is synced. *)
Clone(r, p, i) ==
  /\ Serves(r, p)
  /\ Kind[i] = 1
  /\ row[i] = "absent"
  /\ row' = [row EXCEPT ![i] = "paused"]
  /\ UNCHANGED <<used, jobVars, fireVars, thread>>

(* pause_ and delete_ handlers read the row first: a missing one is a 404, but
   delete_pipeline syncs all the same. *)
Load(r, p, action, i) ==
  /\ Serves(r, p)
  /\ IF Exists(i)
       THEN thread' = [thread EXCEPT ![r] = Loaded(p, action, i)]
       ELSE /\ action = "delete" /\ Kind[i] = 3
            /\ thread' = [thread EXCEPT ![r] = Syncing(p, FALSE)]
  /\ UNCHANGED <<rowVars, jobVars, fireVars>>

(* Mutant: only a pause is synced. *)
ToggleSyncsPause(r) ==
  /\ thread[r].at = "loaded"
  /\ thread[r].action = "toggle"
  /\ LET paused == thread[r].saw = "active"
     IN  /\ row' = [row EXCEPT ![thread[r].item] = IF paused THEN "paused" ELSE "active"]
         /\ thread' = [thread EXCEPT ![r] = IF paused THEN Syncing(thread[r].home, FALSE) ELSE Idle]
  /\ UNCHANGED <<used, jobVars, fireVars>>

(* is_paused = not is_paused, of the value read; the row may be gone by now. *)
CommitToggle(r) ==
  /\ thread[r].at = "loaded"
  /\ thread[r].action = "toggle"
  /\ LET i == thread[r].item
     IN  IF Exists(i)
           THEN /\ row' = [row EXCEPT ![i] = IF thread[r].saw = "active" THEN "paused" ELSE "active"]
                /\ thread' = [thread EXCEPT ![r] = Syncing(thread[r].home, FALSE)]
           ELSE /\ thread' = [thread EXCEPT ![r] = Idle]
                /\ UNCHANGED row
  /\ UNCHANGED <<used, jobVars, fireVars>>

(* Runs cascade, the UsageRecord of a run does not: the commit raises. *)
CommitDelete(r) ==
  /\ thread[r].at = "loaded"
  /\ thread[r].action = "delete"
  /\ LET i == thread[r].item
     IN  IF i \in used /\ Exists(i)
           THEN /\ thread' = [thread EXCEPT ![r] = Idle]
                /\ UNCHANGED row
           ELSE /\ row' = [row EXCEPT ![i] = "deleted"]
                /\ thread' = [thread EXCEPT ![r] = Syncing(thread[r].home, FALSE)]
  /\ UNCHANGED <<used, jobVars, fireVars>>
-----------------------------------------------------------------------------
(* sync_jobs.                                                               *)
RemoveAllJobs(r) ==
  /\ thread[r].at = "sync"
  /\ LET p == thread[r].home
     IN  /\ jobs' = [jobs EXCEPT ![p] = {}]
         /\ torn' = [torn EXCEPT ![p] = FALSE]
         /\ thread' = [thread EXCEPT ![r] = Querying(p, thread[r].boot, 1)]
  /\ UNCHANGED <<rowVars, up, fireVars>>

(* One query and the tests of its loop, on what the query returned. *)
Query(r) ==
  /\ thread[r].at = "query"
  /\ LET k == thread[r].kind
     IN  thread' = [thread EXCEPT ![r] =
           Adding(thread[r].home, thread[r].boot, k, {i \in Item : Kind[i] = k /\ Schedulable(i)})]
  /\ UNCHANGED <<rowVars, jobVars, fireVars>>

AddJob(r, i) ==
  /\ thread[r].at = "add"
  /\ i \in thread[r].todo
  /\ jobs' = [jobs EXCEPT ![thread[r].home] = @ \cup {i}]
  /\ thread' = [thread EXCEPT ![r] =
       Adding(thread[r].home, thread[r].boot, thread[r].kind, thread[r].todo \ {i})]
  /\ UNCHANGED <<rowVars, up, torn, fireVars>>

(* On to the next query; after the third the request is answered, or the
   process starts to serve. *)
QueryDone(r) ==
  /\ thread[r].at = "add"
  /\ thread[r].todo = {}
  /\ LET p == thread[r].home
     IN  IF thread[r].kind < 3
           THEN /\ thread' = [thread EXCEPT ![r] =
                     Querying(p, thread[r].boot, thread[r].kind + 1)]
                /\ UNCHANGED up
           ELSE /\ thread' = [thread EXCEPT ![r] = Idle]
                /\ up' = IF thread[r].boot THEN [up EXCEPT ![p] = "up"] ELSE up
  /\ UNCHANGED <<rowVars, jobs, torn, fireVars>>

(* A query fails: the request gets a 500, a start does not happen; the jobs that
   were removed stay away. *)
SyncRaises(r) ==
  /\ "sync_raises" \in Faults
  /\ thread[r].at = "query"
  /\ up' = IF thread[r].boot THEN [up EXCEPT ![thread[r].home] = "down"] ELSE up
  /\ torn' = [torn EXCEPT ![thread[r].home] = TRUE]
  /\ thread' = [thread EXCEPT ![r] = Idle]
  /\ UNCHANGED <<rowVars, jobs, fireVars>>
-----------------------------------------------------------------------------
(* A cron instant of the item: every process that serves and has the job
   submits it, unless it still runs the last one (max_instances of a job is 1). *)
Tick(i) ==
  /\ Cron[i] = "valid"
  /\ clock[i] < MaxTick[i]
  /\ clock' = [clock EXCEPT ![i] = @ + 1]
  /\ fire' = [p \in Process |->
       IF up[p] = "up" /\ i \in jobs[p] /\ fire[p][i] = "idle"
         THEN [fire[p] EXCEPT ![i] = "submitted"]
         ELSE fire[p]]
  /\ UNCHANGED <<rowVars, jobVars, started, thread>>

(* Mutant: the job runs whatever the row says by now. *)
TrustJob(p, i) ==
  /\ fire[p][i] = "submitted"
  /\ fire' = [fire EXCEPT ![p][i] = "checked"]
  /\ UNCHANGED <<rowVars, jobVars, clock, started, thread>>

(* The job reads its row: nothing to do for a deleted or paused item. *)
Recheck(p, i) ==
  /\ fire[p][i] = "submitted"
  /\ fire' = [fire EXCEPT ![p][i] = IF row[i] = "active" THEN "checked" ELSE "idle"]
  /\ UNCHANGED <<rowVars, jobVars, clock, started, thread>>

(* The run starts.  The WorkflowRun of a workflow deleted meanwhile is refused
   by its foreign key. *)
StartRun(p, i) ==
  /\ fire[p][i] = "checked"
  /\ IF Kind[i] = 1 /\ ~Exists(i)
       THEN /\ fire' = [fire EXCEPT ![p][i] = "idle"]
            /\ UNCHANGED started
       ELSE /\ fire' = [fire EXCEPT ![p][i] = "running"]
            /\ started' = started \cup {<<i, clock[i], p>>}
  /\ UNCHANGED <<rowVars, jobVars, clock, thread>>

(* The run ends, and leaves a UsageRecord when it is a workflow's that got that
   far. *)
EndRun(p, i) ==
  /\ fire[p][i] = "running"
  /\ fire' = [fire EXCEPT ![p][i] = "idle"]
  /\ used' \in {used, used \cup {j \in {i} : Kind[j] = 1 /\ Exists(j)}}
  /\ UNCHANGED <<row, jobVars, clock, started, thread>>

(* The process dies: its jobs, threads and runs are gone, the rows stay. *)
Crash(p) ==
  /\ "crash" \in Faults
  /\ up[p] # "down"
  /\ up' = [up EXCEPT ![p] = "down"]
  /\ jobs' = [jobs EXCEPT ![p] = {}]
  /\ torn' = [torn EXCEPT ![p] = FALSE]
  /\ fire' = [fire EXCEPT ![p] = [i \in Item |-> "idle"]]
  /\ thread' = [r \in Thread |->
       IF thread[r] # Idle /\ thread[r].home = p THEN Idle ELSE thread[r]]
  /\ UNCHANGED <<rowVars, clock, started>>
-----------------------------------------------------------------------------
Handle(r, p) ==
  \E i \in Item :
    \/ Create(r, p, i)
    \/ Clone(r, p, i)
    \/ \E action \in {"toggle", "delete"} : Load(r, p, action, i)

ThreadStep(r) ==
  \/ CommitToggle(r)
  \/ CommitDelete(r)
  \/ RemoveAllJobs(r)
  \/ Query(r)
  \/ \E i \in Item : AddJob(r, i)
  \/ QueryDone(r)

Fire(p, i) == Recheck(p, i) \/ StartRun(p, i) \/ EndRun(p, i)

Next ==
  \/ \E r \in Thread, p \in Process : Boot(r, p) \/ Handle(r, p)
  \/ \E r \in Thread : ThreadStep(r) \/ SyncRaises(r)
  \/ \E i \in Item : Tick(i)
  \/ \E p \in Process, i \in Item : Fire(p, i)
  \/ \E p \in Process : Crash(p)

Spec == Init /\ [][Next]_vars

(* A thread that has begun goes on; requests and cron instants may never come. *)
FairSpec == Spec /\ \A r \in Thread : WF_vars(ThreadStep(r))
-----------------------------------------------------------------------------
ThreadType ==
  {Idle} \cup
  [at : {"loaded"}, home : Process, action : {"toggle", "delete"}, item : Item,
   saw : {"active", "paused"}] \cup
  [at : {"sync"}, home : Process, boot : BOOLEAN] \cup
  [at : {"query"}, home : Process, boot : BOOLEAN, kind : 1 .. 3] \cup
  [at : {"add"}, home : Process, boot : BOOLEAN, kind : 1 .. 3, todo : SUBSET Item]

TypeOK ==
  /\ row \in [Item -> {"absent", "active", "paused", "deleted"}]
  /\ used \in SUBSET Item
  /\ up \in [Process -> {"down", "starting", "up"}]
  /\ jobs \in [Process -> SUBSET Item]
  /\ torn \in [Process -> BOOLEAN]
  /\ fire \in [Process -> [Item -> {"idle", "submitted", "checked", "running"}]]
  /\ clock \in [Item -> Nat]
  /\ started \in SUBSET (Item \X Nat \X Process)
  /\ thread \in [Thread -> ThreadType]

(* The thread is going to register item i: its queries of i's kind come after
   this moment, or i is in what the last one returned. *)
WillRegister(r, i) ==
  \/ thread[r].at = "sync"
  \/ thread[r].at = "query" /\ thread[r].kind <= Kind[i]
  \/ thread[r].at = "add" /\ (thread[r].kind < Kind[i] \/ i \in thread[r].todo)

(* A process that serves has the job of every active item, or a thread in it
   that is about to register it: however the handlers interleave, none of them
   leaves an item without its schedule (scheduler.py 49-85 against the commits
   of main.py), and what a failed sync_jobs lost comes back with the next call
   of it.  A refused cyclic pipeline is left behind without one. *)
ScheduleComplete ==
  \A p \in Process, i \in Item :
    up[p] = "up" /\ ~torn[p] /\ Schedulable(i) /\ i \notin Cyclic =>
      \/ i \in jobs[p]
      \/ \E r \in Thread : thread[r] # Idle /\ thread[r].home = p /\ WillRegister(r, i)

(* An item that stays active gets its job in every process that stays up, or a
   sync_jobs of that process fails. *)
EventuallyRegistered ==
  \A p \in Process, i \in Item :
    up[p] = "up" /\ Schedulable(i) /\ i \notin Cyclic ~>
      i \in jobs[p] \/ ~Schedulable(i) \/ up[p] # "up" \/ torn[p]

(* A job left behind for an item that stays paused or deleted starts nothing:
   the recheck makes the races of sync_jobs harmless (lines 14-16, 29-31, 41-43). *)
StaleJobsInert ==
  \A p \in Process, i \in Item :
    [](fire[p][i] = "submitted" /\ [](row[i] # "active") => [](fire[p][i] # "running"))
-----------------------------------------------------------------------------
(* What the documents say and the code does not do.                        *)

Quiet == \A r \in Thread : thread[r] = Idle

(* INTEGRATION.md:227-228: "Pausing a workflow removes its schedule until
   resumed".  A sync_jobs that read the row before registers it after. *)
PauseUnschedules ==
  Quiet => \A p \in Process : \A i \in jobs[p] : row[i] # "paused"

(* README.md:155-156: "Run multiple orchestrator backend replicas behind a load
   balancer for HA (... so this is safe)".  Each has its own jobs. *)
OneRunPerTick ==
  \A s, t \in started : s[1] = t[1] /\ s[2] = t[2] => s[3] = t[3]
=============================================================================
