# A TLA+ model of AtlasFlow

AtlasFlow is a self-hosted data platform: one FastAPI backend (`src/backend/app`) that
stores everything in Postgres, runs workflows of tasks on threads of its own, schedules
them with APScheduler, and drives Spark, MLflow, MinIO, Docker, Git and Stripe from its
request handlers. This directory holds TLA+ modules of the parts whose correctness
depends on order and interleaving, the TLC configurations that check them on small
instances, and proofs, checked by TLAPS, of what holds for every instance.

Paths below are relative to `src/`; `main.py` and its siblings are in `src/backend/app/`.

## 1. Inventory

The backend is one process (README.md:155-156 allows several replicas on one database).
Its threads are: FastAPI's pool, which serves every synchronous handler; one daemon
thread per manually triggered run (`main.py` 443-453); APScheduler's pool, one thread per
due job; a `ThreadPoolExecutor` per layer of a running workflow; the autoscaler's loop.
They share no lock except the Spark task counter's. Every handler has its own database
session; a commit is the only point where others see what it did.

| Component | State | Operations | Hard behaviour | What makes it correct |
|---|---|---|---|---|
| layer planning (`executor.py` 37-65) | indegrees, frontier, layers | `topological_layers` | duplicated entries, self loops, unknown keys | layers respect dependencies; CycleError exactly on cycles |
| workflow executor (`executor.py`, rows in `models.py` 303-331) | run and task rows; local sets of failed and blocking tasks; workers | one run: plan, split, resolve, pool, collect, conclude, notify, bill | futures in any order, retries, exceptions in workers, death of the process | a task runs only after successes; failure and skip propagate exactly; rows settle once; no worker outlives its run |
| scheduler (`scheduler.py`) | job store in memory, rows of three tables | `sync_jobs`, three job functions, start | two `sync_jobs` at once; replicas; restarts | no active item without its job; a stale job starts nothing |
| workflows API (`main.py` 326-471) | workflow, task and run rows | create, clone, pause, delete, trigger | toggles that race; deletes refused by foreign keys | names unique, one flip per toggle, nothing half deleted |
| alerts (`alerts.py`, `main.py` 962-1044) | last_status, history | evaluate, create, delete, pause | scheduled and manual evaluation at once | one notification per incident |
| pipelines (`pipelines.py`, `main.py` 1721-1854) | declared tables, catalog rows | create, run, delete, pause | validation after the commit; tables after a failed one | a table is built after all it reads |
| task runners (`task_runners.py`) | process-wide stdout, Spark task counter | five runners | concurrent redirection of one stdout | a task's log is its own; the counter returns to zero |
| placeholders, redaction (`secrets_resolver.py`) | none | resolve, redact | a secret in nested values | no resolved secret in a stored log |
| billing (`billing.py`, `main.py` 2214-2285) | customer and subscription of a user | checkout, webhook, report | concurrent checkouts, repeated webhooks | one customer per user; a run is charged once at most |
| autoscaler (`autoscaler.py`) | containers on the Docker host, time of last scaling | loop, scale up, scale down | names already taken, partial removals, replicas | the number of workers stays within its bounds and follows the load |
| AI gateway (`ai_gateway.py`, `main.py` 1859-1944) | call history per route | call, routes | concurrent limiter | no more calls per minute than allowed |
| model serving (`main.py` 2102-2173) | deployment rows, mlflow processes | deploy, predict, stop | check, start and insert are apart; restarts | one server per row, one row per server |
| catalog, volumes, sharing, ingestion (`catalog.py`, `storage.py`, `sharing.py`, `main.py` 514-892, 1180-1332, 1469-1678) | tables, grants, masks, objects | upload, register, grant, resolve | long jobs between check and insert | a name resolves to its own data; access follows the grants |
| accounts (`security.py`, `scim.py`, `scopes.py`, `oidc.py`, `saml.py`, `main.py` 46-317, 2052-2096) | users, tokens | login, SSO, SCIM, PAT | provisioning races; deactivation; what a patch is taken for | one user per name; a deactivated user stays out |
| Lakebase (`lakebase.py`, `main.py` 1337-1464) | metadata rows, Postgres tables | create, drop, rows, sync | two commits per operation | row and table exist together |
| Git repositories (`git_repos.py`, `main.py` 1949-2047) | working trees | create, sync, commit, delete | one tree without a lock | a tree belongs to its row |
| dashboards, SQL, Python, Genie, policies, comments, audit | history rows | request and response | - | - |
| web UI, Spark jobs, compose file | - | - | - | - |

How they interact: handlers of workflows, alerts and pipelines commit a row and call
`scheduler.sync_jobs`; a due job calls the executor, `evaluate_alert` or
`run_pipeline_now` on a scheduler thread; the executor calls the task runners on worker
threads, `secrets_resolver` and `catalog` on its own, and `billing` at the end; the
runners move the counter the autoscaler polls; pipelines, uploads and ingestion write the
catalog that every SQL text is resolved against.

`PROJECT.json` lists the hazards, each with its line and the properties aimed at it.

## 2. Modules

    TopoSort  <--- Executor ---refines---> WorkflowRun        Scheduler
       |              |                                           |
    TopoSortProofs  ExecutorInv                              SchedulerProofs
       |              |
       +-------> ExecutorProofs

    Dependencies <--- DependencyOrder <---refined by--- TopoSort, Pipelines
         |                                                         |
      Catalog <--- CatalogProofs                            PipelinesProofs

    Accounts  Governance  Sharing  <--- MCAccess <--- AccessProofs

    Lakebase  Volumes  GitRepos  Billing    <--- MCComponents <--- ComponentsProofs
    Serving  Alerts  AIGateway  Autoscaler  <---      "       <--- ServicesProofs

**TopoSort** is `topological_layers`: `RejectUnknownKey` (44-47), `BuildIndegrees`
(41-53), one `TakeLayer` per iteration of the while loop (54-62), `LeaveLoop` (64-66).
Lists are sequences, so a key may occur twice, as nothing forbids in the schema: the
source counts each occurrence up and down, and so do `Indegrees` and `CountedDown`.
The order of keys within a layer is abstracted (a layer is a set): the executor runs a
layer concurrently and reads nothing from the order.

**WorkflowRun** is what a run promises to whoever polls it, in terms of the rows alone:
tasks are settled once, each with a verdict that follows from what is settled above it,
and the run is concluded by what its tasks say. It knows nothing of layers, threads,
retries or the local sets.

**Executor** extends TopoSort and is `execute_workflow_run` and what it calls. The main
thread has a `main` pc; an action is the code from one commit to the next, since nobody
else writes these rows and a poller sees commits only. Workers are one state machine per
task (`RunnerSucceeds`, `RunnerFails`, `Retry`, `RunnerRaises`), interleaved with
`Collect` in any order, as `as_completed` hands futures over. `ResolveLayer` chooses
freely which conditional tasks are skipped and which tasks do not resolve: what an
expression or a placeholder evaluates to is data. Three kinds of fault are constants:
`runner_raises` (an exception of a runner: `sys.exit()` in a python task, parameters JSON
does not take, an unwritable `/jobs`, a missing papermill), `exception` (a query, commit
or row refresh of the main thread fails), `crash` (the process dies; `on_startup` looks
at no run). A run's thread may therefore leave at `drain` (an exception waits for the
pool's workers), `escaped`, or `crashed`. `Promise` is the instance of WorkflowRun that
Executor implements, with the rows mapped to themselves.

**Scheduler** is `scheduler.py` with the handlers that change a schedule. Workflows,
alerts and pipelines go the same way through it, so an *item* is any of them; `Kind` tells
which of the three queries finds it. A handler is split where others can come between:
reading the row (`Load`), committing it (`CommitToggle`, `CommitDelete`, `Create`),
`remove_all_jobs`, each query, each `add_job`. Differences of the handlers that matter
are kept: a clone starts paused and is not synced; a cyclic pipeline stays behind after
its 400; the delete of a workflow with usage records is refused by their foreign key;
`delete_pipeline` syncs even when nothing was there. A query may fail after
`remove_all_jobs` (`SyncRaises`); `torn` remembers that until the next call empties the
store again. A cron instant (`Tick`) makes every process that holds the job submit it,
unless it still runs the last one (APScheduler's `max_instances` of 1); the job reads its
row again (`Recheck`) and starts (`StartRun`). A process may crash and boot; `thread`
records where each request thread is.

**DependencyOrder** is what the system's two orderings promise alike: things are placed
when all they wait for is, one or several at a time, until all are, or the whole is
refused, for a circle that is there or for an unknown name. `topological_layers` and
`topological_order` are two algorithms for this, written for different callers, and
TopoSort and Pipelines are each shown to implement it. **Dependencies** holds its two
notions: `BuildOrder`, what a caller may rely on (each thing once, after all it waits
for), and `Circular`, a set of things that each wait for one of the set.

**Pipelines** is the depth-first `topological_order` of `pipelines.py` (23-45), a step for
every turn of a loop (`PassOver`), call (`Enter`), exception (`Raise`) and return (`Leave`,
`Return`) of `visit`. The calls under way are the stack `path`, with the place each one's
loop has come to in `cursor`; the tables' order in the query is any (it has no
`ORDER BY`), and the order in which a table's SQL is searched for names is the same.

**Catalog** has everything that writes rows of `models.Table`: uploads and ingestions
(which look for the name first), Lakebase syncs and pipeline runs (which do not), all of
which overwrite `/data/tables/<name>` with a job of minutes and touch the row in a later
transaction; registering and deleting a table, creating and deleting the pipeline. A
*writer* is one request or cron firing; the data in a directory is identified by the
writer that wrote it, so that a row can be compared with its data. A pipeline reads, as
far as its order goes, only its declared tables (`_detect_deps`); whether another table its
SQL mentions is readable is one of the reasons a job may fail. A pipeline without tables
is legal and its run is ok at once. The order of a run is any `BuildOrder` of the declared
tables (`Orders`), because Pipelines shows that `topological_order` returns one; a run of
a circular pipeline is recorded as an error (`RunCircular`).

**PythonOutput** is the output of `run_python`: every call notes `sys.stdout`, of which the
process has one, puts a buffer of its own in its place, prints to whatever is there, and
brings back what it noted. `contextlib` reads and sets in two steps (`Save`, `Redirect`),
and calls overlap at any of them: the tasks of a layer, other runs, ad-hoc snippets.

**Eight small modules** have the same form: a row, a thing outside the database that the
row stands for, and requests that handle the two in separate steps. In each of them a
request is a model value with a pc; it does one thing and ends; what it has loaded from
the row stays as it was; a crash ends all requests under way and leaves both sides as
they are. `past` is history that only the properties read (in AIGateway also the
foreign key of the log, in none a guard of anything else).

| Module | Row and thing | Steps apart |
|---|---|---|
| Lakebase | metadata row, Postgres table of its name | CREATE TABLE / insert; load / DROP TABLE / delete; load / row operations |
| Volumes | volume row, objects under its prefix | check / insert; load / list / a page at a time, keys of which may be refused / delete |
| GitRepos | repository row, one working tree with its index, remotes | check / clone or pull / record; load / add / commit / push |
| Serving | deployment row, server process and port | check / bind and close / Popen / insert; load / kill / delete |
| Alerts | last_status, the webhook | load / query of up to 120 s / record / read again and notify |
| AIGateway | route, its list of call times | prune / assign / count / append / log |
| Billing | user, Stripe's customers and sessions | load / customer / session / commit; payment; webhook |
| Autoscaler | task count, containers of the host | decide / list / one Docker call after another |

**Accounts** is the table of users: the seeded administrator, `create_user`, first
sign-ons, SCIM's create, replace, patch and delete (whose body is awaited between load and
commit, and whose UPDATE names only the columns that changed: `Written`), and calls made
with a session or a token, which look at `is_active` when they are admitted. `Read` is what
a handler makes of what it is sent: `patch_user` takes `bool(value)`, TRUE for any text,
and passes over an operation without a path. `meant` remembers what was sent.

**Governance** is one catalog table as its readers see it: visibility, grants, row filters
and masks (JSON columns that an edit copies and stores whole), and a query, which is let
in first and rewritten by the rules in a later read. Two requests that grant at once each
find no grant and make one; grants are therefore named for their requests. The grants of a
volume (`main.py` 813-845) go the same way.

**Sharing** is one Delta share with its recipient: the rows of its tables (a table may be
added twice, and is removed a row at a time), the recipient's commit and the answer that
hands out its first token (`CreateRecipient`, `Answer`), rotation of the token (`Returned`
is the row read again after its commit), and the protocol up to the dated file urls that
nobody looks up.

**Answers that are not looked at** are choices of the module: in Volumes `delete_objects`
may leave any keys of a page and the handler goes on (`Deleted`), in GitRepos `git add` may
stage nothing and the commit is made of what is staged (`AddFails`). In Executor the report
to Stripe carries the run's id as idempotency key, so it has happened or not; nothing
counts it.

`MC*.tla` give the constants values. `MCComponents` and `MCAccess` instantiate modules
that share no state: `focus` names the one a behaviour is of, and the variables are used
by that one. Their theorems are therefore of `MCSpec`, for every value of all constants:
of each module, whichever is the one in focus. An inductive invariant stands at the end of
the module it is of (for the executor in `ExecutorInv.tla`), so that TLC can check it;
`*Proofs.tla` hold the proofs.

Operators marked `Mutant` in the modules are plausible bugs of the definition they stand
before; they are not part of any specification. Putting one in its place breaks the
property that `PROJECT.json` names, which shows that the property depends on that line.

## 3. Runs

| Run | Instance | What it shows |
|---|---|---|
| `layers` | three tasks, every list of up to two entries over them and an unknown key (9261 graphs) | minimality of the layers, `VerdictRight`, termination; that the layering implements `DependencyOrder`, and so its order |
| `build_order` | four tables, every graph over them, and one that may mention itself (8192 graphs; since every graph is there, one order of the query stands for all) | the order is right and the ValueError is for a circle, whatever was met before; the search ends and implements `DependencyOrder` |
| `executor` | four tasks, all acyclic graphs up to their names, and one each with duplicates, a cycle behind a root, a self loop, an unknown key; one retry for `a`, a negative count for `c`; `b` and `d` conditional; all faults | safety of a run, that it implements `WorkflowRun`, that it gets a verdict unless an exception or a crash ends its thread, which always ends |
| `scheduler` | one process, two threads, a workflow with one cron instant and a cyclic pipeline; crashes and failing queries | no schedule is lost but by a failed query, and each is registered eventually; a stale job starts nothing |
| `catalog` | a pipeline of two tables, one reading the other or each the other; three writers; crashes | what a row says of its data; what an `ok` run has built and read |
| `access` | two requests at once on the administrator and a second user; three requests on a table with two roles and a masked column; three on a share of one table that may be added twice, three seconds | a deactivated user stays out; queries run under the rules that were set; a revoke ends a reader's access; what is unshared is unreadable in time; the profile handed out works |
| `components` | two, three or four requests (three for Git, alerts and the gateway), two models and ports, two remotes, pages of one object; two backends and two workers; crashes, refused keys, dying servers, failing Docker calls, workers removed by hand; three calls of `run_python` | one property each of the eight modules; logs are their tasks' own and stdout comes back |
| `poll_ends`, `pause_unschedules`, `one_run_per_tick`, `scale_exact`, `deactivation_takes` | as above, with an alert in place of the pipeline; two processes for `one_run_per_tick`, one backend without faults for `scale_exact`, one request and no fault for `deactivation_takes` | what a document or docstring says and the code does not do |

*Properties with exceptions.* The requests of these components take no locks, so the plain
statements ("a row has its table") are false in interleavings the code accepts. Each
property names the interleavings that are the only way to break it: `crossed`, `beside`,
`stolen`, `late`, `disturbed`, `strays`, `overtaken`. Two name a failure that the code does
not look at: `kept`, the objects that the store refused to delete, and `CommittedOthers`, a
commit after an add that failed. That these are the *only* ones is what the check shows;
the mutants, each a change of one line, break the property without any of them. A hazard
whose own case is such an exception says so in its note.

*Bounds.* Four tasks hold every shape the executor's loop tells apart: a diamond, two
layers below a failure, a task below both a skip and a failure. Three tasks with lists
of two give the layering its self loops, duplicates and cycles of length two and three.
Four tables give the search a diamond, circles of any length up to four beside it, and a
circle behind tables already visited. Two tables in `catalog` have at most one order
each; that nothing depends on which order a run takes is the proofs' part. Three calls of
`run_python` are two that end in the wrong order and one that finds what they left; one
line each tells whose log it is in.
Retries 0, 1 and -1 are the cases of `max(1, retries + 1)`. Two threads suffice for
`sync_jobs` to run inside another call of it, and one item whose schedule they disagree on; `MaxTick` bounds the cron instants of an
item, and one is enough for a job to be submitted before a pause and checked after it.
An item that was deleted is not created again: rows get fresh ids. In `catalog` three
writers are two that cross and one that reads or deletes between them. Three requests in
`access` are two edits, grants or rotations that cross and one that is let in beside them,
and `MaxRows` of two is a table added again. Four requests on a
name are one to create a row, one to delete it, one to create its successor, and one
that still works with the first. In the limiter a window of two ticks, a limit of one
and three instants let a call expire and let one in late; two workers at most give the
autoscaler a number that is taken. `MaxTime`, `MaxRows`, `MaxTasks`, `Page` and the number of
requests are the bounds of what the code leaves unbounded. Symmetry is over request,
client, model, port and similar names, which no definition tells apart; the one property
of `access` that is not an invariant speaks of single steps.

*Fairness.* In `Executor`, `WF` on the main thread and on each worker: a thread that can
run does. A runner comes back because its subprocess has a timeout; python and notebook
tasks have none in the code, and their end is assumed. Nothing makes a fault happen. In
`Scheduler`, `WF` on each thread that has begun a handler or a boot; requests, cron
instants and crashes may never come. A thread takes one path through its handler, so weak
fairness of its next step suffices. `TopoSort` and `Pipelines` have `WF` on their next
step: plain loops and calls of one thread. The other
modules state no liveness: their handlers are straight lines that end by returning.

*Deadlock* is checked in `layers`, `build_order`, `executor`, `scheduler` and `catalog`. It is
not in `components` and `access`, where every request does one thing and a behaviour
rests when all have ended, nor in violation runs whose system may rest.

*Findings.* `PollEnds`: a dependency on an unknown key, or an exception of a runner,
leaves the run `running` for ever. `PauseUnschedules`: an overlapping `sync_jobs` registers a paused item again.
`OneRunPerTick`: every replica runs every schedule. `ScaleExact`: `scale_to` removes the
oldest worker, number 0, and then asks for number 1, which is taken, at every later
scale-up. `DeactivationTakes`: a SCIM patch with the text "False" activates, and one
without a path does nothing; both are answered 200. Read along with them, and not kept as runs: a task fails without an attempt
when a placeholder does not resolve (`executor.py` 152-158 against INTEGRATION.md:273),
logs and status are stored once after the last attempt (255-263 against
INTEGRATION.md:54), a run that fails for a cycle sends no webhook (`executor.py` 101-105
against README.md:65), of two python tasks at once one may return a log without its own
lines, or with the other's (`task_runners.py` 62 against INTEGRATION.md:108-109, the
exception in `OwnLines`), siblings of a raising runner lose their results (169 against
`executor.py`:16), usage reaches Stripe "exactly once per run" (`models.py` 272) only if
nothing fails between the record and the call (`executor.py` 217-221), a volume's delete
"removes every object under it" (`storage.py` 95) but for the keys that the answer names
as refused, and "one notification per incident" (`alerts.py` 4-6) may be two or none when
evaluations overlap.

## 4. Proofs

Every invariant, step property and refinement of the passing runs is a theorem, for any
number of tasks, tables, threads, requests, names and ports, any graph, and any sequence
of faults. The theorems rest on the named assumptions of the modules: constants have
their types (`Task` finite, graphs over known keys, `Retries` integers,
`Kind`, `Cron`, `TTL`, `Window`, `Limit` in their ranges), a query for a pipeline's tables
returns all of them (`QueriesAssumption`), `None` is none of the values it stands for
the lack of (`NoneAssumption`), the administrator has a name (`AdminAssumption`),
`MIN_EXTRA_WORKERS` is not above `MAX_EXTRA_WORKERS` (`WorkersAssumption`: with both set
the wrong way round `max(min(...))` exceeds the maximum).
TLC evaluates each on the run of its module. All invariants called `...Inv` below were
checked by TLC on the instances of section 3 first. Some theorems state what no run names,
because a property of the run implies it or it is about types: the modules' type
invariants, `LayersOrdered` (from `ImplementsOrdering`), `VerdictMatchesTasks` and
`VerdictsStay` (from `ImplementsPromise`), and `OnPath`, a part of `SearchInv`.

*TopoSort.* `TopoInv` adds to the properties what ties counters to layers. Its heart is
`StrandedOutside`: a set of tasks that each wait for one of the set is never entered by
the layers. With `CountersAgree` (what is left of a count is exactly the occurrences of
unplaced tasks) an empty frontier means that the unplaced tasks are such a set, which
gives `CycleErrorExact` in both directions. `LayersEarliest` rests on
`FrontierFresh`: a task of any frontier but the first has had its last count taken by the
layer just placed, so one of its dependencies is there. `LayersImplementOrdering` maps
`TakeLayer` to placing the frontier, `LeaveLoop` to finishing or to refusing a circle, and
`RejectUnknownKey` to refusing an unknown name; that the unplaced tasks are a circle is
`StrandedOutside` again.

*Pipelines.* `SearchInv` ties the three kinds of marks together. `OnPath`: `temp_mark` is
the stack of calls, each table once, none of them visited, each read by the one below it.
`GonePast`: what a loop has gone past is visited if the loop wanted it; so when a visit
returns all its table reads is visited. `OrderSoFar`: the order holds the visited tables,
each once and after all it reads. A table met under way then closes a circle: the part of
the stack from it to the top (`SearchIsRight`), and a table that is appended has all it
reads before it, which is also the step `Place` of `DependencyOrder`
(`SearchImplementsOrdering`). No induction over the recursion is needed, because the stack
is a variable. `SearchIsRight` is what `Catalog` takes its `Orders` from.

*Executor.* `IInv` (`ExecutorInv.tla`) says for each stage of the loop which tasks are
decided (`Decided`: earlier layers, and those of the current one that no worker holds),
that exactly those are settled, that only the current layer has live workers, and where a
worker is in its attempts. `MemoryMatchesRows` alone is not inductive: that a collected
task was not counted before needs `LoopInv` and `WorkerInv`. It includes `TopoInv`,
carried through planning by `TopoStepInv`. Proved from it: `TypeOK`,
`StartedAfterSuccess`, `MemoryMatchesRows`, `VerdictMatchesTasks`, `AttemptsAccounted`,
`NoOrphanWorker`, `NotificationTrue`.

*Refinement.* The second half of `ExecutorProofs` adds `RowInv` (what the run's row says at each pc) and
maps every step: `BlockLayer`, `ResolveLayer` and `Collect` to `Settle`, `FinishRun` to
`Conclude`, `PlanCyclic` to `Refuse`, the rest to `Begin`, `CreateRows` or a stutter. The
mapping is the identity on the rows. `VerdictsStay` follows from the same steps.

*How failures travel.* `PropagationExact` speaks of all ancestors of a task, the code of
its direct dependencies. `RuleInv` is the code's rule as it can be read off the rows of
settled tasks; it is kept by the same steps. The two are joined without an induction:
`Ancestors` is the least set that is closed under `Upstream`, so a closed set that holds
the dependencies of a task holds its ancestors; the tasks that neither failed nor are
upstream_failed are such a set. And a task that is upstream_failed without a failure above
it would have others like it above it and so on: a set of tasks that wait for each other,
which `VerdictRight` excludes.

*Scheduler.* `Owed` extends `ScheduleComplete` to processes that are starting, and
`HomesUp` says that a thread's process is not down; both are inductive for one process.
The argument is `OwedFrame`: a step of one thread keeps the debt if it hands on what that
thread was about to register, and a handler that makes an item schedulable takes the debt
itself by going on to `sync_jobs`. A failed query sets `torn`, and the debt begins anew
with the next `remove_all_jobs`. With a second process the statement is false (a pause
undone on one replica is never registered on the other). `StaleJobsInert` is temporal and
still only needs steps: while an item is not active, none of them takes a job that has
not begun to `running` (`UnbegunStays`), for any number of processes.

*Catalog.* `CatalogInv` follows a writer from its request to its end. `InOrder`: a run has
a suffix of its order left, and has stored all before it if nothing failed. `StoresOnce`:
nobody stores a table twice, so what is stored is from this run's own job. `StillThere`:
what a writer has written is there at its commit unless the name is marked `crossed` or
the run `disturbed`. `Undisturbed`: whatever a run has stored is still its own, so what it
reads next is what it built. `RowsDescribeData` and `OkRunIsComplete` are inductive with
these. That a run reads only what it has built rests on `Orders` alone: whatever order is
taken, each table comes after what it reads. The proof found a case that three writers do
not show: a table is registered under a name of the pipeline, and beside the run one
request deletes it and another uploads its name. An earlier form of `OkRunIsConsistent`
made an exception that four writers could falsify this way; `strayed` now counts only
tables that some job has written.

*Access.* `SharingInv`: who was let in and saw no change works with what is open
(`LetIn`), a url lasts `TTL` from now at most, and from the loss of what it was made for
(`UrlsDated`), and a profile that is not the share's token has a request still to return
it, or was overtaken (`ProfileComing`). The loss of a table is dated in `Change` by the set
of what is open, so that a row of two that goes takes nothing away. `GovernanceInv`: what an edit has loaded and not been crossed in is
what is stored (`EditsApart`), and what is due to a query is among the rules
(`DueIsSet`). `GrantsApart` stands beside it: as long as somebody who crossed nobody is
about to grant, there is no grant, so grants beside others come from requests that crossed,
and `RevokeEnds` is the step of `Revoke`. `AccountsInv`: a user whose deactivation was
the last word is inactive and nobody is about to write him active (`OffIsInactive`),
because a deactivation that crossed no activation finds none under way
(`CrossedKnown`); `DisabledStaysOut` is then one step, `Admit`. What a request was sent
plays no part in it: the invariant is about what `Read` has made of it.

*Components.* `LakebaseInv` adds that who is about to insert a row has made its table, and
who has loaded a row to work on finds it. `VolumesInv`: until the row is deleted a purge
has listed or removed everything that is not a stray or refused (`Emptied`, `ObjectsAreRows`).
`ReposInv`: what a request took is among the tree's commits, and at its remote once it is
told (`TookIsCommitted`); an edit is unstaged, staged, committed or at the remote, or
another request has taken it, or its own commit was of others' (`EditGoesOn`). `BillingInv` adds that a
checkout that has met no other is alone (`RunsAlone`), and that once its url is out nobody
is going to write another customer (`CustomerSettled`): this is where "the url goes out
after the commit" enters.

*Services.* `ServingInv`: a port that is not in `past.twice` has one owner, among the
listening servers and those about to listen (`PortsApart`). `AlertsInv`: an evaluation that nobody
crossed still knows the current status (`ReadIsCurrent`). `GatewayInv`: a request that
runs alone finds in the list every call that ran alone and still counts (`FindsAll`,
`NoneLost`), so the list can be shorter than the limit only if those calls are fewer; the
step to `RateKept` is a bound of the cardinality of a set by the length of a sequence.
`AutoscalerInv`: workers have different names, of the range below the maximum
(`Apart`), so there are no more of them than names. `OutputInv`: a call that met no other
is alone with its buffer from the moment it redirects until it returns (`AloneWithOwn`),
and while calls nest each holds the stdout of one under way that began before it
(`Nested`), so the last one to end holds the console's.

*Checked by TLC only:* liveness under fairness (`TopoTerminates`, `SearchEnds`,
`RunConcludes`, `ThreadEnds`, `EventuallyRegistered`), which is out of the prover's reach.

## 5. Not modelled, and why

The web UI, the Spark job scripts, the compose file and the documents are presentation,
straight-line I/O and configuration. SSO protocols, password hashing, token cryptography
and request validation are libraries'. Cluster policies, scopes and `run_if` are pure
checks of one request. Dashboards, query histories, comments, the audit log, secrets and
ingestion sources are rows written by one request each and read by listings; nothing
depends on their order. Substitution in SQL and redaction are functions of strings.

Left out of what is modelled: what a secret's redaction does to a log, a pid that the kernel gives out again, the time of the
autoscaler's cooldown (it may have passed or not), more than one recipient of a share and
more than one user of Stripe, which are independent of each other.

Worth adding: abstract specifications of Catalog (a name has one owner at a time) and of
the limiter (a window that never overflows), which the modules would implement but for
their named crossings.
