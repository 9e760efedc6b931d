------------------------------- MODULE Catalog -------------------------------
(***************************************************************************)
(* The table catalog of backend/app/main.py: rows that name Delta tables,  *)
(* and everything that writes them.  Uploads, ingestions, Lakebase syncs   *)
(* and pipeline runs write /data/tables/<name> with a Spark job of minutes *)
(* and touch the row of that name before and after it, in a transaction of *)
(* its own; registering and deleting a table touch the row alone.          *)
(*                                                                         *)
(* Data is told apart by who wrote it: a version is the writer.  A Delta   *)
(* overwrite is atomic.                                                    *)
(***************************************************************************)
EXTENDS Dependencies, FiniteSets

CONSTANTS
  Name,         \* table names; a name is also its directory under /data/tables
  Elsewhere,    \* a path outside /data/tables that registered tables may have
  Declared,     \* the declared tables of the pipeline
  Declarations, \* which of them the SQL of each may mention (_detect_deps); of any
                \* other table, only whether the job succeeds is of interest
  Synced,       \* the name the Lakebase table is synced to
  Writer,       \* requests and cron firings, each of which does one thing
  None,         \* no row, no data
  Faults        \* "crash": the process dies

ASSUME NamesAssumption ==
  /\ Declared \subseteq Name
  /\ Declarations \subseteq [Name -> SUBSET Declared]
  /\ Synced \in Name
  /\ Elsewhere \notin Name
  /\ None \notin Writer

VARIABLES
  catalog,   \* models.Table: the row of each name, or None; id is its creator's
  disk,      \* the data in each name's directory
  pipeline,  \* "absent", "present" or "deleted"
  reads,     \* what the pipeline's tables read, once it is created
  last_run,  \* Pipeline.last_run_status, and the run that wrote it
  lakebase,  \* the Lakebase table exists
  writer,    \* where each request is
  stored,    \* <<w, n>>: w's result for n was committed to the catalog
  crossed,   \* names that were written by one writer between another's write and commit
  strayed,   \* pipeline runs that built a table from a written one that was not their own
  disturbed  \* pipeline runs during which others touched the pipeline's tables

rows == <<catalog, disk>>
setup == <<pipeline, reads, lakebase>>
history == <<stored, crossed, strayed, disturbed>>
vars == <<rows, setup, last_run, writer, history>>

Row == [id : Writer, path : Name \cup {Elsewhere}, origin : {"registered", "written"},
        of : Writer \cup {None}]
Version == Writer \cup {None}

(* A writer: "write" before the Spark job for the head of todo, "look" and
   "store" on either side of the query for its row, "failed" when the job has
   failed.  ok is ~any_failed. *)
Idle == [at |-> "idle"]
Ended == [at |-> "ended"]
Busy(at, op, todo, ok, saw) == [at |-> at, op |-> op, todo |-> todo, ok |-> ok, saw |-> saw]

Init ==
  /\ catalog = [n \in Name |-> None]
  /\ disk = [n \in Name |-> None]
  /\ pipeline = "absent"
  /\ reads \in Declarations
  /\ last_run = [status |-> "none", by |-> None]
  /\ lakebase = TRUE
  /\ writer = [w \in Writer |-> Idle]
  /\ stored = {} /\ crossed = {} /\ strayed = {} /\ disturbed = {}

(* Mutant: the tables are built in any order. *)
AnyOrders ==
  {order \in [1 .. Cardinality(Declared) -> Declared] :
     \A i, j \in DOMAIN order : order[i] = order[j] => i = j}

(* What topological_order may return: the query for the tables has no ORDER BY,
   and Pipelines shows what becomes of the order it returns them in. *)
Orders ==
  {order \in [1 .. Cardinality(Declared) -> Declared] : BuildOrder(Declared, reads, order)}

Active(w) == writer[w].at \notin {"idle", "ended"}
Target(w) == Head(writer[w].todo)

(* The writer has written its table and not yet stored what it wrote. *)
Between(w, n) == writer[w].at \in {"look", "store"} /\ Target(w) = n

(* Pipeline runs other than w's that n matters to. *)
Disturbs(w, n) ==
  {r \in Writer \ {w} : Active(r) /\ writer[r].op = "run" /\ n \in Declared}
-----------------------------------------------------------------------------
(* Requests.                                                                *)

(* create_pipeline: its tables' names must be free.  A circle is found after
   the commit, and the rows of its tables forbid taking it back. *)
CreatePipeline ==
  /\ pipeline = "absent"
  /\ \A n \in Declared : catalog[n] = None
  /\ pipeline' = "present"
  /\ UNCHANGED <<rows, reads, lakebase, last_run, writer, history>>

(* delete_pipeline deletes the declarations and the pipeline; tables stay. *)
DeletePipeline ==
  /\ pipeline = "present"
  /\ pipeline' = "deleted"
  /\ UNCHANGED <<rows, reads, lakebase, last_run, writer, history>>

(* upload_table and run_ingestion look for the name before they start. *)
StartUpload(w, n) ==
  /\ writer[w] = Idle
  /\ catalog[n] = None
  /\ writer' = [writer EXCEPT ![w] = Busy("write", "upload", <<n>>, TRUE, None)]
  /\ UNCHANGED <<rows, setup, last_run, history>>

(* sync_lakebase_table starts without a look. *)
StartSync(w) ==
  /\ writer[w] = Idle
  /\ lakebase
  /\ writer' = [writer EXCEPT ![w] = Busy("write", "sync", <<Synced>>, TRUE, None)]
  /\ UNCHANGED <<rows, setup, last_run, history>>

(* run_pipeline_now, by hand or by cron. *)
StartRun(w) ==
  /\ writer[w] = Idle
  /\ pipeline = "present"
  /\ \E order \in Orders :
       writer' = [writer EXCEPT ![w] =
         Busy(IF order = <<>> THEN "finish" ELSE "write", "run", order, TRUE, None)]
  /\ UNCHANGED <<rows, setup, last_run, history>>

(* A circle is recorded as an error. *)
RunCircular(w) ==
  /\ writer[w] = Idle
  /\ pipeline = "present"
  /\ \E S \in SUBSET Declared : Circular(S, reads)
  /\ last_run' = [status |-> "error", by |-> w]
  /\ writer' = [writer EXCEPT ![w] = Ended]
  /\ UNCHANGED <<rows, setup, history>>

(* register_table: any path under a free name. *)
Register(w, n, path) ==
  /\ writer[w] = Idle
  /\ catalog[n] = None
  /\ catalog' = [catalog EXCEPT ![n] = [id |-> w, path |-> path, origin |-> "registered",
                                        of |-> None]]
  /\ writer' = [writer EXCEPT ![w] = Ended]
  /\ disturbed' = disturbed \cup Disturbs(w, n)
  /\ UNCHANGED <<disk, setup, last_run, stored, crossed, strayed>>

(* delete_table: the row goes, its directory stays. *)
DeleteTable(w, n) ==
  /\ writer[w] = Idle
  /\ catalog[n] # None
  /\ catalog' = [catalog EXCEPT ![n] = None]
  /\ writer' = [writer EXCEPT ![w] = Ended]
  /\ disturbed' = disturbed \cup Disturbs(w, n)
  /\ UNCHANGED <<disk, setup, last_run, stored, crossed, strayed>>

DeleteLakebase ==
  /\ lakebase
  /\ lakebase' = FALSE
  /\ UNCHANGED <<rows, pipeline, reads, last_run, writer, history>>
-----------------------------------------------------------------------------
(* The Spark jobs.                                                          *)

(* The data the name resolves to (resolve_table_names: the path of its row). *)
Data(n) == IF catalog[n] = None \/ catalog[n].path = Elsewhere THEN None
           ELSE disk[catalog[n].path]

(* Not registered by hand. *)
Written(n) == catalog[n] # None /\ catalog[n].origin = "written"

(* A pipeline's SQL runs when every table it mentions resolves to data. *)
CanRead(n) ==
  \A d \in reads[n] : catalog[d] # None /\ (Data(d) # None \/ catalog[d].path = Elsewhere)

(* The rows a writer updates along with the catalog's are there: those of a
   deleted pipeline are not, but what a run loaded of the first one it builds
   serves it, and its commit when nothing in that row changes. *)
ParentThere(w) ==
  CASE writer[w].op = "run"  -> pipeline = "present" \/ Len(writer[w].todo) = Cardinality(Declared)
    [] writer[w].op = "sync" -> lakebase
    [] OTHER                 -> TRUE

CanWrite(w) == ParentThere(w) /\ (writer[w].op = "run" => CanRead(Target(w)))

(* A Spark job overwrites its table; it may still fail after that (a timeout,
   the count of the rows).  Resolving, reading and writing are one step. *)
Write(w) ==
  /\ writer[w].at = "write"
  /\ CanWrite(w)
  /\ LET n == Target(w)
     IN  /\ disk' = [disk EXCEPT ![n] = w]
         /\ writer' \in {[writer EXCEPT ![w].at = after] :
              after \in {IF writer[w].op = "upload" THEN "store" ELSE "look", "failed"}}
         /\ crossed' = IF \E v \in Writer \ {w} : Between(v, n) THEN crossed \cup {n} ELSE crossed
         /\ strayed' = IF writer[w].op = "run" /\ \E d \in reads[n] : Written(d) /\ Data(d) # w
                         THEN strayed \cup {w} ELSE strayed
         /\ disturbed' = disturbed \cup Disturbs(w, n)
  /\ UNCHANGED <<catalog, setup, last_run, stored>>

(* It fails before it writes, as it must where it cannot read. *)
WriteFails(w) ==
  /\ writer[w].at = "write"
  /\ writer' = [writer EXCEPT ![w].at = "failed"]
  /\ UNCHANGED <<rows, setup, last_run, history>>
-----------------------------------------------------------------------------
(* The commits after a job.                                                 *)

RowId(n) == IF catalog[n] = None THEN None ELSE catalog[n].id

(* A sync and a run look for the row after the job; an upload looked before. *)
Look(w) ==
  /\ writer[w].at = "look"
  /\ writer' = [writer EXCEPT ![w].at = "store", ![w].saw = RowId(Target(w))]
  /\ UNCHANGED <<rows, setup, last_run, history>>

(* Mutant: a run is as good as its last table. *)
AdvancedForgetting(w, ok) ==
  IF writer[w].op = "run"
    THEN Busy(IF Len(writer[w].todo) = 1 THEN "finish" ELSE "write",
              "run", Tail(writer[w].todo), ok, None)
    ELSE Ended

(* On to the next table, for a run. *)
Advanced(w, ok) ==
  IF writer[w].op = "run"
    THEN Busy(IF Len(writer[w].todo) = 1 THEN "finish" ELSE "write",
              "run", Tail(writer[w].todo), writer[w].ok /\ ok, None)
    ELSE Ended

(* Mutant: a row that exists keeps its row_count and columns. *)
RefreshedNot(w) == catalog[Target(w)]

(* The row that is there, with the row_count and columns of the new data. *)
Refreshed(w) == [catalog[Target(w)] EXCEPT !.of = w]

NewRow(w) == [id |-> w, path |-> Target(w), origin |-> "written", of |-> w]

(* The commit succeeds if the row is as it was seen: a name is unique, and an
   update finds its row by id. *)
Store(w) ==
  /\ writer[w].at = "store"
  /\ LET n == Target(w)
     IN  /\ writer[w].saw = RowId(n)
         /\ ParentThere(w)
         /\ catalog' = [catalog EXCEPT ![n] =
              IF writer[w].saw = None THEN NewRow(w) ELSE Refreshed(w)]
         /\ writer' = [writer EXCEPT ![w] = Advanced(w, TRUE)]
         /\ stored' = stored \cup {<<w, n>>}
         /\ disturbed' = disturbed \cup Disturbs(w, n)
  /\ UNCHANGED <<disk, setup, last_run, crossed, strayed>>

(* The commit raises: the name was taken or the row deleted meanwhile, or the
   pipeline or the Lakebase table is gone.  The request or the run ends. *)
StoreRaises(w) ==
  /\ writer[w].at = "store"
  /\ \/ writer[w].saw # RowId(Target(w))
     \/ writer[w].op = "run" /\ pipeline = "deleted"
     \/ writer[w].op = "sync" /\ ~lakebase
  /\ writer' = [writer EXCEPT ![w] = Ended]
  /\ UNCHANGED <<rows, setup, last_run, history>>

(* Mutant: nobody looks whether the job failed. *)
FailedUnnoticed(w) ==
  /\ writer[w].at = "failed"
  /\ writer' = [writer EXCEPT ![w].at = "store", ![w].saw = RowId(Target(w))]
  /\ UNCHANGED <<rows, setup, last_run, history>>

(* A run records the table's error and goes on to the next one; a request ends
   with a 400. *)
Failed(w) ==
  /\ writer[w].at = "failed"
  /\ writer' = [writer EXCEPT ![w] =
       IF writer[w].op = "run" /\ pipeline = "deleted" THEN Ended ELSE Advanced(w, FALSE)]
  /\ UNCHANGED <<rows, setup, last_run, history>>

(* last_run_status; a deleted pipeline has none any more. *)
Finish(w) ==
  /\ writer[w].at = "finish"
  /\ last_run' = IF pipeline = "present"
                   THEN [status |-> IF writer[w].ok THEN "ok" ELSE "error", by |-> w]
                   ELSE last_run
  /\ writer' = [writer EXCEPT ![w] = Ended]
  /\ UNCHANGED <<rows, setup, history>>

(* The process dies with everything it was doing. *)
Crash ==
  /\ "crash" \in Faults
  /\ \E w \in Writer : Active(w)
  /\ writer' = [w \in Writer |-> IF Active(w) THEN Ended ELSE writer[w]]
  /\ UNCHANGED <<rows, setup, last_run, history>>
-----------------------------------------------------------------------------
Request(w) ==
  \/ \E n \in Name : StartUpload(w, n) \/ DeleteTable(w, n)
  \/ \E n \in Name, path \in Name \cup {Elsewhere} : Register(w, n, path)
  \/ StartSync(w)
  \/ StartRun(w) \/ RunCircular(w)

Proceed(w) ==
  \/ Write(w) \/ WriteFails(w)
  \/ Look(w) \/ Store(w) \/ StoreRaises(w) \/ Failed(w) \/ Finish(w)

Done == \A w \in Writer : writer[w] = Ended

Next ==
  \/ CreatePipeline \/ DeletePipeline \/ DeleteLakebase
  \/ \E w \in Writer : Request(w) \/ Proceed(w)
  \/ Crash
  \/ Done /\ UNCHANGED vars

Spec == Init /\ [][Next]_vars
-----------------------------------------------------------------------------
WriterState ==
  {Idle, Ended} \cup
  [at : {"write", "look", "store", "failed", "finish"}, op : {"upload", "sync", "run"},
   todo : Seq(Name), ok : BOOLEAN, saw : Writer \cup {None}]

TypeOK ==
  /\ catalog \in [Name -> Row \cup {None}]
  /\ disk \in [Name -> Version]
  /\ pipeline \in {"absent", "present", "deleted"}
  /\ reads \in Declarations
  /\ last_run \in [status : {"none", "ok", "error"}, by : Version]
  /\ lakebase \in BOOLEAN
  /\ writer \in [Writer -> WriterState]
  /\ \A w \in Writer : writer[w].at \in {"write", "look", "store", "failed"} =>
       Len(writer[w].todo) > 0
  /\ stored \subseteq Writer \X Name
  /\ crossed \subseteq Name /\ strayed \subseteq Writer /\ disturbed \subseteq Writer

(* A table that was not registered by hand has data behind its name, whatever
   was deleted, overwritten or interrupted (the row comes after the job: main.py
   573-583, 1321-1330, 1445-1462, 1813-1839). *)
RowsBacked == \A n \in Name : Written(n) => disk[catalog[n].path] # None

(* row_count and columns are those of the data, unless the last to write the
   table never got to record it (it is at it, failed, or died) or two writers
   of the table crossed.  The name is only checked long before (line 555) or
   never (line 1448), so the two exceptions are all that uniqueness leaves. *)
RowsDescribeData ==
  \A n \in Name : Written(n) =>
    \/ catalog[n].of = disk[n]
    \/ n \in crossed
    \/ <<disk[n], n>> \notin stored

(* A pipeline whose last run is ok has every table of it stored by that run
   (any_failed is kept across the tables: lines 1806-1841). *)
OkRunIsComplete ==
  last_run.status = "ok" => \A n \in Declared : <<last_run.by, n>> \in stored

(* And each was built from what that run had just built, if nobody else touched
   the pipeline's tables meanwhile (a table that was registered by hand is read
   where its row says): the order of the tables, and a commit after each, so that
   the next resolves it (lines 1799, 1808, 1839). *)
OkRunIsConsistent ==
  last_run.status = "ok" /\ last_run.by \notin disturbed => last_run.by \notin strayed
-----------------------------------------------------------------------------
(* The inductive invariant. *)
Runs(w) == Active(w) /\ writer[w].op = "run"
Left(w) == {writer[w].todo[i] : i \in DOMAIN writer[w].todo}

(* A run has the end of an order left: each table once, none before one it reads.
   It has stored all the others if nothing failed. *)
InOrder(w) ==
  /\ writer[w].at = "finish" => Runs(w)
  /\ Runs(w) =>
       /\ Left(w) \subseteq Declared
       /\ \A i, j \in DOMAIN writer[w].todo :
            /\ writer[w].todo[i] = writer[w].todo[j] => i = j
            /\ i <= j => writer[w].todo[j] \notin reads[writer[w].todo[i]]
       /\ writer[w].ok => \A n \in Declared \ Left(w) : <<w, n>> \in stored
       /\ writer[w].at = "finish" => writer[w].todo = <<>>

(* Nobody stores a table twice. *)
StoresOnce(w) ==
  /\ writer[w] = Idle => w \notin strayed /\ \A n \in Name : <<w, n>> \notin stored
  /\ Active(w) => \A n \in Left(w) : <<w, n>> \notin stored

(* What a writer has written is there until another writes the table: that is a
   crossing, and disturbs a run. *)
StillThere(w) ==
  writer[w].at \in {"look", "store"} =>
    /\ disk[Target(w)] # None
    /\ Target(w) \notin crossed => disk[Target(w)] = w
    /\ Runs(w) /\ w \notin disturbed => disk[Target(w)] = w

(* A run that nobody disturbs finds what it has stored. *)
Undisturbed(w) ==
  Runs(w) /\ w \notin disturbed =>
    /\ \A n \in Declared : <<w, n>> \in stored /\ Written(n) => disk[n] = w
    /\ writer[w].ok => w \notin strayed

WriterInv(w) == InOrder(w) /\ StoresOnce(w) /\ StillThere(w) /\ Undisturbed(w)

WrittenAtHome == \A n \in Name : Written(n) => catalog[n].path = n /\ disk[n] # None

OkRunEnded == last_run.status = "ok" => last_run.by \in Writer /\ writer[last_run.by] = Ended

CatalogInv ==
  /\ TypeOK
  /\ \A w \in Writer : WriterInv(w)
  /\ WrittenAtHome /\ RowsDescribeData
  /\ OkRunEnded /\ OkRunIsComplete /\ OkRunIsConsistent
=============================================================================
