------------------------------ MODULE Lakebase ------------------------------
(***************************************************************************)
(* One name of Lakebase (backend/app/main.py 1337-1421, lakebase.py): the   *)
(* row that describes a table and the Postgres table itself.  Each handler  *)
(* commits them one after the other, and refers to the table by its name.   *)
(* A table and a row are told apart by the request that created them; it    *)
(* stands for their columns.                                                *)
(***************************************************************************)
CONSTANTS
  Request,  \* requests, each of which does one thing
  None,     \* no row, no table
  Faults    \* "crash": the process dies

VARIABLES
  row,      \* models.LakebaseTable: who created the row
  table,    \* lakebase."name": who created the table
  request,  \* where each request is, and the row it has loaded
  past      \* rows whose table a delete has dropped, those a delete dropped
            \* another's for, and where each request for table rows went

vars == <<row, table, request, past>>

At(pc, loaded) == [at |-> pc, loaded |-> loaded]

Init ==
  /\ row = None
  /\ table = None
  /\ request = [r \in Request |-> At("idle", None)]
  /\ past = [dropped |-> {}, stolen |-> {}, landed |-> {}]

Goto(r, pc, loaded) == request' = [request EXCEPT ![r] = At(pc, loaded)]

(* create_lakebase_table: the name is free, and the schema is there. *)
Check(r) ==
  /\ request[r].at = "idle"
  /\ row = None
  /\ Goto(r, "create", None)
  /\ UNCHANGED <<row, table, past>>

(* Mutant: CREATE TABLE IF NOT EXISTS. *)
CreateIfNotExists(r) ==
  /\ request[r].at = "create"
  /\ table' = IF table = None THEN r ELSE table
  /\ Goto(r, "insert", None)
  /\ UNCHANGED <<row, past>>

(* CREATE TABLE, committed. *)
CreateTable(r) ==
  /\ request[r].at = "create"
  /\ table = None
  /\ table' = r
  /\ Goto(r, "insert", None)
  /\ UNCHANGED <<row, past>>

(* A column's name or type is not allowed, or the table exists. *)
CreateRaises(r) ==
  /\ request[r].at = "create"
  /\ Goto(r, "ended", None)
  /\ UNCHANGED <<row, table, past>>

(* The row; its name is unique. *)
InsertRow(r) ==
  /\ request[r].at = "insert"
  /\ row' = IF row = None THEN r ELSE row
  /\ Goto(r, "ended", None)
  /\ UNCHANGED <<table, past>>

(* The other handlers load the row: delete_lakebase_table, and those that
   insert, list and delete table rows. *)
Load(r) ==
  /\ request[r].at = "idle"
  /\ row # None
  /\ \E pc \in {"drop", "touch"} : Goto(r, pc, row)
  /\ UNCHANGED <<row, table, past>>

(* DROP TABLE IF EXISTS, committed. *)
DropTable(r) ==
  /\ request[r].at = "drop"
  /\ table' = None
  /\ past' = [past EXCEPT
       !.dropped = @ \cup {request[r].loaded},
       !.stolen  = IF table \in {None, request[r].loaded} THEN @ ELSE @ \cup {table}]
  /\ Goto(r, "delete", request[r].loaded)
  /\ UNCHANGED row

(* Then the row, if it is still the one: another request may have deleted it. *)
DeleteRow(r) ==
  /\ request[r].at = "delete"
  /\ row' = IF row = request[r].loaded THEN None ELSE row
  /\ Goto(r, "ended", None)
  /\ UNCHANGED <<table, past>>

(* A row of the table is inserted, listed or deleted. *)
Touch(r) ==
  /\ request[r].at = "touch"
  /\ past' = IF table = None THEN past
             ELSE [past EXCEPT !.landed = @ \cup {<<request[r].loaded, table>>}]
  /\ Goto(r, "ended", None)
  /\ UNCHANGED <<row, table>>

Crash ==
  /\ "crash" \in Faults
  /\ \E r \in Request : request[r].at \notin {"idle", "ended"}
  /\ request' = [r \in Request |->
       IF request[r].at = "idle" THEN request[r] ELSE At("ended", None)]
  /\ UNCHANGED <<row, table, past>>

Next ==
  \/ \E r \in Request :
       \/ Check(r) \/ CreateTable(r) \/ CreateRaises(r) \/ InsertRow(r)
       \/ Load(r) \/ DropTable(r) \/ DeleteRow(r) \/ Touch(r)
  \/ Crash

Spec == Init /\ [][Next]_vars
-----------------------------------------------------------------------------
(* A row has its own table, not another's and not none, from its commit on
   until a delete of it drops the table (main.py 1363-1369, 1382-1385), unless the
   delete of an earlier row of the name took it, late; and who loaded a row
   never reads or writes another row's table before that. *)
RowHasTable ==
  row # None /\ row \notin past.dropped /\ row \notin past.stolen => table = row

TouchesOwn ==
  \A p \in past.landed : p[1] = p[2] \/ p[1] \in past.dropped \/ p[1] \in past.stolen

OwnTable == RowHasTable /\ TouchesOwn
-----------------------------------------------------------------------------
(* The inductive invariant. *)
TypeInv ==
  /\ row \in Request \cup {None}
  /\ table \in Request \cup {None}
  /\ request \in [Request ->
       [at : {"idle", "create", "insert", "drop", "touch", "delete", "ended"},
        loaded : Request \cup {None}]]
  /\ past \in [dropped : SUBSET (Request \cup {None}), stolen : SUBSET Request,
               landed : SUBSET ((Request \cup {None}) \X Request)]

(* No drop has been at the table of x. *)
Untouched(x) == x \notin past.dropped /\ x \notin past.stolen

(* Who is about to insert the row has created the table. *)
AboutToInsert ==
  \A r \in Request : request[r].at = "insert" /\ Untouched(r) => table = r

(* Who has loaded a row to work on its table finds that table. *)
AboutToTouch ==
  \A r \in Request : request[r].at = "touch" =>
    /\ request[r].loaded \in Request
    /\ Untouched(request[r].loaded) => table = request[r].loaded

LakebaseInv == TypeInv /\ OwnTable /\ AboutToInsert /\ AboutToTouch
=============================================================================
