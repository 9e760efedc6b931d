----------------------------- MODULE Governance -----------------------------
(***************************************************************************)
(* Who reads what of one catalog table: visibility, grants, row filters and *)
(* column masks (backend/app/main.py 518-527, 637-742) and the queries that *)
(* are rewritten by them (main.py 2302-2320, catalog.py 21-73).  Filters    *)
(* and masks are JSON columns: an edit loads one, changes an entry and      *)
(* stores all of it.                                                        *)
(***************************************************************************)
CONSTANTS
  Request,  \* grants are named for the request that made them
  Role,     \* roles a filter is for
  Column,   \* columns a mask is for
  None,
  Faults    \* "crash": the process dies

Field == {"filters", "masks"}
Entry(field) == IF field = "filters" THEN Role ELSE Column

VARIABLES
  table,    \* models.Table: visibility, row_filters and masked_columns, the last
            \* two as the entries they have
  grants,   \* the TableGrants of one reader, neither admin nor owner
  request,  \* where each request is; the field it edits, as it was loaded, the
            \* entry, and whether it sets it; for a query, the rules it has read
            \* and those it has to keep
  past      \* entries whose last edit set them and crossed no other; edits and
            \* grants that crossed another

vars == <<table, grants, request, past>>

Idle == [at |-> "idle", field |-> None, loaded |-> {}, entry |-> None, sets |-> FALSE,
         rules |-> {}, due |-> {}]
Goto(r, pc) == request' = [request EXCEPT ![r].at = pc]

Init ==
  /\ table = [restricted |-> FALSE, filters |-> {}, masks |-> {}]
  /\ grants = {}
  /\ request = [r \in Request |-> Idle]
  /\ past = [set |-> {}, crossed |-> {}]

SetVisibility ==
  /\ table' = [table EXCEPT !.restricted = ~@]
  /\ UNCHANGED <<grants, request, past>>

Edits(q, field) == request[q].at = "store" /\ request[q].field = field

(* set_row_filter, set_column_mask and remove_column_mask load the row; from here
   on the entry is not one to rely on. *)
Load(r) ==
  /\ request[r].at = "idle"
  /\ \E field \in Field, sets \in BOOLEAN : \E e \in Entry(field) :
       LET others == {q \in Request : Edits(q, field)} IN
       /\ request' = [q \in Request |->
            IF q = r THEN [Idle EXCEPT !.at = "store", !.field = field,
                             !.loaded = table[field], !.entry = e, !.sets = sets]
            ELSE [request[q] EXCEPT !.due = @ \ {<<field, e>>}]]
       /\ past' = [set |-> past.set \ {<<field, e>>},
                   crossed |-> IF others = {} THEN past.crossed
                               ELSE past.crossed \cup others \cup {r}]
  /\ UNCHANGED <<table, grants>>

(* Mutant: the new entry replaces those there were. *)
EditedAnew(r) == IF request[r].sets THEN {request[r].entry} ELSE {}

(* A copy of what was loaded, with the entry set or taken out. *)
Edited(r) ==
  IF request[r].sets THEN request[r].loaded \cup {request[r].entry}
                     ELSE request[r].loaded \ {request[r].entry}

(* The commit stores this field and no other, and not even this one if nothing
   changes (a mask that is set again changes its place).  Of two edits that
   crossed, the later one undoes the other: no entry of the field is to be
   relied on then. *)
Store(r) ==
  /\ request[r].at = "store"
  /\ LET field == request[r].field
         all   == {<<field, e>> : e \in Entry(field)}
     IN /\ table' \in {[table EXCEPT ![field] = Edited(r)]} \cup
                      (IF Edited(r) = request[r].loaded THEN {table} ELSE {})
        /\ IF r \in past.crossed
             THEN /\ past' = [past EXCEPT !.set = @ \ all]
                  /\ request' = [q \in Request |->
                       IF q = r THEN [request[r] EXCEPT !.at = "ended"]
                       ELSE [request[q] EXCEPT !.due = @ \ all]]
             ELSE /\ past' = [past EXCEPT
                       !.set = IF request[r].sets
                                 THEN @ \cup {<<field, request[r].entry>>} ELSE @]
                  /\ Goto(r, "ended")
  /\ UNCHANGED grants

(* The requests about to grant are from now on crossed by r, and it by them. *)
CrossGrants(r) ==
  LET others == {q \in Request : request[q].at = "grant"}
  IN  past' = [past EXCEPT !.crossed = IF others = {} THEN @ ELSE @ \cup others \cup {r}]

(* Mutant: the grant is made without a look for one there is. *)
CheckNothing(r) ==
  /\ request[r].at = "idle"
  /\ Goto(r, "grant")
  /\ CrossGrants(r)
  /\ UNCHANGED <<table, grants>>

(* grant_table_access: the check that there is no grant, *)
Check(r) ==
  /\ request[r].at = "idle"
  /\ grants = {}
  /\ Goto(r, "grant")
  /\ CrossGrants(r)
  /\ UNCHANGED <<table, grants>>

(* and the row: two that found none make two. *)
Grant(r) ==
  /\ request[r].at = "grant"
  /\ grants' = grants \cup {r}
  /\ Goto(r, "ended")
  /\ UNCHANGED <<table, past>>

Revoke ==
  /\ \E g \in grants : grants' = grants \ {g}
  /\ UNCHANGED <<table, request, past>>

CanRead == ~table.restricted \/ grants # {}

(* A query: _require_table_access for the tables it names, *)
Query(r) ==
  /\ request[r].at = "idle"
  /\ request' = [request EXCEPT ![r] =
       IF CanRead THEN [Idle EXCEPT !.at = "resolve", !.due = past.set]
                  ELSE [Idle EXCEPT !.at = "refused"]]
  /\ UNCHANGED <<table, grants, past>>

(* and resolve_table_names, which reads them anew and wraps each in its filters
   and masks; the query runs with those, whatever is set meanwhile. *)
Resolve(r) ==
  /\ request[r].at = "resolve"
  /\ request' = [request EXCEPT ![r].at = "running",
       ![r].rules = UNION {{<<field, e>> : e \in table[field]} : field \in Field}]
  /\ UNCHANGED <<table, grants, past>>

QueryEnds(r) ==
  /\ request[r].at = "running"
  /\ request' = [request EXCEPT ![r] = [Idle EXCEPT !.at = "ended"]]
  /\ UNCHANGED <<table, grants, past>>

Busy(r) == request[r].at \in {"store", "grant", "resolve", "running"}

Crash ==
  /\ "crash" \in Faults
  /\ \E r \in Request : Busy(r)
  /\ request' = [r \in Request |-> IF Busy(r) THEN [Idle EXCEPT !.at = "ended"]
                                   ELSE request[r]]
  /\ UNCHANGED <<table, grants, past>>

Next ==
  \/ \E r \in Request :
       \/ Load(r) \/ Store(r) \/ Check(r) \/ Grant(r)
       \/ Query(r) \/ Resolve(r) \/ QueryEnds(r)
  \/ SetVisibility
  \/ Revoke
  \/ Crash

Spec == Init /\ [][Next]_vars
-----------------------------------------------------------------------------
(* A query runs under every row filter and column mask whose edit had been
   answered when it came: an edit leaves the entries of other roles and columns
   as they are, and only edits of one field that overlapped lose one another
   (main.py 670-676, 691-694). *)
QueriesUnderRules ==
  \A r \in Request : request[r].at = "running" => request[r].due \subseteq request[r].rules

(* A revoked grant was the reader's only one, so that he cannot read a restricted
   table any more, unless two requests to grant it overlapped: each found none and
   made one, and the one revoked leaves the other (main.py 719-721, 736-742). *)
RevokeEnds ==
  \A g \in grants \ grants' : g \notin past.crossed /\ table'.restricted => ~CanRead'
-----------------------------------------------------------------------------
(* The inductive invariant. *)
Entries(field) == {<<field, e>> : e \in Entry(field)}
Rules == Entries("filters") \cup Entries("masks")
Requests ==
  [at : {"idle", "store", "grant", "resolve", "running", "refused", "ended"},
   field : Field \cup {None}, loaded : SUBSET (Role \cup Column),
   entry : Role \cup Column \cup {None}, sets : BOOLEAN,
   rules : SUBSET Rules, due : SUBSET Rules]

TypeInv ==
  /\ table \in [restricted : BOOLEAN, filters : SUBSET Role, masks : SUBSET Column]
  /\ request \in [Request -> Requests]
  /\ past \in [set : SUBSET Rules, crossed : SUBSET Request]
  /\ \A r \in Request : request[r].at = "store" =>
       /\ request[r].field \in Field
       /\ request[r].entry \in Entry(request[r].field)
       /\ request[r].loaded \subseteq Entry(request[r].field)

(* The entries to rely on are there, *)
SetIsThere ==
  \A field \in Field : \A e \in Entry(field) : <<field, e>> \in past.set => e \in table[field]

(* an edit that crossed no other works with what is there, on an entry that is
   not to be relied on, *)
EditsApart ==
  \A r \in Request : request[r].at = "store" /\ r \notin past.crossed =>
    /\ request[r].loaded = table[request[r].field]
    /\ <<request[r].field, request[r].entry>> \notin past.set
    /\ \A q \in Request : Edits(q, request[r].field) => q = r

(* and a query that has not read its rules yet owes no others. *)
DueIsSet == \A r \in Request : request[r].at = "resolve" => request[r].due \subseteq past.set

(* Grants beside others come from requests that crossed, and who is about to grant
   and has crossed nobody is alone with that. *)
GrantsApart ==
  /\ \A g, h \in grants : g # h => g \in past.crossed
  /\ \A r \in Request : request[r].at = "grant" =>
       /\ grants \subseteq past.crossed
       /\ r \notin past.crossed => grants = {}
       /\ \A q \in Request : request[q].at = "grant" /\ q # r => q \in past.crossed

GovernanceInv == TypeInv /\ SetIsThere /\ EditsApart /\ DueIsSet /\ QueriesUnderRules
=============================================================================
