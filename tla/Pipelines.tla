------------------------------ MODULE Pipelines ------------------------------
(***************************************************************************)
(* topological_order(pipeline_tables) of backend/app/pipelines.py: the     *)
(* depth-first search that orders the tables of a declarative pipeline by  *)
(* what their SQL mentions.  The calls of visit() under way are kept as a  *)
(* stack, and a step is one turn of a loop, one call or one return.        *)
(***************************************************************************)
EXTENDS Dependencies

CONSTANTS
  Table,     \* the names of the pipeline's tables
  Queries,   \* the orders in which the query for them may return them
  Mentions   \* which of them the SQL of each may mention

ASSUME QueriesAssumption ==
  \A q \in Queries : q \in Seq(Table) /\ \A t \in Table : \E i \in DOMAIN q : q[i] = t
ASSUME MentionsAssumption == Mentions \subseteq [Table -> SUBSET Table]

VARIABLES
  names,      \* the tables, in the order the loops go through them
  mentions,   \* the tables that the SQL of each mentions
  outcome,    \* "searching", "ordered", or "ValueError"
  path,       \* the tables whose visit() has not returned, the last call last
  cursor,     \* where the loop of the caller, and that of each visit, has come to
  temp_mark, visited, order

graphVars == <<names, mentions>>
searchVars == <<outcome, path, cursor, temp_mark, visited, order>>
vars == <<graphVars, searchVars>>

Init ==
  /\ names \in Queries
  /\ mentions \in Mentions
  /\ outcome = "searching"
  /\ path = <<>>
  /\ cursor = <<1>>
  /\ temp_mark = {} /\ visited = {} /\ order = <<>>
-----------------------------------------------------------------------------
(* _detect_deps: a table that mentions itself does not wait for itself. *)
Reads(t) == mentions[t] \ {t}

Innermost == path[Len(path)]

(* Not every table has been through the innermost loop, and the next is Called. *)
More == outcome = "searching" /\ cursor[Len(cursor)] <= Len(names)
Called == names[cursor[Len(cursor)]]

(* The loop of topological_order visits every table, that of a visit its own deps. *)
Wanted == path # <<>> => Called \in Reads(Innermost)

Advanced(places) == [places EXCEPT ![Len(places)] = @ + 1]
Popped(s) == SubSeq(s, 1, Len(s) - 1)

(* Mutant: a loop that passes over a table does not take the next one. *)
PassOverInPlace ==
  /\ More
  /\ Wanted => Called \in visited
  /\ UNCHANGED vars

(* The loop passes over a table it does not want, and visit() returns at once
   for one that was visited. *)
PassOver ==
  /\ More
  /\ Wanted => Called \in visited
  /\ cursor' = Advanced(cursor)
  /\ UNCHANGED <<graphVars, outcome, path, temp_mark, visited, order>>

(* Mutant: whatever was met before makes a circle. *)
RaiseOnVisited ==
  /\ More
  /\ Wanted
  /\ Called \in temp_mark \cup visited
  /\ outcome' = "ValueError"
  /\ UNCHANGED <<graphVars, path, cursor, temp_mark, visited, order>>

(* A table whose visit has not returned: the ValueError ends every call. *)
Raise ==
  /\ More
  /\ Wanted
  /\ Called \in temp_mark \ visited
  /\ outcome' = "ValueError"
  /\ UNCHANGED <<graphVars, path, cursor, temp_mark, visited, order>>

(* Mutant: the table is placed when its visit begins, too. *)
EnterInOrder ==
  /\ More
  /\ Wanted
  /\ Called \notin temp_mark \cup visited
  /\ temp_mark' = temp_mark \cup {Called}
  /\ path' = Append(path, Called)
  /\ cursor' = Append(cursor, 1)
  /\ order' = Append(order, Called)
  /\ UNCHANGED <<graphVars, outcome, visited>>

Enter ==
  /\ More
  /\ Wanted
  /\ Called \notin temp_mark \cup visited
  /\ temp_mark' = temp_mark \cup {Called}
  /\ path' = Append(path, Called)
  /\ cursor' = Append(cursor, 1)
  /\ UNCHANGED <<graphVars, outcome, visited, order>>

(* The end of a visit: its caller's loop goes on. *)
Leave ==
  /\ outcome = "searching" /\ ~More
  /\ path # <<>>
  /\ temp_mark' = temp_mark \ {Innermost}
  /\ visited' = visited \cup {Innermost}
  /\ order' = Append(order, Innermost)
  /\ path' = Popped(path)
  /\ cursor' = Advanced(Popped(cursor))
  /\ UNCHANGED <<graphVars, outcome>>

Return ==
  /\ outcome = "searching" /\ ~More
  /\ path = <<>>
  /\ outcome' = "ordered"
  /\ UNCHANGED <<graphVars, path, cursor, temp_mark, visited, order>>

Next == PassOver \/ Raise \/ Enter \/ Leave \/ Return

Ended == outcome # "searching" /\ UNCHANGED vars

Spec == Init /\ [][Next \/ Ended]_vars /\ WF_vars(Next)
-----------------------------------------------------------------------------
TypeOK ==
  /\ names \in Queries /\ mentions \in Mentions
  /\ outcome \in {"searching", "ordered", "ValueError"}
  /\ path \in Seq(Table)
  /\ cursor \in Seq(Nat \ {0}) /\ Len(cursor) = Len(path) + 1
  /\ temp_mark \in SUBSET Table /\ visited \in SUBSET Table
  /\ order \in Seq(Table)

Waits == [t \in Table |-> Reads(t)]

(* What is returned is an order of the tables, each after all it reads, and the
   ValueError is raised for a circle that is there (pipelines.py 23-24). *)
SearchRight ==
  /\ outcome = "ordered" => BuildOrder(Table, Waits, order)
  /\ outcome = "ValueError" => \E S \in SUBSET Table : Circular(S, Waits)

(* The search places tables as DependencyOrder allows, one at a time, and refuses
   only what that refuses. *)
Ordering == INSTANCE DependencyOrder WITH
  Item <- Table, Thing <- Table, waits <- Waits,
  batches <- [i \in DOMAIN order |-> {order[i]}],
  outcome <- CASE outcome = "searching"  -> "open"
               [] outcome = "ordered"    -> "ordered"
               [] outcome = "ValueError" -> "circular"

ImplementsOrdering == Ordering!Spec

(* visit() descends into no circle for ever, whatever the tables mention. *)
SearchEnds == <>(outcome # "searching")
-----------------------------------------------------------------------------
(* The inductive invariant. *)

(* The tables under way are those marked, each once, none of them visited, and
   each is what its caller's loop has come to, a table that its caller reads. *)
OnPath ==
  /\ temp_mark = {path[k] : k \in DOMAIN path}
  /\ \A j, k \in DOMAIN path : path[j] = path[k] => j = k
  /\ \A k \in DOMAIN path :
       /\ path[k] \notin visited
       /\ cursor[k] \in DOMAIN names /\ names[cursor[k]] = path[k]
       /\ k > 1 => path[k] \in Reads(path[k - 1])

(* What a loop has gone past is visited, if the loop wanted it. *)
GonePast ==
  /\ \A i \in 1 .. cursor[1] - 1 : i \in DOMAIN names => names[i] \in visited
  /\ \A k \in DOMAIN path : \A i \in 1 .. cursor[k + 1] - 1 :
       i \in DOMAIN names /\ names[i] \in Reads(path[k]) => names[i] \in visited

(* The order so far holds the visited tables, each once and after all it reads. *)
OrderSoFar ==
  /\ visited = {order[i] : i \in DOMAIN order}
  /\ \A i, j \in DOMAIN order : order[i] = order[j] => i = j
  /\ \A i \in DOMAIN order : \A t \in Reads(order[i]) : \E j \in 1 .. i - 1 : order[j] = t

SearchInv == TypeOK /\ OnPath /\ GonePast /\ OrderSoFar /\ SearchRight
=============================================================================
