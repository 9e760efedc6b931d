------------------------------ MODULE TopoSort ------------------------------
(***************************************************************************)
(* topological_layers(tasks) of backend/app/executor.py: Kahn's algorithm  *)
(* over the depends_on lists of a workflow, one step per iteration of its  *)
(* while loop.  A list may name a task twice, the task itself, or a key    *)
(* that is no task of the workflow: nothing checks it before the run.      *)
(*                                                                         *)
(* The names carry the prefix Topo because Executor extends this module    *)
(* and runs these steps while it plans.                                    *)
(***************************************************************************)
EXTENDS Naturals, Sequences, FiniteSets

CONSTANTS
  Task,   \* the keys of the workflow's tasks (create_workflow keeps them distinct)
  Key,    \* the keys a depends_on list may hold
  Graphs  \* the depends_on columns a workflow may be stored with

ASSUME TaskAssumption == IsFiniteSet(Task) /\ Task \subseteq Key
ASSUME GraphsAssumption == Graphs \subseteq [Task -> Seq(Key)]

VARIABLES
  depends_on,          \* Task.depends_on of every task: never written by a run
  phase,               \* where topological_layers is, or how it left
  remaining_indegree,  \* per task, occurrences in its list not yet counted down
  frontier,            \* the keys whose count reached zero in the last iteration
  layers,              \* the layers found so far
  seen                 \* how many tasks they hold

topoVars == <<depends_on, phase, remaining_indegree, frontier, layers, seen>>

(* What a call returns or raises. *)
TopoOutcome == {"layered", "CycleError", "ValueError"}

(* The keys task t waits for. *)
Upstream(t) == {depends_on[t][i] : i \in DOMAIN depends_on[t]}

(* The places of t's list that hold a key of S: each one is counted. *)
Occurrences(t, S) == {i \in DOMAIN depends_on[t] : depends_on[t][i] \in S}

HasUnknownKey == \E t \in Task : Upstream(t) \ Task # {}

(* The tasks already placed in a layer. *)
Placed == UNION {layers[i] : i \in DOMAIN layers}
-----------------------------------------------------------------------------
TopoInit ==
  /\ depends_on \in Graphs
  /\ phase = "start"
  /\ remaining_indegree = [t \in Task |-> 0]
  /\ frontier = {}
  /\ layers = <<>>
  /\ seen = 0

Indegrees == [t \in Task |-> Len(depends_on[t])]

(* A dependency that is no task of the workflow raises ValueError. *)
RejectUnknownKey ==
  /\ phase = "start"
  /\ HasUnknownKey
  /\ phase' = "ValueError"
  /\ UNCHANGED <<depends_on, remaining_indegree, frontier, layers, seen>>

BuildIndegrees ==
  /\ phase = "start"
  /\ ~HasUnknownKey
  /\ phase' = "layering"
  /\ remaining_indegree' = Indegrees
  /\ frontier' = {t \in Task : Len(depends_on[t]) = 0}
  /\ UNCHANGED <<depends_on, layers, seen>>

(* Mutant: each dependent is counted down once, whatever its list repeats. *)
CountedDownOnce ==
  [t \in Task |-> remaining_indegree[t] - (IF Occurrences(t, frontier) # {} THEN 1 ELSE 0)]

CountedDown ==
  [t \in Task |-> remaining_indegree[t] - Cardinality(Occurrences(t, frontier))]

(* Mutant: every count of zero is taken, those of the placed tasks too. *)
ZeroFrontier == {t \in Task : remaining_indegree[t] <= Cardinality(Occurrences(t, frontier))}

(* The dependents whose count passes zero on the way down. *)
NextFrontier == {t \in Task : remaining_indegree[t] \in 1 .. Cardinality(Occurrences(t, frontier))}

(* Mutant: one task of the frontier makes a layer of its own. *)
TakeTask ==
  /\ phase = "layering"
  /\ frontier # {}
  /\ LET t == CHOOSE x \in frontier : TRUE
         count == [u \in Task |-> Cardinality(Occurrences(u, {t}))]
     IN  /\ layers' = Append(layers, {t})
         /\ remaining_indegree' = [u \in Task |-> remaining_indegree[u] - count[u]]
         /\ frontier' = (frontier \ {t}) \cup {u \in Task : remaining_indegree[u] \in 1 .. count[u]}
  /\ seen' = seen + 1
  /\ UNCHANGED <<depends_on, phase>>

(* One iteration: the frontier becomes a layer, and every occurrence of one
   of its keys counts its dependent down. *)
TakeLayer ==
  /\ phase = "layering"
  /\ frontier # {}
  /\ layers' = Append(layers, frontier)
  /\ seen' = seen + Cardinality(frontier)
  /\ remaining_indegree' = CountedDown
  /\ frontier' = NextFrontier
  /\ UNCHANGED <<depends_on, phase>>

(* Mutant: whatever was placed is returned. *)
LeaveAlways ==
  /\ phase = "layering"
  /\ frontier = {}
  /\ phase' = "layered"
  /\ UNCHANGED <<depends_on, remaining_indegree, frontier, layers, seen>>

(* Mutant: the loop goes on while tasks are missing. *)
LeaveWhenComplete ==
  /\ phase = "layering"
  /\ frontier = {}
  /\ phase' = IF seen # Cardinality(Task) THEN phase ELSE "layered"
  /\ UNCHANGED <<depends_on, remaining_indegree, frontier, layers, seen>>

(* The frontier ran dry: a task left over means a cycle. *)
LeaveLoop ==
  /\ phase = "layering"
  /\ frontier = {}
  /\ phase' = IF seen # Cardinality(Task) THEN "CycleError" ELSE "layered"
  /\ UNCHANGED <<depends_on, remaining_indegree, frontier, layers, seen>>

TopoNext == RejectUnknownKey \/ BuildIndegrees \/ TakeLayer \/ LeaveLoop

(* A call that left the function stays where it is. *)
TopoDone == phase \in TopoOutcome /\ UNCHANGED topoVars

TopoSpec == TopoInit /\ [][TopoNext \/ TopoDone]_topoVars /\ WF_topoVars(TopoNext)
-----------------------------------------------------------------------------
TopoTypeOK ==
  /\ depends_on \in [Task -> Seq(Key)]
  /\ phase \in {"start", "layering"} \cup TopoOutcome
  /\ remaining_indegree \in [Task -> Nat]
  /\ frontier \in SUBSET Task
  /\ layers \in Seq(SUBSET Task)
  /\ seen \in Nat

(* A set of tasks that wait for one another: the set of the tasks of a cycle
   is one, and a finite graph without cycles has none. *)
Deadlocked(S) == S # {} /\ \A t \in S : Upstream(t) \cap S # {}

Cyclic == \E S \in SUBSET Task : Deadlocked(S)

(* The counters agree with the layers: what is left of t's count is exactly the
   occurrences of tasks no layer holds yet, duplicates counted each, and the
   frontier is every unplaced task that waits for placed ones only (lines
   40-61; a duplicate counted once would starve its task). *)
CountersAgree ==
  phase = "layering" =>
    /\ \A t \in Task :
         remaining_indegree[t] = Cardinality(Occurrences(t, Task \ Placed))
    /\ frontier = {t \in Task \ Placed : Upstream(t) \subseteq Placed}

(* Every task a task of layer i waits for is in a layer before i: what lets
   the executor run a layer's tasks concurrently (lines 111-112). *)
LayersOrdered ==
  \A i \in DOMAIN layers : \A t \in layers[i] :
    Upstream(t) \subseteq UNION {layers[j] : j \in 1 .. (i - 1)}

(* No task is in two layers, so none is executed twice. *)
LayersDisjoint ==
  \A i, j \in DOMAIN layers : i # j => layers[i] \cap layers[j] = {}

(* No task waits longer than the graph demands: past the first layer, each
   waits for a task of the layer right before its own. *)
LayersEarliest ==
  \A i \in DOMAIN layers : i > 1 =>
    \A t \in layers[i] : Upstream(t) \cap layers[i - 1] # {}

(* CycleError is raised on the graphs with a cycle and on no other, and a
   layering that is returned holds every task (lines 63-65). *)
VerdictRight ==
  /\ phase = "CycleError" => Cyclic
  /\ phase = "layered" => ~Cyclic /\ Placed = Task
  /\ phase = "ValueError" => HasUnknownKey

(* The layers are an order such as DependencyOrder allows, several tasks at a
   time; with the same promise as the pipelines' search. *)
TopoOrdering == INSTANCE DependencyOrder WITH
  Item <- Task, Thing <- Key, waits <- [t \in Task |-> Upstream(t)],
  batches <- layers,
  outcome <- CASE phase \in {"start", "layering"} -> "open"
               [] phase = "layered"    -> "ordered"
               [] phase = "CycleError" -> "circular"
               [] phase = "ValueError" -> "unknown"

ImplementsOrdering == TopoOrdering!Spec

(* The loop ends on every graph, whatever its cycles. *)
TopoTerminates == <>(phase \in TopoOutcome)
-----------------------------------------------------------------------------
(* The inductive invariant: the properties above, and what relates the phases to
   them.  StrandedOutside is the heart of VerdictRight: a task that
   waits in a circle is never placed.  FrontierFresh is that of LayersEarliest: a
   task reaches the frontier with the last layer taken, never later. *)
StartIsEmpty == phase = "start" => layers = <<>> /\ frontier = {} /\ seen = 0

KeysKnown == phase \in {"layering", "layered", "CycleError"} => ~HasUnknownKey

SeenCounts == seen = Cardinality(Placed)

StrandedOutside == \A S \in SUBSET Task : Deadlocked(S) => S \cap Placed = {}

FrontierFresh ==
  layers # <<>> => \A t \in frontier : Upstream(t) \cap layers[Len(layers)] # {}

TopoInv ==
  /\ TopoTypeOK
  /\ StartIsEmpty
  /\ KeysKnown
  /\ CountersAgree
  /\ LayersOrdered
  /\ LayersDisjoint
  /\ FrontierFresh
  /\ LayersEarliest
  /\ SeenCounts
  /\ StrandedOutside
  /\ VerdictRight
=============================================================================
