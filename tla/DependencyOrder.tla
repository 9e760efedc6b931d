-------------------------- MODULE DependencyOrder --------------------------
(***************************************************************************)
(* What AtlasFlow's two orderings promise alike, topological_layers of the *)
(* workflows and topological_order of the pipelines: things are placed     *)
(* when all they wait for is, one or several at a time, until all are; or  *)
(* the whole is refused, for a circle that is there or for a thing that is *)
(* none of them.  Which of those that can be placed come next is open.     *)
(***************************************************************************)
EXTENDS Dependencies

CONSTANTS
  Item,  \* what is to be ordered
  Thing  \* what an item may wait for

VARIABLES
  waits,    \* what each item waits for
  batches,  \* the items placed so far
  outcome   \* "open", or how it ended

vars == <<waits, batches, outcome>>

Placed == UNION {batches[i] : i \in DOMAIN batches}

Init ==
  /\ waits \in [Item -> SUBSET Thing]
  /\ batches = <<>>
  /\ outcome = "open"

Place(S) ==
  /\ outcome = "open"
  /\ S # {} /\ S \cap Placed = {}
  /\ \A x \in S : waits[x] \subseteq Placed
  /\ batches' = Append(batches, S)
  /\ UNCHANGED <<waits, outcome>>

Finish ==
  /\ outcome = "open"
  /\ Placed = Item
  /\ outcome' = "ordered"
  /\ UNCHANGED <<waits, batches>>

RefuseCircle ==
  /\ outcome = "open"
  /\ \E S \in SUBSET Item : Circular(S, waits)
  /\ outcome' = "circular"
  /\ UNCHANGED <<waits, batches>>

RefuseUnknown ==
  /\ outcome = "open"
  /\ \E x \in Item : waits[x] \ Item # {}
  /\ outcome' = "unknown"
  /\ UNCHANGED <<waits, batches>>

Next == (\E S \in SUBSET Item : Place(S)) \/ Finish \/ RefuseCircle \/ RefuseUnknown

Spec == Init /\ [][Next]_vars
=============================================================================
