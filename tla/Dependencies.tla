---------------------------- MODULE Dependencies ----------------------------
(***************************************************************************)
(* What it means for things that wait for one another to have an order.    *)
(* waits[x] is what x waits for.                                           *)
(***************************************************************************)
EXTENDS Naturals, Sequences

(* Each of S waits for one of S: the members of a circle are such a set, and a
   finite graph without circles has none. *)
Circular(S, waits) == S # {} /\ \A x \in S : waits[x] \cap S # {}

(* Each of the items once, after all it waits for. *)
BuildOrder(items, waits, order) ==
  /\ order \in Seq(items)
  /\ \A x \in items : \E i \in DOMAIN order : order[i] = x
  /\ \A i, j \in DOMAIN order : order[i] = order[j] => i = j
  /\ \A i \in DOMAIN order : \A x \in waits[order[i]] : \E j \in 1 .. i - 1 : order[j] = x
=============================================================================
