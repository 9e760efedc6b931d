----------------------------- MODULE MCCatalog -----------------------------
(* A pipeline of two tables, b reading a or each the other; the Lakebase table *)
(* is synced to the name of a.                                                *)
EXTENDS Catalog, TLC

CONSTANTS a, b, w1, w2, w3

MCName == {a, b}
MCDeclarations ==
  {[n \in MCName |-> IF n = b THEN {a} ELSE {}],
   [n \in MCName |-> MCName \ {n}]}

Symmetry == Permutations({w1, w2, w3})
=============================================================================
