----------------------------- MODULE MCTopoSort -----------------------------
(* Every depends_on column of three tasks whose lists have at most two       *)
(* entries over the three tasks and one stranger: self loops, duplicates,    *)
(* cycles of length two and three, diamonds' halves and unknown keys.        *)
EXTENDS TopoSort, TLC

CONSTANTS a, b, c, stranger

MCTask == {a, b, c}
MCKey == MCTask \cup {stranger}

Lists == {<<>>} \cup {<<x>> : x \in MCKey} \cup {<<x, y>> : x, y \in MCKey}
MCGraphs == [MCTask -> Lists]
=============================================================================
