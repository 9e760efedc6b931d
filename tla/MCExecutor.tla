----------------------------- MODULE MCExecutor -----------------------------
(* Four tasks and every acyclic graph over them, with a duplicated entry, a    *)
(* cycle behind a root, a self loop and a dependency on a key that is no task. *)
EXTENDS Executor, TLC

CONSTANTS a, b, c, d, stranger

MCTask == {a, b, c, d}
MCKey == MCTask \cup {stranger}

Roots == [t \in MCTask |-> <<>>]

(* Every acyclic graph over four tasks, up to their names: a list holds some of
   the tasks before its own. *)
ListOf(S) == SelectSeq(<<a, b, c>>, LAMBDA t : t \in S)
Acyclic == {[Roots EXCEPT ![b] = ListOf(above_b), ![c] = ListOf(above_c),
                          ![d] = ListOf(above_d)] :
              above_b \in SUBSET {a}, above_c \in SUBSET {a, b},
              above_d \in SUBSET {a, b, c}}

Duplicate == [Roots EXCEPT ![c] = <<a, a>>, ![d] = <<b, c, b>>]
Cycle == [Roots EXCEPT ![b] = <<a, c>>, ![c] = <<b>>]
SelfLoop == [Roots EXCEPT ![d] = <<d>>]
Unknown == [Roots EXCEPT ![d] = <<a, stranger>>]

MCGraphs == Acyclic \cup {Duplicate, Cycle, SelfLoop, Unknown}

(* a has one retry, c a negative count, which still means one attempt. *)
MCRetries == [t \in MCTask |-> CASE t = a -> 1 [] t = c -> -1 [] OTHER -> 0]
MCConditional == {b, d}
=============================================================================
