--------------------------- MODULE MCOwnedWriters ---------------------------
EXTENDS OwnedWriters

\* The same id for decisions of two tasks.
MCDecisions == {[id |-> 1, task |-> "a", body |-> "keep"], [id |-> 1, task |-> "b", body |-> "reject"]}

\* The processes are interchangeable.
Symmetry == Permutations(Procs)
====
