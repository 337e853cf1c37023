------------------------- MODULE MCWriterQuiescence -------------------------
(* TLC instances of WriterQuiescence.                                      *)
EXTENDS WriterQuiescence, TLC

CONSTANTS p1, p2, p3, r1, r2, o1, o2

TwoProcs == {p1, p2}
ThreeProcs == {p1, p2, p3}
OneRoot == {r1}
TwoRoots == {r1, r2}
OneOp == {o1}
TwoOps == {o1, o2}

\* One vector of one root; overlapping vectors in opposite orders.
OneVector == {<<r1>>}
CrossedVectors == {<<r1, r2>>, <<r2, r1>>}

\* Processes and operation ids are interchangeable.
Symmetry == Permutations(Procs) \cup Permutations(Ops)
====
