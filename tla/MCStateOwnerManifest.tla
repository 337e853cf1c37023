----------------------- MODULE MCStateOwnerManifest -----------------------
(* TLC instances of StateOwnerManifest.                                    *)
EXTENDS StateOwnerManifest, TLC

CONSTANTS p1, p2, t1, t2, j, x1, x2

MCProcs == {p1, p2}
MCTasks == {t1, t2}
MCTxs == {x1, x2}
\* The selections of prepared transactions.
Mixed == {{t1}, {t1, t2}, {t2, j}}

\* Processes and transaction ids are interchangeable.
Symmetry == Permutations(Procs) \cup Permutations(Txs)
====
