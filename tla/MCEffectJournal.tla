-------------------------- MODULE MCEffectJournal --------------------------
(* TLC instance of EffectJournal.                                          *)
EXTENDS EffectJournal

CONSTANTS p1, p2, e1, e2, r1, r2

MCProcs == {p1, p2}
MCEffects == {e1, e2}
MCResults == {r1, r2}
====
