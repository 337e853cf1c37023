---------------------------- MODULE EffectOnce ----------------------------
(***************************************************************************)
(* What the effect journal promises its callers, with no lock, no file, no *)
(* generation and no process in it: an effect is claimed, then started at  *)
(* most once, then settled on one outcome, and callers are only ever told  *)
(* the outcome it settled on.  A claimed effect may never start (its       *)
(* writer died) and may settle without having been seen to start (a        *)
(* readback found it).  EffectJournal implements this specification.       *)
(***************************************************************************)
EXTENDS Naturals

CONSTANTS Effects, Results, NoResult

VARIABLES
  claimed,   \* claimed[e]: the effect has a durable record
  starts,    \* starts[e]: how often the outside world was asked to do e
  outcome,   \* outcome[e]: what e settled on, or NoResult
  told       \* told[e]: the outcomes callers were given for e

vars == <<claimed, starts, outcome, told>>

Init ==
  /\ claimed = [e \in Effects |-> FALSE]
  /\ starts = [e \in Effects |-> 0]
  /\ outcome = [e \in Effects |-> NoResult]
  /\ told = [e \in Effects |-> {}]

Claim(e) ==
  /\ ~claimed[e]
  /\ claimed' = [claimed EXCEPT ![e] = TRUE]
  /\ UNCHANGED <<starts, outcome, told>>

\* An effect that settled before it started never starts.
Start(e) ==
  /\ claimed[e] /\ starts[e] = 0 /\ outcome[e] = NoResult
  /\ starts' = [starts EXCEPT ![e] = 1]
  /\ UNCHANGED <<claimed, outcome, told>>

\* Settling answers the caller whose call settled it, if there is one.
Settle(e, r) ==
  /\ claimed[e] /\ outcome[e] = NoResult
  /\ outcome' = [outcome EXCEPT ![e] = r]
  /\ told' \in {told, [told EXCEPT ![e] = {r}]}
  /\ UNCHANGED <<claimed, starts>>

Tell(e) ==
  /\ outcome[e] # NoResult
  /\ told' = [told EXCEPT ![e] = {outcome[e]}]
  /\ UNCHANGED <<claimed, starts, outcome>>

Next == \E e \in Effects :
  \/ Claim(e)
  \/ Start(e)
  \/ \E r \in Results : Settle(e, r)
  \/ Tell(e)

Spec == Init /\ [][Next]_vars
====
