----------------------- MODULE UnifiedRuntimeProofs -----------------------
(***************************************************************************)
(* Proofs about UnifiedRuntime, for every set of callers, requests,        *)
(* capabilities and answers and any number of calls: a complete receipt is *)
(* about settled effects, a replan starts over settled effects only, an    *)
(* execution is vouched for once, and a blocked run called no model.       *)
(*                                                                         *)
(* The argument: the journal only grows (an outcome is never taken back),  *)
(* so what a run or a receipt has seen of it stays true however long ago   *)
(* it was seen.  RunOK and RecOK say what that is.                         *)
(***************************************************************************)
EXTENDS UnifiedRuntime, TLAPS

Models == {"local", "online"}

---------------------------------------------------------------------------
(* The journal grows.                                                      *)

\* The journal j has an outcome of e.
SettledIn(j, e) == e \in DOMAIN j /\ j[e] # Open

\* k has what j has, and the outcomes of j.
Grows(j, k) ==
  /\ DOMAIN j \subseteq DOMAIN k
  /\ \A e \in DOMAIN j : j[e] # Open => k[e] = j[e]

\* A record may be made, kept, or given its outcome once.
LEMMA PutGrows ==
  ASSUME NEW j, NEW e, NEW v, e \in DOMAIN j => j[e] = Open \/ v = j[e]
  PROVE  Grows(j, put(j, e, v))
<1> DEFINE k == put(j, e, v)
<1>1. DOMAIN k = DOMAIN j \cup {e} /\ k[e] = v /\ \A y \in DOMAIN j : y # e => k[y] = j[y]
  BY DEF put
<1> HIDE DEF k
<1> QED BY <1>1 DEF Grows, k

\* An outcome stays.
LEMMA GrowsKeeps ==
  ASSUME NEW j, NEW k, Grows(j, k), NEW e, SettledIn(j, e)
  PROVE  SettledIn(k, e)
BY DEF Grows, SettledIn

\* A journal that does not change grows.
LEMMA GrowsSelf == \A j : Grows(j, j)
BY DEF Grows

\* The three states of a record are told apart.
LEMMA StatesDiffer ==
  /\ Absent # Open
  /\ \A a : Result(a) # Open /\ Result(a) # Absent
BY DEF Absent, Open, Result

\* EffectJournal.execute as the runtime sees it: outcomes are kept, a result
\* it returns is on record, and it runs the callable only of an effect that
\* the journal did not know and now knows.
LEMMA ExecuteIs ==
  ASSUME NEW e, NEW answers, NEW none, NEW o \in execute(e, answers, none)
  PROVE  /\ Grows(journal, record(e, o))
         /\ o.state \notin {Absent, Open} => SettledIn(record(e, o), e)
         /\ o.ran => e \notin DOMAIN journal /\ e \in DOMAIN record(e, o)
<1> DEFINE known == e \in DOMAIN journal
           state == IF known THEN journal[e] ELSE Absent
<1>1. \/ o = outcome(none, TRUE, FALSE, state)
      \/ ~known /\ \E a \in answers : o = outcome(a, FALSE, TRUE, Result(a))
      \/ ~known /\ o = outcome(none, TRUE, TRUE, Open)
      \/ settled(e) /\ o = outcome(journal[e].answer, FALSE, FALSE, journal[e])
      \/ known /\ ~settled(e) /\ \E a \in answers : o = outcome(a, FALSE, FALSE, Result(a))
      \/ known /\ ~settled(e) /\ o = outcome(none, FALSE, FALSE, Open)
  BY DEF execute
<1>2. \/ o.ran = FALSE /\ o.state = state
      \/ ~known /\ o.ran = TRUE /\ \E a : o.state = Result(a)
      \/ ~known /\ o.ran = TRUE /\ o.state = Open
      \/ known /\ journal[e] = Open /\ o.ran = FALSE /\ \E a : o.state = Result(a)
      \/ known /\ journal[e] = Open /\ o.ran = FALSE /\ o.state = Open
  BY <1>1 DEF outcome, settled
<1>3. o.state = Absent \/ (known => journal[e] = Open \/ o.state = journal[e])
  BY <1>2
<1>4. CASE o.state = Absent
  <2>1. record(e, o) = journal
    BY <1>4 DEF record
  <2>2. o.ran = FALSE
    BY <1>2, <1>4, StatesDiffer
  <2> QED BY <1>4, <2>1, <2>2, GrowsSelf
<1>5. CASE o.state # Absent
  <2>1. record(e, o) = put(journal, e, o.state)
    BY <1>5 DEF record
  <2>2. Grows(journal, record(e, o))
    BY <1>3, <1>5, <2>1, PutGrows
  <2>3. e \in DOMAIN record(e, o) /\ record(e, o)[e] = o.state
    BY <2>1 DEF put
  <2>4. o.ran => ~known
    BY <1>2
  <2> QED BY <2>2, <2>3, <2>4 DEF SettledIn
<1> QED BY <1>4, <1>5

---------------------------------------------------------------------------
(* The inductive invariant.                                                *)

Fields ==
  {"pc", "attempt", "req", "before", "admitted", "caps", "local", "advisory", "online", "verifier",
   "foreign", "learning", "bindings", "sealed", "ran"}
RecFields ==
  {"attempt", "req", "caps", "closure", "local", "online", "verifier", "foreign", "learning",
   "bindings", "sealed", "ran", "terminal", "complete"}
Early == {"admit", "preflight", "seal"}
Locations == Early \cup {"local", "online", "verify", "postflight", "learn"}

\* What b, the bindings of a run or a receipt, calls settled is settled in j.
Truthful(b, j) == \A e \in DOMAIN b : b[e] \notin {Absent, Open} => SettledIn(j, e)

\* A run over the journal j: what it replanned over is settled, what it started
\* is bound, its bindings are true, and before the evidence is sealed it has
\* called no model.
RunOK(r, j) ==
  /\ DOMAIN r = Fields /\ r.pc \in Locations
  /\ r.attempt = 2 => \A e \in r.before : SettledIn(j, e)
  /\ r.ran \subseteq DOMAIN r.bindings
  /\ Truthful(r.bindings, j)
  /\ r.pc \in Early => \A e \in r.ran : e.action \notin Models

\* A receipt over the journal j, however old.
RecOK(rec, j) ==
  /\ DOMAIN rec = RecFields
  /\ rec.sealed => rec.ran \subseteq DOMAIN rec.bindings
  /\ Truthful(rec.bindings, j)
  /\ rec.complete /\ rec.sealed => bindings_settled(rec.bindings)
  /\ rec.terminal = "BLOCKED" => \A e \in rec.ran : e.action \notin Models

\* What was vouched for is on record, and was vouched for once.
Vouched == DOMAIN attests \subseteq DOMAIN journal /\ \A e \in DOMAIN attests : attests[e] = 1

IInv ==
  /\ run = [p \in Callers |-> run[p]]
  /\ \A p \in Callers : run[p] = Idle \/ RunOK(run[p], journal)
  /\ \A rec \in held : RecOK(rec, journal)
  /\ file = NoReceipt \/ file \in held
  /\ Vouched

\* Bindings stay true as the journal grows.
LEMMA TruthfulKept ==
  ASSUME NEW b, NEW j, NEW k, Truthful(b, j), Grows(j, k)
  PROVE  Truthful(b, k)
BY GrowsKeeps DEF Truthful

\* What was seen of the journal stays true.
LEMMA SeenStaysTrue ==
  ASSUME NEW j, NEW k, Grows(j, k)
  PROVE  /\ \A r : RunOK(r, j) => RunOK(r, k)
         /\ \A rec : RecOK(rec, j) => RecOK(rec, k)
<1>1. ASSUME NEW r, RunOK(r, j) PROVE RunOK(r, k)
  <2>1. Truthful(r.bindings, k)
    BY <1>1, TruthfulKept DEF RunOK
  <2>2. r.attempt = 2 => \A e \in r.before : SettledIn(k, e)
    BY <1>1, GrowsKeeps DEF RunOK
  <2> QED BY <1>1, <2>1, <2>2 DEF RunOK
<1>2. ASSUME NEW rec, RecOK(rec, j) PROVE RecOK(rec, k)
  <2>1. Truthful(rec.bindings, k)
    BY <1>2, TruthfulKept DEF RecOK
  <2> QED BY <1>2, <2>1 DEF RecOK
<1> QED BY <1>1, <1>2

\* A step of the caller p that leaves its run as d and may add receipts.
LEMMA CallerStep ==
  ASSUME IInv, NEW p \in Callers, NEW d, run' = [run EXCEPT ![p] = d],
         Grows(journal, journal'), d = Idle \/ RunOK(d, journal'),
         held \subseteq held', \A rec \in held' : rec \in held \/ RecOK(rec, journal'),
         file' = file \/ file' \in held', Vouched'
  PROVE  IInv'
<1>1. run' = [q \in Callers |-> IF q = p THEN d ELSE run[q]]
  BY DEF IInv
<1>2. ASSUME NEW q \in Callers PROVE run'[q] = Idle \/ RunOK(run'[q], journal')
  <2>1. CASE q = p
    BY <1>1, <2>1
  <2>2. CASE q # p
    BY <1>1, <2>2, SeenStaysTrue DEF IInv
  <2> QED BY <2>1, <2>2
<1>3. \A rec \in held' : RecOK(rec, journal')
  BY SeenStaysTrue DEF IInv
<1>4. file' = NoReceipt \/ file' \in held'
  BY DEF IInv
<1>5. run' = [q \in Callers |-> run'[q]]
  BY <1>1
<1> QED BY <1>2, <1>3, <1>4, <1>5 DEF IInv

\* A caller at a stage is inside a run.
LEMMA InsideRun ==
  ASSUME IInv, NEW p \in Callers, run[p].pc # "idle"
  PROVE  RunOK(run[p], journal)
BY DEF IInv, Idle

\* What was vouched for stays on record.
LEMMA VouchedStays ==
  ASSUME IInv, Grows(journal, journal'), attests' = attests
  PROVE  Vouched'
BY DEF IInv, Vouched, Grows

\* d is the run r a step later.
Carried(r, d) ==
  /\ DOMAIN d = Fields /\ d.pc \in Locations /\ (d.pc \in Early => r.pc \in Early)
  /\ d.attempt = r.attempt /\ d.before = r.before

\* A run that goes on without an effect.
LEMMA GoesOn ==
  ASSUME NEW r, NEW d, NEW j, RunOK(r, j), Carried(r, d), d.ran = r.ran, d.bindings = r.bindings
  PROVE  RunOK(d, j)
BY DEF RunOK, Carried

\* A run that goes on with the effect e, bound to v.
LEMMA GoesOnBound ==
  ASSUME NEW r, NEW d, NEW j, NEW k, NEW e, NEW v, RunOK(r, j), Grows(j, k), Carried(r, d),
         d.ran \subseteq r.ran \cup {e}, d.bindings = put(r.bindings, e, v),
         v \notin {Absent, Open} => SettledIn(k, e),
         d.pc \in Early => e.action \notin Models
  PROVE  RunOK(d, k)
<1>1. RunOK(r, k)
  BY SeenStaysTrue
<1>2. /\ DOMAIN d.bindings = DOMAIN r.bindings \cup {e} /\ d.bindings[e] = v
      /\ \A y \in DOMAIN r.bindings : y # e => d.bindings[y] = r.bindings[y]
  BY DEF put
<1>3. Truthful(d.bindings, k)
  BY <1>1, <1>2 DEF RunOK, Truthful
<1>4. d.ran \subseteq DOMAIN d.bindings
  BY <1>1, <1>2 DEF RunOK
<1>5. d.pc \in Early => \A x \in d.ran : x.action \notin Models
  BY <1>1 DEF RunOK, Carried
<1> QED BY <1>1, <1>3, <1>4, <1>5 DEF RunOK, Carried

\* The receipt a run leaves.
LEMMA ReceiptIs ==
  ASSUME NEW r, NEW j, NEW terminal, NEW complete,
         r.sealed => r.ran \subseteq DOMAIN r.bindings, Truthful(r.bindings, j),
         complete => bindings_settled(r.bindings),
         terminal = "BLOCKED" => \A e \in r.ran : e.action \notin Models
  PROVE  RecOK(receipt(r, terminal, complete), j)
<1> DEFINE rec == receipt(r, terminal, complete)
<1>1. /\ DOMAIN rec = RecFields /\ rec.sealed = r.sealed /\ rec.ran = r.ran
      /\ rec.bindings = r.bindings /\ rec.terminal = terminal /\ rec.complete = complete
  BY DEF receipt, RecFields
<1> HIDE DEF rec
<1> QED BY <1>1 DEF RecOK, rec

\* A run that ends with a receipt.
LEMMA DeliverStep ==
  ASSUME IInv, NEW p \in Callers, NEW rec, deliver(p, rec), RecOK(rec, journal),
         UNCHANGED <<journal, attests>>
  PROVE  IInv'
<1>1. Grows(journal, journal') /\ journal' = journal
  BY GrowsSelf
<1>2. Vouched'
  BY <1>1, VouchedStays
<1>3. run' = [run EXCEPT ![p] = Idle] /\ held' = held \cup {rec} /\ file' = rec
  BY DEF deliver
<1>4. /\ held \subseteq held' /\ file' \in held'
      /\ \A x \in held' : x \in held \/ RecOK(x, journal')
  BY <1>1, <1>3
<1> QED BY <1>1, <1>2, <1>3, <1>4, CallerStep

\* A run that goes on: nothing but its record and the journal change.
LEMMA OnStep ==
  ASSUME IInv, NEW p \in Callers, NEW d, step(p, d), RunOK(d, journal'),
         Grows(journal, journal'), Vouched'
  PROVE  IInv'
<1>1. run' = [run EXCEPT ![p] = d] /\ held' = held /\ file' = file
  BY DEF step
<1> QED BY <1>1, CallerStep

---------------------------------------------------------------------------
(* One lemma per operation.                                                *)

\* run and run_replan: a second attempt starts over settled effects.
LEMMA BeginStep ==
  ASSUME IInv, NEW p \in Callers, NEW attempt, NEW req, NEW before, NEW admitted,
         begin(p, attempt, req, before, admitted),
         attempt = 2 => \A e \in before : SettledIn(journal, e)
  PROVE  IInv'
<1> DEFINE d == [pc |-> "admit", attempt |-> attempt, req |-> req, before |-> before,
                 admitted |-> admitted, caps |-> nothing, local |-> not_requested,
                 advisory |-> "none", online |-> not_requested, verifier |-> not_run,
                 foreign |-> FALSE, learning |-> not_run, bindings |-> nothing,
                 sealed |-> TRUE, ran |-> {}]
<1>1. run' = [run EXCEPT ![p] = d] /\ held' = held /\ file' = file
      /\ journal' = journal /\ attests' = attests
  BY DEF begin
<1>2. /\ DOMAIN d = Fields /\ d.pc = "admit" /\ d.attempt = attempt /\ d.before = before
      /\ d.bindings = nothing /\ d.ran = {}
  BY DEF Fields
<1> HIDE DEF d
<1>3. DOMAIN nothing = {}
  BY DEF nothing
<1>4. RunOK(d, journal)
  BY <1>2, <1>3 DEF RunOK, Truthful, Locations, Early
<1>5. Grows(journal, journal') /\ Vouched'
  BY <1>1, GrowsSelf, VouchedStays
<1> QED BY <1>1, <1>4, <1>5, CallerStep

\* run_replan: nothing of the task was unresolved when it was authorized.
LEMMA ReplanStep ==
  ASSUME IInv, NEW p \in Callers, NEW rec, NEW req, run_replan(p, rec, req)
  PROVE  IInv'
<1>1. \A e \in DOMAIN journal : SettledIn(journal, e)
  BY DEF run_replan, replannable, unresolved_for_subject, settled, SettledIn
<1> QED BY <1>1, BeginStep DEF run_replan

\* The admission lets the run go on, or ends it before it called anybody.
LEMMA AdmitStep ==
  ASSUME IInv, NEW p \in Callers, admit(p)
  PROVE  IInv'
<1> DEFINE r == run[p]
           r0 == [r EXCEPT !.local = IF r.req.local THEN authority_failure ELSE not_requested,
                           !.online = IF r.req.online THEN authority_failure ELSE not_requested,
                           !.verifier = not_requested, !.learning = not_requested]
<1>1. r.pc = "admit" /\ RunOK(r, journal)
  <2>1. r.pc = "admit"
    BY DEF admit, at
  <2> QED BY <2>1, InsideRun
<1>2. UNCHANGED <<journal, attests>> /\ Grows(journal, journal') /\ Vouched'
  BY GrowsSelf, VouchedStays DEF admit
<1>3. CASE step(p, next(r))
  <2>1. next(r) = [r EXCEPT !.pc = "preflight"]
    BY <1>1 DEF next, after
  <2> HIDE DEF r
  <2>2. Carried(r, next(r)) /\ next(r).ran = r.ran /\ next(r).bindings = r.bindings
    BY <1>1, <2>1 DEF RunOK, Carried, Fields, Locations, Early
  <2>3. RunOK(next(r), journal')
    BY <1>1, <1>2, <2>2, GoesOn
  <2> QED BY <1>2, <1>3, <2>3, OnStep
<1>4. CASE deliver(p, refusal_receipt(r))
  <2>1. \E t : refusal_receipt(r) = receipt(r0, t, FALSE)
    BY DEF refusal_receipt
  <2> HIDE DEF r
  <2>2. r0.sealed = r.sealed /\ r0.ran = r.ran /\ r0.bindings = r.bindings
    BY <1>1 DEF RunOK, Fields
  <2> HIDE DEF r0
  <2>3. RecOK(refusal_receipt(r), journal)
    BY <1>1, <2>1, <2>2, ReceiptIs DEF RunOK, Early
  <2> QED BY <1>2, <1>4, <2>3, DeliverStep
<1> QED BY <1>3, <1>4 DEF admit

\* A capability: journaled and bound, or called directly; the runtime vouches
\* for a journaled one only if this run executed it.
LEMMA CapabilityStep ==
  ASSUME IInv, NEW p \in Callers, NEW c, NEW shown, run[p].pc # "idle", invoke_capability(p, c, shown)
  PROVE  IInv'
<1> DEFINE r == run[p]
           e == effect(r, c, shown)
<1>1. RunOK(r, journal)
  BY InsideRun
<1>2. CASE c \in Effectful
  <2>1. PICK o \in execute(e, CapabilityAnswers, capability_none) :
          /\ journal' = record(e, o)
          /\ \/ attests' = attests
             \/ /\ o.ran
                /\ attests' = put(attests, e, IF e \in DOMAIN attests THEN attests[e] + 1 ELSE 1)
          /\ \E x : step(p, [r EXCEPT !.caps = x, !.ran = @ \cup ran(e, o),
                                      !.bindings = put(@, e, capability_binding(o))])
    BY <1>2 DEF invoke_capability, attested
  <2>2. PICK x : step(p, [r EXCEPT !.caps = x, !.ran = @ \cup ran(e, o),
                                   !.bindings = put(@, e, capability_binding(o))])
    BY <2>1
  <2>3. e.action = c
    BY DEF effect
  <2>4. e.action \notin Models
    BY <1>2, <2>3, ActionsAssumption DEF Models
  <2> DEFINE d == [r EXCEPT !.caps = x, !.ran = @ \cup ran(e, o),
                            !.bindings = put(@, e, capability_binding(o))]
  <2> HIDE DEF r, e
  <2>5. /\ Grows(journal, journal')
        /\ o.state \notin {Absent, Open} => SettledIn(journal', e)
        /\ o.ran => e \notin DOMAIN journal /\ e \in DOMAIN journal'
    BY <2>1, ExecuteIs
  <2>6. /\ Carried(r, d) /\ d.ran = r.ran \cup ran(e, o)
        /\ d.bindings = put(r.bindings, e, capability_binding(o))
    BY <1>1 DEF RunOK, Carried, Fields
  <2> HIDE DEF d
  <2>7. d.ran \subseteq r.ran \cup {e}
    BY <2>6 DEF ran
  <2>8. capability_binding(o) \notin {Absent, Open} => SettledIn(journal', e)
    BY <2>5 DEF capability_binding
  <2>9. RunOK(d, journal')
    BY <1>1, <2>4, <2>5, <2>6, <2>7, <2>8, GoesOnBound
  <2>10. Vouched'
    <3>1. CASE attests' = attests
      BY <2>5, <3>1, VouchedStays
    <3>2. CASE o.ran /\ attests' = put(attests, e, IF e \in DOMAIN attests THEN attests[e] + 1 ELSE 1)
      <4>1. e \notin DOMAIN attests /\ e \in DOMAIN journal'
        BY <2>5, <3>2 DEF IInv, Vouched
      <4>2. attests' = put(attests, e, 1)
        BY <3>2, <4>1
      <4>3. /\ DOMAIN attests' = DOMAIN attests \cup {e} /\ attests'[e] = 1
            /\ \A y \in DOMAIN attests : y # e => attests'[y] = attests[y]
        BY <4>2 DEF put
      <4> QED BY <2>5, <4>1, <4>3 DEF IInv, Vouched, Grows
    <3> QED BY <2>1, <3>1, <3>2
  <2> QED BY <2>2, <2>5, <2>9, <2>10, OnStep DEF d
<1>3. CASE c \notin Effectful
  <2>1. PICK o \in call_directly(CapabilityAnswers, capability_none) :
          /\ journal' = record(e, o) /\ attests' = attests
          /\ \E x : step(p, [r EXCEPT !.caps = x, !.ran = @ \cup {}, !.bindings = @])
    BY <1>3 DEF invoke_capability
  <2>2. PICK x : step(p, [r EXCEPT !.caps = x, !.ran = @ \cup {}, !.bindings = @])
    BY <2>1
  <2> DEFINE d == [r EXCEPT !.caps = x, !.ran = @ \cup {}, !.bindings = @]
  <2>3. o.state = Absent
    BY <2>1 DEF call_directly, outcome
  <2>4. journal' = journal
    BY <2>1, <2>3 DEF record
  <2> HIDE DEF r
  <2>5. Carried(r, d) /\ d.ran = r.ran /\ d.bindings = r.bindings
    BY <1>1 DEF RunOK, Carried, Fields
  <2> HIDE DEF d
  <2>6. RunOK(d, journal')
    BY <1>1, <2>4, <2>5, GoesOn
  <2>7. Grows(journal, journal') /\ Vouched'
    BY <2>1, <2>4, GrowsSelf, VouchedStays
  <2> QED BY <2>2, <2>6, <2>7, OnStep DEF d
<1> QED BY <1>2, <1>3

\* A stage that only moves on.
LEMMA MoveStep ==
  ASSUME IInv, NEW p \in Callers, run[p].pc \in Locations \ {"learn"}, step(p, next(run[p])),
         UNCHANGED <<journal, attests>>
  PROVE  IInv'
<1> DEFINE r == run[p]
<1>1. RunOK(r, journal)
  <2>1. r.pc # "idle"
    BY DEF Locations, Early
  <2> QED BY <2>1, InsideRun
<1>2. Grows(journal, journal') /\ Vouched' /\ journal' = journal
  BY GrowsSelf, VouchedStays
<1>3. after(r.pc) \in Locations /\ (after(r.pc) \in Early => r.pc \in Early)
  BY DEF after, Locations, Early
<1> HIDE DEF r
<1>4. Carried(r, next(r)) /\ next(r).ran = r.ran /\ next(r).bindings = r.bindings
  BY <1>1, <1>3 DEF RunOK, Carried, Fields, next
<1>5. RunOK(next(r), journal')
  BY <1>1, <1>2, <1>4, GoesOn
<1> QED BY <1>2, <1>5, OnStep DEF r

\* The capabilities before Local and after the verifier.
LEMMA FlightStep ==
  ASSUME IInv, NEW p \in Callers, preflight(p) \/ postflight(p)
  PROVE  IInv'
<1>1. run[p].pc \in {"preflight", "postflight"}
  BY DEF preflight, postflight, at
<1>2. \/ \E c, shown : invoke_capability(p, c, shown)
      \/ step(p, next(run[p])) /\ UNCHANGED <<journal, attests>>
  BY DEF preflight, postflight
<1>3. run[p].pc \in Locations \ {"learn"} /\ run[p].pc # "idle"
  BY <1>1 DEF Locations, Early
<1> QED BY <1>2, <1>3, CapabilityStep, MoveStep

\* A run whose evidence is not sealed has called no model, and its receipt
\* makes no claim about its effects.
LEMMA SealStep ==
  ASSUME IInv, NEW p \in Callers, seal(p)
  PROVE  IInv'
<1> DEFINE r == run[p]
<1>1. r.pc = "seal" /\ RunOK(r, journal)
  <2>1. r.pc = "seal"
    BY DEF seal, at
  <2> QED BY <2>1, InsideRun
<1>2. CASE step(p, next(r))
  BY <1>1, <1>2, MoveStep DEF seal, Locations, Early
<1>3. ASSUME NEW caps, deliver(p, blocked_receipt(r, caps))
      PROVE  IInv'
  <2> DEFINE r0 == [r EXCEPT !.caps = caps, !.sealed = FALSE, !.bindings = nothing,
                             !.local = IF r.req.local /\ r.req.admission # "off"
                                         THEN authority_failure ELSE not_requested,
                             !.verifier = not_requested, !.learning = not_requested]
  <2>1. blocked_receipt(r, caps) = receipt(r0, "BLOCKED", FALSE)
    BY DEF blocked_receipt
  <2> HIDE DEF r
  <2>2. r0.sealed = FALSE /\ r0.ran = r.ran /\ r0.bindings = nothing
    BY <1>1 DEF RunOK, Fields
  <2>3. Truthful(nothing, journal)
    BY DEF Truthful, nothing
  <2> HIDE DEF r0
  <2>4. RecOK(blocked_receipt(r, caps), journal)
    BY <1>1, <2>1, <2>2, <2>3, ReceiptIs DEF RunOK, Early
  <2> QED BY <1>3, <2>4, DeliverStep DEF seal, r
<1> QED BY <1>2, <1>3 DEF seal

\* A model call through the journal: bound to what the journal has on it.
LEMMA ModelStep ==
  ASSUME IInv, NEW p \in Callers, run[p].pc # "idle", NEW d, NEW e, NEW answers, NEW none, NEW v,
         NEW o \in execute(e, answers, none), journal' = record(e, o), attests' = attests,
         step(p, d), Carried(run[p], d), d.pc \notin Early,
         d.ran = run[p].ran \cup ran(e, o), d.bindings = put(run[p].bindings, e, v),
         v \in {Absent, o.state}
  PROVE  IInv'
<1>1. RunOK(run[p], journal)
  BY InsideRun
<1>2. /\ Grows(journal, journal')
      /\ o.state \notin {Absent, Open} => SettledIn(journal', e)
  BY ExecuteIs
<1>3. Vouched'
  BY <1>2, VouchedStays
<1>4. d.ran \subseteq run[p].ran \cup {e}
  BY DEF ran
<1>5. RunOK(d, journal')
  BY <1>1, <1>2, <1>4, GoesOnBound
<1> QED BY <1>2, <1>3, <1>5, OnStep

\* A stage that moves on with a record that binds and runs nothing.
LEMMA PlainStep ==
  ASSUME IInv, NEW p \in Callers, run[p].pc # "idle", NEW d, step(p, d), Carried(run[p], d),
         d.ran = run[p].ran, d.bindings = run[p].bindings, UNCHANGED <<journal, attests>>
  PROVE  IInv'
<1>1. RunOK(d, journal')
  BY InsideRun, GoesOn
<1>2. Grows(journal, journal') /\ Vouched'
  BY GrowsSelf, VouchedStays
<1> QED BY <1>1, <1>2, OnStep

\* _run_local: refused without an effect, or bound to one.
LEMMA LocalStep ==
  ASSUME IInv, NEW p \in Callers, run_local(p)
  PROVE  IInv'
<1> DEFINE r == run[p]
           e == local_effect(r)
<1>1. r.pc = "local" /\ RunOK(r, journal)
  <2>1. r.pc = "local"
    BY DEF run_local, at
  <2> QED BY <2>1, InsideRun
<1>2. ASSUME NEW l, NEW a
      PROVE  LET d == after_local(r, l, a) IN
             Carried(r, d) /\ d.ran = r.ran /\ d.bindings = r.bindings /\ d.pc = "online"
  <2>1. next(r) = [r EXCEPT !.pc = "online"]
    BY <1>1 DEF next, after
  <2> DEFINE n == next(r)
  <2> HIDE DEF r
  <2>2. /\ DOMAIN n = Fields /\ n.pc = "online" /\ n.attempt = r.attempt /\ n.before = r.before
        /\ n.ran = r.ran /\ n.bindings = r.bindings
    BY <1>1, <2>1 DEF RunOK, Fields
  <2> HIDE DEF n
  <2>3. PICK x : after_local(r, l, a) = [n EXCEPT !.local = l, !.caps = x]
    BY DEF after_local, n
  <2> QED BY <2>2, <2>3 DEF Carried, Fields, Locations, Early
<1>3. CASE \E l : step(p, after_local(r, l, local_none)) /\ UNCHANGED <<journal, attests>>
  BY <1>1, <1>2, <1>3, PlainStep
<1>4. CASE \E o \in execute(e, LocalAnswers, local_none) : \E b \in local_bindings(o) : \E l, a, x :
             /\ journal' = record(e, o) /\ attests' = attests
             /\ step(p, [after_local(r, l, a) EXCEPT !.advisory = x, !.bindings = put(@, e, b),
                                                     !.ran = @ \cup ran(e, o)])
  <2>1. PICK o, b, l, a, x :
             /\ o \in execute(e, LocalAnswers, local_none) /\ b \in local_bindings(o)
             /\ journal' = record(e, o) /\ attests' = attests
             /\ step(p, [after_local(r, l, a) EXCEPT !.advisory = x, !.bindings = put(@, e, b),
                                                     !.ran = @ \cup ran(e, o)])
    BY <1>4
  <2> DEFINE n == after_local(r, l, a)
             d == [n EXCEPT !.advisory = x, !.bindings = put(@, e, b), !.ran = @ \cup ran(e, o)]
  <2>2. Carried(r, n) /\ n.ran = r.ran /\ n.bindings = r.bindings /\ n.pc = "online"
    BY <1>2
  <2> HIDE DEF n, r, e
  <2>3. /\ Carried(r, d) /\ d.pc = "online" /\ d.ran = r.ran \cup ran(e, o)
        /\ d.bindings = put(r.bindings, e, b)
    BY <2>2 DEF Carried, Fields
  <2>4. b \in {Absent, o.state}
    BY <2>1 DEF local_bindings
  <2>5. step(p, d)
    BY <2>1 DEF n
  <2> HIDE DEF d
  <2>6. d.pc \notin Early /\ run[p].pc # "idle"
    BY <1>1, <2>3 DEF Early, r
  <2> QED BY <2>1, <2>3, <2>4, <2>5, <2>6, ModelStep DEF r
<1> QED BY <1>3, <1>4 DEF run_local

\* _run_online: refused without an effect, or bound to one.
LEMMA OnlineStep ==
  ASSUME IInv, NEW p \in Callers, run_online(p)
  PROVE  IInv'
<1> DEFINE r == run[p]
           e == online_effect(r)
           n == next(r)
<1>1. r.pc = "online" /\ RunOK(r, journal)
  <2>1. r.pc = "online"
    BY DEF run_online, at
  <2> QED BY <2>1, InsideRun
<1>2. Carried(r, n) /\ n.ran = r.ran /\ n.bindings = r.bindings /\ n.pc = "verify"
  <2>1. n = [r EXCEPT !.pc = "verify"]
    BY <1>1 DEF next, after
  <2> HIDE DEF r
  <2> QED BY <1>1, <2>1 DEF RunOK, Carried, Fields, Locations, Early
<1>3. CASE step(p, n) /\ UNCHANGED <<journal, attests>>
  BY <1>1, <1>2, <1>3, PlainStep
<1>4. CASE \E l : step(p, [n EXCEPT !.online = l]) /\ UNCHANGED <<journal, attests>>
  <2>1. PICK l : step(p, [n EXCEPT !.online = l])
    BY <1>4
  <2> DEFINE d == [n EXCEPT !.online = l]
  <2> HIDE DEF n, r
  <2>2. Carried(r, d) /\ d.ran = r.ran /\ d.bindings = r.bindings
    BY <1>2 DEF Carried, Fields
  <2> HIDE DEF d
  <2>3. step(p, d) /\ UNCHANGED <<journal, attests>>
    BY <1>4, <2>1 DEF d
  <2> QED BY <1>1, <2>2, <2>3, PlainStep DEF r
<1>5. CASE \E o \in execute(e, OnlineAnswers, online_none) : \E l :
             /\ journal' = record(e, o) /\ attests' = attests
             /\ step(p, [n EXCEPT !.online = l, !.bindings = put(@, e, capability_binding(o)),
                                  !.ran = @ \cup ran(e, o)])
  <2>1. PICK o, l :
             /\ o \in execute(e, OnlineAnswers, online_none)
             /\ journal' = record(e, o) /\ attests' = attests
             /\ step(p, [n EXCEPT !.online = l, !.bindings = put(@, e, capability_binding(o)),
                                  !.ran = @ \cup ran(e, o)])
    BY <1>5
  <2> DEFINE v == capability_binding(o)
             d == [n EXCEPT !.online = l, !.bindings = put(@, e, v), !.ran = @ \cup ran(e, o)]
  <2> HIDE DEF n, r, e
  <2>2. /\ Carried(r, d) /\ d.pc = "verify" /\ d.ran = r.ran \cup ran(e, o)
        /\ d.bindings = put(r.bindings, e, v)
    BY <1>2 DEF Carried, Fields
  <2>3. v \in {Absent, o.state}
    BY DEF capability_binding
  <2> HIDE DEF d
  <2>4. step(p, d) /\ d.pc \notin Early /\ run[p].pc # "idle"
    BY <1>1, <2>1, <2>2 DEF d, r, Early
  <2> QED BY <2>1, <2>2, <2>3, <2>4, ModelStep DEF r
<1> QED BY <1>3, <1>4, <1>5 DEF run_online

\* The verifier leaves effects and bindings alone.
LEMMA VerifyStep ==
  ASSUME IInv, NEW p \in Callers, verify(p)
  PROVE  IInv'
<1> DEFINE r == run[p]
<1>1. r.pc = "verify" /\ RunOK(r, journal)
  <2>1. r.pc = "verify"
    BY DEF verify, at
  <2> QED BY <2>1, InsideRun
<1>2. PICK x, y : step(p, [next(r) EXCEPT !.verifier = x, !.foreign = y])
  BY DEF verify
<1> DEFINE d == [next(r) EXCEPT !.verifier = x, !.foreign = y]
<1>3. next(r) = [r EXCEPT !.pc = "postflight"]
  BY <1>1 DEF next, after
<1> HIDE DEF r
<1>4. Carried(r, d) /\ d.ran = r.ran /\ d.bindings = r.bindings
  BY <1>1, <1>3 DEF RunOK, Carried, Fields, Locations, Early
<1> HIDE DEF d
<1>5. step(p, d) /\ UNCHANGED <<journal, attests>>
  BY <1>2 DEF d, verify
<1> QED BY <1>1, <1>4, <1>5, PlainStep DEF r

\* The final gate: complete only if every binding of the run is settled.
LEMMA LearnStep ==
  ASSUME IInv, NEW p \in Callers, learn(p)
  PROVE  IInv'
<1>1. run[p].pc = "learn" /\ RunOK(run[p], journal)
  <2>1. run[p].pc = "learn"
    BY DEF learn, at
  <2> QED BY <2>1, InsideRun
<1>2. PICK x, r, complete :
        /\ r = [run[p] EXCEPT !.learning = x]
        /\ complete => bindings_settled(r.bindings)
        /\ deliver(p, receipt(r, IF complete THEN "SUCCEEDED" ELSE "INCOMPLETE", complete))
  BY DEF learn
<1>3. r.sealed = run[p].sealed /\ r.ran = run[p].ran /\ r.bindings = run[p].bindings
  BY <1>1, <1>2 DEF RunOK, Fields
<1>4. RecOK(receipt(r, IF complete THEN "SUCCEEDED" ELSE "INCOMPLETE", complete), journal)
  BY <1>1, <1>2, <1>3, ReceiptIs DEF RunOK
<1> QED BY <1>2, <1>4, DeliverStep DEF learn

\* A death leaves the journal, or one more record without an outcome.
LEMMA CrashStep ==
  ASSUME IInv, NEW p \in Callers, crash(p)
  PROVE  IInv'
<1>1. run' = [run EXCEPT ![p] = Idle] /\ held' = held /\ file' = file /\ attests' = attests
  BY DEF crash
<1>2. Grows(journal, journal')
  <2>1. \/ journal' = journal
        \/ \E e : e \notin DOMAIN journal /\ journal' = put(journal, e, Open)
    BY DEF crash
  <2> QED BY <2>1, GrowsSelf, PutGrows
<1>3. Vouched'
  BY <1>1, <1>2, VouchedStays
<1> QED BY <1>1, <1>2, <1>3, CallerStep

\* finalize_receipt: a receipt without bindings was sealed over no effect of
\* its own, and one with bindings is compared with the journal.
LEMMA FinalizeStep ==
  ASSUME IInv, NEW rec \in held, NEW v, NEW l, NEW j, finalize_receipt(rec, v, l, j)
  PROVE  IInv'
<1>1. RecOK(rec, journal)
  BY DEF IInv
<1> DEFINE verifier == callback_stage(v)
           learning == callback_stage(l)
           complete == /\ rec.caps
                       /\ requested_complete(rec)
                       /\ stage_complete(verifier) /\ stage_complete(learning)
                       /\ finalize_bindings(rec, j)
           t == IF complete THEN "SUCCEEDED" ELSE "INCOMPLETE"
           final == [rec EXCEPT !.verifier = verifier, !.foreign = ~shared(v), !.learning = learning,
                                !.complete = complete, !.terminal = t]
<1>2. file' = final /\ held' = held \cup {final} /\ t # "BLOCKED"
  BY DEF finalize_receipt
<1> HIDE DEF t
<1>3. /\ DOMAIN final = RecFields /\ final.sealed = rec.sealed /\ final.ran = rec.ran
      /\ final.bindings = rec.bindings /\ final.complete = complete /\ final.terminal = t
  BY <1>1 DEF RecOK, RecFields
<1>4. complete => bindings_settled(rec.bindings)
  <2>1. bindings_settled(nothing)
    BY DEF bindings_settled, nothing
  <2> QED BY <2>1 DEF finalize_bindings
<1> HIDE DEF final, complete
<1>5. RecOK(final, journal)
  BY <1>1, <1>2, <1>3, <1>4 DEF RecOK
<1>6. journal' = journal /\ attests' = attests /\ run' = run
  BY DEF finalize_receipt
<1>7. \A y \in held' : RecOK(y, journal')
  BY <1>2, <1>5, <1>6 DEF IInv
<1>8. Vouched'
  BY <1>6 DEF IInv, Vouched
<1> QED BY <1>2, <1>6, <1>7, <1>8 DEF IInv

\* reconcile gives an open record its outcome.
LEMMA ReconcileStep ==
  ASSUME IInv, NEW e \in DOMAIN journal, reconcile(e)
  PROVE  IInv'
<1>1. journal[e] = Open
  BY DEF reconcile, unresolved_for_subject, settled
<1>2. PICK a : journal' = put(journal, e, Result(a))
  BY DEF reconcile
<1>3. Grows(journal, journal')
  BY <1>1, <1>2, PutGrows
<1>4. attests' = attests /\ run' = run /\ file' = file /\ held' = held
  BY DEF reconcile
<1>5. Vouched'
  BY <1>3, <1>4, VouchedStays
<1>6. /\ \A p \in Callers : run'[p] = Idle \/ RunOK(run'[p], journal')
      /\ \A rec \in held' : RecOK(rec, journal')
  BY <1>3, <1>4, SeenStaysTrue DEF IInv
<1> QED BY <1>4, <1>5, <1>6 DEF IInv

\* The invariant holds in every reachable state.
LEMMA RunsAreOK == Spec => []IInv
<1>1. Init => IInv
  BY DEF Init, IInv, Vouched, nothing
<1>2. IInv /\ [Next]_vars => IInv'
  <2> SUFFICES ASSUME IInv, [Next]_vars
               PROVE  IInv'
    OBVIOUS
  <2>1. ASSUME NEW p \in Callers, Stage(p) PROVE IInv'
    BY <2>1, AdmitStep, FlightStep, SealStep, LocalStep, OnlineStep, VerifyStep, LearnStep DEF Stage
  <2>2. ASSUME NEW p \in Callers, NEW req \in Requests, run_first(p, req) PROVE IInv'
    BY <2>2, BeginStep DEF run_first
  <2>3. ASSUME NEW p \in Callers, NEW rec \in held, NEW req \in Requests, run_replan(p, rec, req)
        PROVE  IInv'
    BY <2>3, ReplanStep
  <2>4. ASSUME NEW p \in Callers, crash(p) PROVE IInv'
    BY <2>4, CrashStep
  <2>5. ASSUME NEW rec \in held, NEW v, NEW l, NEW j, finalize_receipt(rec, v, l, j) PROVE IInv'
    BY <2>5, FinalizeStep
  <2>6. ASSUME NEW e \in DOMAIN journal, reconcile(e) PROVE IInv'
    BY <2>6, ReconcileStep
  <2>7. CASE UNCHANGED vars
    BY <2>7 DEF vars, IInv, Vouched
  <2> QED BY <2>1, <2>2, <2>3, <2>4, <2>5, <2>6, <2>7 DEF Next
<1> QED BY <1>1, <1>2, PTL DEF Spec

---------------------------------------------------------------------------
(* The theorems.                                                           *)

\* Whatever was rerun, replayed, reconciled, finalized from a stale receipt, or
\* lost in a crash, a receipt that says complete is about settled effects.
THEOREM CompleteIsSettled == Spec => []CompleteMeansSettled
<1>1. IInv => CompleteMeansSettled
  <2> SUFFICES ASSUME IInv, NEW rec \in Receipts, rec.complete, rec.sealed, NEW e \in rec.ran
               PROVE  settled(e)
    BY DEF CompleteMeansSettled
  <2>1. RecOK(rec, journal)
    BY DEF IInv, Receipts
  <2>2. e \in DOMAIN rec.bindings /\ rec.bindings[e] \notin {Absent, Open}
    BY <2>1 DEF RecOK, bindings_settled
  <2>3. SettledIn(journal, e)
    BY <2>1, <2>2 DEF RecOK, Truthful
  <2> QED BY <2>3 DEF SettledIn, settled
<1> QED BY <1>1, RunsAreOK, PTL

\* A second attempt never runs over an effect whose outcome is unknown, also
\* when other callers run and die beside it.
THEOREM ReplansKnowingly == Spec => []NoBlindReplan
<1>1. IInv => NoBlindReplan
  BY DEF IInv, NoBlindReplan, RunOK, SettledIn, settled
<1> QED BY <1>1, RunsAreOK, PTL

\* The runtime vouches for an execution once, however often its result is
\* replayed, reconciled or asked for again after a crash.
THEOREM VouchesOnce == Spec => []AttestedOnce
<1>1. IInv => AttestedOnce
  BY DEF IInv, Vouched, AttestedOnce
<1> QED BY <1>1, RunsAreOK, PTL

\* A run that ended BLOCKED, at the admission or at the evidence seal, called
\* neither Local nor Online.
THEOREM BlockedIsSilent == Spec => []BlockedCallsNoModel
<1>1. IInv => BlockedCallsNoModel
  <2> SUFFICES ASSUME IInv, NEW rec \in Receipts, rec.terminal = "BLOCKED", NEW e \in rec.ran
               PROVE  e.action \notin {"local", "online"}
    BY DEF BlockedCallsNoModel
  <2>1. RecOK(rec, journal)
    BY DEF IInv, Receipts
  <2> QED BY <2>1 DEF RecOK, Models
<1> QED BY <1>1, RunsAreOK, PTL

\* Whatever is run again, replayed, reconciled or lost in a crash, an effect stays
\* on record, and once it has an outcome (EffectJournal.execute, reconcile) that
\* outcome stays: no later answer takes its place.
THEOREM JournalOnlyGrows == Spec => [][Grows(journal, journal')]_vars
<1>0. ASSUME NEW p \in Callers, NEW c, NEW shown, invoke_capability(p, c, shown)
      PROVE  Grows(journal, journal')
  <2> DEFINE e == effect(run[p], c, shown)
  <2>1. CASE c \in Effectful
    <3>1. PICK o \in execute(e, CapabilityAnswers, capability_none) : journal' = record(e, o)
      BY <1>0, <2>1 DEF invoke_capability
    <3> QED BY <3>1, ExecuteIs
  <2>2. CASE c \notin Effectful
    <3>1. PICK o \in call_directly(CapabilityAnswers, capability_none) : journal' = record(e, o)
      BY <1>0, <2>2 DEF invoke_capability
    <3>2. o.state = Absent
      BY <3>1 DEF call_directly, outcome
    <3> QED BY <3>1, <3>2, GrowsSelf DEF record
  <2> QED BY <2>1, <2>2
<1>1. ASSUME NEW p \in Callers, Stage(p) PROVE Grows(journal, journal')
  <2>1. CASE run_local(p)
    <3>1. \/ UNCHANGED journal
          \/ \E o \in execute(local_effect(run[p]), LocalAnswers, local_none) :
               journal' = record(local_effect(run[p]), o)
      BY <2>1 DEF run_local
    <3> QED BY <3>1, ExecuteIs, GrowsSelf
  <2>2. CASE run_online(p)
    <3>1. \/ UNCHANGED journal
          \/ \E o \in execute(online_effect(run[p]), OnlineAnswers, online_none) :
               journal' = record(online_effect(run[p]), o)
      BY <2>2 DEF run_online
    <3> QED BY <3>1, ExecuteIs, GrowsSelf
  <2>3. CASE preflight(p) \/ postflight(p)
    <3>1. UNCHANGED journal \/ \E c, shown : invoke_capability(p, c, shown)
      BY <2>3 DEF preflight, postflight
    <3> QED BY <1>0, <3>1, GrowsSelf
  <2>4. CASE admit(p) \/ seal(p) \/ verify(p) \/ learn(p)
    <3>1. UNCHANGED journal
      BY <2>4 DEF admit, seal, verify, learn
    <3> QED BY <3>1, GrowsSelf
  <2> QED BY <1>1, <2>1, <2>2, <2>3, <2>4 DEF Stage
<1>2. ASSUME NEW p \in Callers, crash(p) PROVE Grows(journal, journal')
  <2>1. UNCHANGED journal \/ \E e : e \notin DOMAIN journal /\ journal' = put(journal, e, Open)
    BY <1>2 DEF crash
  <2> QED BY <2>1, PutGrows, GrowsSelf
<1>3. ASSUME NEW e \in DOMAIN journal, reconcile(e) PROVE Grows(journal, journal')
  <2>1. journal[e] = Open /\ \E a : journal' = put(journal, e, Result(a))
    BY <1>3 DEF reconcile, unresolved_for_subject, settled
  <2> QED BY <2>1, PutGrows
<1>4. [Next]_vars => Grows(journal, journal')
  <2> SUFFICES ASSUME [Next]_vars PROVE Grows(journal, journal')
    OBVIOUS
  <2>1. CASE \E p \in Callers : \/ \E req \in Requests : run_first(p, req)
                               \/ \E rec \in held, req \in Requests : run_replan(p, rec, req)
    <3>1. UNCHANGED journal
      BY <2>1 DEF run_first, run_replan, begin
    <3> QED BY <3>1, GrowsSelf
  <2>2. CASE \E rec \in held, v, l \in CallbackAnswers \cap CallbackAnswer, j \in BOOLEAN :
               finalize_receipt(rec, v, l, j)
    <3>1. UNCHANGED journal
      BY <2>2 DEF finalize_receipt
    <3> QED BY <3>1, GrowsSelf
  <2>3. CASE UNCHANGED vars
    <3>1. UNCHANGED journal
      BY <2>3 DEF vars
    <3> QED BY <3>1, GrowsSelf
  <2> QED BY <1>1, <1>2, <1>3, <2>1, <2>2, <2>3 DEF Next
<1> QED BY <1>4, PTL DEF Spec
====
