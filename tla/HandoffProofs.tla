--------------------------- MODULE HandoffProofs ---------------------------
(***************************************************************************)
(* Proofs about Handoff for every set of sessions, effects and claims and  *)
(* every budget of attempts and revisions.                                 *)
(***************************************************************************)
EXTENDS Handoff, FiniteSetTheorems, TLAPS

Checkpoints == [rev : 1..MaxRevision, status : CHECKPOINT_STATUSES, blocked : BOOLEAN,
                effects : SUBSET Effects, op : Attempts \cup {0}]
Handoffs == [pred : Attempts, seen : Checkpoints, terminal : CHECKPOINT_STATUSES,
             unknown : {c.unknown : c \in Claims}, disposition : {c.disposition : c \in Claims},
             keys : {c.keys : c \in Claims}]
Working == [at : {"working"}, attempt : Attempts, cp : Checkpoints]
Composed == [at : {"composed"}, succ : Attempts, h : Handoffs]
Binding == [at : {"checked", "filed"}, succ : Attempts, h : Handoffs, cp : Checkpoints]
Retrying == [at : {"retrying"}, round : Nat]
Tasks == [status : Statuses, attempts : Nat \ {0},
          cleaned : {FALSE} \cup {o.cleaned : o \in Outcomes},
          acceptance : {"none"} \cup {o.acceptance : o \in Outcomes},
          residual : Residuals, settled : {FALSE} \cup {o.settled : o \in Outcomes}, round : Nat]

TypeOK ==
  /\ task \in Tasks
  /\ current \in [Attempts -> Checkpoints \cup {None}]
  /\ handoff \in [Attempts -> Handoffs \cup {NoHandoff}]
  /\ fenced \subseteq Attempts /\ bound \subseteq Attempts
  /\ session \in [Sessions -> {Idle} \cup Working \cup Composed \cup Binding \cup Retrying]

\* What the checks of bind_successor_checkpoint have found of a handoff.
Fit(h) ==
  /\ h.seen.status # "RECONCILE" /\ ~h.seen.blocked
  /\ ~h.unknown /\ h.terminal = h.seen.status /\ h.disposition = "SAFE"
  /\ keys_match(h, h.seen)

\* The predecessor that was checked is fenced, and its checkpoint is the one seen.
Fenced(h) == h.pred \in fenced /\ current[h.pred] = h.seen

\* A session works on the latest checkpoint or on one that is older than it.
WorkingOK(w) ==
  session[w].at = "working" =>
    LET a == session[w].attempt cp == session[w].cp IN
    /\ current[a] # None /\ cp.rev <= current[a].rev
    /\ cp.rev = current[a].rev => cp = current[a]

\* A handoff is between two attempts; once it is checked, it stays fit.
BindingOK(w) ==
  LET h == session[w].h IN
  /\ session[w].at \in {"composed", "checked", "filed"} => h.pred # session[w].succ
  /\ session[w].at \in {"checked", "filed"} =>
       Fit(h) /\ Fenced(h) /\ session[w].cp = fresh(h.seen.effects, session[w].succ)
  /\ session[w].at = "filed" => handoff[session[w].succ] = h

\* So does the handoff on file.
OnFile(s) ==
  handoff[s] # NoHandoff => handoff[s].pred # s /\ Fit(handoff[s]) /\ Fenced(handoff[s])

\* A bound attempt has a handoff, and the effects of its predecessor.
BoundOK(s) ==
  /\ handoff[s] # NoHandoff
  /\ current[s] # None /\ current[s].op = s
  /\ current[handoff[s].pred].effects \subseteq current[s].effects

\* A checkpoint starts running; a fenced attempt has one.
Begun(a) ==
  /\ current[a].rev = 1 => current[a].status = "RUNNING" /\ ~current[a].blocked
  /\ a \in fenced => current[a] # None

\* The inductive invariant.
IInv ==
  /\ TypeOK
  /\ \A w \in Sessions : WorkingOK(w) /\ BindingOK(w)
  /\ \A a \in Attempts : OnFile(a) /\ Begun(a)
  /\ \A a \in bound : BoundOK(a)

---------------------------------------------------------------------------
\* The placeholders are none of the records they stand for.
LEMMA Placeholders ==
  /\ \A cp \in Checkpoints : cp # None /\ cp.rev \in Nat \ {0}
  /\ \A h \in Handoffs : h # NoHandoff /\ h.pred \in Attempts
  /\ None.rev = 0 /\ None \notin Checkpoints /\ NoHandoff \notin Handoffs
<1>1. MaxRevision \in Nat
  BY HandoffAssumption
<1>2. \A cp \in Checkpoints : cp.rev \in Nat \ {0}
  BY <1>1 DEF Checkpoints
<1>3. \A h \in Handoffs : h.pred \in Attempts
  BY DEF Handoffs
<1>4. \A a \in Attempts : a # 0
  <2>1. MaxAttempts + Cardinality(Sessions) - 1 \in Int
    BY HandoffAssumption, FS_CardinalityType
  <2> QED
    BY <2>1 DEF Attempts
<1>5. None.rev = 0 /\ NoHandoff.pred = 0
  BY DEF None, NoHandoff
<1> QED
  BY <1>2, <1>3, <1>4, <1>5

\* What a session holds is known from how far it is.
LEMMA SessionKinds ==
  ASSUME TypeOK, NEW w \in Sessions
  PROVE  /\ session[w].at = "working" => session[w] \in Working
         /\ session[w].at = "composed" => session[w] \in Composed
         /\ session[w].at \in {"checked", "filed"} => session[w] \in Binding
         /\ session[w].at = "retrying" => session[w] \in Retrying
BY DEF TypeOK, Idle, Working, Composed, Binding, Retrying

\* A first checkpoint is one.
LEMMA FreshCheckpoint ==
  ASSUME NEW e \in SUBSET Effects, NEW op \in Attempts \cup {0}
  PROVE  fresh(e, op) \in Checkpoints
BY HandoffAssumption DEF fresh, Checkpoints, CHECKPOINT_STATUSES

\* What a step may do to the checkpoint of an attempt: nothing, start it, or
\* advance it by one revision while the attempt is not fenced.
CheckpointStep(a) ==
  \/ current'[a] = current[a]
  \/ /\ current[a] = None
     /\ current'[a].rev = 1 /\ current'[a].status = "RUNNING" /\ current'[a].blocked = FALSE
  \/ /\ current[a] # None /\ a \notin fenced
     /\ current'[a].rev = current[a].rev + 1
     /\ current'[a].op = current[a].op
     /\ current[a].effects \subseteq current'[a].effects

\* The files after a step that keeps what is fenced and what is on file.
FilesStep ==
  /\ \A a \in Attempts : CheckpointStep(a)
  /\ fenced \subseteq fenced'
  /\ \A a \in Attempts : handoff[a] # NoHandoff => handoff'[a] = handoff[a]

\* A checkpoint that is there stays, with its effects.
LEMMA Grown ==
  ASSUME TypeOK, TypeOK', FilesStep, NEW a \in Attempts, current[a] # None
  PROVE  /\ current'[a] # None /\ current[a].effects \subseteq current'[a].effects
         /\ current'[a].op = current[a].op
         /\ current[a].rev <= current'[a].rev
         /\ current[a].rev = current'[a].rev => current'[a] = current[a]
         /\ a \in fenced => current'[a] = current[a]
<1>1. CheckpointStep(a)
  BY DEF FilesStep
<1>2. current[a] \in Checkpoints /\ current[a].rev \in Nat \ {0}
  BY Placeholders DEF TypeOK
<1>3. CASE current'[a] = current[a]
  BY <1>2, <1>3
<1>4. CASE current'[a].rev = current[a].rev + 1
  <2>1. current'[a] # None
    BY <1>2, <1>4, Placeholders
  <2> QED
    BY <1>1, <1>2, <1>4, <2>1 DEF CheckpointStep
<1> QED
  BY <1>1, <1>3, <1>4 DEF CheckpointStep

\* Such a step keeps the inductive invariant, if what it adds is as it says.
LEMMA StepKeeps ==
  ASSUME IInv, TypeOK', FilesStep,
         \A w \in Sessions : session'[w] = session[w] \/ (WorkingOK(w)' /\ BindingOK(w)'),
         \A a \in Attempts : handoff'[a] # handoff[a] => OnFile(a)',
         \A a \in bound' : a \in bound \/ BoundOK(a)',
         \A a \in fenced' : a \in fenced \/ current[a] # None
  PROVE  IInv'
<1> USE DEF IInv
<1>1. \A h \in Handoffs : Fenced(h) => h.pred \in fenced' /\ current'[h.pred] = h.seen
  <2> SUFFICES ASSUME NEW h \in Handoffs, Fenced(h) PROVE h.pred \in fenced' /\ current'[h.pred] = h.seen
    OBVIOUS
  <2>1. h.pred \in Attempts /\ h.pred \in fenced /\ current[h.pred] # None
    BY Placeholders DEF Fenced, Begun
  <2> QED
    BY <2>1, Grown DEF Fenced, FilesStep
<1>2. ASSUME NEW w \in Sessions, session'[w] = session[w] PROVE WorkingOK(w)' /\ BindingOK(w)'
  <2>1. WorkingOK(w)'
    <3> SUFFICES ASSUME session[w].at = "working"
                 PROVE  LET a == session[w].attempt cp == session[w].cp IN
                        /\ current'[a] # None /\ cp.rev <= current'[a].rev
                        /\ cp.rev = current'[a].rev => cp = current'[a]
      BY <1>2 DEF WorkingOK
    <3> DEFINE a == session[w].attempt
               cp == session[w].cp
    <3>1. a \in Attempts /\ cp \in Checkpoints
      BY SessionKinds DEF Working
    <3>2. current[a] # None /\ cp.rev <= current[a].rev /\ (cp.rev = current[a].rev => cp = current[a])
      BY DEF WorkingOK
    <3>3. cp.rev \in Nat /\ current[a].rev \in Nat
      BY <3>1, <3>2, Placeholders DEF TypeOK
    <3> HIDE DEF a, cp
    <3>4. current'[a] \in Checkpoints /\ current'[a] # None
      BY <3>1, <3>2, Grown DEF TypeOK
    <3>5. current'[a].rev \in Nat
      BY <3>4, Placeholders
    <3>6. current[a].rev <= current'[a].rev /\ (current[a].rev = current'[a].rev => current'[a] = current[a])
      BY <3>1, <3>2, Grown
    <3>7. /\ cp.rev <= current'[a].rev
          /\ cp.rev = current'[a].rev => cp = current'[a]
      BY <3>2, <3>3, <3>5, <3>6
    <3> QED
      BY <3>4, <3>7 DEF a, cp
  <2>2. BindingOK(w)'
    <3>1. session[w].at \in {"checked", "filed"} => session[w].h \in Handoffs /\ session[w].succ \in Attempts
      BY SessionKinds DEF Binding
    <3>2. session[w].at \in {"checked", "filed"} =>
            session[w].h.pred \in fenced' /\ current'[session[w].h.pred] = session[w].h.seen
      BY <1>1, <3>1 DEF BindingOK
    <3>3. session[w].at = "filed" => handoff'[session[w].succ] = session[w].h
      BY <3>1, Placeholders DEF BindingOK, FilesStep
    <3> QED
      BY <1>2, <3>2, <3>3 DEF BindingOK, Fenced
  <2> QED
    BY <2>1, <2>2
<1>3. ASSUME NEW s \in Attempts PROVE OnFile(s)'
  <2>1. CASE handoff'[s] = handoff[s]
    <3>1. handoff[s] # NoHandoff => handoff[s] \in Handoffs
      BY DEF TypeOK
    <3> QED
      BY <1>1, <2>1, <3>1 DEF OnFile, Fenced
  <2> QED
    BY <2>1
<1>4. ASSUME NEW a \in Attempts PROVE Begun(a)'
  <2>1. a \in fenced' => current'[a] # None
    BY Grown DEF Begun
  <2>2. current'[a].rev = 1 => current'[a].status = "RUNNING" /\ ~current'[a].blocked
    <3>1. current[a] # None => current[a].rev + 1 # 1
      <4>1. current[a] # None => current[a].rev \in Nat \ {0}
        BY Placeholders DEF TypeOK
      <4> QED
        BY <4>1
    <3>2. CheckpointStep(a) /\ Begun(a)
      BY DEF FilesStep
    <3> QED
      BY <3>1, <3>2 DEF CheckpointStep, Begun
  <2> QED
    BY <2>1, <2>2 DEF Begun
<1>5. ASSUME NEW s \in bound PROVE BoundOK(s)'
  <2>1. s \in Attempts /\ handoff[s] \in Handoffs /\ handoff[s] # NoHandoff /\ BoundOK(s)
    BY DEF TypeOK, BoundOK
  <2>2. handoff'[s] = handoff[s]
    BY <2>1 DEF FilesStep
  <2>3. current'[s] # None /\ current'[s].op = s /\ current[s].effects \subseteq current'[s].effects
    BY <2>1, Grown DEF BoundOK
  <2>4. current'[handoff[s].pred] = current[handoff[s].pred]
    BY <1>1, <2>1 DEF OnFile, Fenced
  <2> QED
    BY <2>1, <2>2, <2>3, <2>4 DEF BoundOK
<1>6. \A w \in Sessions : WorkingOK(w)' /\ BindingOK(w)'
  BY <1>2
<1>7. \A a \in bound' : BoundOK(a)'
  BY <1>5
<1> QED
  BY <1>3, <1>4, <1>6, <1>7

---------------------------------------------------------------------------
\* The first state.
LEMMA InitIInv == Init => IInv
<1> SUFFICES ASSUME Init PROVE IInv
  OBVIOUS
<1>1. task \in Tasks
  BY DEF Init, Tasks, Statuses, Residuals
<1>2. TypeOK
  BY <1>1 DEF Init, TypeOK
<1>3. \A w \in Sessions : WorkingOK(w) /\ BindingOK(w)
  BY DEF Init, Idle, WorkingOK, BindingOK
<1>4. \A a \in Attempts : OnFile(a) /\ Begun(a)
  BY Placeholders DEF Init, OnFile, Begun
<1> QED
  BY <1>2, <1>3, <1>4 DEF Init, IInv

\* A step that changes no file and what one session holds.
LEMMA SessionStep ==
  ASSUME IInv, NEW w \in Sessions,
         NEW s \in {Idle} \cup Working \cup Composed \cup Binding \cup Retrying, hold(w, s),
         UNCHANGED <<current, handoff, fenced, bound>>, task' \in Tasks,
         WorkingOK(w)', BindingOK(w)'
  PROVE  IInv' /\ FilesStep
<1>1. TypeOK'
  BY DEF IInv, TypeOK, hold
<1>2. \A v \in Sessions : session'[v] = session[v] \/ (WorkingOK(v)' /\ BindingOK(v)')
  BY DEF IInv, TypeOK, hold
<1>3. FilesStep
  BY DEF FilesStep, CheckpointStep
<1> QED
  BY <1>1, <1>2, <1>3, StepKeeps

\* The session gives up what it holds.
LEMMA IdleStep ==
  ASSUME IInv, NEW w \in Sessions, hold(w, Idle),
         UNCHANGED <<current, handoff, fenced, bound>>, task' \in Tasks
  PROVE  IInv' /\ FilesStep
<1>1. session'[w] = Idle
  BY DEF IInv, TypeOK, hold
<1>2. WorkingOK(w)' /\ BindingOK(w)'
  BY <1>1 DEF WorkingOK, BindingOK, Idle
<1> QED
  BY <1>2, SessionStep

\* create writes only where there is no checkpoint.
LEMMA CreateStep ==
  ASSUME IInv, NEW w \in Sessions, NEW a \in Attempts, create(w, a)
  PROVE  IInv' /\ FilesStep
<1>1. current[a] = None
  <2>1. current[a].rev = 0
    BY HandoffAssumption DEF create, may_write
  <2> QED
    BY <2>1, Placeholders DEF IInv, TypeOK
<1>2. fresh({}, 0) \in Checkpoints
  BY FreshCheckpoint
<1>3. TypeOK' /\ current'[a] = fresh({}, 0) /\ \A b \in Attempts \ {a} : current'[b] = current[b]
  BY <1>2 DEF create, IInv, TypeOK
<1>4. FilesStep
  <2>1. CheckpointStep(a)
    <3>1. fresh({}, 0).rev = 1 /\ fresh({}, 0).status = "RUNNING" /\ fresh({}, 0).blocked = FALSE
      BY DEF fresh
    <3> QED
      BY <1>1, <1>3, <3>1 DEF CheckpointStep
  <2> QED
    BY <1>3, <2>1 DEF create, FilesStep, CheckpointStep
<1> QED
  BY <1>3, <1>4, StepKeeps DEF create

\* The end of write and record_effect: the file moves only from the revision the
\* session works on, whose checkpoint is then the one it holds.
LEMMA WrittenStep ==
  ASSUME IInv, NEW w \in Sessions, NEW cp \in Checkpoints, session[w].at = "working",
         cp.rev = session[w].cp.rev + 1, cp.op = session[w].cp.op,
         session[w].cp.effects \subseteq cp.effects,
         written(w, cp)
  PROVE  IInv' /\ FilesStep
<1> DEFINE a == session[w].attempt
           old == session[w].cp
<1>1. session[w] \in Working /\ a \in Attempts /\ old \in Checkpoints
  BY SessionKinds DEF IInv, Working
<1>2. task' \in Tasks
  BY DEF written, IInv, TypeOK
<1>3. CASE ~may_write(a, cp, old.rev)
  BY <1>2, <1>3, IdleStep DEF written
<1>4. CASE may_write(a, cp, old.rev)
  <2>1. /\ a \notin fenced
        /\ current' = [current EXCEPT ![a] = cp]
        /\ hold(w, [session[w] EXCEPT !.cp = cp])
        /\ UNCHANGED <<task, handoff, fenced, bound>>
    BY <1>4 DEF written
  <2>2. old.rev <= MaxRevision
    <3>1. old.rev \in 1..MaxRevision
      BY <1>1 DEF Checkpoints
    <3> QED
      BY <3>1, HandoffAssumption
  <2>3. current[a].rev = old.rev
    BY <1>4, <2>2 DEF may_write
  <2>4. current[a] = old
    BY <2>3 DEF IInv, WorkingOK
  <2>5. [session[w] EXCEPT !.cp = cp] \in Working
    BY <1>1 DEF Working
  <2>6. [session[w] EXCEPT !.cp = cp].attempt = a /\ [session[w] EXCEPT !.cp = cp].cp = cp
    BY <1>1 DEF Working
  <2> HIDE DEF a, old
  <2>7. TypeOK' /\ current'[a] = cp /\ \A b \in Attempts \ {a} : current'[b] = current[b]
    BY <1>1, <2>1, <2>5 DEF IInv, TypeOK, hold
  <2>8. session'[w] \in Working /\ session'[w].attempt = a /\ session'[w].cp = cp
    BY <2>1, <2>5, <2>6 DEF hold, IInv, TypeOK
  <2>9. \A v \in Sessions \ {w} : session'[v] = session[v]
    BY <2>1 DEF hold, IInv, TypeOK
  <2>10. FilesStep
    <3>1. CheckpointStep(a)
      BY <1>1, <2>1, <2>4, <2>7, Placeholders DEF CheckpointStep, old
    <3> QED
      BY <2>1, <2>7, <3>1 DEF FilesStep, CheckpointStep
  <2>11. WorkingOK(w)'
    BY <2>7, <2>8, Placeholders DEF WorkingOK, Working
  <2>12. BindingOK(w)'
    BY <2>8 DEF BindingOK, Working
  <2> QED
    BY <2>1, <2>7, <2>9, <2>10, <2>11, <2>12, StepKeeps
<1> QED
  BY <1>3, <1>4

\* advance and record_effect keep the effects and the operation of the copy.
LEMMA AdvanceStep ==
  ASSUME IInv, NEW w \in Sessions,
         \/ \E m \in Moves : advance(w, m.status, m.blocked)
         \/ \E e \in Effects : record_effect(w, e)
  PROVE  IInv' /\ FilesStep
<1> DEFINE old == session[w].cp
<1>1. session[w].at = "working" /\ old \in Checkpoints /\ old.rev < MaxRevision
  BY SessionKinds DEF advance, record_effect, IInv, Working
<1>2. old.rev + 1 \in 1..MaxRevision
  BY <1>1, HandoffAssumption DEF Checkpoints
<1>3. ASSUME NEW m \in Moves, advance(w, m.status, m.blocked) PROVE IInv' /\ FilesStep
  <2> DEFINE cp == [old EXCEPT !.rev = @ + 1, !.status = m.status, !.blocked = m.blocked]
  <2>1. cp \in Checkpoints
    BY <1>1, <1>2, HandoffAssumption DEF Checkpoints
  <2>2. cp.rev = old.rev + 1 /\ cp.op = old.op /\ cp.effects = old.effects
    BY <1>1 DEF Checkpoints
  <2>3. written(w, cp)
    BY <1>3 DEF advance
  <2> HIDE DEF cp
  <2> QED
    BY <1>1, <2>1, <2>2, <2>3, WrittenStep
<1>4. ASSUME NEW e \in Effects, record_effect(w, e) PROVE IInv' /\ FilesStep
  <2> DEFINE cp == [old EXCEPT !.rev = @ + 1, !.effects = @ \cup {e}]
  <2>1. cp \in Checkpoints
    BY <1>1, <1>2 DEF Checkpoints
  <2>2. cp.rev = old.rev + 1 /\ cp.op = old.op /\ cp.effects = old.effects \cup {e}
    BY <1>1 DEF Checkpoints
  <2>3. written(w, cp)
    BY <1>4 DEF record_effect
  <2> HIDE DEF cp
  <2> QED
    BY <1>1, <2>1, <2>2, <2>3, WrittenStep
<1> QED
  BY <1>3, <1>4

---------------------------------------------------------------------------
\* bind_successor_checkpoint, the checks: what they find is on file, and the
\* predecessor is fenced.
LEMMA BindCheckStep ==
  ASSUME IInv, NEW w \in Sessions, NEW same \in BOOLEAN, bind_check(w, same)
  PROVE  IInv' /\ FilesStep
<1> DEFINE h == session[w].h
           s == session[w].succ
           c == [at |-> "checked", succ |-> s, h |-> h, cp |-> fresh(inherited(h, current[h.pred]), s)]
<1>1. session[w] \in Composed /\ h \in Handoffs /\ s \in Attempts /\ h.pred \in Attempts /\ h.pred # s
  BY SessionKinds, Placeholders DEF bind_check, IInv, Composed, BindingOK
<1>2. UNCHANGED <<current, handoff, fenced, bound>> /\ task' \in Tasks
  BY DEF bind_check, IInv, TypeOK
<1>3. CASE hold(w, Idle)
  BY <1>2, <1>3, IdleStep
<1>4. CASE /\ hold(w, c) /\ current[h.pred] # None
           /\ evaluate_handoff_lineage(h, current[h.pred], same) /\ keys_match(h, current[h.pred])
  <2>1. current[h.pred] = h.seen /\ h.pred \in fenced
    BY <1>4 DEF evaluate_handoff_lineage, fence_verified
  <2>2. Fit(h)
    BY <1>4, <2>1 DEF evaluate_handoff_lineage, Fit
  <2>3. h.seen \in Checkpoints
    BY <1>1 DEF Handoffs
  <2>4. h.seen.effects \in SUBSET Effects
    BY <2>3 DEF Checkpoints
  <2> HIDE DEF h, s
  <2>5. fresh(h.seen.effects, s) \in Checkpoints
    BY <1>1, <2>4, FreshCheckpoint
  <2>6. c = [at |-> "checked", succ |-> s, h |-> h, cp |-> fresh(h.seen.effects, s)]
    BY <2>1 DEF inherited
  <2>7. c \in Binding
    BY <1>1, <2>5, <2>6 DEF Binding
  <2>8. c.at = "checked" /\ c.h = h /\ c.succ = s /\ c.cp = fresh(h.seen.effects, s)
    BY <2>6
  <2> HIDE DEF c
  <2>9. session'[w] = c
    BY <1>4 DEF hold, IInv, TypeOK
  <2>10. WorkingOK(w)'
    BY <2>8, <2>9 DEF WorkingOK
  <2>11. BindingOK(w)'
    <3>1. fresh(session'[w].h.seen.effects, session'[w].succ)
            = fresh(h.seen.effects, s)
      BY <2>8, <2>9
    <3> QED
      BY <1>1, <1>2, <2>1, <2>2, <2>8, <2>9, <3>1 DEF BindingOK, Fenced
  <2> QED
    BY <1>2, <1>4, <2>7, <2>10, <2>11, SessionStep
<1> QED
  BY <1>3, <1>4 DEF bind_check

\* write_handoff puts a checked handoff on file, never over another one.
LEMMA WriteHandoffStep ==
  ASSUME IInv, NEW w \in Sessions, write_handoff(w)
  PROVE  IInv' /\ FilesStep
<1> DEFINE h == session[w].h
           f == [session[w] EXCEPT !.at = "filed"]
<1>1. session[w] \in Binding /\ h \in Handoffs /\ session[w].at = "checked"
  BY SessionKinds DEF write_handoff, IInv, Binding
<1> PICK s \in Attempts : s = session[w].succ
  BY <1>1 DEF Binding
<1>2. h.pred # s /\ Fit(h) /\ Fenced(h) /\ session[w].cp = fresh(h.seen.effects, s)
  BY <1>1 DEF IInv, BindingOK
<1>3. UNCHANGED <<task, current, fenced, bound>>
  BY DEF write_handoff
<1>4. CASE hold(w, Idle) /\ UNCHANGED handoff
  BY <1>3, <1>4, IdleStep DEF IInv, TypeOK
<1>5. CASE handoff[s] \in {NoHandoff, h} /\ handoff' = [handoff EXCEPT ![s] = h] /\ hold(w, f)
  <2>1. f \in Binding /\ f.at = "filed" /\ f.h = h /\ f.succ = s /\ f.cp = session[w].cp
    BY <1>1 DEF Binding
  <2> HIDE DEF h, f
  <2>2. /\ TypeOK' /\ session'[w] = f /\ \A v \in Sessions \ {w} : session'[v] = session[v]
        /\ handoff'[s] = h /\ \A a \in Attempts \ {s} : handoff'[a] = handoff[a]
    BY <1>1, <1>3, <1>5, <2>1 DEF IInv, TypeOK, hold
  <2>3. FilesStep
    BY <1>3, <1>5, <2>2 DEF FilesStep, CheckpointStep
  <2>4. h.pred \in fenced' /\ current'[h.pred] = h.seen
    BY <1>2, <1>3 DEF Fenced
  <2>5. OnFile(s)'
    BY <1>2, <2>2, <2>4 DEF OnFile, Fenced
  <2>6. WorkingOK(w)'
    BY <2>1, <2>2 DEF WorkingOK
  <2>7. BindingOK(w)'
    BY <1>2, <2>1, <2>2, <2>4 DEF BindingOK, Fenced
  <2> QED
    BY <1>3, <2>2, <2>3, <2>5, <2>6, <2>7, StepKeeps
<1> QED
  BY <1>4, <1>5 DEF write_handoff

\* The successor's first checkpoint has what its predecessor had, which is fenced.
LEMMA BindSuccessorStep ==
  ASSUME IInv, NEW w \in Sessions, bind_successor(w)
  PROVE  IInv' /\ FilesStep
<1> DEFINE h == session[w].h
           cp == session[w].cp
           r == [at |-> "working", attempt |-> session[w].succ, cp |-> cp]
<1>1. session[w] \in Binding /\ h \in Handoffs /\ cp \in Checkpoints /\ session[w].at = "filed"
  BY SessionKinds DEF bind_successor, IInv, Binding
<1> PICK s \in Attempts : s = session[w].succ
  BY <1>1 DEF Binding
<1>2. h.pred # s /\ Fit(h) /\ Fenced(h) /\ cp = fresh(h.seen.effects, s) /\ handoff[s] = h
  BY <1>1 DEF IInv, BindingOK
<1>3. UNCHANGED <<task, handoff, fenced>>
  BY DEF bind_successor
<1>4. CASE UNCHANGED <<current, bound>> /\ hold(w, Idle)
  BY <1>3, <1>4, IdleStep DEF IInv, TypeOK
<1>5. CASE /\ may_write(s, cp, MaxRevision + 1)
           /\ current' = [current EXCEPT ![s] = cp] /\ bound' = bound \cup {s}
           /\ hold(w, r)
  <2>1. h.seen.effects \in SUBSET Effects
    <3>1. h.seen \in Checkpoints
      BY <1>1 DEF Handoffs
    <3> QED
      BY <3>1 DEF Checkpoints
  <2> HIDE DEF h, cp
  <2>2. /\ cp.rev = 1 /\ cp.status = "RUNNING" /\ cp.blocked = FALSE
        /\ cp.op = s /\ cp.effects = h.seen.effects
    <3>1. LET c == fresh(h.seen.effects, s) IN
          /\ c.rev = 1 /\ c.status = "RUNNING" /\ c.blocked = FALSE
          /\ c.op = s /\ c.effects = h.seen.effects
      BY DEF fresh
    <3> QED
      BY <1>2, <3>1
  <2>3. current[s] = None
    <3>1. ~(MaxRevision + 1 <= MaxRevision)
      BY HandoffAssumption
    <3>2. cp.rev > current[s].rev
      BY <1>5, <3>1 DEF may_write
    <3>3. current[s] # None => current[s].rev \in Nat \ {0}
      BY <1>1, Placeholders DEF IInv, TypeOK
    <3> QED
      BY <2>2, <3>2, <3>3
  <2>4. r \in Working /\ r.at = "working" /\ r.attempt = s /\ r.cp = cp
    BY <1>1 DEF Working
  <2> HIDE DEF r
  <2>5. /\ TypeOK' /\ session'[w] = r /\ \A v \in Sessions \ {w} : session'[v] = session[v]
        /\ current'[s] = cp /\ \A a \in Attempts \ {s} : current'[a] = current[a]
    BY <1>1, <1>3, <1>5, <2>4 DEF IInv, TypeOK, hold
  <2>6. FilesStep
    BY <1>3, <2>2, <2>3, <2>5 DEF FilesStep, CheckpointStep
  <2>7. WorkingOK(w)'
    BY <1>1, <2>4, <2>5, Placeholders DEF WorkingOK
  <2>8. BindingOK(w)'
    BY <2>4, <2>5 DEF BindingOK
  <2>9. BoundOK(s)'
    <3>1. h.pred \in Attempts /\ current'[h.pred] = h.seen
      BY <1>1, <1>2, <2>5, Placeholders DEF Fenced
    <3>2. handoff'[s] = h /\ h # NoHandoff /\ cp # None
      BY <1>1, <1>2, <1>3, Placeholders
    <3> QED
      BY <2>2, <2>5, <3>1, <3>2 DEF BoundOK
  <2> QED
    BY <1>3, <1>5, <2>5, <2>6, <2>7, <2>8, <2>9, StepKeeps
<1> QED
  BY <1>4, <1>5 DEF bind_successor

\* The steps that leave the files of checkpoints and handoffs alone.
LEMMA QuietSteps ==
  ASSUME IInv, NEW w \in Sessions,
         \/ \E a \in Attempts : resume(w, a)
         \/ \E p, s \in Attempts, c \in Claims : compose(w, p, s, c)
         \/ retry_read(w) \/ retry_submit(w) \/ lose(w)
  PROVE  IInv' /\ FilesStep
<1>1. ASSUME NEW a \in Attempts, resume(w, a) PROVE IInv' /\ FilesStep
  <2> DEFINE r == [at |-> "working", attempt |-> a, cp |-> current[a]]
  <2>1. current[a] \in Checkpoints
    BY <1>1 DEF resume, IInv, TypeOK
  <2>2. r \in Working
    BY <2>1 DEF Working
  <2>3. session'[w] = r /\ UNCHANGED current
    BY <1>1 DEF resume, hold, IInv, TypeOK
  <2>4. WorkingOK(w)' /\ BindingOK(w)'
    BY <2>1, <2>3, Placeholders DEF WorkingOK, BindingOK
  <2> QED
    BY <1>1, <2>2, <2>4, SessionStep DEF resume, IInv, TypeOK
<1>2. ASSUME NEW p \in Attempts, NEW s \in Attempts, NEW c \in Claims, compose(w, p, s, c) PROVE IInv' /\ FilesStep
  <2> DEFINE h == [pred |-> p, seen |-> current[p], terminal |-> current[p].status,
                   unknown |-> c.unknown, disposition |-> c.disposition, keys |-> c.keys]
             r == [at |-> "composed", succ |-> s, h |-> h]
  <2>1. current[p] \in Checkpoints
    BY <1>2 DEF compose, IInv, TypeOK
  <2>2. current[p].status \in CHECKPOINT_STATUSES
    BY <2>1 DEF Checkpoints
  <2>3. h \in Handoffs /\ h.pred = p
    BY <2>1, <2>2 DEF Handoffs
  <2>4. hold(w, r) /\ p # s
    BY <1>2 DEF compose
  <2> HIDE DEF h
  <2>5. r \in Composed
    BY <2>3 DEF Composed
  <2>6. session'[w] = r
    BY <2>4 DEF hold, IInv, TypeOK
  <2>7. WorkingOK(w)' /\ BindingOK(w)'
    BY <2>3, <2>4, <2>6 DEF WorkingOK, BindingOK
  <2> QED
    BY <1>2, <2>4, <2>5, <2>7, SessionStep DEF compose, IInv, TypeOK
<1>3. task.round \in Nat /\ task.attempts \in Nat
  BY DEF IInv, TypeOK, Tasks
<1>4. CASE retry_read(w)
  <2> DEFINE r == [at |-> "retrying", round |-> round_of_retry(task)]
  <2>1. r \in Retrying
    BY <1>3 DEF Retrying, round_of_retry, current_repair_round
  <2>2. session'[w] = r
    BY <1>4 DEF retry_read, hold, IInv, TypeOK
  <2>3. WorkingOK(w)' /\ BindingOK(w)'
    BY <2>2 DEF WorkingOK, BindingOK
  <2> QED
    BY <1>4, <2>1, <2>3, SessionStep DEF retry_read, IInv, TypeOK
<1>5. CASE retry_submit(w)
  <2>1. session[w].round \in Nat
    BY <1>5, SessionKinds DEF retry_submit, IInv, Retrying
  <2>2. task' \in Tasks
    <3>1. task \in Tasks /\ task.attempts + 1 \in Nat \ {0}
      BY <1>3 DEF IInv, TypeOK
    <3>2. "RUNNING" \in Statuses /\ "invalid" \in Residuals
      BY DEF Statuses, Residuals
    <3> QED
      BY <1>5, <2>1, <3>1, <3>2 DEF retry_submit, Tasks
  <2> QED
    BY <1>5, <2>2, IdleStep DEF retry_submit
<1>6. CASE lose(w)
  BY <1>6, IdleStep DEF lose, IInv, TypeOK
<1> QED
  BY <1>1, <1>2, <1>4, <1>5, <1>6

\* The end of an attempt, and a fence.
LEMMA SurroundingSteps ==
  ASSUME IInv, (\E o \in Outcomes : settle(o)) \/ (\E a \in Attempts : fence(a))
  PROVE  IInv' /\ FilesStep
<1>1. task' \in Tasks
  <2>1. ASSUME NEW o \in Outcomes, settle(o) PROVE task' \in Tasks
    <3>1. o.status \in Statuses /\ o.residual \in Residuals
      BY HandoffAssumption
    <3>2. task \in Tasks
      BY DEF IInv, TypeOK
    <3> QED
      BY <2>1, <3>1, <3>2 DEF settle, Tasks
  <2> QED
    BY <2>1 DEF fence, IInv, TypeOK
<1>2. UNCHANGED <<current, handoff, session, bound>> /\ fenced \subseteq fenced'
      /\ \A a \in fenced' : a \in fenced \/ (a \in Attempts /\ current[a] # None)
  BY DEF settle, fence
<1>3. TypeOK'
  BY <1>1, <1>2 DEF IInv, TypeOK
<1>4. FilesStep
  BY <1>2 DEF FilesStep, CheckpointStep
<1> QED
  BY <1>2, <1>3, <1>4, StepKeeps

\* Every step keeps the inductive invariant, and does to the files what is allowed.
LEMMA NextIInv == IInv /\ [Next]_vars => IInv' /\ FilesStep
<1> SUFFICES ASSUME IInv, [Next]_vars PROVE IInv' /\ FilesStep
  OBVIOUS
<1>1. CASE UNCHANGED vars
  <2>1. TypeOK'
    BY <1>1 DEF vars, IInv, TypeOK
  <2>2. FilesStep
    BY <1>1 DEF vars, FilesStep, CheckpointStep
  <2> QED
    BY <1>1, <2>1, <2>2, StepKeeps DEF vars
<1> QED
  BY <1>1, CreateStep, AdvanceStep, BindCheckStep, WriteHandoffStep, BindSuccessorStep, QuietSteps,
     SurroundingSteps DEF Next

---------------------------------------------------------------------------
\* The types of the task, its checkpoints, its handoffs and its sessions.
THEOREM TypeCorrect == Spec => []TypeOK
<1>1. IInv => TypeOK
  BY DEF IInv
<1> QED
  BY <1>1, InitIInv, NextIInv, PTL DEF Spec

\* lineage(a) holds a and the predecessor of what it holds, and no more than any
\* other such set.
LEMMA LineageClosed ==
  ASSUME TypeOK, NEW a \in Attempts
  PROVE  /\ a \in lineage(a)
         /\ \A x \in lineage(a) : handoff[x] # NoHandoff => handoff[x].pred \in lineage(a)
         /\ \A S \in SUBSET Attempts :
              a \in S /\ (\A y \in S : handoff[y] # NoHandoff => handoff[y].pred \in S) => lineage(a) \subseteq S
<1>1. \A x \in Attempts : handoff[x] # NoHandoff => handoff[x].pred \in Attempts
  BY Placeholders DEF TypeOK
<1> QED
  BY <1>1 DEF lineage

\* An attempt that was handed over, along whatever chain of handoffs, knows every
\* effect completed by any attempt before it.
THEOREM EffectsHandedOn == Spec => []EffectsCarried
<1>1. ASSUME IInv PROVE EffectsCarried
  <2> SUFFICES ASSUME NEW a \in bound, inheritors(a) \subseteq bound, NEW x \in lineage(a)
               PROVE  current[x].effects \subseteq current[a].effects
    BY DEF EffectsCarried
  <2> DEFINE S == {y \in lineage(a) : current[y].effects \subseteq current[a].effects}
  <2>1. TypeOK /\ a \in Attempts
    BY <1>1 DEF IInv, TypeOK
  <2>2. S \in SUBSET Attempts /\ a \in S
    BY <2>1, LineageClosed DEF lineage
  <2>3. ASSUME NEW y \in S, handoff[y] # NoHandoff PROVE handoff[y].pred \in S
    <3>1. y \in bound
      BY <2>3 DEF inheritors
    <3>2. current[handoff[y].pred].effects \subseteq current[y].effects
      BY <1>1, <3>1 DEF IInv, BoundOK
    <3>3. handoff[y].pred \in lineage(a)
      BY <2>1, <2>3, LineageClosed
    <3> QED
      BY <3>2, <3>3
  <2>4. lineage(a) \subseteq S
    <3> HIDE DEF S
    <3> QED
      BY <2>1, <2>2, <2>3, LineageClosed
  <2> QED
    BY <2>4
<1> QED
  BY <1>1, InitIInv, NextIInv, PTL DEF Spec

\* Whatever other sessions did between the reads and the two writes of
\* bind_successor_checkpoint, and since: its result is read back as safe.
THEOREM BoundReadsBack == Spec => []ReadsBack
<1>1. ASSUME IInv PROVE ReadsBack
  <2> SUFFICES ASSUME NEW a \in bound, current[a].rev = 1, ~cyclic(a)
               PROVE  readback_safe(a, TRUE)
    BY DEF ReadsBack
  <2> DEFINE h == handoff[a]
  <2>1. a \in Attempts /\ h # NoHandoff /\ BoundOK(a) /\ OnFile(a) /\ Begun(a)
    BY <1>1 DEF IInv, TypeOK, BoundOK
  <2>2. h \in Handoffs /\ Fit(h) /\ Fenced(h)
    BY <1>1, <2>1 DEF IInv, TypeOK, OnFile
  <2>3. h.seen # None
    BY <2>2, Placeholders DEF Handoffs
  <2>4. evaluate_handoff_lineage(h, current[h.pred], TRUE) /\ keys_match(h, current[h.pred])
    BY <2>2, <2>3 DEF Fit, Fenced, evaluate_handoff_lineage, fence_verified
  <2>5. resume_disposition(current[a], TRUE) = "SAFE" /\ ~current[a].blocked
    BY <2>1 DEF Begun, resume_disposition
  <2> QED
    BY <2>1, <2>4, <2>5 DEF readback_safe, BoundOK
<1> QED
  BY <1>1, InitIInv, NextIInv, PTL DEF Spec

\* No session, however old its copy, takes a completed effect out of a checkpoint
\* or a checkpoint away.
THEOREM EffectsStay == Spec => EffectsKept
<1> DEFINE Kept == \A a \in Attempts :
                     current[a] # None => current'[a] # None /\ current[a].effects \subseteq current'[a].effects
<1>1. IInv /\ [Next]_vars => [Kept]_vars
  <2> SUFFICES ASSUME IInv, [Next]_vars PROVE Kept
    OBVIOUS
  <2>1. TypeOK /\ TypeOK' /\ FilesStep
    BY NextIInv DEF IInv
  <2> QED
    BY <2>1, Grown
<1> QED
  BY <1>1, InitIInv, NextIInv, PTL DEF Spec, EffectsKept

---------------------------------------------------------------------------
\* The sessions that are about to submit a retry.
submitting == {w \in Sessions : session[w].at = "retrying"}

\* Each of them was within the budget when it read the task.
Budget == task.attempts + Cardinality(submitting) <= MaxAttempts + Cardinality(Sessions) - 1

\* What a step does to the number of attempts and of sessions about to retry.
LEMMA BudgetStep ==
  ASSUME IInv, Budget, [Next]_vars
  PROVE  Budget'
<1> DEFINE N == Cardinality(Sessions)
           S == submitting
<1>1. IsFiniteSet(Sessions) /\ N \in Nat /\ MaxAttempts \in Nat /\ task.attempts \in Nat
  BY HandoffAssumption, FS_CardinalityType DEF IInv, TypeOK, Tasks
<1>2. S \in SUBSET Sessions /\ submitting' \in SUBSET Sessions
  BY DEF submitting
<1>3. /\ IsFiniteSet(S) /\ Cardinality(S) \in Nat
      /\ Cardinality(submitting') \in Nat /\ Cardinality(submitting') <= N
  BY <1>1, <1>2, FS_Subset, FS_CardinalityType
<1>4. ASSUME submitting' \subseteq S, task'.attempts = task.attempts PROVE Budget'
  <2>1. Cardinality(submitting') <= Cardinality(S)
    BY <1>3, <1>4, FS_Subset
  <2> QED
    BY <1>1, <1>3, <1>4, <2>1 DEF Budget
<1>5. ASSUME NEW w \in Sessions, retry_read(w) PROVE Budget'
  <2>1. task.attempts < MaxAttempts /\ task' = task
    BY <1>5 DEF retry_read, resubmits
  <2> QED
    BY <1>1, <1>3, <2>1 DEF Budget
<1>6. ASSUME NEW w \in Sessions, retry_submit(w) PROVE Budget'
  <2>1. w \in S /\ submitting' = S \ {w}
    BY <1>6 DEF retry_submit, hold, submitting, IInv, TypeOK, Idle
  <2>2. Cardinality(submitting') = Cardinality(S) - 1
    BY <1>3, <2>1, FS_RemoveElement
  <2>3. task'.attempts = task.attempts + 1
    BY <1>6 DEF retry_submit, IInv, TypeOK, Tasks
  <2> QED
    BY <1>1, <1>3, <2>2, <2>3 DEF Budget
<1>7. ASSUME NEW o \in Outcomes, settle(o) PROVE Budget'
  <2>1. task'.attempts = task.attempts /\ session' = session
    BY <1>7 DEF settle, IInv, TypeOK, Tasks
  <2> QED
    BY <1>4, <2>1 DEF submitting
<1>8. ASSUME NEW w \in Sessions, task' = task,
             \A v \in Sessions \ {w} : session'[v] = session[v], session'[w].at # "retrying"
      PROVE  Budget'
  BY <1>4, <1>8 DEF submitting
<1>9. ASSUME NEW w \in Sessions,
             \/ \E a \in Attempts : resume(w, a)
             \/ \E m \in Moves : advance(w, m.status, m.blocked)
             \/ \E e \in Effects : record_effect(w, e)
             \/ \E p, s \in Attempts, c \in Claims : compose(w, p, s, c)
             \/ (\E same \in BOOLEAN : bind_check(w, same)) \/ write_handoff(w) \/ bind_successor(w)
             \/ lose(w)
      PROVE  Budget'
  <2>1. task' = task
    BY <1>9 DEF resume, advance, record_effect, written, compose, bind_check, write_handoff,
       bind_successor, lose
  <2>2. PICK s : hold(w, s)
    BY <1>9 DEF resume, advance, record_effect, written, compose, bind_check, write_handoff,
       bind_successor, lose
  <2>3. session'[w] = s /\ \A v \in Sessions \ {w} : session'[v] = session[v]
    BY <2>2 DEF hold, IInv, TypeOK
  <2>4. session'[w].at # "retrying"
    <3>1. ASSUME NEW cp, written(w, cp), session[w].at = "working" PROVE session'[w].at # "retrying"
      <4>1. session[w] \in Working
        BY <3>1, SessionKinds DEF IInv
      <4>2. session'[w] \in {Idle, [session[w] EXCEPT !.cp = cp]}
        BY <3>1 DEF written, hold, IInv, TypeOK
      <4> QED
        BY <4>1, <4>2 DEF Working, Idle
    <3>2. CASE write_handoff(w)
      <4>1. session[w] \in Binding
        BY <3>2, SessionKinds DEF write_handoff, IInv
      <4>2. session'[w] \in {Idle, [session[w] EXCEPT !.at = "filed"]}
        BY <3>2 DEF write_handoff, hold, IInv, TypeOK
      <4> QED
        BY <4>1, <4>2 DEF Binding, Idle
    <3>3. CASE (\E m \in Moves : advance(w, m.status, m.blocked)) \/ \E e \in Effects : record_effect(w, e)
      BY <3>1, <3>3 DEF advance, record_effect
    <3>4. ASSUME NEW t, hold(w, t) PROVE session'[w] = t
      BY <3>4 DEF hold, IInv, TypeOK
    <3>5. CASE (\E a \in Attempts : resume(w, a)) \/ \E p, q \in Attempts, c \in Claims : compose(w, p, q, c)
      <4>1. ASSUME NEW a \in Attempts, resume(w, a) PROVE session'[w].at = "working"
        BY <3>4, <4>1 DEF resume
      <4>2. ASSUME NEW p \in Attempts, NEW q \in Attempts, NEW c \in Claims, compose(w, p, q, c)
            PROVE  session'[w].at = "composed"
        BY <3>4, <4>2 DEF compose
      <4> QED
        BY <3>5, <4>1, <4>2
    <3>6. CASE (\E same \in BOOLEAN : bind_check(w, same)) \/ bind_successor(w) \/ lose(w)
      BY <3>4, <3>6 DEF bind_check, bind_successor, lose, Idle
    <3> QED
      BY <1>9, <3>2, <3>3, <3>5, <3>6
  <2> QED
    BY <1>8, <2>1, <2>3, <2>4
<1>10. CASE UNCHANGED <<task, session>>
  BY <1>4, <1>10 DEF submitting
<1> QED
  BY <1>5, <1>6, <1>7, <1>9, <1>10 DEF Next, vars, create, fence

\* Sessions that retry the task at the same time can go beyond its budget of
\* attempts, and by at most one each: the snapshot retry_task decides on is not
\* read again when the attempt is submitted.
THEOREM AttemptsBounded == Spec => [](submitted \subseteq Attempts)
<1>1. Init => Budget
  <2> SUFFICES ASSUME Init PROVE Budget
    OBVIOUS
  <2>1. Cardinality(Sessions) \in Nat \ {0} /\ MaxAttempts \in Nat \ {0}
    BY HandoffAssumption, FS_CardinalityType, FS_EmptySet
  <2>2. task.attempts = 1 /\ submitting = {}
    BY DEF Init, submitting, Idle
  <2>3. Cardinality(submitting) = 0
    BY <2>2, FS_EmptySet
  <2> QED
    BY <2>1, <2>2, <2>3 DEF Budget
<1>2. ASSUME IInv, Budget PROVE submitted \subseteq Attempts
  <2>1. Cardinality(Sessions) \in Nat /\ MaxAttempts \in Nat /\ task.attempts \in Nat
    BY <1>2, HandoffAssumption, FS_CardinalityType DEF IInv, TypeOK, Tasks
  <2>2. submitting \in SUBSET Sessions
    BY DEF submitting
  <2>3. Cardinality(submitting) \in Nat
    BY <2>2, HandoffAssumption, FS_Subset, FS_CardinalityType
  <2> QED
    BY <1>2, <2>1, <2>3 DEF Budget, submitted, Attempts
<1> QED
  BY <1>1, <1>2, BudgetStep, InitIInv, NextIInv, PTL DEF Spec
====
