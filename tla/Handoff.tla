------------------------------ MODULE Handoff ------------------------------
(***************************************************************************)
(* One task over several attempts: its durable checkpoints                 *)
(* (workflow_checkpoint.py), the lineage that hands an attempt over to its *)
(* successor (handoff_lineage.py), and the retry of the task (TaskRetry),  *)
(* used by sessions that come and go and know of each other only through   *)
(* the files.                                                              *)
(*                                                                         *)
(* A checkpoint file is written atomically under the lock of its attempt;  *)
(* bind_successor_checkpoint holds no lock over its reads and its two      *)
(* writes.  Content hashes are the contents themselves.  The identities of *)
(* source and runtime appear only as the answer of their comparison, which *)
(* may always be that they differ.  The fence of an old writer belongs to  *)
(* the claim owner outside of this repository: once it is verified, that   *)
(* writer writes its checkpoint no more.                                   *)
(***************************************************************************)
EXTENDS Naturals, FiniteSets, TaskRetry

CONSTANTS
  Sessions,
  MaxAttempts,   \* the task's attempt budget; bounds the attempts
  Effects,       \* effect keys
  Claims,        \* what the author of a handoff states: [unknown, disposition, keys]
  Moves,         \* how a session may advance a checkpoint: [status, blocked]
  Outcomes,      \* how an attempt may end: records of TaskRetry
  MaxRevision    \* bounds the revisions of a checkpoint

\* Two retries of one snapshot may both be submitted.
Attempts == 1 .. MaxAttempts + Cardinality(Sessions) - 1
CHECKPOINT_STATUSES ==
  {"RUNNING", "WAITING_APPROVAL", "WAITING_EXTERNAL", "RECONCILE", "COMPLETED", "FAILED"}

ASSUME HandoffAssumption ==
  /\ IsFiniteSet(Sessions) /\ Sessions # {}
  /\ MaxAttempts \in Nat \ {0} /\ MaxRevision \in Nat \ {0}
  /\ \A m \in Moves : m.status \in CHECKPOINT_STATUSES /\ m.blocked \in BOOLEAN
  /\ \A o \in Outcomes : o.status \in Statuses /\ o.residual \in Residuals

None == [rev |-> 0]
NoHandoff == [pred |-> 0]
Idle == [at |-> "idle"]

VARIABLES
  task,      \* the durable state of the task: attempts, status, ...
  current,   \* current[a]: the checkpoint of attempt a, or None
  handoff,   \* handoff[s]: the handoff on file for successor s, or NoHandoff
  fenced,    \* the attempts whose writer is fenced
  session,   \* session[w]: what session w holds
  bound      \* the successors whose bind_successor_checkpoint returned

vars == <<task, current, handoff, fenced, session, bound>>

Init ==
  /\ task = [status |-> "RUNNING", attempts |-> 1, cleaned |-> FALSE, acceptance |-> "none",
             residual |-> "invalid", settled |-> FALSE, round |-> 0]
  /\ current = [a \in Attempts |-> None]
  /\ handoff = [a \in Attempts |-> NoHandoff]
  /\ fenced = {} /\ bound = {}
  /\ session = [w \in Sessions |-> Idle]

submitted == 1 .. task.attempts
hold(w, s) == session' = [session EXCEPT ![w] = s]

---------------------------------------------------------------------------
(* Checkpoints.                                                            *)

fresh(effects, op) ==
  [rev |-> 1, status |-> "RUNNING", blocked |-> FALSE, effects |-> effects, op |-> op]

\* resume_disposition, when source and runtime are still the checkpoint's (same).
resume_disposition(cp, same) ==
  CASE ~same \/ cp.status = "RECONCILE" -> "RECONCILE"
    [] same /\ cp.status \in {"COMPLETED", "FAILED"} -> "BLOCKED"
    [] same /\ cp.status \in {"WAITING_APPROVAL", "WAITING_EXTERNAL"} -> "WAIT"
    [] OTHER -> "SAFE"

\* Mutant of may_write: the revision has to advance, from whatever it is.
mutant_may_write(a, cp, expected) == cp.rev > current[a].rev \/ cp.rev > expected

\* write: the compare-and-set, or when no revision is expected (MaxRevision + 1
\* stands for none) a revision beyond the one on file.
may_write(a, cp, expected) ==
  IF expected <= MaxRevision THEN current[a].rev = expected ELSE cp.rev > current[a].rev

\* The first checkpoint of an attempt that starts afresh.
create(w, a) ==
  /\ session[w] = Idle /\ a \in submitted
  /\ may_write(a, fresh({}, 0), 0)
  /\ current' = [current EXCEPT ![a] = fresh({}, 0)]
  /\ UNCHANGED <<task, handoff, fenced, session, bound>>

\* A session picks an attempt up where its checkpoint stands.
resume(w, a) ==
  /\ session[w] = Idle /\ current[a] # None
  /\ \E same \in BOOLEAN : resume_disposition(current[a], same) = "SAFE"
  /\ hold(w, [at |-> "working", attempt |-> a, cp |-> current[a]])
  /\ UNCHANGED <<task, current, handoff, fenced, bound>>

\* The end of write and record_effect: a conflict leaves the file as it is.
written(w, cp) ==
  LET a == session[w].attempt IN
  /\ a \notin fenced
  /\ IF may_write(a, cp, session[w].cp.rev)
       THEN current' = [current EXCEPT ![a] = cp] /\ hold(w, [session[w] EXCEPT !.cp = cp])
       ELSE UNCHANGED current /\ hold(w, Idle)
  /\ UNCHANGED <<task, handoff, fenced, bound>>

\* advanced, then write under its revision.
advance(w, status, blocked) ==
  /\ session[w].at = "working" /\ session[w].cp.rev < MaxRevision
  /\ written(w, [session[w].cp EXCEPT !.rev = @ + 1, !.status = status, !.blocked = blocked])

\* record_effect, for what the session has just done; recorded already, nothing
\* changes.
record_effect(w, e) ==
  /\ session[w].at = "working" /\ session[w].cp.rev < MaxRevision
  /\ e \notin session[w].cp.effects
  /\ written(w, [session[w].cp EXCEPT !.rev = @ + 1, !.effects = @ \cup {e}])

---------------------------------------------------------------------------
(* Lineage.                                                                *)

\* The attempts reconstruct_lineage_chain visits from a: every set that holds a and
\* the predecessor of whatever it holds has them.
lineage(a) ==
  {x \in Attempts : \A visited \in SUBSET Attempts :
     /\ a \in visited
     /\ \A y \in visited : handoff[y] # NoHandoff => handoff[y].pred \in visited
     => x \in visited}

\* It raises unless it ends at an attempt that nobody handed over.
cyclic(a) == \A x \in lineage(a) : handoff[x] # NoHandoff

\* Mutant of fence_verified: the reference only has to be well formed.
mutant_fence_verified(h) == TRUE

\* The fence fact the caller passes in.
fence_verified(h) == h.pred \in fenced

\* evaluate_handoff_lineage answers SAFE for the predecessor's checkpoint cp.
evaluate_handoff_lineage(h, cp, same) ==
  /\ same
  /\ cp # None
  /\ cp.status # "RECONCILE" /\ ~cp.blocked
  /\ ~h.unknown
  /\ fence_verified(h)
  /\ cp = h.seen
  /\ h.terminal = cp.status
  /\ h.disposition = "SAFE"

\* The keys a handoff names, when it names any, are those of its predecessor.
keys_match(h, cp) == h.keys # {} => h.keys = cp.effects

\* A session writes up a handoff from the checkpoint it reads now.
compose(w, p, s, c) ==
  /\ session[w] = Idle /\ p # s /\ {p, s} \subseteq submitted /\ current[p] # None
  /\ hold(w, [at |-> "composed", succ |-> s,
       h |-> [pred |-> p, seen |-> current[p], terminal |-> current[p].status,
              unknown |-> c.unknown, disposition |-> c.disposition, keys |-> c.keys]])
  /\ UNCHANGED <<task, current, handoff, fenced, bound>>

\* Mutant of inherited: only the effects the handoff names are carried over.
mutant_inherited(h, cp) == h.keys

\* What a successor starts with.
inherited(h, cp) == cp.effects

\* bind_successor_checkpoint: reads and checks, the handoff file, the checkpoint.
bind_check(w, same) ==
  LET h == session[w].h cp == current[h.pred] IN
  /\ session[w].at = "composed"
  /\ IF /\ cp # None /\ ~cyclic(h.pred) /\ session[w].succ \notin lineage(h.pred)
        /\ evaluate_handoff_lineage(h, cp, same) /\ keys_match(h, cp)
       THEN hold(w, [at |-> "checked", succ |-> session[w].succ, h |-> h,
                     cp |-> fresh(inherited(h, cp), session[w].succ)])
       ELSE hold(w, Idle)
  /\ UNCHANGED <<task, current, handoff, fenced, bound>>

\* write_handoff: the same handoff again is accepted, another one refused.
write_handoff(w) ==
  LET s == session[w].succ h == session[w].h IN
  /\ session[w].at = "checked"
  /\ IF handoff[s] \in {NoHandoff, h}
       THEN handoff' = [handoff EXCEPT ![s] = h] /\ hold(w, [session[w] EXCEPT !.at = "filed"])
       ELSE UNCHANGED handoff /\ hold(w, Idle)
  /\ UNCHANGED <<task, current, fenced, bound>>

bind_successor(w) ==
  LET s == session[w].succ cp == session[w].cp IN
  /\ session[w].at = "filed"
  /\ IF may_write(s, cp, MaxRevision + 1)
       THEN /\ current' = [current EXCEPT ![s] = cp] /\ bound' = bound \cup {s}
            /\ hold(w, [at |-> "working", attempt |-> s, cp |-> cp])
       ELSE UNCHANGED <<current, bound>> /\ hold(w, Idle)
  /\ UNCHANGED <<task, handoff, fenced>>

\* readback_handoff_lineage answers SAFE for attempt a.
readback_safe(a, same) ==
  LET h == handoff[a] pred == current[h.pred] cp == current[a] IN
  /\ h # NoHandoff /\ ~cyclic(a)
  /\ evaluate_handoff_lineage(h, pred, same)
  /\ cp # None /\ cp.op = a
  /\ pred.effects \subseteq cp.effects /\ keys_match(h, pred)
  /\ resume_disposition(cp, same) = "SAFE" /\ ~cp.blocked

---------------------------------------------------------------------------
(* The task.                                                               *)

\* The latest attempt ends.
settle(o) ==
  /\ task.status = "RUNNING"
  /\ task' = [task EXCEPT !.status = o.status, !.cleaned = o.cleaned, !.acceptance = o.acceptance,
                          !.residual = o.residual, !.settled = o.settled]
  /\ UNCHANGED <<current, handoff, fenced, session, bound>>

\* retry_task: the snapshot and all that is decided on it, then the submission.
retry_read(w) ==
  /\ session[w] = Idle
  /\ \E dispatch \in BOOLEAN : resubmits(task, MaxAttempts, dispatch)
  /\ hold(w, [at |-> "retrying", round |-> round_of_retry(task)])
  /\ UNCHANGED <<task, current, handoff, fenced, bound>>

retry_submit(w) ==
  /\ session[w].at = "retrying"
  /\ task' = [task EXCEPT !.attempts = @ + 1, !.status = "RUNNING", !.cleaned = FALSE,
                 !.acceptance = "none", !.residual = "invalid", !.settled = FALSE,
                 !.round = session[w].round]
  /\ hold(w, Idle)
  /\ UNCHANGED <<current, handoff, fenced, bound>>

---------------------------------------------------------------------------
(* Surroundings.                                                           *)

fence(a) ==
  /\ current[a] # None /\ a \notin fenced
  /\ fenced' = fenced \cup {a}
  /\ UNCHANGED <<task, current, handoff, session, bound>>

lose(w) ==
  /\ session[w] # Idle
  /\ hold(w, Idle)
  /\ UNCHANGED <<task, current, handoff, fenced, bound>>

Next ==
  \/ \E w \in Sessions :
       \/ \E a \in Attempts : create(w, a) \/ resume(w, a)
       \/ \E m \in Moves : advance(w, m.status, m.blocked)
       \/ \E e \in Effects : record_effect(w, e)
       \/ \E p, s \in Attempts, c \in Claims : compose(w, p, s, c)
       \/ (\E same \in BOOLEAN : bind_check(w, same)) \/ write_handoff(w) \/ bind_successor(w)
       \/ retry_read(w) \/ retry_submit(w) \/ lose(w)
  \/ \E o \in Outcomes : settle(o)
  \/ \E a \in Attempts : fence(a)

Spec == Init /\ [][Next]_vars

---------------------------------------------------------------------------
(* Properties.                                                             *)

inheritors(a) == {x \in lineage(a) : handoff[x] # NoHandoff}

\* However long its lineage, an attempt knows every effect that any attempt
\* before it had completed, so that none is done twice: bind_successor_checkpoint
\* copies them while a predecessor that is fenced off can add no more.
EffectsCarried ==
  \A a \in bound :
    ~cyclic(a) /\ inheritors(a) \subseteq bound =>
      \A x \in lineage(a) : current[x].effects \subseteq current[a].effects

\* Nothing that happens between the checks of bind_successor_checkpoint and its
\* two writes, or after them, spoils its result: while the runtime is the one the
\* successor was bound for, and no second handoff closed a cycle, the new
\* checkpoint is read back as safe to go on from.
ReadsBack ==
  \A a \in bound :
    current[a].rev = 1 /\ ~cyclic(a) => readback_safe(a, TRUE)

\* A completed effect is never lost from a checkpoint, although sessions write it
\* from copies that may be out of date (write and record_effect compare revisions).
EffectsKept ==
  [][\A a \in Attempts :
       current[a] # None => current'[a] # None /\ current[a].effects \subseteq current'[a].effects
    ]_vars
====
