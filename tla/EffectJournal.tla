--------------------------- MODULE EffectJournal ---------------------------
(***************************************************************************)
(* The durable effect journal (kernel/events/effect_journal.py) and the    *)
(* writer generation that fences it (kernel/events/writer_generation.py).  *)
(*                                                                         *)
(* Processes of several hosts share one project root.  The root holds the  *)
(* installed writer generation, one exclusive lock (flock on               *)
(* event_log.lock, dropped by the kernel when its holder dies) and the     *)
(* journal, a file that is replaced atomically.  execute() keeps the lock  *)
(* from the reservation to the final record, over the call of dispatch(),  *)
(* and works on the copy of the journal it read when it took the lock.     *)
(*                                                                         *)
(* An operation that writes the journal once, with the lock held from its  *)
(* read to its write, is one action: no other writer can come between, and *)
(* a crash inside it is a crash before or after it.  The four steps of a   *)
(* fresh execute() are actions of their own, because a crash between two   *)
(* of them leaves a different journal.  An operation that raises without   *)
(* writing (stale generation, lock timeout, identity mismatch, unreserved  *)
(* effect) changes nothing here and is a stuttering step.                  *)
(***************************************************************************)
EXTENDS Integers

CONSTANTS Procs,      \* writer processes
          Effects,    \* effect identities, deterministic_effect_id of each
          Results,    \* what a dispatched operation can yield
          MaxGen      \* bound on the generations that get installed

ASSUME MaxGenAssumption == MaxGen \in Nat

NoProc == "no process"
NoResult == "no result"

ASSUME NoProcAssumption == NoProc \notin Procs
ASSUME NoResultAssumption == NoResult \notin Results

States == {"PENDING", "DISPATCHED", "COMPLETED", "UNKNOWN"}
Token == [generation : Nat, writer_id : Procs \cup {NoProc}]
NoToken == [generation |-> 0, writer_id |-> NoProc]
Record == [state : States, generation : Nat, result : Results \cup {NoResult}]
NoRecord == [state |-> "none"]
Journal == [Effects -> Record \cup {NoRecord}]

\* A fresh execute(): how far it is, its effect, its copy of the journal.
Call == [at : {"reserved", "marked", "dispatching"}, effect : Effects, data : Journal]
Idle == [at |-> "idle"]

VARIABLES
  installed,   \* the generation manifest on disk; NoToken: no manifest
  token,       \* token[p]: the EventWriterGeneration p was constructed with
  lock,        \* the holder of event_store_lock
  records,     \* the journal file
  call,        \* call[p]: the fresh execute() p is inside of, or Idle
  dispatches,  \* dispatches[e]: how often dispatch() was called for e
  answers      \* answers[e]: the results callers were given for e

disk == <<installed, records>>
vars == <<disk, token, lock, call, dispatches, answers>>

TypeOK ==
  /\ installed \in Token
  /\ token \in [Procs -> Token]
  /\ lock \in Procs \cup {NoProc}
  /\ records \in Journal
  /\ call \in [Procs -> Call \cup {Idle}]
  /\ dispatches \in [Effects -> Nat]
  /\ answers \in [Effects -> SUBSET Results]

Init ==
  /\ installed = NoToken
  /\ token = [p \in Procs |-> NoToken]
  /\ lock = NoProc
  /\ records = [e \in Effects |-> NoRecord]
  /\ call = [p \in Procs |-> Idle]
  /\ dispatches = [e \in Effects |-> 0]
  /\ answers = [e \in Effects |-> {}]

---------------------------------------------------------------------------
(* The writer generation.                                                  *)

\* read_generation needs no lock: a process adopts the token it finds.
read_generation(p) ==
  /\ call[p] = Idle
  /\ installed # NoToken
  /\ token' = [token EXCEPT ![p] = installed]
  /\ UNCHANGED <<disk, lock, call, dispatches, answers>>

\* Mutant of advances: any other generation may be installed.
mutant_advances(g) == g # installed.generation

\* The manifest a process installs must advance the generation it replaces.
advances(g) == g > installed.generation

\* install_generation: a compare-and-swap under the store lock.  The caller
\* expects the generation its token names; a conflict installs nothing.
install_generation(p, g) ==
  /\ call[p] = Idle
  /\ lock = NoProc
  /\ token[p].generation = installed.generation
  /\ advances(g)
  /\ installed' = [generation |-> g, writer_id |-> p]
  /\ token' = [token EXCEPT ![p] = installed']
  /\ UNCHANGED <<records, lock, call, dispatches, answers>>

---------------------------------------------------------------------------
(* The journal.  Every operation takes the lock, checks the generation and *)
(* reads the journal, in this order.                                       *)

\* Mutant of generation_ok: a superseded token is still good.
mutant_generation_ok(p) == installed # NoToken /\ token[p] # NoToken

\* _check_generation
generation_ok(p) == installed # NoToken /\ token[p] = installed

\* _read_locked refuses a journal with a record of a later generation, a
\* COMPLETED record without a result or another record with one.
well_formed(r, g) ==
  r # NoRecord => /\ r.generation <= g
                  /\ r.state = "COMPLETED" <=> r.result # NoResult
readable(p) == \A e \in Effects : well_formed(records[e], token[p].generation)

\* _locked: the entry of every operation.
admitted(p) ==
  /\ call[p] = Idle
  /\ lock = NoProc
  /\ generation_ok(p)
  /\ readable(p)

\* The comparison of an existing record with the caller's identity.
same_binding(p, e) == records[e].generation = token[p].generation

new_record(p, state) ==
  [state |-> state, generation |-> token[p].generation, result |-> NoResult]

\* Mutant of open: COMPLETED is a state like the others.
mutant_open(e) == records[e].state \in States

\* A record that has not reached its final state.
open(e) == records[e].state # "COMPLETED"

\* _write_locked, as a one-write operation uses it.
write_record(e, state, result) ==
  records' = [records EXCEPT ![e].state = state, ![e].result = result]

\* reserve: an existing record of the same binding is returned as it is.
reserve(p, e) ==
  /\ admitted(p)
  /\ records[e] = NoRecord
  /\ records' = [records EXCEPT ![e] = new_record(p, "PENDING")]
  /\ UNCHANGED <<installed, token, lock, call, dispatches, answers>>

\* transition: a COMPLETED record is immutable, any other state may follow
\* any other.
transition(p, e, s, r) ==
  /\ admitted(p)
  /\ records[e] # NoRecord
  /\ open(e)
  /\ write_record(e, s, IF s = "COMPLETED" THEN r ELSE NoResult)
  /\ UNCHANGED <<installed, token, lock, call, dispatches, answers>>

answer(e, r) == answers' = [answers EXCEPT ![e] = @ \cup {r}]

\* An open record and what a readback reports of the effect: a matching
\* observation r completes it, anything else (no port, no observation, one
\* of another effect) leaves it UNKNOWN.
resolve(e, r) ==
  \/ write_record(e, "COMPLETED", r) /\ answer(e, r)
  \/ write_record(e, "UNKNOWN", NoResult) /\ UNCHANGED answers

\* reconcile(effect_id, observed): a record of any generation will do.
reconcile(p, e, r) ==
  /\ admitted(p)
  /\ records[e] # NoRecord
  /\ \/ ~open(e) /\ r = records[e].result /\ answer(e, r) /\ UNCHANGED records
     \/ open(e) /\ resolve(e, r)
  /\ UNCHANGED <<installed, token, lock, call, dispatches>>

\* execute on an effect that has a record: it is never dispatched again.
execute_existing(p, e, r) ==
  /\ admitted(p)
  /\ records[e] # NoRecord
  /\ same_binding(p, e)
  /\ \/ ~open(e) /\ answer(e, records[e].result) /\ UNCHANGED records
     \/ open(e) /\ resolve(e, r)
  /\ UNCHANGED <<installed, token, lock, call, dispatches>>

\* _write_locked inside execute(): the copy of the journal p works on is
\* changed and written back as a whole.
save(p, at, e, new) ==
  /\ call' = [call EXCEPT ![p] = [at |-> at, effect |-> e, data |-> new]]
  /\ records' = new

\* Mutant of execute_reserve: an effect left uncertain is started over.
mutant_execute_reserve(p, e) ==
  /\ admitted(p)
  /\ open(e)
  /\ lock' = p
  /\ save(p, "reserved", e, [records EXCEPT ![e] = new_record(p, "PENDING")])
  /\ UNCHANGED <<installed, token, dispatches, answers>>

\* execute on a fresh effect, first write: the PENDING reservation.
execute_reserve(p, e) ==
  /\ admitted(p)
  /\ records[e] = NoRecord
  /\ lock' = p
  /\ save(p, "reserved", e, [records EXCEPT ![e] = new_record(p, "PENDING")])
  /\ UNCHANGED <<installed, token, dispatches, answers>>

\* Second write: DISPATCHED, still before the effect starts.
execute_mark(p) ==
  LET e == call[p].effect IN
  /\ call[p].at = "reserved"
  /\ save(p, "marked", e, [call[p].data EXCEPT ![e].state = "DISPATCHED"])
  /\ UNCHANGED <<installed, token, lock, dispatches, answers>>

\* dispatch() starts the operation.
execute_dispatch(p) ==
  /\ call[p].at = "marked"
  /\ dispatches' = [dispatches EXCEPT ![call[p].effect] = @ + 1]
  /\ call' = [call EXCEPT ![p].at = "dispatching"]
  /\ UNCHANGED <<disk, token, lock, answers>>

\* Mutant of finish: an exception of dispatch() leaves the lock held.
mutant_finish(p, e, state, result) ==
  /\ records' = [call[p].data EXCEPT ![e].state = state, ![e].result = result]
  /\ call' = [call EXCEPT ![p] = Idle]
  /\ lock' = IF state = "UNKNOWN" THEN lock ELSE NoProc
  /\ UNCHANGED <<installed, token, dispatches>>

\* The last write of execute and its return, which releases the lock.
finish(p, e, state, result) ==
  /\ records' = [call[p].data EXCEPT ![e].state = state, ![e].result = result]
  /\ call' = [call EXCEPT ![p] = Idle]
  /\ lock' = NoProc
  /\ UNCHANGED <<installed, token, dispatches>>

\* dispatch() returned a usable result r: COMPLETED.
execute_complete(p, r) ==
  /\ call[p].at = "dispatching"
  /\ finish(p, call[p].effect, "COMPLETED", r)
  /\ answer(call[p].effect, r)

\* dispatch() raised or returned something unusable, and nobody knows what
\* the outside world did or is still going to do: UNKNOWN.
execute_uncertain(p) ==
  /\ call[p].at = "dispatching"
  /\ finish(p, call[p].effect, "UNKNOWN", NoResult)
  /\ UNCHANGED answers

---------------------------------------------------------------------------
\* p dies and comes back with nothing in memory; the kernel drops its lock.
crash(p) ==
  /\ token[p] # NoToken
  /\ token' = [token EXCEPT ![p] = NoToken]
  /\ call' = [call EXCEPT ![p] = Idle]
  /\ lock' = IF lock = p THEN NoProc ELSE lock
  /\ UNCHANGED <<disk, dispatches, answers>>

---------------------------------------------------------------------------
Execute(p) ==
  \/ \E e \in Effects : execute_reserve(p, e)
  \/ \E e \in Effects, r \in Results : execute_existing(p, e, r)
  \/ execute_mark(p)
  \/ execute_dispatch(p)
  \/ \E r \in Results : execute_complete(p, r)
  \/ execute_uncertain(p)

Next == \E p \in Procs :
  \/ read_generation(p)
  \/ \E g \in 1..MaxGen : install_generation(p, g)
  \/ \E e \in Effects : reserve(p, e)
  \/ \E e \in Effects, s \in States, r \in Results : transition(p, e, s, r)
  \/ \E e \in Effects, r \in Results : reconcile(p, e, r)
  \/ Execute(p)
  \/ crash(p)

\* A process inside execute() goes on, and dispatch() returns or raises: the
\* code waits for it with the lock held and has no deadline of its own.
Fairness ==
  \A p \in Procs : WF_vars(\/ execute_mark(p)
                           \/ execute_dispatch(p)
                           \/ \E r \in Results : execute_complete(p, r)
                           \/ execute_uncertain(p))

Spec == Init /\ [][Next]_vars
FairSpec == Spec /\ Fairness

---------------------------------------------------------------------------
(* Properties.                                                             *)

\* However calls, crashes and generation changes interleave, dispatch() is
\* called at most once for an effect identity.
AtMostOnce == \A e \in Effects : dispatches[e] <= 1

\* A crash can hit at any instant: an effect that was started has a durable
\* record, whatever was written, replaced or reconciled since.
RecordBeforeEffect ==
  \A e \in Effects : dispatches[e] > 0 => records[e] # NoRecord

\* A result that execute() or reconcile() gave to one caller is what the
\* journal holds from then on, so it is what every other caller is given.
AnswersDurable ==
  \A e \in Effects : \A r \in answers[e] :
    records[e] # NoRecord /\ records[e].state = "COMPLETED" /\ records[e].result = r

\* Nothing locks the current writer out of the journal, no generation change
\* and no crash between two writes of a record: the holder of the installed
\* generation always finds a journal that _read_locked accepts.
JournalReadable ==
  \A p \in Procs : generation_ok(p) => readable(p)

\* The inductive strengthening of the four invariants above.  A process that
\* is inside execute() owns the lock and the installed generation, its copy
\* of the journal is the journal, and its effect is reserved, unresolved and
\* dispatched exactly if it says so.
CallsOwnTheJournal ==
  \A p \in Procs : call[p] # Idle =>
    /\ lock = p
    /\ generation_ok(p)
    /\ call[p].data = records
    /\ records[call[p].effect] # NoRecord
    /\ records[call[p].effect].state # "COMPLETED"
    /\ dispatches[call[p].effect] = IF call[p].at = "dispatching" THEN 1 ELSE 0

\* Every record is one that the holder of the installed generation accepts.
RecordsWellFormed ==
  \A e \in Effects : well_formed(records[e], installed.generation)

\* A write of the journal comes from a holder of the installed generation,
\* never drops or re-stamps a record and never touches a COMPLETED one.
FencedWrite ==
  \A e \in Effects : records'[e] # records[e] =>
    /\ \E p \in Procs : token[p] = installed /\ lock \in {p, NoProc}
    /\ records'[e] # NoRecord
    /\ records[e] # NoRecord =>
         /\ records[e].state # "COMPLETED"
         /\ records'[e].generation = records[e].generation
WritesFenced == [][FencedWrite]_vars

\* A generation only advances, and never while an execute() is under way:
\* the effect is finished or abandoned before its writer can be superseded.
QuietAdvance ==
  installed' # installed =>
    /\ installed'.generation > installed.generation
    /\ \A p \in Procs : call[p] = Idle
GenerationStable == [][QuietAdvance]_vars

\* execute() gives the store lock back: its effect reaches COMPLETED or
\* UNKNOWN, or its process dies.
LockReleased == \A p \in Procs : lock = p ~> lock # p

---------------------------------------------------------------------------
(* Refinement.                                                             *)

\* A record is what claims an effect, its result what settles it.
Once == INSTANCE EffectOnce WITH
  claimed <- [e \in Effects |-> records[e] # NoRecord],
  starts <- dispatches,
  outcome <- [e \in Effects |-> IF records[e] # NoRecord THEN records[e].result
                                                         ELSE NoResult],
  told <- answers

\* The journal, with its lock, its crashes and its generation changes, does
\* no more than claim an effect, start it once and settle it once.
ImplementsEffectOnce == Once!Spec
====
