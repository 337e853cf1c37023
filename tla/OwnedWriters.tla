---------------------------- MODULE OwnedWriters ----------------------------
(***************************************************************************)
(* The writers of one project root at work together: the event bus and its *)
(* JSONL log (kernel/events/transport.py, log_store.py), the operation-    *)
(* scoped adapters of the event log, the task state and the runtime        *)
(* (EventWriterAdapter; TaskStateWriterAdapter and RuntimeWriterAdapter in *)
(* orchestrator/writer_quiescence.py), and what they stand on: the leases  *)
(* and the hold marker of WriterQuiescence, the manifest of                *)
(* StateOwnerManifest, the generation and the store lock of EffectJournal. *)
(* Here those are as small as their own modules show they may be.          *)
(*                                                                         *)
(* Before a root is activated its writers are plain: they append without a *)
(* lease.  The host then holds the root, waits until it is drained,        *)
(* installs a generation with a COMMITTED manifest and loads the adapters. *)
(***************************************************************************)
EXTENDS Naturals, Sequences, FiniteSets, SequencesExt

CONSTANTS
  Procs,          \* bus processes; one that has died is not started again
  Attempts,       \* (task_id, attempt_id) of attempt transitions
  Decisions,      \* [id, task, body]: developer feedback decisions
  NoAttempt,      \* of an event that is not an attempt transition
  MaxEvents,      \* bounds the length of the log
  MaxGeneration,  \* bounds the activations
  MAX_RECORDS     \* the store's own ceiling of decisions

ASSUME DecisionsAssumption == \A d \in Decisions : DOMAIN d = {"id", "task", "body"}
ASSUME BoundAssumption == MaxEvents \in Nat /\ MaxGeneration \in Nat /\ MAX_RECORDS \in Nat
ASSUME NoAttemptAssumption == NoAttempt \notin Procs \cup Attempts

\* The adapters of the task state and of the runtime differ in their paths only.
Roles == {"event_log", "task_state"}
Keys == Attempts \cup {NoAttempt}
\* How the bytes of a line reached the disk.  A line without its newline still
\* parses; one that is cut short does not.
Ends == {"newline", "bare", "torn"}
Idle == [at |-> "idle"]
Terminal == {"committed", "failed"}

VARIABLES
  kind,       \* kind[p]: "plain", "loaded" or "dead"
  token,      \* token[p]: the generation p was configured with, 0 for none
  tails,      \* tails[p]: JsonlEventLogStore._attempt_tails
  memory,     \* memory[p]: NexusEventBus._attempt_sequences
  op,         \* op[p]: the operation p is in
  lease,      \* lease[p]: the outcome of the last lease record of p
  hold,       \* "none", "held" or "drained"
  installed,  \* the installed generation, 0 for none
  manifest,   \* "none", "PREPARED" or "COMMITTED"
  lock,       \* the holder of the event store lock, or NoAttempt
  log,        \* the lines of the event log, as they were written
  answered,   \* the numbers of the records a publisher was told are durable
  decisions,  \* the lines of the feedback decision stream
  told        \* told[i]: the decisions of that id that observers were shown

bus == <<kind, token, tails, memory>>
root == <<hold, installed, manifest, lock>>
feedback == <<decisions, told>>
vars == <<bus, op, lease, root, log, answered, feedback>>

NoTails == [a \in Attempts |-> [seq |-> 0, id |-> 0]]
Ids == {d.id : d \in Decisions}

\* Either not yet activated, or activated.
Init ==
  /\ \/ /\ installed = 0 /\ manifest = "none"
        /\ kind = [p \in Procs |-> "plain"] /\ token = [p \in Procs |-> 0]
     \/ /\ installed = 1 /\ manifest = "COMMITTED"
        /\ kind = [p \in Procs |-> "loaded"] /\ token = [p \in Procs |-> 1]
  /\ tails = [p \in Procs |-> NoTails]
  /\ memory = [p \in Procs |-> [a \in Attempts |-> 0]]
  /\ op = [p \in Procs |-> Idle]
  /\ lease = [p \in Procs |-> "none"]
  /\ hold = "none" /\ lock = NoAttempt
  /\ log = <<>> /\ answered = {}
  /\ decisions = <<>> /\ told = [i \in Ids |-> <<>>]

---------------------------------------------------------------------------
(* JsonlEventLogStore.                                                     *)

\* Line i of the lines up to n is the last one of attempt a; 0, if there is none.
is_last(lines, a, n, i) ==
  /\ i = 0 \/ lines[i].attempt = a
  /\ \A k \in i + 1 .. n : lines[k].attempt # a

\* The number and the record the next transition of a has to follow.
tail(lines, a, n) ==
  LET i == CHOOSE i \in 0 .. n : is_last(lines, a, n, i)
  IN IF i = 0 THEN [seq |-> 0, id |-> 0] ELSE [seq |-> lines[i].seq, id |-> lines[i].id]

\* A line is read up to its newline: whatever follows a line without one is
\* part of it.
parses(lines) ==
  \A i \in DOMAIN lines :
    lines[i].end = "newline" \/ (i = Len(lines) /\ lines[i].end = "bare")

\* _scan_attempt_tails accepts the file: lines parse, and the transitions of an
\* attempt are numbered from 1 and name their predecessor.  (A digest covers
\* the whole record, so the number of the record stands for it.)
scans ==
  /\ parses(log)
  /\ \A n \in DOMAIN log : log[n].attempt \in Attempts =>
       tail(log, log[n].attempt, n - 1) = [seq |-> log[n].seq - 1, id |-> log[n].parent]

scanned == [a \in Attempts |-> tail(log, a, Len(log))]

\* attempt_tail, read without the store lock.
attempt_tail(a) == scanned[a].seq

\* Mutant of known_tails: the tails found by an earlier scan still stand.
mutant_known_tails(p) == tails[p]

\* What append_record binds to: the file is scanned again under the lock.
known_tails(p) == scanned

\* _check_generation_locked
generation_ok(p) == token[p] = installed

\* _bind_attempt_record
contiguous(p, e) == e.attempt # NoAttempt => e.seq = known_tails(p)[e.attempt].seq + 1
bound(p, e, end) ==
  [id |-> Len(log) + 1, attempt |-> e.attempt, seq |-> e.seq, end |-> end, by |-> p,
   parent |-> IF e.attempt = NoAttempt THEN 0 ELSE known_tails(p)[e.attempt].id]

\* The end of append_record: the write succeeds, is cut short, or is complete
\* although the call fails (fsync).  ok: the publisher is told it succeeded.
write_line(p, e, ok) ==
  \E end \in IF ok THEN {"newline"} ELSE Ends :
    /\ log' = Append(log, bound(p, e, end))
    /\ tails' = [tails EXCEPT ![p] =
         IF ok /\ e.attempt # NoAttempt
           THEN [known_tails(p) EXCEPT ![e.attempt] = [seq |-> e.seq, id |-> Len(log) + 1]]
           ELSE known_tails(p)]

\* What append_record asks under the lock before it writes.
appendable(p) == generation_ok(p) /\ scans /\ contiguous(p, op[p])

---------------------------------------------------------------------------
(* NexusEventBus.                                                          *)

\* next_attempt_sequence
next_attempt_sequence(p, a) ==
  1 + IF memory[p][a] > attempt_tail(a) THEN memory[p][a] ELSE attempt_tail(a)

\* emit_attempt_transition: the bus holds the number against its memory, the
\* store later against the file.  Callers use next_attempt_sequence, or count.
event(p, a, s) ==
  /\ a # NoAttempt =>
       /\ s \in {next_attempt_sequence(p, a), memory[p][a] + 1}
       /\ memory[p][a] # 0 => s = memory[p][a] + 1
  /\ a = NoAttempt => s = 0

\* publish of a plain process: append_record's checks before the lock.
publish(p, a, s) ==
  /\ kind[p] = "plain" /\ op[p] = Idle
  /\ Len(log) < MaxEvents
  /\ event(p, a, s)
  /\ installed = token[p] /\ hold = "none" /\ manifest = "none"
  /\ op' = [op EXCEPT ![p] = [at |-> "checked", attempt |-> a, seq |-> s]]
  /\ UNCHANGED <<bus, lease, root, log, answered, feedback>>

\* The record p wrote last.
last_by(p) ==
  CHOOSE n \in DOMAIN log : log[n].by = p /\ \A k \in n + 1 .. Len(log) : log[k].by # p

\* The publisher is told, and the bus remembers the number.
answer(p, number) ==
  /\ answered' = answered \cup {number}
  /\ memory' = IF op[p].attempt = NoAttempt THEN memory
                 ELSE [memory EXCEPT ![p][op[p].attempt] = op[p].seq]

\* append_record of a plain process, under the lock, and the end of publish.
append_record(p) ==
  /\ op[p].at = "checked" /\ lock = NoAttempt
  /\ op' = [op EXCEPT ![p] = Idle]
  /\ \/ appendable(p) /\ write_line(p, op[p], TRUE) /\ answer(p, Len(log) + 1)
     \/ appendable(p) /\ write_line(p, op[p], FALSE) /\ UNCHANGED <<memory, answered>>
     \/ UNCHANGED <<tails, memory, log, answered>>
  /\ UNCHANGED <<kind, token, lease, root, feedback>>

---------------------------------------------------------------------------
(* operation of the adapters.                                              *)

\* EventWriterAdapter.validate_entry
validate_entry(p) == hold = "none" /\ token[p] = installed /\ manifest = "COMMITTED"

\* An operation starts; that of the event log is a publish.
operation(p, role, a, s) ==
  /\ kind[p] = "loaded" /\ op[p] = Idle
  /\ IF role = "event_log"
       THEN Len(log) < MaxEvents /\ event(p, a, s) /\ validate_entry(p)
       ELSE a = NoAttempt /\ s = 0
  /\ op' = [op EXCEPT ![p] = [at |-> "entered", role |-> role, attempt |-> a, seq |-> s]]
  /\ UNCHANGED <<bus, lease, root, log, answered, feedback>>

to(p, at) == op' = [op EXCEPT ![p].at = at]
raise(p) == op' = [op EXCEPT ![p] = Idle]

\* Mutant of clean: the records of other processes are not looked at.
mutant_clean(p) == lease[p] \in Terminal \cup {"none"}

\* _durable_leases finds no fault: no record of a lost operation of p, and none
\* at all of another process.
clean(p) == lease[p] \in Terminal \cup {"none"} /\ \A q \in Procs \ {p} : lease[q] = "none"

\* WriterRegistry.acquire: the checks, and later the record with another look
\* at the marker.
admit(p) ==
  /\ op[p].at = "entered"
  /\ IF hold = "none" /\ clean(p) THEN to(p, "admitted") ELSE raise(p)
  /\ UNCHANGED <<bus, lease, root, log, answered, feedback>>

acquire(p) ==
  /\ op[p].at = "admitted"
  /\ IF hold = "none" THEN to(p, "leased") /\ lease' = [lease EXCEPT ![p] = "active"]
                      ELSE raise(p) /\ lease' = [lease EXCEPT ![p] = "failed"]
  /\ UNCHANGED <<bus, root, log, answered, feedback>>

\* Mutant of may_prepare: the manifest was COMMITTED when the operation began.
mutant_may_prepare(p) == op[p].role = "event_log" => hold = "none"

\* Under the lock: the previous manifest is COMMITTED; for the event log all of
\* validate_entry holds again.
may_prepare(p) ==
  /\ manifest = "COMMITTED"
  /\ op[p].role = "event_log" => validate_entry(p)

\* What an operation that raises after it prepared leaves behind.
unresolved(p) ==
  /\ raise(p)
  /\ lease' = [lease EXCEPT ![p] = "unresolved"]
  /\ lock' = IF lock = p THEN NoAttempt ELSE lock

\* owner_transaction_guard refuses a stale generation; the adapters of the task
\* state and the runtime count as prepared by then.
prepare(p) ==
  /\ op[p].at = "leased" /\ lock = NoAttempt
  /\ IF ~may_prepare(p)
       THEN raise(p) /\ lease' = [lease EXCEPT ![p] = "failed"] /\ UNCHANGED <<lock, manifest>>
     ELSE IF token[p] # installed THEN unresolved(p) /\ UNCHANGED manifest
     ELSE lock' = p /\ manifest' = "PREPARED" /\ to(p, "prepared") /\ UNCHANGED lease
  /\ UNCHANGED <<bus, hold, installed, log, answered, feedback>>

\* The selected write: append_record with the operation's context, or the file
\* of another role, which nobody here reads.
write(p) ==
  /\ op[p].at = "prepared"
  /\ \/ /\ op[p].role # "event_log" /\ to(p, "written")
        /\ UNCHANGED <<tails, log, lease, lock>>
     \/ /\ op[p].role = "event_log" /\ appendable(p)
        /\ write_line(p, op[p], TRUE) /\ to(p, "written")
        /\ UNCHANGED <<lease, lock>>
     \/ /\ op[p].role = "event_log" /\ appendable(p)
        /\ write_line(p, op[p], FALSE) /\ unresolved(p)
     \/ op[p].role = "event_log" /\ ~appendable(p) /\ unresolved(p) /\ UNCHANGED <<tails, log>>
  /\ UNCHANGED <<kind, token, memory, hold, installed, manifest, answered, feedback>>

\* commit_owner_transaction; then the lock is given back.
commit(p) ==
  /\ op[p].at = "written"
  /\ manifest' = "COMMITTED" /\ lock' = NoAttempt
  /\ to(p, "committed")
  /\ UNCHANGED <<bus, lease, hold, installed, log, answered, feedback>>

\* lease.close: an operation that is over answers its caller.
close(p) ==
  /\ op[p].at = "committed"
  /\ lease' = [lease EXCEPT ![p] = "committed"]
  /\ raise(p)
  /\ IF op[p].role = "event_log" THEN answer(p, last_by(p)) ELSE UNCHANGED <<answered, memory>>
  /\ UNCHANGED <<kind, token, tails, root, log, feedback>>

\* WriterLease.validate finds the lease expired, or a caller's body raises.
expire(p) ==
  /\ op[p].at \in {"leased", "prepared", "written", "committed"}
  /\ unresolved(p)
  /\ UNCHANGED <<bus, hold, installed, manifest, log, answered, feedback>>

---------------------------------------------------------------------------
(* DeveloperFeedbackDecisionStore.append and its emitter.                  *)

of_task(lines, t) == SelectSeq(lines, LAMBDA r : r.task = t)
tail_digest(lines, t) == IF of_task(lines, t) = <<>> THEN 0 ELSE Last(of_task(lines, t)).number

\* _scan: unlike the event log, a stream without its last newline is corrupt.
decisions_scan ==
  \A i \in DOMAIN decisions :
    LET r == decisions[i] before == SubSeq(decisions, 1, i - 1)
    IN /\ r.end = "newline"
       /\ r.seq = Len(of_task(before, r.task)) + 1
       /\ r.parent = tail_digest(before, r.task)

\* Mutant of on_file: decisions are told apart within their task only.
mutant_on_file(d) == {i \in DOMAIN decisions : decisions[i].id = d.id /\ decisions[i].task = d.task}

\* The decision of this id that is on file, if there is one.
on_file(d) == {i \in DOMAIN decisions : decisions[i].id = d.id}

\* A decision already on file is a replay or a conflict: neither is written or
\* shown to observers again.  A caller that names a stale tail is refused.
append_decision(p, d) ==
  /\ kind[p] # "dead" /\ op[p] = Idle
  /\ decisions_scan
  /\ on_file(d) = {}
  /\ Len(decisions) < MAX_RECORDS
  /\ \E end \in {"newline", "torn"}, ok \in BOOLEAN :
       /\ ok => end = "newline"
       /\ decisions' = Append(decisions,
            [id |-> d.id, task |-> d.task, body |-> d.body, number |-> Len(decisions) + 1, end |-> end,
             seq |-> Len(of_task(decisions, d.task)) + 1, parent |-> tail_digest(decisions, d.task)])
       /\ op' = [op EXCEPT ![p] = IF ok THEN [at |-> "telling", decision |-> d] ELSE Idle]
  /\ UNCHANGED <<bus, lease, root, log, answered, told>>

\* emit_developer_feedback_decision: observers are told after the commit.
tell(p) ==
  /\ op[p].at = "telling"
  /\ told' = [told EXCEPT ![op[p].decision.id] = Append(@, op[p].decision.body)]
  /\ op' = [op EXCEPT ![p] = Idle]
  /\ UNCHANGED <<bus, lease, root, log, answered, decisions>>

---------------------------------------------------------------------------
(* The host.                                                               *)

die(p) ==
  /\ kind[p] # "dead"
  /\ kind' = [kind EXCEPT ![p] = "dead"]
  /\ op' = [op EXCEPT ![p] = Idle]
  /\ lock' = IF lock = p THEN NoAttempt ELSE lock
  /\ UNCHANGED <<token, tails, memory, lease, hold, installed, manifest, log, answered, feedback>>

begin_hold ==
  /\ hold = "none"
  /\ hold' = "held"
  /\ UNCHANGED <<bus, op, lease, installed, manifest, lock, log, answered, feedback>>

\* A hold is drained when its process finds no fault in the lease records.
drain(p) ==
  /\ hold = "held" /\ kind[p] # "dead" /\ clean(p)
  /\ hold' = "drained"
  /\ UNCHANGED <<bus, op, lease, installed, manifest, lock, log, answered, feedback>>

\* A generation and its manifest are installed under a drained hold.
install ==
  /\ hold = "drained" /\ lock = NoAttempt /\ installed < MaxGeneration /\ manifest # "PREPARED"
  /\ installed' = installed + 1 /\ manifest' = "COMMITTED"
  /\ UNCHANGED <<bus, op, lease, hold, lock, log, answered, feedback>>

release_hold ==
  /\ hold = "drained"
  /\ hold' = "none"
  /\ UNCHANGED <<bus, op, lease, installed, manifest, lock, log, answered, feedback>>

\* NexusEventBus.configure: with a writer factory, once, when its entry check
\* passes (or, attached first, under the hold); without one, only where no
\* generation is installed.  The numbers in memory become those on file.
configure(p, g) ==
  /\ op[p] = Idle /\ kind[p] = "plain" /\ lock = NoAttempt
  /\ g = installed /\ scans
  /\ IF g = 0 THEN hold = "none"
              ELSE manifest = "COMMITTED" /\ hold \in {"none", "drained"}
  /\ kind' = [kind EXCEPT ![p] = IF g = 0 THEN "plain" ELSE "loaded"]
  /\ token' = [token EXCEPT ![p] = g]
  /\ tails' = [tails EXCEPT ![p] = scanned]
  /\ memory' = [memory EXCEPT ![p] =
       [a \in Attempts |-> IF memory[p][a] = 0 THEN 0 ELSE attempt_tail(a)]]
  /\ UNCHANGED <<op, lease, root, log, answered, feedback>>

---------------------------------------------------------------------------
proc(p) ==
  \/ \E a \in Keys, s \in 0 .. MaxEvents : publish(p, a, s)
  \/ append_record(p)
  \/ \E r \in Roles, a \in Keys, s \in 0 .. MaxEvents : operation(p, r, a, s)
  \/ admit(p) \/ acquire(p) \/ prepare(p) \/ write(p) \/ commit(p) \/ close(p) \/ expire(p)
  \/ \E d \in Decisions : append_decision(p, d)
  \/ tell(p) \/ die(p) \/ drain(p)
  \/ \E g \in 0 .. MaxGeneration : configure(p, g)

Next == (\E p \in Procs : proc(p)) \/ begin_hold \/ install \/ release_hold

Spec == Init /\ [][Next]_vars

---------------------------------------------------------------------------
(* Properties.                                                             *)

\* Every record a publisher was told is durable is still in the log, whole, and
\* unless some write was cut short the log still scans, so that the next append
\* (append_record, log_store.py:279) is not shut out: whatever processes append
\* between the read of a tail and the write.
LogIntact ==
  (\A i \in DOMAIN log : log[i].end = "newline") =>
    /\ scans
    /\ \A n \in answered : n \in DOMAIN log /\ log[n].end = "newline"

\* A root that was drained of writers stays silent while it is held: no writer
\* that was loaded with an adapter appends an event, starts a transaction or
\* finishes one (operation, events/transport.py:128).
SilentWhenDrained ==
  [][hold = "drained" =>
       /\ ~(manifest # "COMMITTED" /\ manifest' = "COMMITTED" /\ installed' = installed)
       /\ manifest' # "PREPARED"
       /\ \A p \in Procs : kind[p] = "loaded" => op[p].at \notin {"prepared", "written"}]_vars

\* After a loaded writer was lost between its prepare and its commit, no loaded
\* writer appends again and the manifest stays PREPARED: what the lost operation
\* left behind is never taken for a committed state (transport.py:147).
LostOperationStops ==
  [][LET lost == manifest = "PREPARED" /\ lock = NoAttempt
     IN lost => manifest' = "PREPARED" /\ lock' = NoAttempt]_vars

\* Observers are shown each decision at most once, and what they are shown is
\* the decision on file under that id (emit_developer_feedback_decision,
\* transport.py:360), whichever processes and tasks use the id.
ToldOnce ==
  \A i \in Ids :
    /\ Len(told[i]) <= 1
    /\ told[i] # <<>> => \E n \in DOMAIN decisions : decisions[n].id = i /\ decisions[n].body = told[i][1]
====
