------------------------------ MODULE Continuity ------------------------------
(***************************************************************************)
(* The continuity of a task across sessions                                *)
(* (task_context/continuity.py): the log of an attempt's transitions is    *)
(* decoded into a hash chain, the chain is projected into a snapshot, a    *)
(* later session resumes the snapshot with the events that followed it,    *)
(* and joins the result with the durable state of the task.                *)
(*                                                                         *)
(* A content stands for its own digest: the hash of an event is the        *)
(* sequence of the events up to it, which is what the chained digests      *)
(* determine.  Texts are strings and "" is the absent one.                 *)
(***************************************************************************)
EXTENDS Integers, Sequences, SequencesExt, Functions

CONSTANTS
    Attempts,       \* the attempts of the task
    Revisions,      \* source revisions, "unknown" and "" among them
    Transitions,    \* the transitions a host records, attempt, revision and number not filled in
    MaxLog,         \* bound on the records of all logs
    MaxTurns        \* bound on restores of an older log and new targets of the task

EVENT_TYPES == {"PLAN_FORMED", "OBSERVATION_RECORDED", "HYPOTHESIS_REVISED",
    "STRATEGY_CHANGED", "VERIFICATION_RESULT", "ATTEMPT_REJECTED", "ESCALATED", "COMPLETED"}

\* A record of the log, and an event decoded from it; the type of a record may
\* be any text, and is "none" in one of the older format.
Event == [state : STRING, type : EVENT_TYPES \cup STRING, observation : STRING, strategy_delta : STRING, action : STRING,
    do_not_repeat : Seq(STRING), evidence_refs : Seq(STRING), unresolved_risks : Seq(STRING),
    unknowns : Seq(STRING), next_action : STRING, claim_ceiling : STRING, failure_reason : STRING,
    attempt : STRING, revision : STRING, sequence : Nat]

ASSUME ContinuityAssumption ==
    /\ Attempts \subseteq STRING
    /\ Revisions \subseteq STRING /\ "" \in Revisions
    /\ Transitions \subseteq Event

VARIABLES
    log,        \* log[a]: the records of attempt a
    task,       \* the durable task state: [attempt, revision]
    snap,       \* the snapshot a session keeps, or NoSnapshot
    turns       \* how often an older log was put back or the task retargeted

continuity_vars == <<log, task, snap, turns>>

REJECTED_STATES == {"ATTEMPT_REJECTED", "REJECTED"}

NoSnapshot == [attempt |-> ""]

-----------------------------------------------------------------------------
(* Decoding, the chain and the projection *)

\* The event type a record decodes to: a record of the older format has none
\* and counts as an observation, unless its state is a rejection.
continuity_event_type(r) ==
    IF r.type = "none" /\ r.state \notin REJECTED_STATES THEN "OBSERVATION_RECORDED" ELSE r.type

\* Whether events_from_attempt_records accepts the records as a stream of the attempt.
decodes(records, a) ==
    /\ records # <<>>
    /\ \A i \in DOMAIN records :
        /\ records[i].attempt = a
        /\ records[i].revision # ""
        /\ continuity_event_type(records[i]) \in EVENT_TYPES
        /\ records[i].state \in REJECTED_STATES =>
            continuity_event_type(records[i]) = "ATTEMPT_REJECTED"

events_from_attempt_records(records) ==
    [i \in DOMAIN records |-> [records[i] EXCEPT !.type = continuity_event_type(records[i])]]

\* A stream is numbered from start and every event has the given revision
\* (_validate_chain and the drift checks; the hashes are compared by the callers).
unbroken(events, start, revision) ==
    \A i \in DOMAIN events :
        /\ events[i].sequence = start + i - 1
        /\ events[i].revision = revision

nonempty(text) == IF text = "" THEN <<>> ELSE <<text>>

only(condition, notes) == IF condition THEN notes ELSE <<>>

\* What one event adds to each collection of a snapshot.
noted(e) == [
    verified_facts      |-> nonempty(e.observation),
    active_hypotheses   |-> only(e.type \in {"PLAN_FORMED", "HYPOTHESIS_REVISED"}, nonempty(e.state)),
    rejected_hypotheses |-> only(e.type = "ATTEMPT_REJECTED", <<e.state>>),
    failed_attempts     |-> only(e.type = "ATTEMPT_REJECTED", <<e.state>>),
    rejected_strategies |-> only(e.type = "ATTEMPT_REJECTED", e.do_not_repeat),
    strategy_changes    |-> nonempty(e.strategy_delta),
    applied_changes     |-> only(e.type = "COMPLETED", nonempty(e.action)),
    evidence_refs       |-> e.evidence_refs,
    unresolved_risks    |-> e.unresolved_risks,
    unknowns            |-> e.unknowns]

Collections == {"verified_facts", "active_hypotheses", "rejected_hypotheses", "failed_attempts",
    "rejected_strategies", "strategy_changes", "applied_changes", "evidence_refs",
    "unresolved_risks", "unknowns"}

Scalars == {"next_action", "claim_ceiling", "failure_reason"}

\* A collection with what the events add to it, one after the other.
added(old, events, c) ==
    LET list[i \in 0 .. Len(events)] == IF i = 0 THEN old ELSE list[i - 1] \o noted(events[i])[c] IN
    list[Len(events)]

\* The distinct elements of a sequence in the order of their first occurrence.
unique(s) ==
    LET kept[i \in 0 .. Len(s)] ==
            IF i = 0 THEN <<>>
            ELSE IF Contains(kept[i - 1], s[i]) THEN kept[i - 1] ELSE Append(kept[i - 1], s[i]) IN
    kept[Len(s)]

\* The last text that is not empty.
latest(old, events, f) ==
    LET text[i \in 0 .. Len(events)] ==
            IF i = 0 THEN old ELSE IF events[i][f] = "" THEN text[i - 1] ELSE events[i][f] IN
    text[Len(events)]

project(events) == [
    attempt         |-> events[1].attempt,
    revision        |-> events[1].revision,
    last_sequence   |-> events[Len(events)].sequence,
    event_root      |-> events,
    notes           |-> [c \in Collections |-> unique(added(<<>>, events, c))],
    scalars         |-> [f \in Scalars |-> latest("", events, f)]]

\* A snapshot carried on by the events that follow the ones in before.
project_tail(s, before, tail) == [
    attempt         |-> s.attempt,
    revision        |-> s.revision,
    last_sequence   |-> tail[Len(tail)].sequence,
    event_root      |-> before \o tail,
    notes           |-> [c \in Collections |-> unique(added(s.notes[c], tail, c))],
    scalars         |-> [f \in Scalars |-> latest(s.scalars[f], tail, f)]]

mutant_extends_snapshot(s, before, tail) == unbroken(tail, s.last_sequence + 1, s.revision)

\* The tail extends the snapshot: its first event was hashed over the very
\* events the snapshot was made of, and carries the next number.
extends_snapshot(s, before, tail) ==
    /\ unbroken(tail, s.last_sequence + 1, s.revision)
    /\ before = s.event_root

-----------------------------------------------------------------------------
(* Rehydration *)

wildcard(revision) == revision \in {"", "unknown"}

\* build_rehydration_projection raises unless the request, the state and the
\* snapshot name one attempt and do not contradict each other's revisions.
rehydrates(state, s, requested) ==
    LET target == IF requested # "" THEN requested
                  ELSE IF state.attempt # "" THEN state.attempt ELSE s.attempt IN
    /\ target = s.attempt
    /\ requested # "" /\ state.attempt # "" => requested = state.attempt
    /\ ~wildcard(state.revision) /\ ~wildcard(s.revision) => state.revision = s.revision

build_rehydration_projection(state, s, requested) == [
    attempt         |-> IF requested # "" THEN requested
                        ELSE IF state.attempt # "" THEN state.attempt ELSE s.attempt,
    revision        |-> IF state.revision # "" THEN state.revision
                        ELSE IF s.revision = "unknown" THEN "" ELSE s.revision,
    continuation    |-> s.notes,
    scalars         |-> s.scalars,
    missing         |-> {c \in {"applied_changes", "verified_facts"} : s.notes[c] = <<>>}]

-----------------------------------------------------------------------------
(* Sessions *)

ContinuityInit ==
    /\ log = [a \in Attempts |-> <<>>]
    /\ task \in [attempt : Attempts \cup {""}, revision : Revisions]
    /\ snap = NoSnapshot
    /\ turns = 0

\* How many records there are, in all logs.
logged == FoldFunction(LAMBDA s, n : Len(s) + n, 0, log)

\* The host of the task records a transition of its attempt (the event log
\* modelled in OwnedWriters).
emit(t) ==
    LET a == task.attempt IN
    /\ a # ""
    /\ task.revision # ""
    /\ logged < MaxLog
    /\ log' = [log EXCEPT ![a] = Append(@,
            [t EXCEPT !.attempt = a, !.revision = task.revision, !.sequence = Len(log[a]) + 1])]
    /\ UNCHANGED <<task, snap, turns>>

\* An older copy of the attempt's log is put back (a restore of the state roots).
restore(a) ==
    /\ turns < MaxTurns
    /\ \E n \in 0 .. Len(log[a]) - 1 : log' = [log EXCEPT ![a] = SubSeq(@, 1, n)]
    /\ turns' = turns + 1
    /\ UNCHANGED <<task, snap>>

\* The task goes on with another attempt, or from another revision.
retarget ==
    /\ turns < MaxTurns
    /\ \E a \in Attempts, r \in Revisions : task' = [attempt |-> a, revision |-> r] /\ task' # task
    /\ turns' = turns + 1
    /\ UNCHANGED <<log, snap>>

\* A session projects the whole log of an attempt.
take_snapshot(a) ==
    /\ decodes(log[a], a)
    /\ LET events == events_from_attempt_records(log[a]) IN
        /\ unbroken(events, 1, events[1].revision)
        /\ snap' = project(events)
    /\ UNCHANGED <<log, task, turns>>

\* A session resumes its snapshot, for an attempt and a revision of its own,
\* with the events the attempt recorded after it.
resume(a, revision) ==
    /\ snap # NoSnapshot
    /\ snap.attempt = a
    /\ snap.revision = revision
    /\ decodes(log[a], a)
    /\ LET events == events_from_attempt_records(log[a])
           before == SubSeq(events, 1, snap.last_sequence)
           tail   == SubSeq(events, snap.last_sequence + 1, Len(events)) IN
        /\ tail # <<>>
        /\ extends_snapshot(snap, before, tail)
        /\ snap' = project_tail(snap, before, tail)
    /\ UNCHANGED <<log, task, turns>>

ContinuityNext ==
    \/ \E t \in Transitions : emit(t)
    \/ \E a \in Attempts : restore(a) \/ take_snapshot(a)
    \/ \E a \in Attempts, revision \in Revisions : resume(a, revision)
    \/ retarget

ContinuitySpec == ContinuityInit /\ [][ContinuityNext]_continuity_vars

-----------------------------------------------------------------------------

\* A resumed snapshot says exactly what projecting the whole chain its root
\* digest stands for would say, whatever log was put back in between; and a
\* projection joined with the task's state speaks of the attempt the state
\* names and repeats only what an event of that attempt recorded (resume,
\* _project_tail, build_rehydration_projection).
ResumeExact ==
    snap # NoSnapshot =>
        /\ snap = project(snap.event_root)
        /\ \A requested \in Attempts \cup {""} :
            rehydrates(task, snap, requested) =>
                LET p == build_rehydration_projection(task, snap, requested) IN
                /\ task.attempt \in {"", p.attempt}
                /\ \A c \in Collections : \A i \in DOMAIN p.continuation[c] :
                    \E e \in ToSet(snap.event_root) :
                        e.attempt = p.attempt /\ Contains(noted(e)[c], p.continuation[c][i])

=============================================================================
