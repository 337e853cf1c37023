-------------------------- MODULE WriterQuiescence --------------------------
(***************************************************************************)
(* Writer admission and quiescence (kernel/orchestrator/                   *)
(* writer_quiescence.py): leases, holds, the drain receipt and the         *)
(* recovery of a hold before activation.                                   *)
(*                                                                         *)
(* Each process has one WriterRegistry.  What processes share is on disk:  *)
(* a hold marker per root, a lease record per root and operation, drain    *)
(* receipts and preparations.  Records are created exclusively or replaced *)
(* atomically, and no lock spans processes: admission and hold meet only   *)
(* in the order of these file operations, so each is an action.  Inside a  *)
(* process the registry mutex is held over acquire() and over begin_hold().*)
(*                                                                         *)
(* A process is a process start identity: a restart is another process.    *)
(* The writers of a process are registered before it does anything else,   *)
(* one for each root.  It begins one hold at most, whose cohort is named   *)
(* after it, and has one thread that operates on the roots.                *)
(***************************************************************************)
EXTENDS Integers, Sequences, Functions

CONSTANTS Procs,    \* process start identities
          Roots,    \* writer roots
          Ops,      \* operation ids
          Vectors   \* the vectors of roots a hold may be begun for

ASSUME VectorAssumption == Vectors \subseteq Seq(Roots) \ {<<>>}

None == "none"
ASSUME NoneAssumption == None \notin Procs

Outcomes == {"committed", "failed", "unresolved"}
Terminal == {"committed", "failed"}
Markers == [cohort : Procs, roots : Vectors]
NoMarker == [cohort |-> None]
Leases == [proc : Procs, outcome : Outcomes \cup {"active"}]
NoLease == [proc |-> None, outcome |-> "absent"]
Threads == [at : {"checked", "published", "inside"}, root : Roots, op : Ops, expired : BOOLEAN]
Idle == [at |-> "idle"]
Holds == [at : {"publishing", "current", "partial"}, cohort : Procs, roots : Vectors,
          published : Nat, acked : SUBSET Roots, finalized : BOOLEAN]
NoHold == [at |-> "none"]
Collections == [next : Nat, clean : BOOLEAN, drained : BOOLEAN]
NoCollection == [next |-> 0]
Preparations == [owner : Procs, version : Nat]
NoPreparation == [owner |-> None]
Proofs == [cohort : Procs, roots : Vectors, predecessor : Preparations, raw : Preparations]
NoProof == [cohort |-> None]

VARIABLES
  life,     \* life[p]: "up" or "dead"
  marker,   \* marker[r]: the hold marker of root r
  lease,    \* lease[r][o]: the lease record of operation o on root r
  thread,   \* thread[p]: the operation p has in hand
  hold,     \* hold[p]: the hold of p's registry
  collect,  \* collect[p]: how far p's finalize() is
  receipt,  \* receipt[c]: the persisted drain receipt of cohort c exists
  prep,     \* prep[c]: the pre-activation preparation of cohort c
  proof     \* proof[p]: the recovery proof p was issued

disk == <<marker, lease, receipt, prep>>
vars == <<life, disk, thread, hold, collect, proof>>

TypeOK ==
  /\ life \in [Procs -> {"up", "dead"}]
  /\ marker \in [Roots -> Markers \cup {NoMarker}]
  /\ lease \in [Roots -> [Ops -> Leases \cup {NoLease}]]
  /\ thread \in [Procs -> Threads \cup {Idle}]
  /\ hold \in [Procs -> Holds \cup {NoHold}]
  /\ collect \in [Procs -> Collections \cup {NoCollection}]
  /\ receipt \in [Procs -> BOOLEAN]
  /\ prep \in [Procs -> Preparations \cup {NoPreparation}]
  /\ proof \in [Procs -> Proofs \cup {NoProof}]

Init ==
  /\ life = [p \in Procs |-> "up"]
  /\ marker = [r \in Roots |-> NoMarker]
  /\ lease = [r \in Roots |-> [o \in Ops |-> NoLease]]
  /\ thread = [p \in Procs |-> Idle]
  /\ hold = [p \in Procs |-> NoHold]
  /\ collect = [p \in Procs |-> NoCollection]
  /\ receipt = [c \in Procs |-> FALSE]
  /\ prep = [c \in Procs |-> NoPreparation]
  /\ proof = [p \in Procs |-> NoProof]

\* The registry mutex of p is free.
unlocked(p) ==
  /\ life[p] = "up"
  /\ thread[p].at \notin {"checked", "published"}
  /\ hold[p].at # "publishing"

\* A process dies; what it held in memory is gone, its files stay.
die(p) ==
  /\ life[p] = "up"
  /\ life' = [life EXCEPT ![p] = "dead"]
  /\ thread' = [thread EXCEPT ![p] = Idle]
  /\ hold' = [hold EXCEPT ![p] = NoHold]
  /\ collect' = [collect EXCEPT ![p] = NoCollection]
  /\ proof' = [proof EXCEPT ![p] = NoProof]
  /\ UNCHANGED disk

---------------------------------------------------------------------------
(* Leases.                                                                 *)

held_roots(p) == IF hold[p] = NoHold THEN {} ELSE Range(hold[p].roots)

\* self._leases: the lease of p on root r that has not been given back.
in_memory(p, r) == thread[p].at \in {"published", "inside"} /\ thread[p].root = r

\* What _durable_leases reports of a record: not finished, or not finished by
\* this process.
issue(p, l) == l # NoLease /\ (l.outcome \notin Terminal \/ l.proc # p)
issues(p, r) == \E o \in Ops : issue(p, lease[r][o])

\* acquire: the checks.  The operation id was used neither on this root nor by
\* this process.
acquire_check(p, r, o) ==
  /\ unlocked(p)
  /\ thread[p] = Idle
  /\ r \notin held_roots(p)
  /\ marker[r] = NoMarker
  /\ ~issues(p, r)
  /\ lease[r][o] = NoLease
  /\ \A s \in Roots : lease[s][o].proc # p
  /\ thread' = [thread EXCEPT ![p] = [at |-> "checked", root |-> r, op |-> o, expired |-> FALSE]]
  /\ UNCHANGED <<life, disk, hold, collect, proof>>

\* acquire: the lease record is created, exclusively; if another process has
\* just created it, the operation is denied.
acquire_publish(p) ==
  LET r == thread[p].root
      o == thread[p].op IN
  /\ thread[p].at = "checked"
  /\ \/ /\ lease[r][o] = NoLease
        /\ lease' = [lease EXCEPT ![r][o] = [proc |-> p, outcome |-> "active"]]
        /\ thread' = [thread EXCEPT ![p].at = "published"]
     \/ /\ lease[r][o] # NoLease
        /\ thread' = [thread EXCEPT ![p] = Idle]
        /\ UNCHANGED lease
  /\ UNCHANGED <<life, marker, receipt, prep, hold, collect, proof>>

\* _release
release(p, outcome) ==
  /\ lease' = [lease EXCEPT ![thread[p].root][thread[p].op].outcome = outcome]
  /\ thread' = [thread EXCEPT ![p] = Idle]

\* Mutant of acquire_recheck: the marker is not looked at again.
mutant_acquire_recheck(p) ==
  /\ thread[p].at = "published"
  /\ thread' = [thread EXCEPT ![p].at = "inside"]
  /\ UNCHANGED <<life, disk, hold, collect, proof>>

\* acquire: a hold may have been published meanwhile; then nothing is entered.
acquire_recheck(p) ==
  /\ thread[p].at = "published"
  /\ \/ /\ marker[thread[p].root] = NoMarker
        /\ thread' = [thread EXCEPT ![p].at = "inside"]
        /\ UNCHANGED lease
     \/ /\ marker[thread[p].root] # NoMarker
        /\ release(p, "failed")
  /\ UNCHANGED <<life, marker, receipt, prep, hold, collect, proof>>

\* The lease runs out under the operation.
expire(p) ==
  /\ thread[p].at = "inside"
  /\ ~thread[p].expired
  /\ thread' = [thread EXCEPT ![p].expired = TRUE]
  /\ UNCHANGED <<life, disk, hold, collect, proof>>

\* Mutant of close: an expired lease can still be committed.
mutant_close(p, outcome) ==
  /\ thread[p].at = "inside"
  /\ unlocked(p)
  /\ release(p, outcome)
  /\ UNCHANGED <<life, marker, receipt, prep, hold, collect, proof>>

\* The end of operation(): committed, failed before the owner manifest was
\* prepared or unresolved after it; validate() makes an expired one unresolved.
close(p, outcome) ==
  /\ thread[p].at = "inside"
  /\ unlocked(p)
  /\ thread[p].expired => outcome = "unresolved"
  /\ release(p, outcome)
  /\ UNCHANGED <<life, marker, receipt, prep, hold, collect, proof>>

---------------------------------------------------------------------------
(* Holds.                                                                  *)

\* begin_hold: no root of the vector is held; admission closes in memory.
begin_hold(p, v) ==
  /\ unlocked(p)
  /\ hold[p] = NoHold
  /\ ~receipt[p] /\ \A r \in Roots : marker[r].cohort # p
  /\ \A r \in Range(v) : marker[r] = NoMarker
  /\ hold' = [hold EXCEPT ![p] = [at |-> "publishing", cohort |-> p, roots |-> v,
                                  published |-> 0, acked |-> {}, finalized |-> FALSE]]
  /\ UNCHANGED <<life, disk, thread, collect, proof>>

\* Mutant of publish_marker: an existing marker is replaced.
mutant_publish_marker(p) ==
  LET h == hold[p]
      r == h.roots[h.published + 1] IN
  /\ h.at = "publishing"
  /\ marker' = [marker EXCEPT ![r] = [cohort |-> h.cohort, roots |-> h.roots]]
  /\ hold' = [hold EXCEPT ![p].published = @ + 1,
               ![p].at = IF h.published + 1 = Len(h.roots) THEN "current" ELSE "publishing"]
  /\ UNCHANGED <<life, lease, receipt, prep, thread, collect, proof>>

\* begin_hold: the markers are created one root after the other, exclusively.
\* A vector that meets another hold on its way stays partial.
publish_marker(p) ==
  LET h == hold[p]
      r == h.roots[h.published + 1] IN
  /\ h.at = "publishing"
  /\ \/ /\ marker[r] = NoMarker
        /\ marker' = [marker EXCEPT ![r] = [cohort |-> h.cohort, roots |-> h.roots]]
        /\ hold' = [hold EXCEPT ![p].published = @ + 1,
                     ![p].at = IF h.published + 1 = Len(h.roots) THEN "current" ELSE "publishing"]
     \/ /\ marker[r] # NoMarker
        /\ hold' = [hold EXCEPT ![p].at = "partial"]
        /\ UNCHANGED marker
  /\ UNCHANGED <<life, lease, receipt, prep, thread, collect, proof>>

\* _check_hold: the markers of the whole vector are the hold's; an adopted
\* hold also still has its evidence.
markers_of(c, v) == \A r \in Range(v) : marker[r] = [cohort |-> c, roots |-> v]
check_hold(p) ==
  /\ unlocked(p)
  /\ hold[p].at = "current"
  /\ markers_of(hold[p].cohort, hold[p].roots)
  /\ proof[p] # NoProof => prep[hold[p].cohort] = proof[p].raw

\* acknowledge: the writer of root r has no lease any more.
acknowledge(p, r) ==
  /\ check_hold(p)
  /\ r \in held_roots(p)
  /\ ~in_memory(p, r)
  /\ hold' = [hold EXCEPT ![p].acked = @ \cup {r}]
  /\ UNCHANGED <<life, disk, thread, collect, proof>>

\* _finalize reads the lease records root by root, without the mutex.
finalize_start(p) ==
  /\ check_hold(p)
  /\ collect[p] = NoCollection
  /\ collect' = [collect EXCEPT ![p] = [next |-> 1, clean |-> TRUE, drained |-> FALSE]]
  /\ UNCHANGED <<life, disk, thread, hold, proof>>

finalize_read(p) ==
  /\ collect[p] # NoCollection
  /\ collect[p].next \in 1..Len(hold[p].roots)
  /\ collect' = [collect EXCEPT ![p].next = @ + 1,
                                ![p].clean = @ /\ ~issues(p, hold[p].roots[collect[p].next])]
  /\ UNCHANGED <<life, disk, thread, hold, proof>>

\* _finalize, the end: the observers of the writers may know of something
\* pending (known); then, and with anything else unknown, it is not drained.
finalize_close(p, known) ==
  /\ collect[p] # NoCollection
  /\ collect[p].next > Len(hold[p].roots) /\ ~collect[p].drained
  /\ \/ /\ check_hold(p)
        /\ collect[p].clean /\ known
        /\ held_roots(p) \subseteq hold[p].acked
        /\ \A r \in held_roots(p) : ~in_memory(p, r)
        /\ collect' = [collect EXCEPT ![p].drained = TRUE]
     \/ collect' = [collect EXCEPT ![p] = NoCollection]
  /\ UNCHANGED <<life, disk, thread, hold, proof>>

\* persist_finalized: the DRAINED receipt is created, once per cohort.
persist_finalized(p) ==
  /\ check_hold(p)
  /\ collect[p] # NoCollection /\ collect[p].drained
  /\ ~receipt[hold[p].cohort] /\ ~hold[p].finalized
  /\ receipt' = [receipt EXCEPT ![hold[p].cohort] = TRUE]
  /\ hold' = [hold EXCEPT ![p].finalized = TRUE]
  /\ collect' = [collect EXCEPT ![p] = NoCollection]
  /\ UNCHANGED <<life, marker, lease, prep, thread, proof>>

\* The cohort coordinator of the host removes the markers of a finalized hold
\* in order and then gives the roots back; a finalize() still under way can
\* then only end in a HoldConflict.
release_marker(p) ==
  LET h == hold[p] IN
  /\ unlocked(p)
  /\ h.at = "current" /\ h.finalized
  /\ \/ \E i \in 1..Len(h.roots) :
          /\ \A j \in 1..i - 1 : marker[h.roots[j]] = NoMarker
          /\ marker[h.roots[i]] = [cohort |-> h.cohort, roots |-> h.roots]
          /\ marker' = [marker EXCEPT ![h.roots[i]] = NoMarker]
          /\ UNCHANGED <<hold, collect>>
     \/ /\ \A r \in held_roots(p) : marker[r].cohort # h.cohort
        /\ hold' = [hold EXCEPT ![p] = NoHold]
        /\ collect' = [collect EXCEPT ![p] = NoCollection]
        /\ UNCHANGED marker
  /\ UNCHANGED <<life, lease, receipt, prep, thread, proof>>

---------------------------------------------------------------------------
(* Recovery of a hold that was drained but not handed over.                *)

\* _validate_pre_activation: markers and drain receipt of cohort c are there,
\* and no record of the roots needs reconciliation.
valid_evidence(p, c, v) ==
  /\ receipt[c]
  /\ markers_of(c, v)
  /\ \A r \in Range(v) : ~issues(p, r) /\ ~in_memory(p, r)

\* persist_pre_activation_preparation
persist_preparation(p) ==
  LET c == hold[p].cohort IN
  /\ check_hold(p)
  /\ hold[p].finalized
  /\ valid_evidence(p, c, hold[p].roots)
  /\ prep[c] = NoPreparation
  /\ prep' = [prep EXCEPT ![c] = [owner |-> p, version |-> 1]]
  /\ UNCHANGED <<life, marker, lease, receipt, thread, hold, collect, proof>>

\* Mutant of absent: the predecessor's process is not looked at.
mutant_absent(p, q) == p # q

\* _process_absent, of a process that is not this one.
absent(p, q) == p # q /\ life[q] = "dead"

\* prepare_pre_activation_hold_recovery: the processes of the preparation and
\* of the drain are gone; p pins the preparation it found.
prepare_recovery(p, c, v) ==
  /\ unlocked(p)
  /\ hold[p] = NoHold
  /\ proof[p] = NoProof
  /\ prep[c] # NoPreparation
  /\ absent(p, prep[c].owner) /\ absent(p, c)
  /\ valid_evidence(p, c, v)
  /\ proof' = [proof EXCEPT ![p] = [cohort |-> c, roots |-> v,
                                    predecessor |-> prep[c], raw |-> prep[c]]]
  /\ UNCHANGED <<life, disk, thread, hold, collect>>

\* persist_pre_activation_hold_successor: compare-and-swap under a file lock.
persist_successor(p) ==
  LET f == proof[p]
      successor == [owner |-> p, version |-> f.predecessor.version + 1] IN
  /\ unlocked(p)
  /\ f # NoProof /\ f.raw = f.predecessor
  /\ valid_evidence(p, f.cohort, f.roots)
  /\ prep[f.cohort] = f.raw
  /\ prep' = [prep EXCEPT ![f.cohort] = successor]
  /\ proof' = [proof EXCEPT ![p].raw = successor]
  /\ UNCHANGED <<life, marker, lease, receipt, thread, hold, collect>>

\* adopt_pre_activation_hold: the hold of the cohort goes on in this process.
adopt_hold(p) ==
  LET f == proof[p] IN
  /\ unlocked(p)
  /\ f # NoProof /\ f.raw # f.predecessor
  /\ valid_evidence(p, f.cohort, f.roots)
  /\ prep[f.cohort] = f.raw
  /\ hold[p] = NoHold
  /\ hold' = [hold EXCEPT ![p] = [at |-> "current", cohort |-> f.cohort, roots |-> f.roots,
                published |-> Len(f.roots), acked |-> Range(f.roots), finalized |-> TRUE]]
  /\ UNCHANGED <<life, disk, thread, collect, proof>>

---------------------------------------------------------------------------
Operate(p) ==
  \/ \E r \in Roots, o \in Ops : acquire_check(p, r, o)
  \/ acquire_publish(p) \/ acquire_recheck(p) \/ expire(p)
  \/ \E outcome \in Outcomes : close(p, outcome)

Hold(p) ==
  \/ \E v \in Vectors : begin_hold(p, v)
  \/ publish_marker(p)
  \/ \E r \in Roots : acknowledge(p, r)
  \/ finalize_start(p) \/ finalize_read(p)
  \/ \E known \in BOOLEAN : finalize_close(p, known)
  \/ persist_finalized(p) \/ release_marker(p)

Recover(p) ==
  \/ persist_preparation(p)
  \/ \E c \in Procs, v \in Vectors : prepare_recovery(p, c, v)
  \/ persist_successor(p) \/ adopt_hold(p)

Next == \E p \in Procs : die(p) \/ Operate(p) \/ Hold(p) \/ Recover(p)

Spec == Init /\ [][Next]_vars

---------------------------------------------------------------------------
(* Properties.                                                             *)

\* While the marker of a drained cohort stands on a root, no operation of any
\* process is inside that root: however its admission raced the hold, whoever
\* died since, and whichever process has adopted the hold.
Quiescent ==
  \A r \in Roots : marker[r] # NoMarker /\ receipt[marker[r].cohort] =>
    \A p \in Procs : ~(thread[p].at = "inside" /\ thread[p].root = r)

\* The processes that find themselves in charge of a cohort's hold are one.
OneHolder ==
  \A p, q \in Procs : /\ check_hold(p)
                      /\ check_hold(q)
                      /\ held_roots(p) \cap held_roots(q) # {}
                      => p = q

\* A published hold stands until its cohort has been drained, whoever else
\* wants the root and whoever dies, and no marker is put over another.
HoldsStand ==
  [][\A r \in Roots : marker[r] # NoMarker /\ marker'[r] # marker[r] =>
       receipt[marker[r].cohort] /\ marker'[r] = NoMarker]_vars

\* A lease record is used once: it is created active, gets one outcome, and
\* keeps it; an operation id is not replayed by this or another process.  An
\* operation that was lost inside a root is never committed: its record is left
\* as it is once its process has died, and ends unresolved once its lease has
\* run out, also if the operation goes on and finishes.
OutcomesFinal ==
  [][/\ \A r \in Roots, o \in Ops : lease[r][o] # lease'[r][o] =>
          \/ lease[r][o] = NoLease /\ lease'[r][o].outcome = "active"
          \/ lease[r][o].outcome = "active" /\ lease'[r][o].proc = lease[r][o].proc
     /\ \A p \in Procs : thread[p].at = "inside" /\ thread[p].expired =>
          lease'[thread[p].root][thread[p].op].outcome # "committed"
     /\ \A r \in Roots, o \in Ops : lease[r][o] # NoLease /\ life[lease[r][o].proc] = "dead" =>
          lease'[r][o] = lease[r][o]]_vars
====
