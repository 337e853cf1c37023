----------------------- MODULE WriterQuiescenceProofs -----------------------
(***************************************************************************)
(* Quiescent holds of WriterQuiescence for every set of processes, roots,  *)
(* operations and vectors.                                                 *)
(***************************************************************************)
EXTENDS WriterQuiescence, TLAPS

\* Whoever is inside a root, or about to learn whether it may enter, is alive
\* and has its record open.
OpenRecord ==
  \A p \in Procs : thread[p].at \in {"published", "inside"} =>
    lease[thread[p].root][thread[p].op] = [proc |-> p, outcome |-> "active"]

\* A cohort without a receipt is in the hands of the process that began it,
\* which has marked only roots of its vector.
BeganBy(p) ==
  hold[p] # NoHold =>
    /\ hold[p].cohort # p => receipt[hold[p].cohort]
    /\ hold[p].at = "publishing" =>
         /\ hold[p].cohort = p /\ ~receipt[p] /\ ~hold[p].finalized
         /\ hold[p].published < Len(hold[p].roots)
    /\ hold[p].cohort = p => \A r \in Roots : marker[r].cohort = p => r \in held_roots(p)
    /\ hold[p].finalized => receipt[hold[p].cohort]
Began == \A p \in Procs : BeganBy(p)

\* A proof is about the drained cohort of another process.
Proved == \A p \in Procs : proof[p] # NoProof => proof[p].cohort # p /\ receipt[proof[p].cohort]

\* What a collection has read clean stays clean under the cohort's marker.
Clean(p, i) ==
  marker[hold[p].roots[i]].cohort = hold[p].cohort =>
    \A q \in Procs : ~(thread[q].at = "inside" /\ thread[q].root = hold[p].roots[i])
ReadClean ==
  \A p \in Procs : collect[p] # NoCollection =>
    /\ hold[p].at = "current"
    /\ collect[p].drained => collect[p].clean /\ collect[p].next > Len(hold[p].roots)
    /\ collect[p].clean =>
         \A i \in 1..Len(hold[p].roots) : i < collect[p].next => Clean(p, i)

IInv == TypeOK /\ OpenRecord /\ Began /\ Proved /\ ReadClean /\ Quiescent

\* The placeholders differ from the real values.
LEMMA Placeholders ==
  /\ \A m \in Markers : m # NoMarker /\ m.cohort \in Procs
  /\ NoMarker.cohort \notin Procs
  /\ \A h \in Holds : h # NoHold
  /\ \A c \in Collections : c # NoCollection
  /\ \A f \in Proofs : f # NoProof
  /\ \A t \in Threads : t # Idle
  /\ \A l \in Leases : l # NoLease
<1>1. \A m \in Markers : m # NoMarker /\ m.cohort \in Procs
  BY NoneAssumption DEF Markers, NoMarker
<1>2. \A h \in Holds : h # NoHold
  BY DEF Holds, NoHold
<1>3. \A c \in Collections : c # NoCollection
  BY DEF Collections, NoCollection
<1>4. \A f \in Proofs : f # NoProof
  BY NoneAssumption DEF Proofs, NoProof
<1>5. \A t \in Threads : t # Idle
  BY DEF Threads, Idle
<1>6. \A l \in Leases : l # NoLease
  BY NoneAssumption DEF Leases, NoLease
<1> QED
  BY <1>1, <1>2, <1>3, <1>4, <1>5, <1>6, NoneAssumption DEF NoMarker

\* The roots of a vector.
LEMMA VectorRoots ==
  ASSUME NEW v \in Vectors
  PROVE  /\ Len(v) \in Nat
         /\ Len(v) > 0
         /\ \A i \in 1..Len(v) : v[i] \in Roots
         /\ Range(v) \subseteq Roots
         /\ \A i \in 1..Len(v) : v[i] \in Range(v)
         /\ \A r \in Range(v) : \E i \in 1..Len(v) : v[i] = r
<1>1. v \in Seq(Roots) /\ v # <<>>
  BY VectorAssumption
<1>2. Len(v) \in Nat /\ DOMAIN v = 1..Len(v) /\ \A i \in 1..Len(v) : v[i] \in Roots
  BY <1>1
<1>3. Len(v) > 0
  BY <1>1
<1> QED
  BY <1>2, <1>3 DEF Range

\* Before anything has happened.
LEMMA InitIInv == Init => IInv
<1> SUFFICES ASSUME Init PROVE IInv
  OBVIOUS
<1>1. TypeOK
  BY DEF Init, TypeOK
<1>2. OpenRecord /\ Quiescent
  BY DEF Init, OpenRecord, Quiescent, Idle
<1>3. Began /\ Proved /\ ReadClean
  BY DEF Init, Began, BeganBy, Proved, ReadClean
<1> QED
  BY <1>1, <1>2, <1>3 DEF IInv

\* The death of a process takes away its memory only.
LEMMA DieStep ==
  ASSUME IInv, NEW p \in Procs, die(p)
  PROVE  IInv'
<1> USE DEF IInv, die, disk
<1>1. TypeOK'
  BY DEF TypeOK
<1>2. OpenRecord' /\ Quiescent'
  BY DEF TypeOK, OpenRecord, Quiescent, Idle
<1>3. Began'
  BY DEF TypeOK, Began, BeganBy, held_roots
<1>4. Proved'
  BY DEF TypeOK, Proved
<1>5. ReadClean'
  BY DEF TypeOK, ReadClean, Clean, Idle
<1> QED
  BY <1>1, <1>2, <1>3, <1>4, <1>5

\* _release ends the lease of one thread and touches no other record.
LEMMA ReleaseStep ==
  ASSUME TypeOK, OpenRecord, NEW p \in Procs, NEW outcome \in Outcomes,
         thread[p].at \in {"published", "inside"}, release(p, outcome),
         UNCHANGED <<life, marker, receipt, prep, hold, collect, proof>>
  PROVE  TypeOK' /\ OpenRecord' /\ thread' = [thread EXCEPT ![p] = Idle] /\ thread'[p] = Idle
<1> DEFINE r == thread[p].root
           o == thread[p].op
<1>1. thread[p] \in Threads /\ r \in Roots /\ o \in Ops
  BY DEF TypeOK, Threads, Idle
<1>2. lease[r][o] = [proc |-> p, outcome |-> "active"]
  BY DEF OpenRecord
<1>3. lease' = [lease EXCEPT ![r][o].outcome = outcome] /\ thread' = [thread EXCEPT ![p] = Idle]
  BY DEF release
<1>4. lease'[r][o] = [proc |-> p, outcome |-> outcome]
  BY <1>1, <1>2, <1>3 DEF TypeOK
<1>5. \A s \in Roots, q \in Ops : ~(s = r /\ q = o) => lease'[s][q] = lease[s][q]
  BY <1>1, <1>3 DEF TypeOK
<1>6. lease' \in [Roots -> [Ops -> Leases \cup {NoLease}]]
  <2>1. [proc |-> p, outcome |-> outcome] \in Leases
    BY DEF Leases
  <2>2. [lease[r] EXCEPT ![o] = [proc |-> p, outcome |-> outcome]] \in [Ops -> Leases \cup {NoLease}]
    BY <1>1, <2>1 DEF TypeOK
  <2>3. lease' = [lease EXCEPT ![r] = [lease[r] EXCEPT ![o] = [proc |-> p, outcome |-> outcome]]]
    <3>1. [lease[r][o] EXCEPT !.outcome = outcome] = [proc |-> p, outcome |-> outcome]
      BY <1>2
    <3> QED
      BY <1>3, <3>1
  <2> QED
    BY <1>1, <2>2, <2>3 DEF TypeOK
<1>7. TypeOK'
  BY <1>3, <1>6 DEF TypeOK
<1>8. OpenRecord'
  <2> SUFFICES ASSUME NEW q \in Procs, thread'[q].at \in {"published", "inside"}
               PROVE  lease'[thread'[q].root][thread'[q].op] = [proc |-> q, outcome |-> "active"]
    BY DEF OpenRecord
  <2>1. q # p /\ thread'[q] = thread[q]
    BY <1>3 DEF TypeOK, Idle
  <2>2. thread[q] \in Threads /\ thread[q].root \in Roots /\ thread[q].op \in Ops
    BY <2>1 DEF TypeOK, Threads, Idle
  <2>3. lease[thread[q].root][thread[q].op] = [proc |-> q, outcome |-> "active"]
    BY <2>1 DEF OpenRecord
  <2>4. ~(thread[q].root = r /\ thread[q].op = o)
    BY <1>2, <2>1, <2>3
  <2> QED
    BY <1>5, <2>1, <2>2, <2>3, <2>4
<1> QED
  BY <1>3, <1>7, <1>8 DEF TypeOK

\* The steps of an operation.  Entering needs a root without marker, so no
\* drained root and no root a collection has passed is entered.
LEMMA OperateStep ==
  ASSUME IInv, NEW p \in Procs, Operate(p)
  PROVE  IInv'
<1> USE Placeholders DEF IInv
<1> DEFINE Rest == /\ UNCHANGED <<life, marker, receipt, prep, hold, collect, proof>>
                   /\ \A q \in Procs \ {p} : thread'[q] = thread[q]
           Entry == thread'[p].at = "inside" =>
                      \/ thread[p].at = "inside" /\ thread'[p].root = thread[p].root
                      \/ marker[thread'[p].root] = NoMarker
           Goal == TypeOK' /\ OpenRecord' /\ Rest /\ Entry
<1>1. Goal
  <2>1. ASSUME NEW r \in Roots, NEW o \in Ops, acquire_check(p, r, o) PROVE Goal
    <3>1. thread' = [thread EXCEPT ![p] = [at |-> "checked", root |-> r, op |-> o, expired |-> FALSE]]
      BY <2>1 DEF acquire_check
    <3>2. UNCHANGED <<life, marker, lease, receipt, prep, hold, collect, proof>>
      BY <2>1 DEF acquire_check, disk
    <3>3. TypeOK'
      BY <3>1, <3>2 DEF TypeOK, Threads
    <3>4. OpenRecord'
      BY <3>1, <3>2 DEF TypeOK, OpenRecord
    <3> QED
      BY <3>1, <3>2, <3>3, <3>4 DEF TypeOK
  <2>2. CASE acquire_publish(p)
    <3>1. thread[p] \in Threads
      BY <2>2 DEF acquire_publish, TypeOK, Idle
    <3> DEFINE r == thread[p].root
               o == thread[p].op
    <3>2. r \in Roots /\ o \in Ops
      BY <3>1 DEF Threads
    <3>3. CASE lease[r][o] = NoLease
      <4>1. /\ lease' = [lease EXCEPT ![r][o] = [proc |-> p, outcome |-> "active"]]
            /\ thread' = [thread EXCEPT ![p].at = "published"]
            /\ UNCHANGED <<life, marker, receipt, prep, hold, collect, proof>>
        BY <2>2, <3>3 DEF acquire_publish
      <4>2. thread'[p] \in Threads /\ thread'[p].at = "published"
              /\ thread'[p].root = r /\ thread'[p].op = o
        BY <3>1, <4>1 DEF TypeOK, Threads
      <4>3. TypeOK'
        <5>1. thread' \in [Procs -> Threads \cup {Idle}]
          BY <4>1, <4>2 DEF TypeOK
        <5>2. lease' \in [Roots -> [Ops -> Leases \cup {NoLease}]]
          BY <3>2, <4>1 DEF TypeOK, Leases
        <5> QED
          BY <4>1, <5>1, <5>2 DEF TypeOK
      <4>4. OpenRecord'
        BY <3>2, <3>3, <4>1, <4>2 DEF TypeOK, OpenRecord, NoLease
      <4> QED
        BY <4>1, <4>2, <4>3, <4>4 DEF TypeOK
    <3>4. CASE lease[r][o] # NoLease
      BY <2>2, <3>4 DEF acquire_publish, TypeOK, OpenRecord, Idle
    <3> QED
      BY <3>3, <3>4
  <2>3. CASE acquire_recheck(p)
    <3>1. thread[p] \in Threads
      BY <2>3 DEF acquire_recheck, TypeOK, Idle
    <3>2. CASE marker[thread[p].root] = NoMarker
      <4>1. /\ thread' = [thread EXCEPT ![p].at = "inside"]
            /\ UNCHANGED <<life, marker, lease, receipt, prep, hold, collect, proof>>
        BY <2>3, <3>2 DEF acquire_recheck
      <4>2. thread'[p] \in Threads /\ thread'[p].root = thread[p].root /\ thread'[p].op = thread[p].op
        BY <3>1, <4>1 DEF TypeOK, Threads
      <4>3. TypeOK'
        BY <4>1, <4>2 DEF TypeOK
      <4>4. OpenRecord'
        BY <2>3, <4>1, <4>2 DEF TypeOK, OpenRecord, acquire_recheck
      <4> QED
        BY <3>2, <4>1, <4>2, <4>3, <4>4 DEF TypeOK
    <3>3. CASE marker[thread[p].root] # NoMarker
      <4>1. release(p, "failed") /\ UNCHANGED <<life, marker, receipt, prep, hold, collect, proof>>
        BY <2>3, <3>3 DEF acquire_recheck
      <4>2. thread[p].at \in {"published", "inside"} /\ "failed" \in Outcomes
        BY <2>3 DEF acquire_recheck, Outcomes
      <4>3. TypeOK' /\ OpenRecord' /\ thread' = [thread EXCEPT ![p] = Idle] /\ thread'[p] = Idle
        BY <4>1, <4>2, ReleaseStep
      <4> QED
        BY <4>1, <4>3 DEF Idle, TypeOK
    <3> QED
      BY <3>2, <3>3
  <2>4. CASE expire(p)
    <3>1. thread[p] \in Threads
      BY <2>4 DEF expire, TypeOK, Idle
    <3>2. thread'[p] \in Threads /\ thread'[p].at = thread[p].at
            /\ thread'[p].root = thread[p].root /\ thread'[p].op = thread[p].op
      BY <2>4, <3>1 DEF expire, TypeOK, Threads
    <3>3. TypeOK'
      BY <2>4, <3>2 DEF expire, disk, TypeOK
    <3>4. OpenRecord'
      BY <2>4, <3>2 DEF expire, disk, TypeOK, OpenRecord
    <3> QED
      BY <2>4, <3>2, <3>3, <3>4 DEF expire, disk, TypeOK
  <2>5. ASSUME NEW outcome \in Outcomes, close(p, outcome) PROVE Goal
    <3>1. thread[p] \in Threads
      BY <2>5 DEF close, TypeOK, Idle
    <3>2. /\ thread[p].at \in {"published", "inside"}
          /\ release(p, outcome)
          /\ UNCHANGED <<life, marker, receipt, prep, hold, collect, proof>>
      BY <2>5 DEF close
    <3>3. TypeOK' /\ OpenRecord' /\ thread' = [thread EXCEPT ![p] = Idle] /\ thread'[p] = Idle
      BY <3>2, ReleaseStep
    <3> QED
      BY <3>2, <3>3 DEF Idle, TypeOK
  <2> QED
    BY <2>1, <2>2, <2>3, <2>4, <2>5 DEF Operate
<1>2. Began' /\ Proved'
  BY <1>1 DEF Began, BeganBy, Proved, held_roots
<1>3. ReadClean'
  <2> SUFFICES ASSUME NEW q \in Procs, collect[q] # NoCollection, NEW i \in 1..Len(hold[q].roots), Clean(q, i)
               PROVE  Clean(q, i)'
    BY <1>1 DEF ReadClean
  <2>1. hold[q] \in Holds
    BY DEF ReadClean, TypeOK, NoHold
  <2>2. hold[q].cohort \in Procs
    BY <2>1 DEF Holds
  <2> QED
    BY <1>1, <2>2 DEF Clean
<1>4. Quiescent'
  BY <1>1 DEF Quiescent
<1> QED
  BY <1>1, <1>2, <1>3, <1>4

\* Beginning a hold and publishing its markers: a fresh cohort has no receipt.
LEMMA BeginStep ==
  ASSUME IInv, NEW p \in Procs,
         publish_marker(p) \/ \E v \in Vectors : begin_hold(p, v)
  PROVE  IInv'
<1> USE Placeholders DEF IInv
<1>1. ASSUME NEW v \in Vectors, begin_hold(p, v) PROVE IInv'
  <2>1. hold[p] = NoHold /\ collect[p] = NoCollection
    BY <1>1 DEF begin_hold, ReadClean, NoHold
  <2> DEFINE h == [at |-> "publishing", cohort |-> p, roots |-> v,
                   published |-> 0, acked |-> {}, finalized |-> FALSE]
  <2>2. hold' = [hold EXCEPT ![p] = h] /\ UNCHANGED <<life, disk, thread, collect, proof>>
    BY <1>1 DEF begin_hold
  <2>3. h \in Holds
    BY DEF Holds
  <2>4. TypeOK' /\ hold'[p] = h /\ \A q \in Procs \ {p} : hold'[q] = hold[q]
    BY <2>2, <2>3 DEF TypeOK, disk
  <2>5. OpenRecord' /\ Proved' /\ Quiescent'
    BY <2>2 DEF disk, OpenRecord, Proved, Quiescent
  <2>6. Began'
    <3>1. ~receipt[p] /\ (\A r \in Roots : marker[r].cohort # p) /\ 0 < Len(v)
      BY <1>1, VectorRoots DEF begin_hold
    <3> QED
      BY <2>2, <2>4, <3>1 DEF disk, Began, BeganBy, held_roots
  <2>7. ReadClean'
    BY <2>1, <2>2, <2>4 DEF disk, ReadClean, Clean
  <2> QED
    BY <2>4, <2>5, <2>6, <2>7
<1>2. CASE publish_marker(p)
  <2> DEFINE h == hold[p]
             r == h.roots[h.published + 1]
  <2>1. h \in Holds /\ h.at = "publishing"
    BY <1>2 DEF publish_marker, TypeOK, NoHold
  <2>2. h.cohort = p /\ ~receipt[p] /\ ~h.finalized /\ h.published < Len(h.roots)
    BY <2>1 DEF Began, BeganBy
  <2>3. /\ h.roots \in Vectors /\ h.published \in Nat /\ h.published + 1 \in 1..Len(h.roots)
        /\ r \in Roots /\ r \in Range(h.roots)
    BY <2>1, <2>2, VectorRoots DEF Holds
  <2>4. collect[p] = NoCollection
    BY <2>1 DEF ReadClean
  <2>5. UNCHANGED <<life, lease, receipt, prep, thread, collect, proof>>
    BY <1>2 DEF publish_marker
  <2>6. CASE marker[r] = NoMarker
    <3> DEFINE m == [cohort |-> h.cohort, roots |-> h.roots]
               n == h.published + 1
               a == IF n = Len(h.roots) THEN "current" ELSE "publishing"
               g == [h EXCEPT !.published = n, !.at = a]
    <3>1. marker' = [marker EXCEPT ![r] = m] /\ hold' = [hold EXCEPT ![p] = g]
      BY <1>2, <2>6 DEF publish_marker
    <3>2. /\ g \in Holds /\ g.cohort = p /\ g.roots = h.roots /\ g.published = n /\ ~g.finalized
          /\ g.at = "publishing" => n # Len(h.roots)
      <4>1. n \in Nat /\ a \in {"publishing", "current", "partial"}
        BY <2>3
      <4>2. a = "publishing" => n # Len(h.roots)
        OBVIOUS
      <4> HIDE DEF n, a
      <4>3. g \in Holds /\ g.at = a /\ g.cohort = h.cohort /\ g.roots = h.roots /\ g.published = n
        BY <2>1, <4>1 DEF Holds
      <4>4. g.finalized = h.finalized
        BY <2>1 DEF Holds
      <4> QED
        BY <2>2, <4>2, <4>3, <4>4
    <3>3. m \in Markers /\ m.cohort = p
      BY <2>1, <2>2 DEF Markers, Holds
    <3>4. /\ hold'[p] = g /\ \A q \in Procs \ {p} : hold'[q] = hold[q]
          /\ marker'[r] = m /\ \A s \in Roots \ {r} : marker'[s] = marker[s]
      BY <2>3, <3>1 DEF TypeOK
    <3>5. TypeOK'
      BY <2>3, <2>5, <3>1, <3>2, <3>3 DEF TypeOK
    <3>6. OpenRecord' /\ Proved'
      BY <2>5 DEF OpenRecord, Proved
    <3>7. Quiescent'
      BY <2>2, <2>5, <3>3, <3>4 DEF Quiescent
    <3>8. Began'
      <4>1. n < Len(h.roots) \/ n = Len(h.roots)
        BY <2>3
      <4>2. \A s \in Roots : marker'[s].cohort = p => s \in Range(h.roots)
        BY <2>1, <2>2, <2>3, <3>4 DEF Began, BeganBy, held_roots
      <4>3. held_roots(p)' = Range(h.roots)
        BY <3>2, <3>4 DEF held_roots
      <4>4. \A q \in Procs \ {p} : held_roots(q)' = held_roots(q)
        BY <3>4 DEF held_roots
      <4>5. \A q \in Procs \ {p} : \A s \in Roots : marker'[s].cohort = q => marker[s].cohort = q
        BY <3>3, <3>4
      <4>6. ASSUME NEW q \in Procs \ {p} PROVE BeganBy(q)'
        BY <2>5, <3>4, <4>4, <4>5 DEF Began, BeganBy
      <4>7. BeganBy(p)'
        BY <2>2, <2>3, <2>5, <3>2, <3>4, <4>1, <4>2, <4>3 DEF BeganBy
      <4> QED
        BY <4>6, <4>7 DEF Began
    <3>9. ReadClean'
      <4> SUFFICES ASSUME NEW q \in Procs, collect[q] # NoCollection,
                          NEW i \in 1..Len(hold[q].roots), Clean(q, i)
                   PROVE  Clean(q, i)'
        BY <2>4, <2>5, <3>4 DEF ReadClean
      <4>1. q # p /\ hold'[q] = hold[q]
        BY <2>4, <3>4
      <4>2. hold[q] \in Holds
        BY DEF ReadClean, TypeOK, NoHold
      <4>3. hold[q].cohort # p
        BY <2>2, <4>1, <4>2 DEF Began, BeganBy
      <4>4. hold[q].roots[i] \in Roots
        BY <4>2, VectorRoots DEF Holds
      <4> QED
        BY <2>5, <3>3, <3>4, <4>1, <4>3, <4>4 DEF Clean
    <3> QED
      BY <3>5, <3>6, <3>7, <3>8, <3>9
  <2>7. CASE marker[r] # NoMarker
    <3> DEFINE g == [h EXCEPT !.at = "partial"]
    <3>1. marker' = marker /\ hold' = [hold EXCEPT ![p] = g]
      BY <1>2, <2>7 DEF publish_marker
    <3>2. g \in Holds /\ g.cohort = p /\ g.roots = h.roots /\ ~g.finalized /\ g.at = "partial"
      BY <2>1, <2>2 DEF Holds
    <3>3. hold'[p] = g /\ \A q \in Procs \ {p} : hold'[q] = hold[q]
      BY <3>1 DEF TypeOK
    <3>4. TypeOK'
      BY <2>5, <3>1, <3>2 DEF TypeOK
    <3>5. OpenRecord' /\ Proved' /\ Quiescent'
      BY <2>5, <3>1 DEF OpenRecord, Proved, Quiescent
    <3>6. Began'
      BY <2>1, <2>2, <2>5, <3>1, <3>2, <3>3 DEF Began, BeganBy, held_roots
    <3>7. ReadClean'
      BY <2>4, <2>5, <3>1, <3>3 DEF ReadClean, Clean
    <3> QED
      BY <3>4, <3>5, <3>6, <3>7
  <2> QED
    BY <2>6, <2>7
<1> QED
  BY <1>1, <1>2

\* An acknowledgement adds to the hold.
LEMMA AcknowledgeStep ==
  ASSUME IInv, NEW p \in Procs, NEW r \in Roots, acknowledge(p, r)
  PROVE  IInv'
<1> USE Placeholders DEF IInv
<1> DEFINE h == hold[p]
           g == [h EXCEPT !.acked = @ \cup {r}]
<1>1. hold' = [hold EXCEPT ![p] = g] /\ UNCHANGED <<life, marker, lease, receipt, prep, thread, collect, proof>>
  BY DEF acknowledge, disk
<1>2. h \in Holds
  BY DEF acknowledge, check_hold, TypeOK, NoHold
<1>3. /\ g \in Holds /\ g.at = h.at /\ g.cohort = h.cohort /\ g.roots = h.roots
      /\ g.published = h.published /\ g.finalized = h.finalized
  BY <1>2 DEF Holds
<1>4. TypeOK' /\ hold'[p] = g /\ \A q \in Procs \ {p} : hold'[q] = hold[q]
  BY <1>1, <1>3 DEF TypeOK
<1>5. OpenRecord' /\ Proved' /\ Quiescent'
  BY <1>1 DEF OpenRecord, Proved, Quiescent
<1>6. Began'
  BY <1>1, <1>2, <1>3, <1>4 DEF Began, BeganBy, held_roots
<1>7. ReadClean'
  BY <1>1, <1>3, <1>4 DEF ReadClean, Clean
<1> QED
  BY <1>4, <1>5, <1>6, <1>7

\* The steps of finalize() change the collection only.  A root that is read
\* clean has nobody inside, whose record would be open.
LEMMA CollectStep ==
  ASSUME IInv, NEW p \in Procs,
         finalize_start(p) \/ finalize_read(p) \/ \E known \in BOOLEAN : finalize_close(p, known)
  PROVE  IInv'
<1> USE Placeholders DEF IInv
<1>1. UNCHANGED <<life, marker, lease, receipt, prep, thread, hold, proof>>
  BY DEF finalize_start, finalize_read, finalize_close, disk
<1>2. OpenRecord' /\ Proved' /\ Quiescent' /\ Began'
  BY <1>1 DEF OpenRecord, Proved, Quiescent, Began, BeganBy, held_roots
<1>3. \A q \in Procs, i \in Nat : Clean(q, i)' <=> Clean(q, i)
  BY <1>1 DEF Clean
<1>4. TypeOK' /\ ReadClean'
  <2>1. CASE finalize_start(p)
    <3> DEFINE c == [next |-> 1, clean |-> TRUE, drained |-> FALSE]
    <3>1. c \in Collections /\ collect' = [collect EXCEPT ![p] = c]
      BY <2>1 DEF finalize_start, Collections
    <3>2. hold[p].at = "current" /\ hold[p] \in Holds
      BY <2>1 DEF finalize_start, check_hold, TypeOK, NoHold
    <3>3. Len(hold[p].roots) \in Nat
      BY <3>2, VectorRoots DEF Holds
    <3>4. TypeOK' /\ collect'[p] = c /\ \A q \in Procs \ {p} : collect'[q] = collect[q]
      BY <1>1, <3>1 DEF TypeOK
    <3>5. ReadClean'
      BY <1>1, <1>3, <3>2, <3>3, <3>4 DEF ReadClean
    <3> QED
      BY <3>4, <3>5
  <2>2. CASE finalize_read(p)
    <3> DEFINE n == collect[p].next
               r == hold[p].roots[n]
    <3>1. collect[p] \in Collections /\ n \in 1..Len(hold[p].roots)
      BY <2>2 DEF finalize_read, TypeOK
    <3>2. hold[p].at = "current" /\ hold[p] \in Holds
      BY <3>1 DEF ReadClean, TypeOK, NoHold
    <3>3. Len(hold[p].roots) \in Nat /\ r \in Roots /\ n \in Nat
      BY <3>1, <3>2, VectorRoots DEF Holds, Collections
    <3>4. PICK k \in BOOLEAN :
            /\ collect' = [collect EXCEPT ![p] = [collect[p] EXCEPT !.next = n + 1, !.clean = k]]
            /\ k => collect[p].clean /\ ~issues(p, r)
      <4>1. collect' = [collect EXCEPT ![p] = [collect[p] EXCEPT !.next = n + 1,
                          !.clean = collect[p].clean /\ ~issues(p, r)]]
        BY <2>2 DEF finalize_read
      <4>2. (collect[p].clean /\ ~issues(p, r)) \in BOOLEAN
        OBVIOUS
      <4> QED
        BY <4>1, <4>2, Zenon
    <3> DEFINE c == [collect[p] EXCEPT !.next = n + 1, !.clean = k]
    <3>5. k => Clean(p, n)
      <4> SUFFICES ASSUME k, NEW q \in Procs, thread[q].at = "inside", thread[q].root = r PROVE FALSE
        BY DEF Clean
      <4>0. ~issues(p, r)
        BY <3>4
      <4>1. thread[q] \in Threads /\ thread[q].op \in Ops
        BY DEF TypeOK, Threads, Idle
      <4>2. lease[r][thread[q].op] = [proc |-> q, outcome |-> "active"]
        BY DEF OpenRecord
      <4>3. lease[r][thread[q].op] # NoLease /\ lease[r][thread[q].op].outcome \notin Terminal
        BY <4>2 DEF NoLease, Terminal
      <4>4. issues(p, r)
        BY <4>1, <4>3 DEF issues, issue
      <4> QED
        BY <4>0, <4>4
    <3>6. c \in Collections /\ c.next = n + 1 /\ c.clean = k /\ c.drained = collect[p].drained
      <4>1. c.next = n + 1 /\ c.drained = collect[p].drained
        BY <3>1 DEF Collections
      <4>2. c.clean = k
        BY <3>1 DEF Collections
      <4>3. c \in Collections
        <5>1. \A m \in Nat : [collect[p] EXCEPT !.next = m, !.clean = k] \in Collections
          BY <3>1 DEF Collections
        <5>2. n + 1 \in Nat
          BY <3>3
        <5> QED
          BY <5>1, <5>2, Zenon
      <4> QED
        BY <4>1, <4>2, <4>3
    <3>7. TypeOK' /\ collect'[p] = c /\ \A q \in Procs \ {p} : collect'[q] = collect[q]
      BY <1>1, <3>4, <3>6 DEF TypeOK
    <3>8. ~collect[p].drained
      BY <3>1, <3>3 DEF ReadClean
    <3>9. k => \A i \in 1..Len(hold[p].roots) : i < n + 1 => Clean(p, i)
      <4> SUFFICES ASSUME k, NEW i \in 1..Len(hold[p].roots), i < n + 1 PROVE Clean(p, i)
        OBVIOUS
      <4>1. i < n \/ i = n
        BY <3>3
      <4> QED
        BY <3>1, <3>4, <3>5, <4>1 DEF ReadClean
    <3>10. ReadClean'
      <4>1. \A i \in 1..Len(hold[p].roots) : i \in Nat
        BY <3>3
      <4>2. ASSUME NEW q \in Procs \ {p}, collect[q] # NoCollection
            PROVE  \A i \in 1..Len(hold[q].roots) : i \in Nat
        BY VectorRoots DEF ReadClean, TypeOK, NoHold, Holds
      <4> HIDE DEF c
      <4> QED
        BY <1>1, <1>3, <3>2, <3>6, <3>7, <3>8, <3>9, <4>1, <4>2 DEF ReadClean
    <3> QED
      BY <3>7, <3>10
  <2>3. ASSUME NEW known \in BOOLEAN, finalize_close(p, known) PROVE TypeOK' /\ ReadClean'
    <3>1. collect[p] \in Collections /\ collect[p].next > Len(hold[p].roots)
      BY <2>3 DEF finalize_close, TypeOK
    <3>2. hold[p].at = "current" /\ hold[p] \in Holds
      BY <3>1 DEF ReadClean, TypeOK, NoHold
    <3>3. Len(hold[p].roots) \in Nat
      BY <3>2, VectorRoots DEF Holds
    <3>4. CASE collect' = [collect EXCEPT ![p] = NoCollection]
      <4>1. TypeOK' /\ collect'[p] = NoCollection /\ \A q \in Procs \ {p} : collect'[q] = collect[q]
        BY <1>1, <3>4 DEF TypeOK
      <4>2. ReadClean'
        BY <1>1, <4>1 DEF ReadClean, Clean
      <4> QED
        BY <4>1, <4>2
    <3>5. CASE collect[p].clean /\ collect' = [collect EXCEPT ![p].drained = TRUE]
      <4> DEFINE c == [collect[p] EXCEPT !.drained = TRUE]
      <4>1. c \in Collections /\ c.next = collect[p].next /\ c.clean = collect[p].clean
        BY <3>1 DEF Collections
      <4>2. TypeOK' /\ collect'[p] = c /\ \A q \in Procs \ {p} : collect'[q] = collect[q]
        BY <1>1, <3>5, <4>1 DEF TypeOK
      <4>3. ReadClean'
        BY <1>1, <1>3, <3>1, <3>2, <3>3, <3>5, <4>1, <4>2 DEF ReadClean
      <4> QED
        BY <4>2, <4>3
    <3> QED
      BY <2>3, <3>4, <3>5 DEF finalize_close
  <2> QED
    BY <2>1, <2>2, <2>3
<1> QED
  BY <1>2, <1>4

\* The receipt: every root of the vector was read clean under the markers that
\* still stand, and the cohort has marked no other root.
LEMMA PersistStep ==
  ASSUME IInv, NEW p \in Procs, persist_finalized(p)
  PROVE  IInv'
<1> USE Placeholders DEF IInv
<1> DEFINE h == hold[p]
           g == [h EXCEPT !.finalized = TRUE]
<1>1. /\ receipt' = [receipt EXCEPT ![h.cohort] = TRUE]
      /\ hold' = [hold EXCEPT ![p] = g]
      /\ collect' = [collect EXCEPT ![p] = NoCollection]
      /\ UNCHANGED <<life, marker, lease, prep, thread, proof>>
  BY DEF persist_finalized
<1>2. h \in Holds /\ h.at = "current" /\ ~receipt[h.cohort] /\ markers_of(h.cohort, h.roots)
  BY DEF persist_finalized, check_hold, TypeOK, NoHold
<1>3. h.cohort = p
  BY <1>2 DEF Began, BeganBy
<1>4. /\ g \in Holds /\ g.at = h.at /\ g.cohort = h.cohort /\ g.roots = h.roots
  BY <1>2 DEF Holds
<1>5. TypeOK' /\ hold'[p] = g /\ (\A q \in Procs \ {p} : hold'[q] = hold[q])
      /\ collect'[p] = NoCollection /\ (\A q \in Procs \ {p} : collect'[q] = collect[q])
      /\ receipt'[p] /\ \A q \in Procs \ {p} : receipt'[q] = receipt[q]
  BY <1>1, <1>3, <1>4 DEF TypeOK
<1>6. OpenRecord' /\ Proved'
  BY <1>1, <1>5 DEF OpenRecord, Proved, TypeOK, Proofs
<1>7. Began'
  <2>1. \A q \in Procs : held_roots(q)' = held_roots(q)
    <3> HIDE DEF g
    <3>1. held_roots(p)' = Range(g.roots) /\ held_roots(p) = Range(h.roots)
      BY <1>2, <1>4, <1>5 DEF held_roots
    <3>2. \A q \in Procs \ {p} : held_roots(q)' = held_roots(q)
      BY <1>5 DEF held_roots
    <3> QED
      BY <1>4, <3>1, <3>2
  <2>2. ASSUME NEW q \in Procs \ {p} PROVE BeganBy(q)'
    <3>1. BeganBy(q) /\ hold'[q] = hold[q] /\ marker' = marker /\ held_roots(q)' = held_roots(q)
      BY <1>1, <1>5, <2>1 DEF Began
    <3>2. receipt'[q] <=> receipt[q]
      BY <1>5
    <3>3. hold[q] # NoHold /\ receipt[hold[q].cohort] => receipt'[hold[q].cohort]
      BY <1>5 DEF TypeOK, Holds
    <3> QED
      BY <3>1, <3>2, <3>3 DEF BeganBy
  <2>3. BeganBy(p)'
    BY <1>1, <1>2, <1>3, <1>4, <1>5, <2>1 DEF Began, BeganBy
  <2> QED
    BY <2>2, <2>3 DEF Began
<1>8. ReadClean'
  BY <1>1, <1>5 DEF ReadClean, Clean
<1>9. Quiescent'
  <2> SUFFICES ASSUME NEW r \in Roots, marker[r] # NoMarker, receipt'[marker[r].cohort]
               PROVE  \A q \in Procs : ~(thread[q].at = "inside" /\ thread[q].root = r)
    BY <1>1 DEF Quiescent
  <2>1. marker[r] \in Markers /\ marker[r].cohort \in Procs
    BY DEF TypeOK
  <2>2. CASE marker[r].cohort # p
    BY <1>5, <2>1, <2>2 DEF Quiescent
  <2>3. CASE marker[r].cohort = p
    <3>1. r \in Range(h.roots)
      BY <1>2, <1>3, <2>3 DEF Began, BeganBy, held_roots
    <3>2. PICK i \in 1..Len(h.roots) : h.roots[i] = r
      BY <1>2, <3>1, VectorRoots DEF Holds
    <3>3. collect[p] \in Collections /\ collect[p].clean /\ collect[p].next > Len(h.roots)
      <4>1. collect[p] # NoCollection /\ collect[p].drained
        BY DEF persist_finalized
      <4> QED
        BY <4>1 DEF ReadClean, TypeOK
    <3>4. i < collect[p].next
      <4>1. Len(h.roots) \in Nat
        BY <1>2, VectorRoots DEF Holds
      <4>2. collect[p].next \in Nat
        BY <3>3 DEF Collections
      <4> QED
        BY <3>3, <4>1, <4>2
    <3>5. Clean(p, i)
      BY <3>3, <3>4 DEF ReadClean
    <3> QED
      BY <1>3, <2>3, <3>2, <3>5 DEF Clean
  <2> QED
    BY <2>2, <2>3
<1> QED
  BY <1>5, <1>6, <1>7, <1>8, <1>9

\* Removing a marker weakens what has to hold.
LEMMA ReleaseMarkerStep ==
  ASSUME IInv, NEW p \in Procs, release_marker(p)
  PROVE  IInv'
<1> USE Placeholders DEF IInv
<1>1. hold[p] \in Holds /\ hold[p].roots \in Vectors
  BY DEF release_marker, TypeOK, NoHold, Holds
<1>2. UNCHANGED <<life, lease, receipt, prep, thread, proof>>
  BY DEF release_marker
<1>3. OpenRecord' /\ Proved'
  BY <1>2 DEF OpenRecord, Proved
<1>4. CASE UNCHANGED <<hold, collect>> /\ \E r \in Roots : marker' = [marker EXCEPT ![r] = NoMarker]
  <2>1. PICK r \in Roots : marker' = [marker EXCEPT ![r] = NoMarker]
    BY <1>4
  <2>2. TypeOK' /\ marker'[r] = NoMarker /\ \A s \in Roots \ {r} : marker'[s] = marker[s]
    BY <1>2, <1>4, <2>1 DEF TypeOK
  <2>3. Quiescent'
    BY <1>2, <2>2 DEF Quiescent
  <2>4. Began'
    BY <1>2, <1>4, <2>2 DEF Began, BeganBy, held_roots
  <2>5. ReadClean'
    <3> SUFFICES ASSUME NEW q \in Procs, collect[q] # NoCollection,
                        NEW i \in 1..Len(hold[q].roots), Clean(q, i)
                 PROVE  Clean(q, i)'
      BY <1>4 DEF ReadClean
    <3>1. hold[q] \in Holds
      BY DEF ReadClean, TypeOK, NoHold
    <3>2. hold[q].roots[i] \in Roots /\ hold[q].cohort \in Procs
      BY <3>1, VectorRoots DEF Holds
    <3> QED
      BY <1>2, <1>4, <2>2, <3>2 DEF Clean
  <2> QED
    BY <1>3, <2>2, <2>3, <2>4, <2>5
<1>5. CASE /\ hold' = [hold EXCEPT ![p] = NoHold]
           /\ collect' = [collect EXCEPT ![p] = NoCollection]
           /\ UNCHANGED marker
  <2>1. TypeOK' /\ hold'[p] = NoHold /\ (\A q \in Procs \ {p} : hold'[q] = hold[q])
        /\ collect'[p] = NoCollection /\ (\A q \in Procs \ {p} : collect'[q] = collect[q])
    BY <1>2, <1>5 DEF TypeOK
  <2>2. Quiescent' /\ Began' /\ ReadClean'
    BY <1>2, <1>5, <2>1 DEF Quiescent, Began, BeganBy, held_roots, ReadClean, Clean
  <2> QED
    BY <1>3, <2>1, <2>2
<1> QED
  BY <1>1, <1>4, <1>5, VectorRoots DEF release_marker

\* Recovery works on a cohort that has its receipt and adds no receipt.
LEMMA RecoverStep ==
  ASSUME IInv, NEW p \in Procs, Recover(p)
  PROVE  IInv'
<1> USE Placeholders DEF IInv
<1>1. CASE persist_preparation(p)
  <2>1. TypeOK'
    <3>1. hold[p].cohort \in Procs
      BY <1>1 DEF persist_preparation, check_hold, TypeOK, NoHold, Holds
    <3>2. [owner |-> p, version |-> 1] \in Preparations
      BY DEF Preparations
    <3> QED
      BY <1>1, <3>1, <3>2 DEF persist_preparation, TypeOK
  <2> QED
    BY <1>1, <2>1 DEF persist_preparation, OpenRecord, Quiescent, Began, BeganBy, held_roots,
       Proved, ReadClean, Clean
<1>2. ASSUME NEW c \in Procs, NEW v \in Vectors, prepare_recovery(p, c, v) PROVE IInv'
  <2> DEFINE f == [cohort |-> c, roots |-> v, predecessor |-> prep[c], raw |-> prep[c]]
  <2>1. proof' = [proof EXCEPT ![p] = f] /\ UNCHANGED <<life, marker, lease, receipt, prep, thread, hold, collect>>
    BY <1>2 DEF prepare_recovery, disk
  <2>2. f \in Proofs
    BY <1>2 DEF prepare_recovery, TypeOK, Proofs
  <2>3. TypeOK' /\ proof'[p] = f /\ \A q \in Procs \ {p} : proof'[q] = proof[q]
    BY <2>1, <2>2 DEF TypeOK
  <2>4. c # p /\ receipt[c]
    BY <1>2 DEF prepare_recovery, absent, valid_evidence
  <2>5. Proved'
    BY <2>1, <2>3, <2>4 DEF Proved
  <2> QED
    BY <2>1, <2>3, <2>5 DEF OpenRecord, Quiescent, Began, BeganBy, held_roots, ReadClean, Clean
<1>3. CASE persist_successor(p)
  <2> DEFINE f == proof[p]
             s == [owner |-> p, version |-> f.predecessor.version + 1]
             g == [f EXCEPT !.raw = s]
  <2>1. /\ prep' = [prep EXCEPT ![f.cohort] = s]
        /\ proof' = [proof EXCEPT ![p] = g]
        /\ UNCHANGED <<life, marker, lease, receipt, thread, hold, collect>>
    BY <1>3 DEF persist_successor
  <2>2. f \in Proofs
    BY <1>3 DEF persist_successor, TypeOK
  <2>3. s \in Preparations
    <3>1. f.predecessor \in Preparations
      BY <2>2 DEF Proofs
    <3>2. f.predecessor.version + 1 \in Nat
      BY <3>1 DEF Preparations
    <3> QED
      BY <3>2 DEF Preparations
  <2> HIDE DEF s
  <2>4. g \in Proofs /\ g.cohort = f.cohort
    BY <2>2, <2>3 DEF Proofs
  <2>5. TypeOK' /\ proof'[p] = g /\ \A q \in Procs \ {p} : proof'[q] = proof[q]
    BY <2>1, <2>2, <2>3, <2>4 DEF TypeOK, Proofs
  <2>6. Proved'
    BY <2>1, <2>2, <2>4, <2>5 DEF Proved
  <2> QED
    BY <2>1, <2>5, <2>6 DEF OpenRecord, Quiescent, Began, BeganBy, held_roots, ReadClean, Clean
<1>4. CASE adopt_hold(p)
  <2> DEFINE f == proof[p]
             h == [at |-> "current", cohort |-> f.cohort, roots |-> f.roots,
                   published |-> Len(f.roots), acked |-> Range(f.roots), finalized |-> TRUE]
  <2>1. hold' = [hold EXCEPT ![p] = h] /\ UNCHANGED <<life, marker, lease, receipt, prep, thread, collect, proof>>
    BY <1>4 DEF adopt_hold, disk
  <2>2. f \in Proofs /\ f.cohort \in Procs /\ f.roots \in Vectors /\ f.cohort # p /\ receipt[f.cohort]
    BY <1>4 DEF adopt_hold, TypeOK, Proved, Proofs
  <2>3. h \in Holds
    BY <2>2, VectorRoots DEF Holds
  <2>4. hold[p] = NoHold /\ collect[p] = NoCollection
    BY <1>4 DEF adopt_hold, ReadClean, NoHold
  <2>5. TypeOK' /\ hold'[p] = h /\ \A q \in Procs \ {p} : hold'[q] = hold[q]
    BY <2>1, <2>3 DEF TypeOK
  <2>6. Began'
    BY <2>1, <2>2, <2>5 DEF Began, BeganBy, held_roots
  <2>7. ReadClean'
    BY <2>1, <2>4, <2>5 DEF ReadClean, Clean
  <2> QED
    BY <2>1, <2>5, <2>6, <2>7 DEF OpenRecord, Quiescent, Proved
<1> QED
  BY <1>1, <1>2, <1>3, <1>4 DEF Recover

\* Every step keeps the inductive invariant.
LEMMA NextIInv == IInv /\ [Next]_vars => IInv'
<1> SUFFICES ASSUME IInv, [Next]_vars PROVE IInv'
  OBVIOUS
<1>1. CASE UNCHANGED vars
  BY <1>1 DEF vars, disk, IInv, TypeOK, OpenRecord, Quiescent, Began, BeganBy, held_roots,
     Proved, ReadClean, Clean
<1>2. ASSUME NEW p \in Procs, Hold(p) PROVE IInv'
  BY <1>2, BeginStep, AcknowledgeStep, CollectStep, PersistStep, ReleaseMarkerStep DEF Hold
<1> QED
  BY <1>1, <1>2, DieStep, OperateStep, RecoverStep DEF Next

\* The variables of the registry and its files keep their types.
THEOREM TypeCorrect == Spec => []TypeOK
<1>1. IInv => TypeOK
  BY DEF IInv
<1> QED
  BY <1>1, InitIInv, NextIInv, PTL DEF Spec

\* A drained root has nobody inside for as long as the cohort's marker stands:
\* acquire() looks at the marker again after it has published its record, and
\* finalize() reads the records after the markers were published.
THEOREM DrainedStaysQuiet == Spec => []Quiescent
<1>1. IInv => Quiescent
  BY DEF IInv
<1> QED
  BY <1>1, InitIInv, NextIInv, PTL DEF Spec

---------------------------------------------------------------------------
(* Who is in charge of a hold, and what becomes of records and markers.    *)

\* Only a living process has an operation in hand.
Alive(p) == thread[p] # Idle => life[p] = "up"

\* A proof is about a cohort whose process has died, and the successor it has
\* persisted is its own.
Successor(p) ==
  proof[p] # NoProof =>
    /\ life[proof[p].cohort] = "dead"
    /\ proof[p].raw # proof[p].predecessor => proof[p].raw.owner = p

\* A hold of another process's cohort was adopted, with a persisted successor.
Adopted(p) ==
  hold[p] # NoHold /\ hold[p].cohort # p =>
    /\ proof[p] # NoProof
    /\ proof[p].cohort = hold[p].cohort
    /\ proof[p].raw # proof[p].predecessor

Recovered == \A p \in Procs : Alive(p) /\ Successor(p) /\ Adopted(p)

\* An operation changes the thread of a living process only.
LEMMA OperateRecovered ==
  ASSUME IInv, Recovered, NEW p \in Procs, Operate(p)
  PROVE  Recovered'
<1>1. UNCHANGED <<life, hold, proof>>
  BY DEF Operate, acquire_check, acquire_publish, acquire_recheck, expire, close, disk
<1>2. \A q \in Procs \ {p} : thread'[q] = thread[q]
  BY DEF Operate, acquire_check, acquire_publish, acquire_recheck, expire, close, release, IInv, TypeOK
<1>3. life[p] = "up"
  BY DEF Operate, acquire_check, acquire_publish, acquire_recheck, expire, close, unlocked,
     Recovered, Alive, Idle
<1> QED
  BY <1>1, <1>2, <1>3 DEF Recovered, Alive, Successor, Adopted

\* A hold that is not adopted is begun for the process's own cohort, and its
\* cohort does not change.
LEMMA HoldRecovered ==
  ASSUME IInv, Recovered, NEW p \in Procs, Hold(p)
  PROVE  Recovered'
<1>1. UNCHANGED <<life, thread, proof>>
  BY DEF Hold, begin_hold, publish_marker, acknowledge, finalize_start, finalize_read,
     finalize_close, persist_finalized, release_marker, disk
<1>2. \A q \in Procs \ {p} : hold'[q] = hold[q]
  BY DEF Hold, begin_hold, publish_marker, acknowledge, finalize_start, finalize_read,
     finalize_close, persist_finalized, release_marker, disk, IInv, TypeOK
<1>3. \/ hold'[p] = NoHold
      \/ hold'[p].cohort = p
      \/ hold[p] # NoHold /\ hold'[p].cohort = hold[p].cohort
  <2>1. ASSUME NEW v \in Vectors, begin_hold(p, v) PROVE hold'[p].cohort = p
    BY <2>1 DEF begin_hold, IInv, TypeOK
  <2>2. ASSUME hold[p] \in Holds, publish_marker(p) \/ (\E r \in Roots : acknowledge(p, r)) \/ persist_finalized(p)
        PROVE  hold'[p].cohort = hold[p].cohort
    BY <2>2 DEF publish_marker, acknowledge, persist_finalized, IInv, TypeOK, Holds
  <2>3. CASE publish_marker(p) \/ (\E r \in Roots : acknowledge(p, r)) \/ persist_finalized(p)
    <3>1. hold[p] \in Holds /\ hold[p] # NoHold
      BY <2>3, Placeholders DEF publish_marker, acknowledge, persist_finalized, check_hold, IInv, TypeOK, NoHold
    <3> QED
      BY <2>2, <2>3, <3>1
  <2>4. CASE finalize_start(p) \/ finalize_read(p) \/ \E known \in BOOLEAN : finalize_close(p, known)
    BY <2>4 DEF finalize_start, finalize_read, finalize_close
  <2>5. CASE release_marker(p)
    BY <2>5 DEF release_marker, IInv, TypeOK
  <2> QED
    BY <2>1, <2>3, <2>4, <2>5 DEF Hold
<1> QED
  BY <1>1, <1>2, <1>3 DEF Recovered, Alive, Successor, Adopted

\* Recovery takes over from dead processes, one proof at a time.
LEMMA RecoverRecovered ==
  ASSUME IInv, Recovered, NEW p \in Procs, Recover(p)
  PROVE  Recovered'
<1> USE Placeholders
<1>1. UNCHANGED <<life, thread>>
  BY DEF Recover, persist_preparation, prepare_recovery, persist_successor, adopt_hold
<1>2. CASE persist_preparation(p)
  BY <1>1, <1>2 DEF persist_preparation, Recovered, Alive, Successor, Adopted
<1>3. ASSUME NEW c \in Procs, NEW v \in Vectors, prepare_recovery(p, c, v) PROVE Recovered'
  <2>1. /\ UNCHANGED hold
        /\ hold[p] = NoHold
        /\ life[c] = "dead"
        /\ \A q \in Procs \ {p} : proof'[q] = proof[q]
        /\ proof'[p] = [cohort |-> c, roots |-> v, predecessor |-> prep[c], raw |-> prep[c]]
    BY <1>3 DEF prepare_recovery, absent, IInv, TypeOK
  <2> QED
    BY <1>1, <2>1 DEF Recovered, Alive, Successor, Adopted
<1>4. CASE persist_successor(p)
  <2> DEFINE s == [owner |-> p, version |-> proof[p].predecessor.version + 1]
  <2>1. proof[p] \in Proofs
    BY <1>4 DEF persist_successor, IInv, TypeOK
  <2>2. /\ UNCHANGED hold
        /\ proof[p].raw = proof[p].predecessor
        /\ \A q \in Procs \ {p} : proof'[q] = proof[q]
        /\ proof'[p] = [proof[p] EXCEPT !.raw = s]
    BY <1>4 DEF persist_successor, IInv, TypeOK
  <2>3. s # proof[p].predecessor
    <3>1. proof[p].predecessor \in Preparations
      BY <2>1 DEF Proofs
    <3>2. proof[p].predecessor.version \in Nat
      BY <3>1 DEF Preparations
    <3>3. s.version # proof[p].predecessor.version
      BY <3>2
    <3> QED
      BY <3>3
  <2>4. s.owner = p
    OBVIOUS
  <2> HIDE DEF s
  <2>5. /\ proof'[p].cohort = proof[p].cohort
        /\ proof'[p].predecessor = proof[p].predecessor
        /\ proof'[p].raw = s
    BY <2>1, <2>2 DEF Proofs
  <2>6. Adopted(p)' /\ Successor(p)'
    BY <1>1, <1>4, <2>2, <2>3, <2>4, <2>5 DEF persist_successor, Recovered, Successor, Adopted
  <2>7. ASSUME NEW q \in Procs \ {p} PROVE Adopted(q)' /\ Successor(q)'
    <3>1. proof'[q] = proof[q] /\ hold' = hold /\ life' = life
      BY <1>1, <2>2
    <3> QED
      BY <3>1 DEF Recovered, Successor, Adopted
  <2>8. \A q \in Procs : Alive(q)'
    BY <1>1 DEF Recovered, Alive
  <2> QED
    BY <2>6, <2>7, <2>8 DEF Recovered
<1>5. CASE adopt_hold(p)
  <2>1. /\ UNCHANGED proof
        /\ proof[p] # NoProof /\ proof[p].raw # proof[p].predecessor
        /\ \A q \in Procs \ {p} : hold'[q] = hold[q]
        /\ hold'[p].cohort = proof[p].cohort
    BY <1>5 DEF adopt_hold, IInv, TypeOK
  <2> QED
    BY <1>1, <2>1 DEF Recovered, Alive, Successor, Adopted
<1> QED
  BY <1>2, <1>3, <1>4, <1>5 DEF Recover

\* A process that dies forgets its operation, its hold and its proof.
LEMMA DieRecovered ==
  ASSUME IInv, Recovered, NEW p \in Procs, die(p)
  PROVE  Recovered'
<1>1. thread'[p] = Idle /\ hold'[p] = NoHold /\ proof'[p] = NoProof
  BY DEF die, IInv, TypeOK
<1>2. \A q \in Procs \ {p} :
        thread'[q] = thread[q] /\ hold'[q] = hold[q] /\ proof'[q] = proof[q] /\ life'[q] = life[q]
  BY DEF die, IInv, TypeOK
<1>3. \A q \in Procs : life[q] = "dead" => life'[q] = "dead"
  BY DEF die, IInv, TypeOK
<1>4. \A q \in Procs : proof[q] # NoProof => proof[q].cohort \in Procs
  BY DEF IInv, TypeOK, Proofs
<1> QED
  BY <1>1, <1>2, <1>3, <1>4 DEF Recovered, Alive, Successor, Adopted

\* Both invariants hold in every reachable state.
LEMMA Invariance == Spec => [](IInv /\ Recovered)
<1>1. Init => Recovered
  BY DEF Init, Recovered, Alive, Successor, Adopted
<1>2. IInv /\ Recovered /\ [Next]_vars => Recovered'
  <2> SUFFICES ASSUME IInv, Recovered, [Next]_vars PROVE Recovered'
    OBVIOUS
  <2>1. CASE UNCHANGED vars
    BY <2>1 DEF vars, Recovered, Alive, Successor, Adopted
  <2> QED
    BY <2>1, DieRecovered, OperateRecovered, HoldRecovered, RecoverRecovered DEF Next
<1> QED
  BY <1>1, <1>2, InitIInv, NextIInv, PTL DEF Spec

\* However often a hold is lost and recovered, and by however many processes at
\* once, at most one process finds itself in charge of a held root: the others
\* have died or find that the preparation names another successor.
THEOREM HeldByOne == Spec => []OneHolder
<1>1. ASSUME IInv, Recovered PROVE OneHolder
  <2> USE Placeholders
  <2> SUFFICES ASSUME NEW p \in Procs, NEW q \in Procs, check_hold(p), check_hold(q),
                      held_roots(p) \cap held_roots(q) # {}
               PROVE  p = q
    BY DEF OneHolder
  <2>1. hold[p] \in Holds /\ hold[q] \in Holds /\ life[p] = "up" /\ life[q] = "up"
    BY <1>1 DEF check_hold, unlocked, IInv, TypeOK, NoHold
  <2>2. PICK r \in Range(hold[p].roots) : r \in Range(hold[q].roots)
    BY <2>1 DEF held_roots
  <2>3. /\ marker[r] = [cohort |-> hold[p].cohort, roots |-> hold[p].roots]
        /\ marker[r] = [cohort |-> hold[q].cohort, roots |-> hold[q].roots]
    BY <2>2 DEF check_hold, markers_of
  <2>4. hold[p].cohort = hold[q].cohort
    BY <2>3
  <2>5. CASE hold[p].cohort = p /\ hold[q].cohort # q
    BY <1>1, <2>1, <2>4, <2>5 DEF Recovered, Adopted, Successor
  <2>6. CASE hold[p].cohort # p /\ hold[q].cohort = q
    BY <1>1, <2>1, <2>4, <2>6 DEF Recovered, Adopted, Successor
  <2>7. CASE hold[p].cohort # p /\ hold[q].cohort # q
    <3>1. proof[p] # NoProof /\ proof[p].raw.owner = p /\ proof[q] # NoProof /\ proof[q].raw.owner = q
      BY <1>1, <2>1, <2>7 DEF Recovered, Adopted, Successor
    <3>2. prep[hold[p].cohort] = proof[p].raw /\ prep[hold[q].cohort] = proof[q].raw
      BY <3>1 DEF check_hold
    <3> QED
      BY <2>4, <3>1, <3>2
  <2> QED
    BY <2>4, <2>5, <2>6, <2>7
<1> QED
  BY <1>1, Invariance, PTL

\* A published marker is removed only after its cohort was drained, and never
\* replaced.
THEOREM MarkersStand == Spec => HoldsStand
<1> DEFINE Stands == \A r \in Roots : marker[r] # NoMarker /\ marker'[r] # marker[r] =>
                       receipt[marker[r].cohort] /\ marker'[r] = NoMarker
<1>1. ASSUME IInv, Next PROVE Stands
  <2> USE Placeholders
  <2> PICK p \in Procs : die(p) \/ Operate(p) \/ Hold(p) \/ Recover(p)
    BY <1>1 DEF Next
  <2>1. CASE publish_marker(p)
    BY <1>1, <2>1 DEF publish_marker, IInv, TypeOK
  <2>2. CASE release_marker(p)
    <3>1. hold[p] \in Holds /\ receipt[hold[p].cohort]
      BY <1>1, <2>2 DEF release_marker, IInv, TypeOK, NoHold, Began, BeganBy
    <3>2. ASSUME NEW i \in 1..Len(hold[p].roots),
                 marker[hold[p].roots[i]] = [cohort |-> hold[p].cohort, roots |-> hold[p].roots],
                 marker' = [marker EXCEPT ![hold[p].roots[i]] = NoMarker]
          PROVE  Stands
      <4>1. hold[p].roots[i] \in Roots
        BY <3>1, VectorRoots DEF Holds
      <4> QED
        BY <1>1, <3>1, <3>2, <4>1 DEF IInv, TypeOK
    <3> QED
      BY <2>2, <3>2 DEF release_marker
  <2>3. CASE ~publish_marker(p) /\ ~release_marker(p)
    <3>1. marker' = marker
      BY <2>3 DEF die, Operate, acquire_check, acquire_publish, acquire_recheck, expire, close,
         Hold, begin_hold, acknowledge, finalize_start, finalize_read, finalize_close,
         persist_finalized, Recover, persist_preparation, prepare_recovery, persist_successor,
         adopt_hold, disk
    <3> QED
      BY <3>1
  <2> QED
    BY <2>1, <2>2, <2>3
<1>2. IInv /\ [Next]_vars => [Stands]_vars
  BY <1>1
<1> QED
  BY <1>2, Invariance, PTL DEF Spec, HoldsStand

\* What one step of p may do to the lease records: create one that is absent, or
\* close the open record of p's operation; nobody but a living process does.
RecordStep(p) ==
  \A r \in Roots, o \in Ops :
    \/ lease'[r][o] = lease[r][o]
    \/ /\ life[p] = "up"
       /\ lease[r][o] = NoLease
       /\ lease'[r][o] = [proc |-> p, outcome |-> "active"]
    \/ /\ life[p] = "up"
       /\ thread[p].at \in {"published", "inside"} /\ thread[p].root = r /\ thread[p].op = o
       /\ lease[r][o] = [proc |-> p, outcome |-> "active"]
       /\ \E outcome \in Outcomes :
            /\ lease'[r][o] = [proc |-> p, outcome |-> outcome]
            /\ thread[p].at = "inside" /\ thread[p].expired => outcome = "unresolved"

\* _release closes the open record of the operation and no other.
LEMMA ReleaseRecord ==
  ASSUME IInv, Recovered, NEW p \in Procs, NEW outcome \in Outcomes, release(p, outcome),
         thread[p].at \in {"published", "inside"},
         thread[p].at = "inside" /\ thread[p].expired => outcome = "unresolved"
  PROVE  RecordStep(p)
<1> DEFINE r == thread[p].root
           o == thread[p].op
<1>1. thread[p] \in Threads /\ r \in Roots /\ o \in Ops /\ life[p] = "up"
  BY DEF IInv, TypeOK, Threads, Idle, Recovered, Alive
<1>2. lease[r][o] = [proc |-> p, outcome |-> "active"]
  BY DEF IInv, OpenRecord
<1>3. lease' = [lease EXCEPT ![r][o].outcome = outcome]
  BY DEF release
<1>4. lease'[r][o] = [proc |-> p, outcome |-> outcome]
  BY <1>1, <1>2, <1>3 DEF IInv, TypeOK
<1>5. \A s \in Roots, q \in Ops : ~(s = r /\ q = o) => lease'[s][q] = lease[s][q]
  BY <1>1, <1>3 DEF IInv, TypeOK
<1> HIDE DEF r, o
<1>6. ASSUME NEW s \in Roots, NEW q \in Ops, s = r /\ q = o
      PROVE  /\ lease[s][q] = [proc |-> p, outcome |-> "active"]
             /\ lease'[s][q] = [proc |-> p, outcome |-> outcome]
             /\ thread[p].root = s /\ thread[p].op = q
  BY <1>2, <1>4, <1>6 DEF r, o
<1> QED
  BY <1>1, <1>5, <1>6 DEF RecordStep

\* Every step does no more than that.
LEMMA EveryRecordStep ==
  ASSUME IInv, Recovered, Next
  PROVE  \E p \in Procs : RecordStep(p)
<1> USE Placeholders
<1> PICK p \in Procs : die(p) \/ Operate(p) \/ Hold(p) \/ Recover(p)
  BY DEF Next
<1>1. CASE UNCHANGED lease
  BY <1>1 DEF RecordStep
<1>2. CASE acquire_publish(p)
  <2>1. thread[p] \in Threads /\ life[p] = "up"
    BY <1>2 DEF acquire_publish, IInv, TypeOK, Idle, Recovered, Alive
  <2>2. thread[p].root \in Roots /\ thread[p].op \in Ops
    BY <2>1 DEF Threads
  <2>3. CASE lease[thread[p].root][thread[p].op] = NoLease
    <3> DEFINE r == thread[p].root
               o == thread[p].op
               l == [proc |-> p, outcome |-> "active"]
    <3>1. lease' = [lease EXCEPT ![r][o] = l]
      BY <1>2, <2>3 DEF acquire_publish
    <3>2. r \in Roots /\ o \in Ops /\ lease[r][o] = NoLease
      BY <2>2, <2>3
    <3> HIDE DEF r, o, l
    <3>3. lease'[r][o] = l /\ \A s \in Roots, q \in Ops : ~(s = r /\ q = o) => lease'[s][q] = lease[s][q]
      BY <3>1, <3>2 DEF IInv, TypeOK
    <3> QED
      BY <2>1, <3>2, <3>3 DEF RecordStep, l
  <2> QED
    BY <1>1, <1>2, <2>3 DEF acquire_publish
<1>3. CASE acquire_recheck(p)
  <2>1. CASE release(p, "failed")
    BY <1>3, <2>1, ReleaseRecord DEF acquire_recheck, Outcomes
  <2> QED
    BY <1>1, <1>3, <2>1 DEF acquire_recheck
<1>4. ASSUME NEW outcome \in Outcomes, close(p, outcome) PROVE RecordStep(p)
  BY <1>4, ReleaseRecord DEF close
<1>5. CASE ~acquire_publish(p) /\ ~acquire_recheck(p) /\ ~(\E outcome \in Outcomes : close(p, outcome))
  BY <1>1, <1>5 DEF die, Operate, acquire_check, expire, Hold, begin_hold, publish_marker, acknowledge,
     finalize_start, finalize_read, finalize_close, persist_finalized, release_marker, Recover,
     persist_preparation, prepare_recovery, persist_successor, adopt_hold, disk
<1> QED
  BY <1>2, <1>3, <1>4, <1>5

\* A lease record is created active, gets one outcome and keeps it; the record of
\* a dead process is left alone, and the operation whose lease ran out under it
\* is not committed, although it goes on and finishes.
THEOREM RecordsFinal == Spec => OutcomesFinal
<1> DEFINE Once == \A r \in Roots, o \in Ops : lease[r][o] # lease'[r][o] =>
                     \/ lease[r][o] = NoLease /\ lease'[r][o].outcome = "active"
                     \/ lease[r][o].outcome = "active" /\ lease'[r][o].proc = lease[r][o].proc
           Lost == \A p \in Procs : thread[p].at = "inside" /\ thread[p].expired =>
                     lease'[thread[p].root][thread[p].op].outcome # "committed"
           Left == \A r \in Roots, o \in Ops :
                     lease[r][o] # NoLease /\ life[lease[r][o].proc] = "dead" =>
                     lease'[r][o] = lease[r][o]
<1>1. ASSUME IInv, Recovered, Next PROVE Once /\ Lost /\ Left
  <2> USE Placeholders
  <2> PICK p \in Procs : RecordStep(p)
    BY <1>1, EveryRecordStep
  <2>1. Once
    <3> SUFFICES ASSUME NEW r \in Roots, NEW o \in Ops, lease'[r][o] # lease[r][o],
                        ~(lease[r][o] = NoLease /\ lease'[r][o] = [proc |-> p, outcome |-> "active"])
                 PROVE  lease[r][o].outcome = "active" /\ lease'[r][o].proc = lease[r][o].proc
      OBVIOUS
    <3>1. /\ lease[r][o] = [proc |-> p, outcome |-> "active"]
          /\ \E outcome \in Outcomes : lease'[r][o] = [proc |-> p, outcome |-> outcome]
      BY DEF RecordStep
    <3> QED
      BY <3>1
  <2>2. Left
    <3> SUFFICES ASSUME NEW r \in Roots, NEW o \in Ops, lease[r][o] # NoLease,
                        life[lease[r][o].proc] = "dead", lease'[r][o] # lease[r][o]
                 PROVE  FALSE
      OBVIOUS
    <3>1. lease[r][o] = [proc |-> p, outcome |-> "active"] /\ life[p] = "up"
      BY DEF RecordStep
    <3> QED
      BY <3>1
  <2>3. Lost
    <3> SUFFICES ASSUME NEW q \in Procs, thread[q].at = "inside", thread[q].expired
                 PROVE  lease'[thread[q].root][thread[q].op].outcome # "committed"
      OBVIOUS
    <3> DEFINE r == thread[q].root
               o == thread[q].op
    <3>1. thread[q] \in Threads /\ r \in Roots /\ o \in Ops
      BY <1>1 DEF IInv, TypeOK, Threads, Idle
    <3>2. lease[r][o] = [proc |-> q, outcome |-> "active"]
      BY <1>1 DEF IInv, OpenRecord
    <3> HIDE DEF r, o
    <3>3. CASE lease'[r][o] = lease[r][o]
      BY <3>2, <3>3 DEF r, o
    <3>4. CASE lease'[r][o] # lease[r][o]
      <4>1. lease[r][o] # NoLease
        BY <3>2 DEF NoLease
      <4>2. lease[r][o] = [proc |-> p, outcome |-> "active"]
        BY <3>1, <3>4, <4>1 DEF RecordStep
      <4>3. p = q
        BY <3>2, <4>2
      <4>4. \E outcome \in Outcomes :
              /\ lease'[r][o] = [proc |-> p, outcome |-> outcome]
              /\ thread[p].at = "inside" /\ thread[p].expired => outcome = "unresolved"
        BY <3>1, <3>4, <4>1 DEF RecordStep
      <4>5. lease'[r][o].outcome = "unresolved"
        BY <4>3, <4>4
      <4> QED
        BY <4>5 DEF r, o
    <3> QED
      BY <3>3, <3>4
  <2> QED
    BY <2>1, <2>2, <2>3
<1>2. IInv /\ Recovered /\ [Next]_vars => [Once /\ Lost /\ Left]_vars
  BY <1>1
<1> QED
  BY <1>2, Invariance, PTL DEF Spec, OutcomesFinal
====
