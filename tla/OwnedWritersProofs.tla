------------------------- MODULE OwnedWritersProofs -------------------------
(***************************************************************************)
(* Proofs about OwnedWriters for every set of processes, attempts and      *)
(* decisions and every bound: the transactions of the adapters, the log,   *)
(* and the decisions, in three groups of invariants.                       *)
(***************************************************************************)
EXTENDS OwnedWriters, SequenceTheorems, TLAPS

Checked == [at : {"checked"}, attempt : Keys, seq : 0..MaxEvents]
Entered == [at : {"entered", "admitted", "leased", "prepared", "written", "committed"},
            role : Roles, attempt : Keys, seq : 0..MaxEvents]
Telling == [at : {"telling"}, decision : Decisions]

\* The types of the processes and of the root.
ControlTypes ==
  /\ kind \in [Procs -> {"plain", "loaded", "dead"}]
  /\ op \in [Procs -> {Idle} \cup Checked \cup Entered \cup Telling]
  /\ lease \in [Procs -> {"none", "active", "failed", "committed", "unresolved"}]
  /\ hold \in {"none", "held", "drained"}
  /\ token \in [Procs -> Nat] /\ installed \in Nat
  /\ manifest \in {"none", "PREPARED", "COMMITTED"}
  /\ lock \in Procs \cup {NoAttempt}

\* An operation has its lease from the record to the end.
UnderLease == {"leased", "prepared", "written", "committed"}
Leased == \A p \in Procs : op[p].at \in UnderLease => lease[p] = "active"

\* The transaction that is open has the lock.
Locked == \A p \in Procs : op[p].at \in {"prepared", "written"} => lock = p

\* A PREPARED manifest is that of an operation whose lease record is not closed:
\* one at work, or one that was lost and is not admitted again.
PreparedBy(p) ==
  /\ lease[p] \in {"active", "unresolved"}
  /\ IF lock = p THEN op[p].at \in {"prepared", "written"}
                 ELSE op[p].at \notin UnderLease \cup {"admitted"}
Left == manifest = "PREPARED" => \E p \in Procs : PreparedBy(p)

\* A drained root has no operation under a lease and no open manifest.
Drained ==
  hold = "drained" => manifest # "PREPARED" /\ \A p \in Procs : op[p].at \notin UnderLease

\* The inductive invariant of the adapters.
Control == ControlTypes /\ Leased /\ Locked /\ Left /\ Drained

---------------------------------------------------------------------------
\* What a process is at tells what it holds.
LEMMA OpKinds ==
  ASSUME ControlTypes, NEW p \in Procs
  PROVE  /\ op[p].at = "checked" => op[p] \in Checked
         /\ op[p].at \in UnderLease \cup {"entered", "admitted"} => op[p] \in Entered
         /\ op[p].at = "telling" => op[p] \in Telling
BY DEF ControlTypes, Idle, Checked, Entered, Telling, UnderLease

\* An operation moves on.
LEMMA ToStep ==
  ASSUME ControlTypes, NEW p \in Procs, op[p] \in Entered,
         NEW at \in {"entered", "admitted", "leased", "prepared", "written", "committed"}, to(p, at)
  PROVE  /\ op' \in [Procs -> {Idle} \cup Checked \cup Entered \cup Telling]
         /\ op'[p].at = at /\ op'[p].role = op[p].role
         /\ \A q \in Procs \ {p} : op'[q] = op[q]
<1>1. [op[p] EXCEPT !.at = at] \in Entered
  BY DEF Entered
<1>2. [op[p] EXCEPT !.at = at].at = at /\ [op[p] EXCEPT !.at = at].role = op[p].role
  BY DEF Entered
<1>3. op'[p] = [op[p] EXCEPT !.at = at] /\ \A q \in Procs \ {p} : op'[q] = op[q]
  BY DEF to, ControlTypes
<1> QED
  BY <1>1, <1>2, <1>3 DEF to, ControlTypes

\* Or it ends.
LEMMA RaiseStep ==
  ASSUME ControlTypes, NEW p \in Procs, raise(p)
  PROVE  /\ op' \in [Procs -> {Idle} \cup Checked \cup Entered \cup Telling]
         /\ op'[p].at = "idle"
         /\ \A q \in Procs \ {p} : op'[q] = op[q]
BY DEF raise, ControlTypes, Idle

\* A step of one process outside of its transactions.
LEMMA OutsideStep ==
  ASSUME Control, NEW p \in Procs,
         op' \in [Procs -> {Idle} \cup Checked \cup Entered \cup Telling],
         \A q \in Procs \ {p} : op'[q] = op[q],
         op[p].at \notin UnderLease \cup {"admitted"},
         op'[p].at \notin UnderLease \cup {"admitted"},
         UNCHANGED <<lease, hold, manifest, lock, installed>>,
         kind' \in [Procs -> {"plain", "loaded", "dead"}], token' \in [Procs -> Nat]
  PROVE  Control'
<1> USE DEF Control
<1>1. ControlTypes'
  BY DEF ControlTypes
<1>2. Leased' /\ Locked' /\ Drained'
  BY DEF Leased, Locked, Drained, UnderLease
<1>3. Left'
  <2> SUFFICES ASSUME manifest = "PREPARED" PROVE \E q \in Procs : PreparedBy(q)'
    BY DEF Left
  <2>1. PICK q \in Procs : PreparedBy(q)
    BY DEF Left
  <2>2. PreparedBy(q)'
    BY <2>1 DEF PreparedBy, UnderLease
  <2> QED
    BY <2>2
<1> QED
  BY <1>1, <1>2, <1>3

\* What the bus does without a lease, and what it does with decisions.
LEMMA OutsideSteps ==
  ASSUME Control, NEW p \in Procs,
         \/ \E a \in Keys, s \in 0 .. MaxEvents : publish(p, a, s)
         \/ append_record(p)
         \/ \E r \in Roles, a \in Keys, s \in 0 .. MaxEvents : operation(p, r, a, s)
         \/ \E d \in Decisions : append_decision(p, d)
         \/ tell(p)
         \/ \E g \in 0 .. MaxGeneration : configure(p, g)
  PROVE  Control'
<1> DEFINE OpTypes == {Idle} \cup Checked \cup Entered \cup Telling
<1>1. ASSUME NEW x \in OpTypes, op' = [op EXCEPT ![p] = x], UNCHANGED <<kind, token, lease, root>>,
             op[p].at \notin UnderLease \cup {"admitted"}, x.at \notin UnderLease \cup {"admitted"}
      PROVE  Control'
  <2>1. /\ op' \in [Procs -> OpTypes] /\ op'[p] = x
        /\ \A q \in Procs \ {p} : op'[q] = op[q]
    BY <1>1 DEF Control, ControlTypes
  <2>2. kind' \in [Procs -> {"plain", "loaded", "dead"}] /\ token' \in [Procs -> Nat]
    BY <1>1 DEF Control, ControlTypes
  <2> QED
    BY <1>1, <2>1, <2>2, OutsideStep DEF root
<1>2. ASSUME NEW a \in Keys, NEW s \in 0 .. MaxEvents, publish(p, a, s) PROVE Control'
  <2>1. [at |-> "checked", attempt |-> a, seq |-> s] \in OpTypes
    BY DEF Checked
  <2>2. [at |-> "checked", attempt |-> a, seq |-> s].at \notin UnderLease \cup {"admitted"}
        /\ op[p].at \notin UnderLease \cup {"admitted"}
    BY <1>2 DEF publish, Idle, UnderLease
  <2>3. op' = [op EXCEPT ![p] = [at |-> "checked", attempt |-> a, seq |-> s]]
        /\ UNCHANGED <<kind, token, lease, root>>
    BY <1>2 DEF publish, bus
  <2> QED
    BY <1>1, <2>1, <2>2, <2>3
<1>3. CASE append_record(p)
  BY <1>1, <1>3 DEF append_record, Idle, UnderLease
<1>4. ASSUME NEW r \in Roles, NEW a \in Keys, NEW s \in 0 .. MaxEvents, operation(p, r, a, s)
      PROVE  Control'
  <2>1. [at |-> "entered", role |-> r, attempt |-> a, seq |-> s] \in OpTypes
    BY DEF Entered
  <2>2. [at |-> "entered", role |-> r, attempt |-> a, seq |-> s].at \notin UnderLease \cup {"admitted"}
        /\ op[p].at \notin UnderLease \cup {"admitted"}
    BY <1>4 DEF operation, Idle, UnderLease
  <2>3. op' = [op EXCEPT ![p] = [at |-> "entered", role |-> r, attempt |-> a, seq |-> s]]
        /\ UNCHANGED <<kind, token, lease, root>>
    BY <1>4 DEF operation, bus
  <2> QED
    BY <1>1, <2>1, <2>2, <2>3
<1>5. ASSUME NEW d \in Decisions, append_decision(p, d) PROVE Control'
  <2>1. PICK x \in {[at |-> "telling", decision |-> d], Idle} : op' = [op EXCEPT ![p] = x]
    BY <1>5 DEF append_decision
  <2>2. x \in OpTypes /\ x.at \notin UnderLease \cup {"admitted"}
    BY DEF Telling, Idle, UnderLease
  <2>3. op[p].at \notin UnderLease \cup {"admitted"} /\ UNCHANGED <<kind, token, lease, root>>
    BY <1>5 DEF append_decision, bus, Idle, UnderLease
  <2> QED
    BY <1>1, <2>1, <2>2, <2>3
<1>6. CASE tell(p)
  BY <1>1, <1>6 DEF tell, bus, Idle, UnderLease
<1>7. ASSUME NEW g \in 0 .. MaxGeneration, configure(p, g) PROVE Control'
  <2>1. /\ UNCHANGED <<op, lease, root>> /\ op[p].at = "idle"
        /\ kind' \in [Procs -> {"plain", "loaded", "dead"}] /\ token' \in [Procs -> Nat]
    BY <1>7, BoundAssumption DEF configure, Control, ControlTypes, Idle
  <2> QED
    BY <2>1, OutsideStep DEF root, Control, ControlTypes, UnderLease
<1> QED
  BY <1>2, <1>3, <1>4, <1>5, <1>6, <1>7

\* admit, acquire and close of a lease.
LEMMA LeaseSteps ==
  ASSUME Control, NEW p \in Procs, admit(p) \/ acquire(p) \/ close(p)
  PROVE  Control'
<1> USE DEF Control
<1>1. UNCHANGED <<kind, token, root>> /\ op[p] \in Entered
  BY OpKinds DEF admit, acquire, close, bus, UnderLease
<1>2. UNCHANGED <<hold, installed, manifest, lock>>
  BY <1>1 DEF root
<1>3. CASE admit(p)
  <2>1. CASE raise(p)
    BY <1>1, <1>2, <1>3, <2>1, RaiseStep, OutsideStep DEF admit, bus, ControlTypes, UnderLease
  <2>2. CASE hold = "none" /\ clean(p) /\ to(p, "admitted")
    <3>1. /\ op' \in [Procs -> {Idle} \cup Checked \cup Entered \cup Telling]
          /\ op'[p].at = "admitted" /\ \A q \in Procs \ {p} : op'[q] = op[q]
      BY <1>1, <2>2, ToStep
    <3>2. UNCHANGED lease /\ op[p].at = "entered"
      BY <1>3 DEF admit
    <3>3. ~PreparedBy(p)
      BY <2>2 DEF clean, PreparedBy, Terminal
    <3>4. ControlTypes' /\ Leased' /\ Locked' /\ Drained'
      BY <1>1, <1>2, <2>2, <3>1, <3>2 DEF ControlTypes, Leased, Locked, Drained, UnderLease
    <3>5. Left'
      BY <1>2, <3>1, <3>2, <3>3 DEF Left, PreparedBy
    <3> QED
      BY <3>4, <3>5
  <2> QED
    BY <1>3, <2>1, <2>2 DEF admit
<1>4. CASE acquire(p)
  <2>1. op[p].at = "admitted" /\ ~PreparedBy(p)
    BY <1>4 DEF acquire, PreparedBy
  <2>2. PICK l \in {"active", "failed"} : lease' = [lease EXCEPT ![p] = l]
    BY <1>4 DEF acquire
  <2>3. /\ op' \in [Procs -> {Idle} \cup Checked \cup Entered \cup Telling]
        /\ \A q \in Procs \ {p} : op'[q] = op[q] /\ lease'[q] = lease[q]
        /\ lease' \in [Procs -> {"none", "active", "failed", "committed", "unresolved"}]
        /\ \/ op'[p].at = "idle"
           \/ op'[p].at = "leased" /\ lease'[p] = "active" /\ hold = "none"
    BY <1>1, <1>4, <2>2, ToStep, RaiseStep DEF acquire, ControlTypes
  <2>4. ControlTypes' /\ Leased' /\ Locked' /\ Drained'
    BY <1>1, <1>2, <2>3 DEF ControlTypes, Leased, Locked, Drained, UnderLease
  <2>5. Left'
    BY <1>2, <2>1, <2>3 DEF Left, PreparedBy
  <2> QED
    BY <2>4, <2>5
<1>5. CASE close(p)
  <2>1. op[p].at = "committed" /\ ~PreparedBy(p)
    BY <1>5 DEF close, PreparedBy, UnderLease
  <2>2. /\ op' \in [Procs -> {Idle} \cup Checked \cup Entered \cup Telling]
        /\ \A q \in Procs \ {p} : op'[q] = op[q] /\ lease'[q] = lease[q]
        /\ lease' \in [Procs -> {"none", "active", "failed", "committed", "unresolved"}]
        /\ op'[p].at = "idle"
    BY <1>5, RaiseStep DEF close, ControlTypes
  <2>3. ControlTypes' /\ Leased' /\ Locked' /\ Drained'
    BY <1>1, <1>2, <2>2 DEF ControlTypes, Leased, Locked, Drained, UnderLease
  <2>4. Left'
    BY <1>2, <2>1, <2>2 DEF Left, PreparedBy
  <2> QED
    BY <2>3, <2>4
<1> QED
  BY <1>3, <1>4, <1>5

\* An operation under a lease that is lost: it raises, or its process dies.
LEMMA LostStep ==
  ASSUME Control, NEW p \in Procs,
         op' \in [Procs -> {Idle} \cup Checked \cup Entered \cup Telling], op'[p].at = "idle",
         \A q \in Procs \ {p} : op'[q] = op[q] /\ lease'[q] = lease[q],
         lease' \in [Procs -> {"none", "active", "failed", "committed", "unresolved"}],
         lease'[p] \in {"active", "unresolved"} \/ (lease'[p] = lease[p]),
         lock' = IF lock = p THEN NoAttempt ELSE lock,
         UNCHANGED <<token, hold, installed, manifest>>,
         kind' \in [Procs -> {"plain", "loaded", "dead"}]
  PROVE  Control'
<1> USE NoAttemptAssumption DEF Control
<1>1. ControlTypes' /\ Leased' /\ Locked' /\ Drained'
  BY DEF ControlTypes, Leased, Locked, Drained, UnderLease
<1>2. Left'
  <2> SUFFICES ASSUME manifest = "PREPARED" PROVE \E q \in Procs : PreparedBy(q)'
    BY DEF Left
  <2>1. PICK q \in Procs : PreparedBy(q)
    BY DEF Left
  <2>2. lock' # p
    OBVIOUS
  <2>3. CASE q = p
    BY <2>1, <2>2, <2>3 DEF PreparedBy, UnderLease
  <2>4. CASE q # p
    <3>1. lock' = q <=> lock = q
      BY <2>4
    <3> QED
      BY <2>1, <2>4, <3>1 DEF PreparedBy
  <2> QED
    BY <2>3, <2>4
<1> QED
  BY <1>1, <1>2

\* unresolved, expire and die.
LEMMA LostSteps ==
  ASSUME Control, NEW p \in Procs,
         \/ unresolved(p) /\ UNCHANGED <<kind, token, hold, installed, manifest>>
         \/ die(p)
  PROVE  Control'
<1>1. CASE unresolved(p) /\ UNCHANGED <<kind, token, hold, installed, manifest>>
  BY <1>1, RaiseStep, LostStep DEF unresolved, Control, ControlTypes
<1>2. CASE die(p)
  BY <1>2, LostStep DEF die, Control, ControlTypes, Idle
<1> QED
  BY <1>1, <1>2

\* The transaction: prepare, write and commit.
LEMMA TransactionSteps ==
  ASSUME Control, NEW p \in Procs, prepare(p) \/ write(p) \/ commit(p)
  PROVE  Control'
<1> USE NoAttemptAssumption DEF Control
<1>1. UNCHANGED <<kind, token, hold, installed>> /\ op[p] \in Entered
  BY OpKinds DEF prepare, write, commit, bus, UnderLease
<1>2. CASE unresolved(p) /\ UNCHANGED manifest
  BY <1>1, <1>2, LostSteps
<1>3. CASE prepare(p)
  <2>1. op[p].at = "leased" /\ lock = NoAttempt /\ lease[p] = "active"
    BY <1>3 DEF prepare, Leased, UnderLease
  <2>2. CASE raise(p) /\ lease' = [lease EXCEPT ![p] = "failed"] /\ UNCHANGED <<lock, manifest>>
    <3>1. /\ op' \in [Procs -> {Idle} \cup Checked \cup Entered \cup Telling]
          /\ \A q \in Procs \ {p} : op'[q] = op[q] /\ lease'[q] = lease[q]
          /\ lease' \in [Procs -> {"none", "active", "failed", "committed", "unresolved"}]
          /\ op'[p].at = "idle"
      BY <2>2, RaiseStep DEF ControlTypes
    <3>2. ControlTypes' /\ Leased' /\ Locked' /\ Drained'
      BY <1>1, <2>2, <3>1 DEF ControlTypes, Leased, Locked, Drained, UnderLease
    <3>3. ~PreparedBy(p)
      BY <2>1 DEF PreparedBy, UnderLease
    <3>4. Left'
      BY <2>2, <3>1, <3>3 DEF Left, PreparedBy
    <3> QED
      BY <3>2, <3>4
  <2>3. CASE lock' = p /\ manifest' = "PREPARED" /\ to(p, "prepared") /\ UNCHANGED lease
    <3>1. /\ op' \in [Procs -> {Idle} \cup Checked \cup Entered \cup Telling]
          /\ op'[p].at = "prepared" /\ \A q \in Procs \ {p} : op'[q] = op[q]
      BY <1>1, <2>3, ToStep
    <3>2. ControlTypes' /\ Leased' /\ Locked' /\ Drained'
      BY <1>1, <2>1, <2>3, <3>1 DEF ControlTypes, Leased, Locked, Drained, UnderLease
    <3>3. PreparedBy(p)'
      BY <2>1, <2>3, <3>1 DEF PreparedBy
    <3> QED
      BY <3>2, <3>3 DEF Left
  <2> QED
    BY <1>2, <1>3, <2>2, <2>3 DEF prepare
<1>4. CASE to(p, "written") /\ op[p].at = "prepared" /\ UNCHANGED <<lease, lock, manifest>>
  <2>1. /\ op' \in [Procs -> {Idle} \cup Checked \cup Entered \cup Telling]
        /\ op'[p].at = "written" /\ \A q \in Procs \ {p} : op'[q] = op[q]
    BY <1>1, <1>4, ToStep
  <2>2. ControlTypes' /\ Leased' /\ Locked' /\ Drained'
    BY <1>1, <1>4, <2>1 DEF ControlTypes, Leased, Locked, Drained, UnderLease
  <2>3. Left'
    BY <1>4, <2>1 DEF Left, PreparedBy, UnderLease
  <2> QED
    BY <2>2, <2>3
<1>5. CASE commit(p)
  <2>1. /\ op' \in [Procs -> {Idle} \cup Checked \cup Entered \cup Telling]
        /\ op'[p].at = "committed" /\ \A q \in Procs \ {p} : op'[q] = op[q]
    BY <1>1, <1>5, ToStep DEF commit
  <2>2. lock = p /\ lock' = NoAttempt /\ manifest' = "COMMITTED" /\ UNCHANGED lease
    BY <1>5 DEF commit, Locked
  <2>3. ControlTypes' /\ Leased' /\ Locked' /\ Drained'
    BY <1>1, <1>5, <2>1, <2>2 DEF commit, ControlTypes, Leased, Locked, Drained, UnderLease
  <2> QED
    BY <2>2, <2>3 DEF Left
<1> QED
  BY <1>2, <1>3, <1>4, <1>5 DEF write

\* The host: hold, drain, install and release.
LEMMA HostSteps ==
  ASSUME Control, begin_hold \/ (\E p \in Procs : drain(p)) \/ install \/ release_hold
  PROVE  Control'
<1> USE DEF Control
<1>1. UNCHANGED <<kind, token, op, lease, lock>>
  BY DEF begin_hold, drain, install, release_hold, bus
<1>2. CASE begin_hold \/ release_hold
  BY <1>1, <1>2 DEF begin_hold, release_hold, ControlTypes, Leased, Locked, Left, PreparedBy, Drained
<1>3. ASSUME NEW p \in Procs, drain(p) PROVE Control'
  <2>1. \A q \in Procs : lease[q] \notin {"active", "unresolved"}
    BY <1>3 DEF drain, clean, Terminal
  <2>2. Drained'
    BY <1>1, <1>3, <2>1 DEF drain, Drained, Leased, Left, PreparedBy
  <2>3. ControlTypes' /\ Leased' /\ Locked' /\ Left'
    BY <1>1, <1>3 DEF drain, ControlTypes, Leased, Locked, Left, PreparedBy
  <2> QED
    BY <2>2, <2>3
<1>4. CASE install
  BY <1>1, <1>4 DEF install, ControlTypes, Leased, Locked, Left, Drained
<1> QED
  BY <1>2, <1>3, <1>4

\* The first state.
LEMMA InitControl == Init => Control
<1> SUFFICES ASSUME Init PROVE Control
  OBVIOUS
<1>1. ControlTypes
  BY DEF Init, ControlTypes
<1>2. \A p \in Procs : op[p].at = "idle"
  BY DEF Init, Idle
<1>3. Leased /\ Locked /\ Left /\ Drained
  BY <1>2 DEF Init, Leased, Locked, Left, Drained, UnderLease
<1> QED
  BY <1>1, <1>3 DEF Control

\* Every step keeps the invariant of the adapters.
LEMMA NextControl == Control /\ [Next]_vars => Control'
<1> SUFFICES ASSUME Control, [Next]_vars PROVE Control'
  OBVIOUS
<1>1. CASE UNCHANGED vars
  BY <1>1 DEF vars, bus, root, Control, ControlTypes, Leased, Locked, Left, PreparedBy, Drained
<1>2. ASSUME NEW p \in Procs, expire(p) PROVE Control'
  BY <1>2, LostSteps DEF expire, bus
<1> QED
  BY <1>1, <1>2, OutsideSteps, LeaseSteps, TransactionSteps, LostSteps, HostSteps DEF Next, proc

---------------------------------------------------------------------------
\* Under a drained hold no loaded writer appends, starts a transaction or
\* finishes one: an operation has its lease record first and looks at the hold
\* after it, and a root with an open or lost lease record is not drained.
THEOREM DrainedIsSilent == Spec => SilentWhenDrained
<1> DEFINE Silent == hold = "drained" =>
             /\ ~(manifest # "COMMITTED" /\ manifest' = "COMMITTED" /\ installed' = installed)
             /\ manifest' # "PREPARED"
             /\ \A p \in Procs : kind[p] = "loaded" => op[p].at \notin {"prepared", "written"}
<1>1. ASSUME Control, Next PROVE Silent
  <2> SUFFICES ASSUME hold = "drained"
               PROVE  /\ ~(manifest # "COMMITTED" /\ manifest' = "COMMITTED" /\ installed' = installed)
                      /\ manifest' # "PREPARED"
                      /\ \A p \in Procs : kind[p] = "loaded" => op[p].at \notin {"prepared", "written"}
    OBVIOUS
  <2>1. manifest # "PREPARED" /\ \A p \in Procs : op[p].at \notin UnderLease
    BY <1>1 DEF Control, Drained
  <2>2. UNCHANGED manifest \/ install
    <3>1. ASSUME NEW p \in Procs PROVE ~prepare(p) /\ ~commit(p)
      BY <2>1 DEF prepare, commit, UnderLease
    <3> QED
      BY ZenonT(30), <1>1, <3>1 DEF Next, proc, publish, append_record, operation, admit, acquire, write, close, expire,
         append_decision, tell, die, drain, configure, begin_hold, release_hold, root
  <2>3. CASE install
    <3>1. installed' = installed + 1 /\ installed \in Nat
      BY <1>1, <2>3 DEF install, Control, ControlTypes
    <3> QED
      BY <2>1, <2>3, <3>1 DEF install, UnderLease
  <2> QED
    BY <2>1, <2>2, <2>3 DEF UnderLease
<1>2. Control /\ [Next]_vars => [Silent]_vars
  BY <1>1
<1> QED
  BY <1>2, InitControl, NextControl, PTL DEF Spec, SilentWhenDrained

\* A transaction whose operation was lost is not committed, and no other starts:
\* by whichever process, with whatever token, before or after a hold.
THEOREM LostStaysPrepared == Spec => LostOperationStops
<1> DEFINE lost == manifest = "PREPARED" /\ lock = NoAttempt
           Stops == lost => manifest' = "PREPARED" /\ lock' = NoAttempt
<1>1. ASSUME Control, Next PROVE Stops
  <2> SUFFICES ASSUME manifest = "PREPARED", lock = NoAttempt
               PROVE  manifest' = "PREPARED" /\ lock' = NoAttempt
    OBVIOUS
  <2>1. \A p \in Procs : ~commit(p) /\ ~write(p) /\ lock # p
    BY <1>1, NoAttemptAssumption DEF commit, write, Control, Locked
  <2>2. ASSUME NEW p \in Procs, prepare(p) PROVE UNCHANGED <<manifest, lock>>
    BY <2>1, <2>2 DEF prepare, may_prepare, unresolved
  <2>3. ~install
    BY DEF install
  <2> QED
    BY ZenonT(30), <1>1, <2>1, <2>2, <2>3 DEF Next, proc, publish, append_record, operation, admit, acquire, close, expire,
       unresolved, append_decision, tell, die, drain, configure, begin_hold, release_hold, root
<1>2. Control /\ [Next]_vars => [Stops]_vars
  BY <1>1
<1> QED
  BY <1>2, InitControl, NextControl, PTL DEF Spec, LostOperationStops

---------------------------------------------------------------------------
(* Decisions.                                                              *)

Bodies == {d.body : d \in Decisions}

\* A decision that is about to be told is on file, and was not told.
TellingOK(p) ==
  op[p].at = "telling" =>
    /\ told[op[p].decision.id] = <<>>
    /\ \E n \in DOMAIN decisions : /\ decisions[n].id = op[p].decision.id
                                   /\ decisions[n].body = op[p].decision.body

\* The inductive invariant of the decisions.
Feedback ==
  /\ \E S : decisions \in Seq(S)
  /\ told \in [Ids -> Seq(Bodies)]
  /\ \A p \in Procs : TellingOK(p)
  /\ \A p, q \in Procs : /\ op[p].at = "telling" /\ op[q].at = "telling"
                         /\ op[p].decision.id = op[q].decision.id
                         => p = q
  /\ ToldOnce

\* Who tells keeps on telling, while the file and what was told stay.
LEMMA QuietFeedback ==
  ASSUME Feedback, UNCHANGED feedback,
         \A p \in Procs : op'[p] = op[p] \/ op'[p].at # "telling"
  PROVE  Feedback'
<1>1. UNCHANGED <<decisions, told>>
  BY DEF feedback
<1>2. \A p \in Procs : TellingOK(p)'
  BY <1>1 DEF Feedback, TellingOK
<1>3. ToldOnce'
  BY <1>1 DEF Feedback, ToldOnce
<1> QED
  BY <1>1, <1>2, <1>3 DEF Feedback

\* A decision is filed under an id that is not on file, and so was not told.
LEMMA AppendDecisionStep ==
  ASSUME Control, Feedback, NEW p \in Procs, NEW d \in Decisions, append_decision(p, d)
  PROVE  Feedback'
<1>1. PICK S : decisions \in Seq(S)
  BY DEF Feedback
<1>2. PICK r : r.id = d.id /\ r.body = d.body /\ decisions' = Append(decisions, r)
  BY DEF append_decision
<1>3. /\ UNCHANGED told
      /\ \A q \in Procs \ {p} : op'[q] = op[q]
      /\ op'[p] = [at |-> "telling", decision |-> d] \/ op'[p] = Idle
  BY DEF append_decision, Control, ControlTypes
<1>4. decisions \in Seq(S \cup {r})
  BY <1>1
<1>5. /\ Len(decisions) \in Nat /\ DOMAIN decisions = 1..Len(decisions)
      /\ decisions' \in Seq(S \cup {r})
      /\ Len(decisions') = Len(decisions) + 1 /\ DOMAIN decisions' = 1..Len(decisions')
      /\ \A i \in 1..Len(decisions) : decisions'[i] = decisions[i]
      /\ decisions'[Len(decisions) + 1] = r
  BY <1>2, <1>4, AppendProperties, LenProperties
<1>6. DOMAIN decisions \subseteq DOMAIN decisions' /\ Len(decisions) + 1 \in DOMAIN decisions'
  BY <1>5
<1>7. \A n \in DOMAIN decisions : decisions[n].id # d.id
  BY DEF append_decision, on_file
<1>8. d.id \in Ids
  BY DEF Ids
<1>9. told[d.id] = <<>>
  BY <1>7, <1>8 DEF Feedback, ToldOnce
<1>10. \A q \in Procs : op[q].at = "telling" => op[q].decision.id # d.id
  BY <1>7 DEF Feedback, TellingOK
<1>11. \A q \in Procs : TellingOK(q)'
  <2>1. ASSUME NEW q \in Procs \ {p} PROVE TellingOK(q)'
    BY ZenonT(30), <1>3, <1>5, <1>6 DEF Feedback, TellingOK
  <2>2. CASE op'[p] = Idle
    BY <2>1, <2>2 DEF TellingOK, Idle
  <2>3. CASE op'[p] = [at |-> "telling", decision |-> d]
    <3>1. op'[p].decision = d
      BY <2>3
    <3>2. TellingOK(p)'
      BY <1>2, <1>3, <1>5, <1>6, <1>9, <3>1 DEF TellingOK
    <3> QED
      BY <2>1, <3>2
  <2> QED
    BY <1>3, <2>2, <2>3
<1>12. ASSUME NEW x \in Procs, NEW y \in Procs, op'[x].at = "telling", op'[y].at = "telling",
              op'[x].decision.id = op'[y].decision.id, x # y
       PROVE  FALSE
  <2>1. op'[p].at = "telling" => op'[p].decision = d
    BY <1>3 DEF Idle
  <2>2. CASE x # p /\ y # p
    BY <1>3, <1>12, <2>2 DEF Feedback
  <2> QED
    BY <1>3, <1>10, <1>12, <2>1, <2>2
<1>13. ToldOnce'
  <2> SUFFICES ASSUME NEW i \in Ids
               PROVE  /\ Len(told[i]) <= 1
                      /\ told[i] # <<>> => \E n \in DOMAIN decisions' :
                           decisions'[n].id = i /\ decisions'[n].body = told[i][1]
    BY <1>3 DEF ToldOnce
  <2>1. /\ Len(told[i]) <= 1
        /\ told[i] # <<>> => \E n \in DOMAIN decisions : decisions[n].id = i /\ decisions[n].body = told[i][1]
    BY DEF Feedback, ToldOnce
  <2> QED
    BY <1>5, <1>6, <2>1
<1> QED
  BY <1>3, <1>5, <1>11, <1>12, <1>13 DEF Feedback

\* Who tells is the only one to tell this id, for the first time.
LEMMA TellStep ==
  ASSUME Control, Feedback, NEW p \in Procs, tell(p)
  PROVE  Feedback'
<1> DEFINE d == op[p].decision
<1>1. op[p].at = "telling" /\ op[p] \in Telling
  BY OpKinds DEF tell, Control
<1>2. d \in Decisions
  BY <1>1 DEF Telling
<1>3. d.id \in Ids /\ d.body \in Bodies /\ told[d.id] = <<>>
  BY <1>1, <1>2 DEF Ids, Bodies, Feedback, TellingOK
<1>4. PICK n \in DOMAIN decisions : decisions[n].id = d.id /\ decisions[n].body = d.body
  BY <1>1 DEF Feedback, TellingOK
<1>5. Append(told[d.id], d.body) = <<d.body>>
  BY <1>3
<1>6. /\ UNCHANGED decisions /\ op'[p].at = "idle"
      /\ \A q \in Procs \ {p} : op'[q] = op[q]
      /\ told' = [told EXCEPT ![d.id] = <<d.body>>]
  BY <1>5 DEF tell, Control, ControlTypes, Idle
<1> HIDE DEF d
<1>7. /\ told' \in [Ids -> Seq(Bodies)] /\ told'[d.id] = <<d.body>>
      /\ \A i \in Ids \ {d.id} : told'[i] = told[i]
  BY <1>3, <1>6 DEF Feedback
<1>8. \A q \in Procs : TellingOK(q)'
  <2> SUFFICES ASSUME NEW q \in Procs, op'[q].at = "telling" PROVE TellingOK(q)'
    BY DEF TellingOK
  <2>1. q # p /\ op'[q] = op[q]
    BY <1>6
  <2>2. op[q].decision.id # d.id
    BY <1>1, <2>1 DEF Feedback, d
  <2>3. op[q].decision.id \in Ids
    BY <2>1, OpKinds DEF Control, Telling, Ids
  <2> QED
    BY <1>6, <1>7, <2>1, <2>2, <2>3 DEF Feedback, TellingOK
<1>9. ToldOnce'
  <2> SUFFICES ASSUME NEW i \in Ids
               PROVE  /\ Len(told'[i]) <= 1
                      /\ told'[i] # <<>> => \E m \in DOMAIN decisions :
                           decisions[m].id = i /\ decisions[m].body = told'[i][1]
    BY <1>6 DEF ToldOnce
  <2>1. CASE i = d.id
    <3> DEFINE b == d.body
    <3>1. told'[i] = <<b>>
      BY <1>7, <2>1
    <3> HIDE DEF b
    <3>2. Len(told'[i]) = 1 /\ told'[i][1] = b
      BY <3>1
    <3> QED
      BY <1>4, <2>1, <3>2 DEF b
  <2>2. CASE i # d.id
    BY <1>7, <2>2 DEF Feedback, ToldOnce
  <2> QED
    BY <2>1, <2>2
<1>10. ASSUME NEW q \in Procs, NEW r \in Procs, op'[q].at = "telling", op'[r].at = "telling",
              op'[q].decision.id = op'[r].decision.id
       PROVE  q = r
  <2>1. op'[q] = op[q] /\ op'[r] = op[r]
    BY <1>6, <1>10
  <2> QED
    BY <1>10, <2>1 DEF Feedback
<1>11. \E S : decisions' \in Seq(S)
  BY <1>6 DEF Feedback
<1> QED
  BY <1>7, <1>8, <1>9, <1>10, <1>11 DEF Feedback

\* Every step keeps the invariant of the decisions.
LEMMA NextFeedback == Control /\ Feedback /\ [Next]_vars => Feedback'
<1> SUFFICES ASSUME Control, Feedback, [Next]_vars PROVE Feedback'
  OBVIOUS
<1>1. CASE UNCHANGED vars
  BY <1>1, QuietFeedback DEF vars
<1>2. CASE begin_hold \/ install \/ release_hold
  BY <1>2, QuietFeedback DEF begin_hold, install, release_hold
<1>3. ASSUME NEW p \in Procs, drain(p) \/ die(p) \/ \E g \in 0 .. MaxGeneration : configure(p, g)
      PROVE  Feedback'
  BY <1>3, QuietFeedback DEF drain, die, configure, Control, ControlTypes, Idle
<1>4. ASSUME NEW p \in Procs,
             \/ \E a \in Keys, s \in 0 .. MaxEvents : publish(p, a, s)
             \/ append_record(p)
             \/ \E r \in Roles, a \in Keys, s \in 0 .. MaxEvents : operation(p, r, a, s)
      PROVE  Feedback'
  <2>1. ASSUME NEW a \in Keys, NEW s \in 0 .. MaxEvents, publish(p, a, s)
        PROVE  op'[p].at = "checked" /\ \A q \in Procs \ {p} : op'[q] = op[q]
    BY <2>1 DEF publish, Control, ControlTypes
  <2>2. CASE append_record(p)
    BY <2>2, QuietFeedback DEF append_record, Control, ControlTypes, Idle
  <2>3. ASSUME NEW r \in Roles, NEW a \in Keys, NEW s \in 0 .. MaxEvents, operation(p, r, a, s)
        PROVE  op'[p].at = "entered" /\ \A q \in Procs \ {p} : op'[q] = op[q]
    BY <2>3 DEF operation, Control, ControlTypes
  <2>4. UNCHANGED feedback
    BY <1>4 DEF publish, append_record, operation
  <2> QED
    BY <1>4, <2>1, <2>2, <2>3, <2>4, QuietFeedback
<1>5. ASSUME NEW p \in Procs,
             admit(p) \/ acquire(p) \/ prepare(p) \/ write(p) \/ commit(p) \/ close(p) \/ expire(p)
      PROVE  Feedback'
  <2>1. ControlTypes /\ op[p] \in Entered /\ UNCHANGED feedback
    BY <1>5, OpKinds DEF admit, acquire, prepare, write, commit, close, expire, Control, UnderLease
  <2>2. \/ raise(p)
        \/ to(p, "admitted") \/ to(p, "leased") \/ to(p, "prepared") \/ to(p, "written") \/ to(p, "committed")
    BY <1>5 DEF admit, acquire, prepare, write, commit, close, expire, unresolved
  <2>3. op'[p].at # "telling" /\ \A q \in Procs \ {p} : op'[q] = op[q]
    BY <2>1, <2>2, RaiseStep, ToStep
  <2> QED
    BY <2>1, <2>3, QuietFeedback
<1> QED
  BY <1>1, <1>2, <1>3, <1>4, <1>5, AppendDecisionStep, TellStep DEF Next, proc

\* However many processes append decisions, of whichever tasks, under one id: its
\* observers are told of at most one, the one on file.
THEOREM ToldAtMostOnce == Spec => []ToldOnce
<1>1. Init => Feedback
  <2> SUFFICES ASSUME Init PROVE Feedback
    OBVIOUS
  <2>1. decisions \in Seq({}) /\ told \in [Ids -> Seq(Bodies)]
    BY DEF Init
  <2>2. ToldOnce
    BY DEF Init, ToldOnce
  <2>3. \A p \in Procs : op[p].at = "idle"
    BY DEF Init, Idle
  <2> QED
    BY <2>1, <2>2, <2>3 DEF Feedback, TellingOK
<1>2. Feedback => ToldOnce
  BY DEF Feedback
<1> QED
  BY <1>1, <1>2, InitControl, NextControl, NextFeedback, PTL DEF Spec

---------------------------------------------------------------------------
(* The log.                                                                *)

Records == [id : Nat, attempt : Keys, seq : 0..MaxEvents, end : Ends, by : Procs, parent : Nat]
Tails == [seq : Nat, id : Nat]

LogTypes ==
  /\ log \in Seq(Records)
  /\ tails \in [Procs -> [Attempts -> Tails]]
  /\ memory \in [Procs -> [Attempts -> Nat]]

\* Every attempt has a last line, or none.
Findable == \A a \in Attempts, n \in 0..Len(log) : \E i \in 0..n : is_last(log, a, n, i)

\* Line n is the last one p wrote.
WroteLast(p, n) == log[n].by = p /\ \A k \in n + 1 .. Len(log) : log[k].by # p

\* A publish that is about to be answered has its line.
Published(p) ==
  op[p].at \in {"written", "committed"} /\ op[p].role = "event_log" => \E n \in DOMAIN log : WroteLast(p, n)

\* The inductive invariant of the log.
Logged ==
  /\ LogTypes
  /\ Findable
  /\ \A p \in Procs : Published(p)
  /\ answered \subseteq DOMAIN log
  /\ (\A i \in DOMAIN log : log[i].end = "newline") => scans

\* There is one last line.
LEMMA LastUnique ==
  ASSUME NEW lines, NEW a, NEW n \in Nat, NEW i \in 0..n, NEW j \in 0..n,
         is_last(lines, a, n, i), is_last(lines, a, n, j)
  PROVE  i = j
<1>1. CASE i < j
  <2>1. j \in i + 1 .. n /\ j # 0
    BY <1>1
  <2> QED
    BY <2>1 DEF is_last
<1>2. CASE j < i
  <2>1. i \in j + 1 .. n /\ i # 0
    BY <1>2
  <2> QED
    BY <2>1 DEF is_last
<1> QED
  BY <1>1, <1>2

\* What tail finds.
LEMMA TailIs ==
  ASSUME NEW lines, NEW a, NEW n \in Nat, NEW i \in 0..n, is_last(lines, a, n, i)
  PROVE  tail(lines, a, n) = IF i = 0 THEN [seq |-> 0, id |-> 0]
                                      ELSE [seq |-> lines[i].seq, id |-> lines[i].id]
<1> DEFINE j == CHOOSE k \in 0..n : is_last(lines, a, n, k)
<1>1. j \in 0..n /\ is_last(lines, a, n, j)
  OBVIOUS
<1>2. j = i
  <2> HIDE DEF j
  <2> QED
    BY <1>1, LastUnique
<1> QED
  BY <1>2 DEF tail

\* Tails are numbers of transitions and of records.
LEMMA TailType ==
  ASSUME log \in Seq(Records), Findable, NEW a \in Attempts, NEW n \in 0..Len(log)
  PROVE  tail(log, a, n) \in Tails
<1>1. PICK i \in 0..n : is_last(log, a, n, i)
  BY DEF Findable
<1>2. n \in Nat /\ (i # 0 => i \in DOMAIN log)
  BY LenProperties
<1>3. i # 0 => log[i] \in Records
  BY <1>2, ElementOfSeq
<1>4. i # 0 => log[i].seq \in Nat /\ log[i].id \in Nat
  BY SMTT(30), <1>3, BoundAssumption DEF Records
<1> QED
  BY <1>1, <1>2, <1>4, TailIs DEF Tails

\* An appended line leaves the tails of what precedes it.
LEMMA AppendedLog ==
  ASSUME log \in Seq(Records), Findable, NEW r \in Records, log' = Append(log, r)
  PROVE  /\ log' \in Seq(Records) /\ Len(log) \in Nat /\ Len(log') = Len(log) + 1
         /\ DOMAIN log = 1..Len(log) /\ DOMAIN log' = 1..Len(log) + 1
         /\ \A n \in 1..Len(log) : log'[n] = log[n]
         /\ log'[Len(log) + 1] = r
         /\ Findable'
         /\ \A a \in Attempts, n \in 0..Len(log) : tail(log', a, n) = tail(log, a, n)
<1>1. /\ log' \in Seq(Records) /\ Len(log) \in Nat /\ Len(log') = Len(log) + 1
      /\ DOMAIN log = 1..Len(log) /\ DOMAIN log' = 1..Len(log) + 1
      /\ \A n \in 1..Len(log) : log'[n] = log[n]
      /\ log'[Len(log) + 1] = r
  BY AppendProperties, LenProperties
<1>2. ASSUME NEW a \in Attempts, NEW n \in 0..Len(log), NEW i \in 0..n, is_last(log, a, n, i)
      PROVE  is_last(log', a, n, i)
  <2>1. i = 0 \/ log'[i].attempt = a
    <3>1. i # 0 => i \in 1..Len(log)
      BY <1>1
    <3> QED
      BY <1>1, <1>2, <3>1 DEF is_last
  <2>2. ASSUME NEW k \in i + 1 .. n PROVE log'[k].attempt # a
    <3>1. k \in 1..Len(log)
      BY <1>1
    <3> QED
      BY <1>1, <1>2, <3>1 DEF is_last
  <2> QED
    BY <2>1, <2>2 DEF is_last
<1>3. Findable'
  <2> SUFFICES ASSUME NEW a \in Attempts, NEW n \in 0..Len(log')
               PROVE  \E i \in 0..n : is_last(log', a, n, i)
    BY DEF Findable
  <2>1. CASE n \in 0..Len(log)
    BY <1>2, <2>1 DEF Findable
  <2>2. CASE n = Len(log) + 1 /\ r.attempt = a
    <3>1. is_last(log', a, n, n)
      BY <1>1, <2>2 DEF is_last
    <3> QED
      BY <1>1, <2>2, <3>1
  <2>3. CASE n = Len(log) + 1 /\ r.attempt # a
    <3>1. Len(log) \in 0..Len(log)
      BY <1>1
    <3>2. PICK i \in 0..Len(log) : is_last(log, a, Len(log), i)
      BY <3>1 DEF Findable
    <3>3. is_last(log', a, Len(log), i)
      BY <1>2, <3>1, <3>2
    <3>4. \A k \in i + 1 .. n : k \in i + 1 .. Len(log) \/ k = Len(log) + 1
      BY <1>1, <2>3
    <3>5. is_last(log', a, n, i)
      BY <1>1, <2>3, <3>3, <3>4 DEF is_last
    <3> QED
      BY <1>1, <2>3, <3>5
  <2> QED
    BY <1>1, <2>1, <2>2, <2>3
<1>4. ASSUME NEW a \in Attempts, NEW n \in 0..Len(log) PROVE tail(log', a, n) = tail(log, a, n)
  <2>1. PICK i \in 0..n : is_last(log, a, n, i)
    BY DEF Findable
  <2>2. n \in Nat /\ is_last(log', a, n, i)
    BY <1>1, <1>2, <2>1
  <2>3. i # 0 => log'[i] = log[i]
    BY <1>1
  <2>4. tail(log, a, n) = IF i = 0 THEN [seq |-> 0, id |-> 0] ELSE [seq |-> log[i].seq, id |-> log[i].id]
    BY <2>1, <2>2, TailIs
  <2>5. tail(log', a, n) = IF i = 0 THEN [seq |-> 0, id |-> 0] ELSE [seq |-> log'[i].seq, id |-> log'[i].id]
    BY <2>1, <2>2, TailIs
  <2> QED
    BY <2>3, <2>4, <2>5
<1> QED
  BY <1>1, <1>3, <1>4

\* The line append_record writes, after it found that the log scans and bound the
\* record to the tail it found under the lock.
LEMMA WriteLine ==
  ASSUME Logged, NEW p \in Procs, NEW e, e.attempt \in Keys, e.seq \in 0..MaxEvents,
         NEW ok \in BOOLEAN, scans, contiguous(p, e), write_line(p, e, ok)
  PROVE  /\ log' \in Seq(Records) /\ Findable' /\ tails' \in [Procs -> [Attempts -> Tails]]
         /\ DOMAIN log \subseteq DOMAIN log' /\ Len(log) + 1 \in DOMAIN log'
         /\ Len(log) \in Nat /\ Len(log') = Len(log) + 1
         /\ \A n \in DOMAIN log : log'[n] = log[n]
         /\ log'[Len(log) + 1].by = p
         /\ (\A i \in DOMAIN log' : log'[i].end = "newline") => scans'
<1> USE NoAttemptAssumption
<1>1. PICK end \in Ends : log' = Append(log, bound(p, e, end))
  BY DEF write_line, Ends
<1> DEFINE r == bound(p, e, end)
<1>2. log \in Seq(Records) /\ Findable /\ Len(log) \in Nat
  BY LenProperties DEF Logged, LogTypes
<1>3. scanned \in [Attempts -> Tails]
  <2>1. \A a \in Attempts : tail(log, a, Len(log)) \in Tails
    BY <1>2, TailType
  <2> QED
    BY <2>1 DEF scanned
<1>4. e.attempt # NoAttempt => e.attempt \in Attempts
  BY DEF Keys
<1>5. e.attempt # NoAttempt =>
        scanned[e.attempt].id \in Nat /\ scanned[e.attempt].seq \in Nat /\ e.seq = scanned[e.attempt].seq + 1
  BY <1>3, <1>4 DEF Tails, contiguous, known_tails
<1>6. r \in Records
  BY <1>2, <1>5 DEF bound, known_tails, Records
<1>7. /\ r.attempt = e.attempt /\ r.seq = e.seq /\ r.by = p
      /\ e.attempt # NoAttempt => r.parent = scanned[e.attempt].id
  BY DEF bound, known_tails
<1> HIDE DEF r
<1>8. /\ log' \in Seq(Records) /\ Len(log') = Len(log) + 1
      /\ DOMAIN log = 1..Len(log) /\ DOMAIN log' = 1..Len(log) + 1
      /\ \A n \in 1..Len(log) : log'[n] = log[n]
      /\ log'[Len(log) + 1] = r
      /\ Findable'
      /\ \A a \in Attempts, n \in 0..Len(log) : tail(log', a, n) = tail(log, a, n)
  BY <1>1, <1>2, <1>6, AppendedLog DEF r
<1>9. tails' \in [Procs -> [Attempts -> Tails]]
  <2> DEFINE t == [known_tails(p) EXCEPT ![e.attempt] = [seq |-> e.seq, id |-> Len(log) + 1]]
  <2>1. [seq |-> e.seq, id |-> Len(log) + 1] \in Tails
    BY <1>2, BoundAssumption DEF Tails
  <2>2. t \in [Attempts -> Tails]
    BY <1>3, <2>1 DEF known_tails
  <2>3. \E u \in [Attempts -> Tails] : tails' = [tails EXCEPT ![p] = u]
    BY <1>3, <2>2 DEF write_line, known_tails
  <2> QED
    BY <2>3 DEF Logged, LogTypes
<1>10. ASSUME \A i \in DOMAIN log' : log'[i].end = "newline" PROVE scans'
  <2>1. parses(log')
    BY <1>10 DEF parses
  <2>2. ASSUME NEW n \in DOMAIN log', log'[n].attempt \in Attempts
        PROVE  tail(log', log'[n].attempt, n - 1) = [seq |-> log'[n].seq - 1, id |-> log'[n].parent]
    <3>1. CASE n \in 1..Len(log)
      <4>1. log'[n] = log[n] /\ n \in DOMAIN log /\ n - 1 \in 0..Len(log)
        BY <1>2, <1>8, <3>1
      <4> QED
        BY <1>8, <2>2, <4>1 DEF scans
    <3>2. CASE n = Len(log) + 1
      <4>1. log'[n] = r /\ n - 1 = Len(log) /\ Len(log) \in 0..Len(log) /\ r.attempt # NoAttempt
        BY <1>2, <1>8, <2>2, <3>2
      <4>2. tail(log', r.attempt, Len(log)) = scanned[r.attempt]
        BY <1>8, <2>2, <4>1 DEF scanned
      <4>3. scanned[r.attempt] \in Tails
        BY <1>3, <2>2, <4>1
      <4>4. scanned[r.attempt] = [seq |-> scanned[r.attempt].seq, id |-> scanned[r.attempt].id]
        BY <4>3 DEF Tails
      <4>5. scanned[r.attempt].seq = r.seq - 1 /\ scanned[r.attempt].id = r.parent
        BY <1>5, <1>7, <4>1
      <4> QED
        BY <4>1, <4>2, <4>4, <4>5
    <3> QED
      BY <1>2, <1>8, <3>1, <3>2
  <2> QED
    BY <2>1, <2>2 DEF scans
<1>11. Len(log) + 1 \in DOMAIN log' /\ DOMAIN log \subseteq DOMAIN log'
  BY <1>2, <1>8
<1> QED
  BY <1>2, <1>7, <1>8, <1>9, <1>10, <1>11

\* A step that leaves the log alone, and starts no answer.
LEMMA QuietLog ==
  ASSUME Logged, UNCHANGED <<log, answered>>,
         tails' \in [Procs -> [Attempts -> Tails]], memory' \in [Procs -> [Attempts -> Nat]],
         \A p \in Procs : \/ op'[p].at \notin {"written", "committed"}
                          \/ op'[p].role # "event_log"
                          \/ op[p].at \in {"written", "committed"} /\ op'[p].role = op[p].role
  PROVE  Logged'
<1>1. LogTypes' /\ Findable'
  BY DEF Logged, LogTypes, Findable
<1>2. ASSUME NEW p \in Procs PROVE Published(p)'
  BY ZenonT(30) DEF Logged, Published, WroteLast
<1>3. scans' = scans
  BY DEF scans
<1> QED
  BY <1>1, <1>2, <1>3 DEF Logged

\* A step that writes a line: p is not waiting for an answer before it.
LEMMA LineStep ==
  ASSUME Control, Logged, NEW p \in Procs, op[p] \in Checked \cup Entered, NEW ok \in BOOLEAN,
         appendable(p), write_line(p, op[p], ok),
         memory' \in [Procs -> [Attempts -> Nat]],
         answered' \subseteq answered \cup {Len(log) + 1},
         \A q \in Procs \ {p} : op'[q] = op[q]
  PROVE  Logged'
<1>1. op[p].attempt \in Keys /\ op[p].seq \in 0..MaxEvents /\ scans /\ contiguous(p, op[p])
  BY DEF Checked, Entered, appendable
<1>2. /\ log' \in Seq(Records) /\ Findable' /\ tails' \in [Procs -> [Attempts -> Tails]]
      /\ DOMAIN log \subseteq DOMAIN log' /\ Len(log) + 1 \in DOMAIN log'
      /\ Len(log) \in Nat /\ Len(log') = Len(log) + 1
      /\ \A n \in DOMAIN log : log'[n] = log[n]
      /\ log'[Len(log) + 1].by = p
      /\ (\A i \in DOMAIN log' : log'[i].end = "newline") => scans'
  <2> DEFINE e == op[p]
  <2>1. e.attempt \in Keys /\ e.seq \in 0..MaxEvents /\ contiguous(p, e) /\ write_line(p, e, ok)
    BY <1>1
  <2> HIDE DEF e
  <2> QED
    BY <1>1, <2>1, WriteLine
<1>3. DOMAIN log = 1..Len(log)
  BY LenProperties DEF Logged, LogTypes
<1>4. PICK m \in Nat : m = Len(log) + 1
  BY <1>2
<1>5. ASSUME NEW q \in Procs PROVE Published(q)'
  <2>1. CASE q = p
    <3>1. WroteLast(p, m)'
      BY <1>2, <1>4 DEF WroteLast
    <3> QED
      BY <1>2, <1>4, <2>1, <3>1 DEF Published
  <2>2. CASE q # p /\ op'[q].at \in {"written", "committed"} /\ op'[q].role = "event_log"
    <3>1. op'[q] = op[q]
      BY <2>2
    <3>2. Published(q)
      BY DEF Logged
    <3>3. PICK n \in DOMAIN log : WroteLast(q, n)
      BY <2>2, <3>1, <3>2 DEF Published
    <3>4. n \in DOMAIN log' /\ log'[n] = log[n] /\ n \in Nat
      BY <1>2, <1>3
    <3>5. ASSUME NEW k \in n + 1 .. Len(log') PROVE log'[k].by # q
      <4>1. k \in n + 1 .. Len(log) \/ k = Len(log) + 1
        BY <1>2, <3>4
      <4>2. CASE k \in n + 1 .. Len(log)
        <5>1. k \in DOMAIN log
          BY <1>3, <3>4, <4>2
        <5> QED
          BY <1>2, <3>3, <4>2, <5>1 DEF WroteLast
      <4>3. CASE k = Len(log) + 1
        BY <1>2, <2>2, <4>3
      <4> QED
        BY <4>1, <4>2, <4>3
    <3>6. WroteLast(q, n)'
      BY <3>3, <3>4, <3>5 DEF WroteLast
    <3> QED
      BY <3>4, <3>6 DEF Published
  <2> QED
    BY <2>1, <2>2 DEF Published
<1>6. answered' \subseteq DOMAIN log'
  BY <1>2 DEF Logged
<1> QED
  BY <1>2, <1>5, <1>6 DEF Logged, LogTypes

\* What the bus remembers when it answers is a number.
LEMMA AnswerType ==
  ASSUME Logged, NEW p \in Procs, op[p] \in Checked \cup Entered, NEW n, answer(p, n)
  PROVE  memory' \in [Procs -> [Attempts -> Nat]]
<1>1. op[p].attempt \in Keys /\ op[p].seq \in Nat
  BY BoundAssumption DEF Checked, Entered
<1>2. memory \in [Procs -> [Attempts -> Nat]]
  BY DEF Logged, LogTypes
<1>3. CASE op[p].attempt = NoAttempt
  BY <1>2, <1>3 DEF answer
<1>4. CASE op[p].attempt # NoAttempt
  <2>1. op[p].attempt \in Attempts
    BY <1>1, <1>4 DEF Keys
  <2>2. [memory[p] EXCEPT ![op[p].attempt] = op[p].seq] \in [Attempts -> Nat]
    BY <1>1, <1>2, <2>1
  <2>3. memory' = [memory EXCEPT ![p] = [memory[p] EXCEPT ![op[p].attempt] = op[p].seq]]
    BY <1>2, <1>4 DEF answer
  <2> QED
    BY <1>2, <2>2, <2>3
<1> QED
  BY <1>3, <1>4

\* append_record of a plain process.
LEMMA AppendRecordStep ==
  ASSUME Control, Logged, NEW p \in Procs, append_record(p)
  PROVE  Logged'
<1>1. op[p] \in Checked /\ op'[p] = Idle /\ \A q \in Procs \ {p} : op'[q] = op[q]
  BY OpKinds DEF append_record, Control, ControlTypes
<1>2. tails \in [Procs -> [Attempts -> Tails]] /\ memory \in [Procs -> [Attempts -> Nat]]
  BY DEF Logged, LogTypes
<1>3. CASE appendable(p) /\ write_line(p, op[p], TRUE) /\ answer(p, Len(log) + 1)
  <2>1. memory' \in [Procs -> [Attempts -> Nat]]
    BY <1>1, <1>3, AnswerType
  <2>2. answered' \subseteq answered \cup {Len(log) + 1}
    BY <1>3 DEF answer
  <2> QED
    BY <1>1, <1>3, <2>1, <2>2, LineStep
<1>4. CASE appendable(p) /\ write_line(p, op[p], FALSE) /\ UNCHANGED <<memory, answered>>
  BY <1>1, <1>2, <1>4, LineStep
<1>5. CASE UNCHANGED <<tails, memory, log, answered>>
  <2>1. op'[p].at = "idle"
    BY <1>1 DEF Idle
  <2> QED
    BY <1>1, <1>2, <1>5, <2>1, QuietLog
<1> QED
  BY <1>3, <1>4, <1>5 DEF append_record

\* The steps of an operation of an adapter.
LEMMA AdapterSteps ==
  ASSUME Control, Logged, NEW p \in Procs,
         admit(p) \/ acquire(p) \/ prepare(p) \/ write(p) \/ commit(p) \/ close(p) \/ expire(p)
  PROVE  Logged'
<1>1. ControlTypes /\ op[p] \in Entered
  BY OpKinds DEF admit, acquire, prepare, write, commit, close, expire, Control, UnderLease
<1>2. tails \in [Procs -> [Attempts -> Tails]] /\ memory \in [Procs -> [Attempts -> Nat]]
  BY DEF Logged, LogTypes
<1>3. CASE admit(p) \/ acquire(p) \/ prepare(p) \/ commit(p) \/ expire(p)
  <2>1. UNCHANGED <<tails, memory, log, answered>>
    BY <1>3 DEF admit, acquire, prepare, commit, expire, bus
  <2>2. \/ raise(p)
        \/ to(p, "admitted") \/ to(p, "leased") \/ to(p, "prepared")
        \/ op[p].at = "written" /\ to(p, "committed")
    BY <1>3 DEF admit, acquire, prepare, commit, expire, unresolved
  <2>3. /\ \/ op'[p].at \notin {"written", "committed"}
           \/ op[p].at \in {"written", "committed"} /\ op'[p].role = op[p].role
        /\ \A q \in Procs \ {p} : op'[q] = op[q]
    BY <1>1, <2>2, RaiseStep, ToStep
  <2> QED
    BY <1>2, <2>1, <2>3, QuietLog
<1>4. CASE write(p)
  <2>1. UNCHANGED <<memory, answered>>
    BY <1>4 DEF write
  <2>2. /\ raise(p) \/ to(p, "written")
        /\ \A q \in Procs \ {p} : op'[q] = op[q]
    BY <1>1, <1>4, RaiseStep, ToStep DEF write, unresolved
  <2>3. CASE op[p].role # "event_log" /\ to(p, "written") /\ UNCHANGED <<tails, log>>
    <3>1. op'[p].role # "event_log"
      BY <1>1, <2>3, ToStep
    <3> QED
      BY <1>2, <2>1, <2>2, <2>3, <3>1, QuietLog
  <2>4. ASSUME NEW ok \in BOOLEAN, appendable(p), write_line(p, op[p], ok) PROVE Logged'
    BY <1>1, <1>2, <2>1, <2>2, <2>4, LineStep
  <2>5. CASE unresolved(p) /\ UNCHANGED <<tails, log>>
    <3>1. op'[p].at = "idle"
      BY <1>1, <2>5, RaiseStep DEF unresolved
    <3> QED
      BY <1>2, <2>1, <2>2, <2>5, <3>1, QuietLog
  <2> QED
    BY <1>4, <2>3, <2>4, <2>5 DEF write
<1>5. CASE close(p)
  <2>1. UNCHANGED <<tails, log>> /\ raise(p) /\ op[p].at = "committed"
    BY <1>5 DEF close
  <2>2. op'[p].at = "idle" /\ \A q \in Procs \ {p} : op'[q] = op[q]
    BY <1>1, <2>1, RaiseStep
  <2>3. CASE op[p].role # "event_log"
    BY <1>2, <1>5, <2>1, <2>2, <2>3, QuietLog DEF close
  <2>4. CASE op[p].role = "event_log"
    <3>1. answer(p, last_by(p))
      BY <1>5, <2>4 DEF close
    <3>2. memory' \in [Procs -> [Attempts -> Nat]]
      BY <1>1, <3>1, AnswerType
    <3>3. \E n \in DOMAIN log : WroteLast(p, n)
      BY <2>1, <2>4 DEF Logged, Published
    <3>4. last_by(p) \in DOMAIN log
      BY <3>3 DEF last_by, WroteLast
    <3>5. answered' \subseteq DOMAIN log'
      BY <2>1, <3>1, <3>4 DEF answer, Logged
    <3>6. LogTypes' /\ Findable'
      BY <1>2, <2>1, <3>2 DEF Logged, LogTypes, Findable
    <3>7. \A q \in Procs : Published(q)'
      BY <2>1, <2>2 DEF Logged, Published, WroteLast
    <3>8. scans' = scans
      BY <2>1 DEF scans
    <3> QED
      BY <2>1, <3>5, <3>6, <3>7, <3>8 DEF Logged
  <2> QED
    BY <2>3, <2>4
<1> QED
  BY <1>3, <1>4, <1>5

\* configure reads the tails from the file.
LEMMA ConfigureStep ==
  ASSUME Control, Logged, NEW p \in Procs, NEW g \in 0 .. MaxGeneration, configure(p, g)
  PROVE  Logged'
<1>1. log \in Seq(Records) /\ Findable /\ Len(log) \in 0..Len(log)
  BY LenProperties DEF Logged, LogTypes
<1>2. \A a \in Attempts : tail(log, a, Len(log)) \in Tails
  BY <1>1, TailType
<1>3. scanned \in [Attempts -> Tails]
  BY <1>2 DEF scanned
<1>4. \A a \in Attempts : attempt_tail(a) \in Nat
  BY <1>3 DEF attempt_tail, Tails
<1>5. tails' \in [Procs -> [Attempts -> Tails]] /\ memory' \in [Procs -> [Attempts -> Nat]]
  BY <1>3, <1>4 DEF configure, Logged, LogTypes
<1>6. UNCHANGED <<log, answered, op>>
  BY DEF configure
<1> QED
  BY <1>5, <1>6, QuietLog

\* Every step keeps the log.
LEMMA NextLogged == Control /\ Logged /\ [Next]_vars => Logged'
<1> SUFFICES ASSUME Control, Logged, [Next]_vars PROVE Logged'
  OBVIOUS
<1>1. tails \in [Procs -> [Attempts -> Tails]] /\ memory \in [Procs -> [Attempts -> Nat]]
  BY DEF Logged, LogTypes
<1>2. CASE UNCHANGED vars
  BY <1>1, <1>2, QuietLog DEF vars, bus
<1>3. CASE begin_hold \/ install \/ release_hold
  BY <1>1, <1>3, QuietLog DEF begin_hold, install, release_hold, bus
<1>4. ASSUME NEW p \in Procs, UNCHANGED <<tails, memory, log, answered>>,
             op'[p].at \notin {"written", "committed"}, \A q \in Procs \ {p} : op'[q] = op[q]
      PROVE  Logged'
  BY <1>1, <1>4, QuietLog
<1>5. ASSUME NEW p \in Procs, drain(p) PROVE Logged'
  BY <1>1, <1>5, QuietLog DEF drain, bus
<1>6. ASSUME NEW p \in Procs, die(p) \/ tell(p) PROVE Logged'
  BY <1>4, <1>6 DEF die, tell, bus, Control, ControlTypes, Idle
<1>7. ASSUME NEW p \in Procs, NEW a \in Keys, NEW s \in 0 .. MaxEvents, publish(p, a, s) PROVE Logged'
  <2>1. op'[p].at = "checked" /\ \A q \in Procs \ {p} : op'[q] = op[q]
    BY <1>7 DEF publish, Control, ControlTypes
  <2> QED
    BY <1>4, <1>7, <2>1 DEF publish, bus
<1>8. ASSUME NEW p \in Procs, NEW r \in Roles, NEW a \in Keys, NEW s \in 0 .. MaxEvents, operation(p, r, a, s)
      PROVE  Logged'
  <2>1. op'[p].at = "entered" /\ \A q \in Procs \ {p} : op'[q] = op[q]
    BY <1>8 DEF operation, Control, ControlTypes
  <2> QED
    BY <1>4, <1>8, <2>1 DEF operation, bus
<1>9. ASSUME NEW p \in Procs, NEW d \in Decisions, append_decision(p, d) PROVE Logged'
  <2>1. op'[p].at \in {"telling", "idle"} /\ \A q \in Procs \ {p} : op'[q] = op[q]
    BY <1>9 DEF append_decision, Control, ControlTypes, Idle
  <2> QED
    BY <1>4, <1>9, <2>1 DEF append_decision, bus
<1> QED
  BY <1>2, <1>3, <1>5, <1>6, <1>7, <1>8, <1>9, AppendRecordStep, AdapterSteps, ConfigureStep DEF Next, proc

\* Whatever processes append between the read of a tail and the write, a record
\* that was answered stays in the log, and a log without a cut line still scans:
\* append_record binds to the tail it finds under the lock.
THEOREM LogStaysIntact == Spec => []LogIntact
<1>1. Init => Logged
  <2> SUFFICES ASSUME Init PROVE Logged
    OBVIOUS
  <2>1. LogTypes
    BY DEF Init, LogTypes, NoTails, Tails
  <2>2. Len(log) = 0 /\ DOMAIN log = {}
    BY DEF Init
  <2>3. Findable
    BY <2>2 DEF Findable, is_last
  <2>4. \A p \in Procs : Published(p)
    BY DEF Init, Idle, Published
  <2>5. scans
    BY <2>2 DEF scans, parses
  <2>6. answered \subseteq DOMAIN log
    BY DEF Init
  <2> QED
    BY <2>1, <2>3, <2>4, <2>5, <2>6 DEF Logged
<1>2. Logged => LogIntact
  BY DEF Logged, LogIntact
<1> QED
  BY <1>1, <1>2, InitControl, NextControl, NextLogged, PTL DEF Spec
====
