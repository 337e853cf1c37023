----------------------- MODULE ExecutionAttemptProofs -----------------------
(***************************************************************************)
(* Proofs about ExecutionAttempt, for every set of processes, provider     *)
(* orders and budgets.  What needs one owner is proved for one launcher at *)
(* a time: launch() looks for a live worker and records its own in two     *)
(* steps, so two callers could both start one.                             *)
(***************************************************************************)
EXTENDS ExecutionAttempt, SequenceTheorems, WellFoundedInduction, TLAPS

---------------------------------------------------------------------------
(* total, the sum over receipts.                                           *)

\* The equation of the recursion in total, up to the first n numbers.
SumUpTo(numbers, n, f) == f = [i \in 0..n |-> IF i = 0 THEN 0 ELSE f[i - 1] + numbers[i]]

\* A set of natural numbers has a least member.
LEMMA LeastMember ==
  ASSUME NEW T \in SUBSET Nat, T # {}
  PROVE  \E n \in T : \A m \in T : n <= m
<1>1. PICK n \in T : \A m \in T : <<m, n>> \notin OpToRel(<, Nat)
  BY NatLessThanWellFounded, WFMin
<1>2. \A m \in T : ~(m < n)
  BY <1>1 DEF OpToRel
<1> QED
  BY <1>2

\* The recursion has a solution.
LEMMA SumExists ==
  ASSUME NEW s \in Seq(Nat), NEW n \in 0..Len(s)
  PROVE  \E f \in [0..n -> Nat] : SumUpTo(s, n, f)
<1> DEFINE T == {m \in 0..Len(s) : ~\E f \in [0..m -> Nat] : SumUpTo(s, m, f)}
<1> SUFFICES ASSUME T # {} PROVE FALSE
  OBVIOUS
<1>0. Len(s) \in Nat /\ DOMAIN s = 1..Len(s) /\ \A i \in 1..Len(s) : s[i] \in Nat
  BY LenProperties, ElementOfSeq
<1>1. PICK m \in T : \A k \in T : m <= k
  <2>1. T \in SUBSET Nat
    BY <1>0
  <2> HIDE DEF T
  <2> QED
    BY <2>1, LeastMember
<1>2. CASE m = 0
  <2>1. [i \in 0..0 |-> 0] \in [0..m -> Nat] /\ SumUpTo(s, m, [i \in 0..0 |-> 0])
    BY <1>2 DEF SumUpTo
  <2> QED
    BY <1>1, <2>1
<1>3. CASE m # 0
  <2>1. m \in Nat /\ m \in 1..Len(s) /\ m - 1 \in 0..Len(s) /\ ~(m <= m - 1)
    BY <1>0, <1>1, <1>3
  <2>2. m - 1 \notin T
    BY <1>1, <2>1
  <2>3. PICK f \in [0..m - 1 -> Nat] : SumUpTo(s, m - 1, f)
    BY <2>1, <2>2
  <2> DEFINE g == [i \in 0..m |-> IF i = m THEN f[m - 1] + s[m] ELSE f[i]]
  <2>4. g \in [0..m -> Nat]
    BY <1>0, <2>1, <2>3
  <2>5. ASSUME NEW i \in 0..m PROVE g[i] = IF i = 0 THEN 0 ELSE g[i - 1] + s[i]
    <3>1. CASE i = 0
      <4>1. 0 \in 0..m - 1 /\ 0 # m
        BY <2>1
      <4>2. f[0] = 0
        BY <2>3, <4>1 DEF SumUpTo
      <4> QED
        BY <3>1, <4>1, <4>2
    <3>2. CASE i = m
      <4>1. g[i] = f[m - 1] + s[m] /\ g[m - 1] = f[m - 1]
        BY <2>1, <3>2
      <4> QED
        BY <2>1, <3>2, <4>1
    <3>3. CASE i # 0 /\ i # m
      <4>1. i \in 0..m - 1 /\ i - 1 \in 0..m - 1 /\ i - 1 # m /\ i - 1 \in 0..m
        BY <2>1, <3>3
      <4>2. g[i] = f[i] /\ g[i - 1] = f[i - 1]
        BY <3>3, <4>1
      <4>3. f[i] = f[i - 1] + s[i]
        BY <2>3, <3>3, <4>1 DEF SumUpTo
      <4> QED
        BY <3>3, <4>2, <4>3
    <3> QED
      BY <3>1, <3>2, <3>3
  <2>6. SumUpTo(s, m, g)
    <3> HIDE DEF g
    <3> DEFINE h == [i \in 0..m |-> IF i = 0 THEN 0 ELSE g[i - 1] + s[i]]
    <3>1. \A i \in 0..m : g[i] = h[i]
      BY <2>5
    <3>2. g = h
      BY <2>4, <3>1
    <3> QED
      BY <3>2 DEF SumUpTo
  <2> QED
    BY <1>1, <2>4, <2>6
<1> QED
  BY <1>2, <1>3

\* And no other.
LEMMA SumUnique ==
  ASSUME NEW s \in Seq(Nat), NEW n \in 0..Len(s), NEW f, NEW g, SumUpTo(s, n, f), SumUpTo(s, n, g)
  PROVE  f = g
<1> DEFINE T == {i \in 0..n : f[i] # g[i]}
<1>0. Len(s) \in Nat /\ n \in Nat
  BY LenProperties
<1>1. DOMAIN f = 0..n /\ DOMAIN g = 0..n
  BY DEF SumUpTo
<1>2. \A i \in 0..n : /\ f[i] = IF i = 0 THEN 0 ELSE f[i - 1] + s[i]
                      /\ g[i] = IF i = 0 THEN 0 ELSE g[i - 1] + s[i]
  BY DEF SumUpTo
<1>3. T = {}
  <2> SUFFICES ASSUME T # {} PROVE FALSE
    OBVIOUS
  <2>1. T \in SUBSET Nat
    BY <1>0
  <2>2. PICK m \in T : \A k \in T : m <= k
    <3> HIDE DEF T
    <3> QED
      BY <2>1, LeastMember
  <2>3. m # 0 /\ m \in Nat
    BY <1>0, <1>2, <2>2
  <2>4. m - 1 \in 0..n /\ ~(m <= m - 1)
    BY <1>0, <2>2, <2>3
  <2>5. f[m - 1] = g[m - 1]
    BY <2>2, <2>4
  <2> QED
    BY <1>2, <2>2, <2>3, <2>5
<1>4. \A i \in 0..n : f[i] = g[i]
  BY <1>3
<1> QED
  BY <1>1, <1>4 DEF SumUpTo

\* total is the value of that solution.
LEMMA TotalIs ==
  ASSUME NEW s \in Seq(Nat), NEW f, SumUpTo(s, Len(s), f)
  PROVE  total(s) = f[Len(s)] /\ total(s) \in Nat
<1> DEFINE g == CHOOSE g : g = [i \in 0..Len(s) |-> IF i = 0 THEN 0 ELSE g[i - 1] + s[i]]
<1>0. Len(s) \in 0..Len(s) /\ Len(s) \in Nat
  BY LenProperties
<1>1. SumUpTo(s, Len(s), g)
  BY DEF SumUpTo
<1>2. total(s) = g[Len(s)]
  BY DEF total
<1>3. g = f
  <2> HIDE DEF g
  <2> QED
    BY <1>0, <1>1, SumUnique
<1>4. PICK h \in [0..Len(s) -> Nat] : SumUpTo(s, Len(s), h)
  BY <1>0, SumExists
<1>5. h = f
  BY <1>0, <1>4, SumUnique
<1> QED
  BY <1>0, <1>2, <1>3, <1>4, <1>5

\* What a further receipt adds.
LEMMA TotalAppend ==
  ASSUME NEW s \in Seq(Nat), NEW n \in Nat
  PROVE  total(Append(s, n)) = total(s) + n /\ total(s) \in Nat
<1> DEFINE t == Append(s, n)
           l == Len(s)
<1>1. /\ t \in Seq(Nat) /\ l \in Nat /\ Len(t) = l + 1
      /\ \A i \in 1..l : t[i] = s[i]
      /\ t[l + 1] = n
  BY AppendProperties, LenProperties
<1>2. PICK h \in [0..l + 1 -> Nat] : SumUpTo(t, l + 1, h)
  <2>1. Len(t) \in 0..Len(t)
    BY <1>1
  <2> HIDE DEF t
  <2> QED
    BY <1>1, <2>1, SumExists
<1> HIDE DEF t, l
<1> DEFINE g == [i \in 0..l |-> h[i]]
<1>3. \A i \in 0..l + 1 : h[i] = IF i = 0 THEN 0 ELSE h[i - 1] + t[i]
  BY <1>2 DEF SumUpTo
<1>4. \A i \in 0..l : g[i] = IF i = 0 THEN 0 ELSE g[i - 1] + s[i]
  <2> SUFFICES ASSUME NEW i \in 0..l PROVE h[i] = IF i = 0 THEN 0 ELSE g[i - 1] + s[i]
    OBVIOUS
  <2>1. i \in 0..l + 1 /\ (i # 0 => i - 1 \in 0..l /\ i \in 1..l)
    BY <1>1
  <2> QED
    BY <1>1, <1>3, <2>1
<1>5. SumUpTo(s, l, g)
  <2> DEFINE k == [i \in 0..l |-> IF i = 0 THEN 0 ELSE g[i - 1] + s[i]]
  <2>1. \A i \in 0..l : g[i] = k[i]
    BY <1>4
  <2>2. g = k
    BY <2>1
  <2> QED
    BY <2>2 DEF SumUpTo
<1>6. total(s) = h[l] /\ total(s) \in Nat
  <2>1. l \in 0..l
    BY <1>1
  <2> QED
    BY <1>5, <2>1, TotalIs DEF l
<1>7. total(t) = h[l + 1]
  BY <1>1, <1>2, TotalIs
<1>8. h[l + 1] = h[l] + n
  BY <1>1, <1>3
<1> QED
  BY <1>6, <1>7, <1>8 DEF t

---------------------------------------------------------------------------
(* Types.                                                                  *)

\* Where a process holds the provider it works with.
WithProvider == {"leasing", "leased", "prepared", "projected", "required", "invoking", "returned", "replacing"}

\* A running worker is somebody's.
Named(doc) == doc.status = "WORKER_RUNNING" => doc.active_provider \in Providers
RunTyped(r) ==
  /\ Named(r.doc)
  /\ r.at = "running" => r.doc.active_provider \in Providers
  /\ r.at \in WithProvider => r.provider \in Providers
  /\ r.at = "returned" => r.receipt \in Receipts

\* The inductive invariant of the types.
Typed == TypeOK /\ Named(state) /\ \A p \in Procs : RunTyped(proc[p])

\* The document, but for the process it names.
SameFile(d, e) ==
  /\ d.fast_lane = e.fast_lane /\ d.status = e.status /\ d.executions = e.executions
  /\ d.active_provider = e.active_provider /\ d.next_provider = e.next_provider

\* Process p is at another place, and nothing else of its run is different that
\* a later step depends on.
Moved(p, at) ==
  /\ proc'[p].at = at
  /\ proc'[p].attempts = proc[p].attempts
  /\ proc'[p].fresh = proc[p].fresh /\ proc'[p].may_create = proc[p].may_create

\* Only p takes a step.
Alone(p) == proc' \in [Procs -> Runs] /\ \A q \in Procs \ {p} : proc'[q] = proc[q]

\* The process moves on with what it knows.
LEMMA GotoStep ==
  ASSUME TypeOK, NEW p \in Procs, NEW at \in Inside \cup {"started"}, goto(p, at)
  PROVE  /\ Alone(p) /\ Moved(p, at)
         /\ proc'[p].doc = proc[p].doc /\ proc'[p].provider = proc[p].provider
         /\ proc'[p].receipt = proc[p].receipt
<1> DEFINE r == [proc[p] EXCEPT !.at = at]
<1>1. proc \in [Procs -> Runs] /\ proc[p] \in Runs /\ proc' = [proc EXCEPT ![p] = r] /\ proc'[p] = r
  BY DEF TypeOK, goto
<1>2. r \in Runs
  BY <1>1 DEF Runs, Before
<1> QED
  BY <1>1, <1>2 DEF Runs, Alone, Moved

\* A process that is over.
LEMMA ExitStep ==
  ASSUME TypeOK, NEW p \in Procs, NEW at \in After, exit(p, at)
  PROVE  Alone(p) /\ proc'[p].at = at /\ proc'[p].doc.status = "SUBMITTED"
<1> DEFINE r == [NewRun EXCEPT !.at = at]
<1>1. NewDocument \in Documents /\ NewDocument.status = "SUBMITTED"
  BY EmptySeq DEF NewDocument, Documents, Statuses
<1>2. NewRun \in Runs /\ NewRun.doc = NewDocument
  BY <1>1, EmptySeq DEF NewRun, Runs, Before
<1>3. r \in Runs /\ r.at = at /\ r.doc = NewDocument
  BY <1>2 DEF Runs
<1>4. proc \in [Procs -> Runs] /\ proc' = [proc EXCEPT ![p] = r]
  BY DEF TypeOK, exit
<1> HIDE DEF r
<1> QED
  BY <1>1, <1>3, <1>4 DEF Alone

\* The process writes the document and reads it back.
LEMMA WriteStep ==
  ASSUME TypeOK, NEW p \in Procs, NEW at \in Inside, NEW doc \in Documents, write(p, at, doc)
  PROVE  /\ state' = doc /\ Alone(p) /\ Moved(p, at)
         /\ proc'[p].doc = doc /\ proc'[p].provider = proc[p].provider
         /\ proc'[p].receipt = proc[p].receipt
<1> DEFINE r == [proc[p] EXCEPT !.at = at, !.doc = doc]
<1>1. proc \in [Procs -> Runs] /\ proc[p] \in Runs /\ proc'[p] = r /\ \A q \in Procs \ {p} : proc'[q] = proc[q]
  BY DEF TypeOK, write
<1>2. r \in Runs
  BY <1>1 DEF Runs
<1>3. r.at = at /\ r.doc = doc /\ r.provider = proc[p].provider /\ r.receipt = proc[p].receipt
      /\ r.attempts = proc[p].attempts /\ r.fresh = proc[p].fresh /\ r.may_create = proc[p].may_create
  BY <1>1 DEF Runs
<1>4. state' = doc /\ DOMAIN proc' = Procs /\ proc' = [q \in Procs |-> proc'[q]]
  BY <1>1 DEF write
<1> HIDE DEF r
<1>5. proc' \in [Procs -> Runs]
  BY <1>1, <1>2, <1>4
<1> QED
  BY <1>1, <1>3, <1>4, <1>5 DEF Alone, Moved

\* execute_attempt has read the document.
LEMMA EnterFields ==
  ASSUME TypeOK, NEW p \in Procs, enter(p)
  PROVE  /\ Alone(p)
         /\ proc'[p].at = "entered" /\ proc'[p].doc = state /\ proc'[p].attempts = state.executions
         /\ proc'[p].fresh = (state.status = "SUBMITTED")
         /\ proc'[p].may_create => state.status = "SUBMITTED"
<1> DEFINE r == [proc[p] EXCEPT !.at = "entered", !.doc = state, !.fresh = state.status = "SUBMITTED",
                               !.may_create = fresh_envelope(state), !.attempts = state.executions]
<1>1. /\ proc \in [Procs -> Runs] /\ proc[p] \in Runs /\ state \in Documents /\ proc'[p] = r
      /\ (\A q \in Procs \ {p} : proc'[q] = proc[q]) /\ proc' = [q \in Procs |-> proc'[q]]
  BY DEF TypeOK, enter, fresh_envelope
<1>0. state.executions \in Seq(Receipts) /\ (state.status = "SUBMITTED") \in BOOLEAN /\ fresh_envelope(state) \in BOOLEAN
  BY <1>1 DEF Documents, fresh_envelope
<1>2. r \in Runs
  BY ZenonT(30), <1>1, <1>0 DEF Runs, Inside
<1>3. proc' \in [Procs -> Runs]
  <2> HIDE DEF r
  <2> QED
    BY <1>1, <1>2
<1> QED
  BY <1>1, <1>0, <1>3 DEF Runs, Alone, Moved, fresh_envelope

\* A provider was selected.
LEMMA SelectFields ==
  ASSUME TypeOK, NEW p \in Procs, NEW pr \in Providers, select_initial_provider(p, pr)
  PROVE  /\ Alone(p)
         /\ Moved(p, "leasing") /\ proc'[p].provider = pr /\ proc'[p].doc = proc[p].doc
         /\ proc'[p].receipt = proc[p].receipt
<1> DEFINE r == [proc[p] EXCEPT !.at = "leasing", !.provider = pr]
<1>1. /\ proc \in [Procs -> Runs] /\ proc[p] \in Runs /\ state \in Documents /\ proc'[p] = r
      /\ (\A q \in Procs \ {p} : proc'[q] = proc[q]) /\ proc' = [q \in Procs |-> proc'[q]]
  BY DEF TypeOK, select_initial_provider
<1>2. r \in Runs
  BY <1>1 DEF Runs, Inside
<1>3. proc' \in [Procs -> Runs]
  <2> HIDE DEF r
  <2> QED
    BY <1>1, <1>2
<1> QED
  BY <1>1, <1>3 DEF Runs, Alone, Moved, select_initial_provider

\* The provider the lost run had chosen.
LEMMA ResumeEscalationFields ==
  ASSUME TypeOK, NEW p \in Procs, resume_escalation(p), proc[p].doc.next_provider \in Providers
  PROVE  /\ Alone(p)
         /\ Moved(p, "replacing") /\ proc'[p].provider = proc[p].doc.next_provider
         /\ proc'[p].doc = proc[p].doc
<1> DEFINE r == [proc[p] EXCEPT !.at = "replacing", !.provider = proc[p].doc.next_provider]
<1>1. /\ proc \in [Procs -> Runs] /\ proc[p] \in Runs /\ state \in Documents /\ proc'[p] = r
      /\ (\A q \in Procs \ {p} : proc'[q] = proc[q]) /\ proc' = [q \in Procs |-> proc'[q]]
  BY DEF TypeOK, resume_escalation
<1>2. r \in Runs
  BY <1>1 DEF Runs, Inside
<1>3. proc' \in [Procs -> Runs]
  <2> HIDE DEF r
  <2> QED
    BY <1>1, <1>2
<1> QED
  BY <1>1, <1>3 DEF Runs, Alone, Moved, resume_escalation

\* worker.invoke was called.
LEMMA InvokeFields ==
  ASSUME TypeOK, NEW p \in Procs, invoke(p)
  PROVE  /\ Alone(p)
         /\ Moved(p, "invoking") /\ proc'[p].provider = proc[p].provider /\ proc'[p].doc = proc[p].doc
<1> DEFINE r == [proc[p] EXCEPT !.at = "invoking", !.used = 0]
<1>1. /\ proc \in [Procs -> Runs] /\ proc[p] \in Runs /\ state \in Documents /\ proc'[p] = r
      /\ (\A q \in Procs \ {p} : proc'[q] = proc[q]) /\ proc' = [q \in Procs |-> proc'[q]]
  BY DEF TypeOK, invoke
<1>2. r \in Runs
  BY <1>1 DEF Runs, Inside
<1>3. proc' \in [Procs -> Runs]
  <2> HIDE DEF r
  <2> QED
    BY <1>1, <1>2
<1> QED
  BY <1>1, <1>3 DEF Runs, Alone, Moved, invoke

\* The worker called its provider.
LEMMA CallFields ==
  ASSUME TypeOK, NEW p \in Procs, provider_call(p)
  PROVE  /\ Alone(p)
         /\ Moved(p, "invoking") /\ proc'[p].provider = proc[p].provider /\ proc'[p].doc = proc[p].doc
<1> DEFINE r == [proc[p] EXCEPT !.used = @ + 1]
<1>1. /\ proc \in [Procs -> Runs] /\ proc[p] \in Runs /\ state \in Documents /\ proc'[p] = r
      /\ (\A q \in Procs \ {p} : proc'[q] = proc[q]) /\ proc' = [q \in Procs |-> proc'[q]]
  BY DEF TypeOK, provider_call
<1>0. proc[p].used + 1 \in Nat
  BY <1>1 DEF Runs
<1>2. r \in Runs
  BY <1>0, <1>1 DEF Runs, Inside
<1>3. proc' \in [Procs -> Runs]
  <2> HIDE DEF r
  <2> QED
    BY <1>1, <1>2
<1> QED
  BY <1>1, <1>3 DEF Runs, Alone, Moved, provider_call

\* A deterministic receipt stands in for the worker.
LEMMA AvoidedFields ==
  ASSUME TypeOK, NEW p \in Procs, model_avoided(p), proc[p].provider \in Providers
  PROVE  /\ Alone(p) /\ state' \in Documents
         /\ state'.fast_lane = state.fast_lane /\ state'.worker_pid = state.worker_pid
         /\ SameFile(state', state) /\ Moved(p, "returned") /\ proc'[p].doc = state'
         /\ proc'[p].provider = proc[p].provider /\ proc'[p].receipt \in Receipts
         /\ proc'[p].receipt.provider = proc[p].provider
<1> DEFINE r == [proc[p] EXCEPT !.at = "returned", !.doc = state',
                               !.receipt = [provider |-> proc[p].provider, outcome |-> "completed",
                                            calls |-> 0, tries |-> 0]]
<1>1. /\ proc \in [Procs -> Runs] /\ proc[p] \in Runs /\ state \in Documents /\ proc'[p] = r
      /\ (\A q \in Procs \ {p} : proc'[q] = proc[q]) /\ proc' = [q \in Procs |-> proc'[q]]
  BY DEF TypeOK, model_avoided
<1>2. /\ state.calls_avoided + 1 \in Nat
      /\ [provider |-> proc[p].provider, outcome |-> "completed", calls |-> 0, tries |-> 0] \in Receipts
  BY <1>1 DEF Documents, Receipts, Outcomes, Succeeded
<1>3. state' \in Documents
  BY <1>1, <1>2 DEF Documents, Statuses, SameFile, model_avoided
<1>4. /\ state'.fast_lane = state.fast_lane /\ state'.worker_pid = state.worker_pid
      /\ SameFile(state', state)
  BY <1>1 DEF Documents, SameFile, model_avoided
<1>5. r \in Runs
  BY <1>1, <1>2, <1>3 DEF Runs, Inside
<1>6. proc' \in [Procs -> Runs]
  <2> HIDE DEF r
  <2> QED
    BY <1>1, <1>5
<1> QED
  BY <1>1, <1>2, <1>3, <1>4, <1>6 DEF Runs, Alone, Moved

\* The worker handed back a receipt.
LEMMA ReturnFields ==
  ASSUME TypeOK, NEW p \in Procs, NEW outcome \in Outcomes, NEW tries \in 0..MaxTries,
         worker_returns(p, outcome, tries), proc[p].provider \in Providers
  PROVE  /\ Alone(p) /\ state' \in Documents
         /\ state'.fast_lane = state.fast_lane /\ state'.worker_pid = state.worker_pid
         /\ SameFile(state', state) /\ Moved(p, "returned") /\ proc'[p].doc = state'
         /\ proc'[p].provider = proc[p].provider /\ proc'[p].receipt \in Receipts
         /\ proc'[p].receipt.provider = proc[p].provider
<1> DEFINE r == [proc[p] EXCEPT !.at = "returned", !.doc = state',
                               !.receipt = [provider |-> proc[p].provider, outcome |-> outcome,
                                            calls |-> proc[p].used, tries |-> tries]]
<1>1. /\ proc \in [Procs -> Runs] /\ proc[p] \in Runs /\ state \in Documents /\ proc'[p] = r
      /\ (\A q \in Procs \ {p} : proc'[q] = proc[q]) /\ proc' = [q \in Procs |-> proc'[q]]
  BY DEF TypeOK, worker_returns
<1>2. /\ state.calls_invoked + 1 \in Nat
      /\ [provider |-> proc[p].provider, outcome |-> outcome, calls |-> proc[p].used, tries |-> tries] \in Receipts
  BY <1>1, BudgetAssumption DEF Documents, Receipts, Runs
<1>3. state' \in Documents
  BY <1>1, <1>2 DEF Documents, Statuses, SameFile, worker_returns
<1>4. /\ state'.fast_lane = state.fast_lane /\ state'.worker_pid = state.worker_pid
      /\ SameFile(state', state)
  BY <1>1 DEF Documents, SameFile, worker_returns
<1>5. r \in Runs
  BY <1>1, <1>2, <1>3 DEF Runs, Inside
<1>6. proc' \in [Procs -> Runs]
  <2> HIDE DEF r
  <2> QED
    BY <1>1, <1>5
<1> QED
  BY <1>1, <1>2, <1>3, <1>4, <1>6 DEF Runs, Alone, Moved

\* The receipt is on file.
LEMMA CompletedFields ==
  ASSUME TypeOK, NEW p \in Procs, checkpoint_completed(p), proc[p].receipt \in Receipts, proc[p].provider \in Providers
  PROVE  /\ Alone(p) /\ state' \in Documents
         /\ state'.fast_lane = state.fast_lane /\ state'.worker_pid = state.worker_pid
         /\ state'.status = "WORKER_COMPLETED" /\ state'.executions = retained(p)
         /\ state'.active_provider = proc[p].provider /\ state'.next_provider = state.next_provider
         /\ proc'[p].at = "completed" /\ proc'[p].doc = state' /\ proc'[p].attempts = retained(p)
         /\ proc'[p].fresh = proc[p].fresh /\ proc'[p].may_create = proc[p].may_create
<1> DEFINE r == [proc[p] EXCEPT !.at = "completed", !.doc = state', !.attempts = retained(p),
                               !.receipt = NoReceipt, !.used = 0]
<1>1. /\ proc \in [Procs -> Runs] /\ proc[p] \in Runs /\ state \in Documents /\ proc'[p] = r
      /\ (\A q \in Procs \ {p} : proc'[q] = proc[q]) /\ proc' = [q \in Procs |-> proc'[q]]
  BY DEF TypeOK, checkpoint_completed
<1>2. retained(p) \in Seq(Receipts)
  BY <1>1, AppendProperties DEF Runs, retained
<1>3. state' \in Documents
  BY <1>1, <1>2 DEF Documents, Statuses, checkpoint_completed
<1>4. /\ state'.fast_lane = state.fast_lane /\ state'.worker_pid = state.worker_pid
      /\ state'.status = "WORKER_COMPLETED" /\ state'.executions = retained(p)
      /\ state'.active_provider = proc[p].provider /\ state'.next_provider = state.next_provider
  BY <1>1 DEF Documents, checkpoint_completed
<1>5. r \in Runs
  BY <1>1, <1>2, <1>3 DEF Runs, Inside
<1>6. proc' \in [Procs -> Runs]
  <2> HIDE DEF r
  <2> QED
    BY <1>1, <1>5
<1> QED
  BY <1>1, <1>2, <1>3, <1>4, <1>6 DEF Runs, Alone, Moved

\* The next provider is on file.
LEMMA EscalateFields ==
  ASSUME TypeOK, NEW p \in Procs, NEW pr \in Providers, escalate(p, pr)
  PROVE  /\ Alone(p) /\ state' \in Documents
         /\ state'.fast_lane = state.fast_lane /\ state'.worker_pid = state.worker_pid
         /\ state'.status = "WORKER_ESCALATING" /\ state'.executions = proc[p].attempts
         /\ state'.active_provider = state.active_provider /\ state'.next_provider = pr
         /\ Moved(p, "replacing") /\ proc'[p].doc = proc[p].doc /\ proc'[p].provider = pr
<1> DEFINE r == [proc[p] EXCEPT !.at = "replacing", !.provider = pr]
<1>1. /\ proc \in [Procs -> Runs] /\ proc[p] \in Runs /\ state \in Documents /\ proc'[p] = r
      /\ (\A q \in Procs \ {p} : proc'[q] = proc[q]) /\ proc' = [q \in Procs |-> proc'[q]]
  BY DEF TypeOK, escalate
<1>2. proc[p].attempts \in Seq(Receipts)
  BY <1>1 DEF Runs
<1>3. state' \in Documents
  BY <1>1, <1>2 DEF Documents, Statuses, escalate
<1>4. /\ state'.fast_lane = state.fast_lane /\ state'.worker_pid = state.worker_pid
      /\ state'.status = "WORKER_ESCALATING" /\ state'.executions = proc[p].attempts
      /\ state'.active_provider = state.active_provider /\ state'.next_provider = pr
  BY <1>1 DEF Documents, escalate
<1>5. r \in Runs
  BY <1>1, <1>2, <1>3 DEF Runs, Inside
<1>6. proc' \in [Procs -> Runs]
  <2> HIDE DEF r
  <2> QED
    BY <1>1, <1>5
<1> QED
  BY <1>1, <1>2, <1>3, <1>4, <1>6 DEF Runs, Alone, Moved

\* A part of the envelope is found, or made and written.
Enveloped(p, at) ==
  /\ Alone(p) /\ Moved(p, at) /\ state' \in Documents
  /\ SameFile(state', state) /\ state'.worker_pid = state.worker_pid
  /\ proc'[p].doc = state' \/ (proc'[p].doc = proc[p].doc /\ state' = state)

\* _ensure_effect_authorization
LEMMA AuthorizationFields ==
  ASSUME TypeOK, NEW p \in Procs, ensure_effect_authorization(p)
  PROVE  Enveloped(p, "authorized")
<1> DEFINE doc == [state EXCEPT !.effect_authorization = TRUE]
<1>1. state \in Documents
  BY DEF TypeOK
<1>2. doc \in Documents /\ SameFile(doc, state) /\ doc.worker_pid = state.worker_pid
  BY <1>1 DEF Documents, SameFile
<1>3. CASE write(p, "authorized", doc)
  <2> HIDE DEF doc
  <2> QED
    BY <1>2, <1>3, WriteStep DEF Enveloped, Inside
<1>4. CASE goto(p, "authorized") /\ UNCHANGED state
  BY <1>1, <1>4, GotoStep DEF Enveloped, Inside, SameFile
<1> QED
  BY <1>3, <1>4 DEF ensure_effect_authorization

\* _ensure_tool_projection
LEMMA ProjectionFields ==
  ASSUME TypeOK, NEW p \in Procs, ensure_tool_projection(p), proc[p].provider \in Providers
  PROVE  Enveloped(p, "projected") /\ proc'[p].provider = proc[p].provider
<1> DEFINE doc == [state EXCEPT !.tool_projections = proc[p].doc.tool_projections \cup {proc[p].provider}]
<1>1. state \in Documents /\ proc[p] \in Runs
  BY DEF TypeOK
<1>2. proc[p].doc.tool_projections \cup {proc[p].provider} \in SUBSET Providers
  <2>1. proc[p].doc \in Documents
    BY <1>1 DEF Runs
  <2> QED
    BY <2>1 DEF Documents
<1>3. doc \in Documents /\ SameFile(doc, state) /\ doc.worker_pid = state.worker_pid
  BY <1>1, <1>2 DEF Documents, SameFile
<1>4. CASE write(p, "projected", doc)
  <2> HIDE DEF doc
  <2> QED
    BY <1>3, <1>4, WriteStep DEF Enveloped, Inside
<1>5. CASE goto(p, "projected") /\ UNCHANGED state
  BY <1>1, <1>5, GotoStep DEF Enveloped, Inside, SameFile
<1> QED
  BY <1>4, <1>5 DEF ensure_tool_projection

\* The budgets and _ensure_host_prepared
LEMMA PreparedFields ==
  ASSUME TypeOK, NEW p \in Procs, ensure_host_prepared(p)
  PROVE  Enveloped(p, "prepared") /\ proc'[p].provider = proc[p].doc.active_provider
<1> DEFINE doc == [state EXCEPT !.host_preparation = TRUE]
           known == [proc[p] EXCEPT !.at = "prepared", !.provider = proc[p].doc.active_provider]
           made == [known EXCEPT !.doc = doc]
<1>1. state \in Documents /\ proc[p] \in Runs /\ proc[p].doc \in Documents /\ proc \in [Procs -> Runs]
  BY DEF TypeOK, Runs
<1>2. doc \in Documents /\ SameFile(doc, state) /\ doc.worker_pid = state.worker_pid
  BY <1>1 DEF Documents, SameFile
<1>3. proc[p].doc.active_provider \in Providers \cup {None}
  BY <1>1 DEF Documents
<1>4. known \in Runs /\ known.doc = proc[p].doc /\ known.at = "prepared"
      /\ known.provider = proc[p].doc.active_provider
      /\ known.attempts = proc[p].attempts /\ known.fresh = proc[p].fresh /\ known.may_create = proc[p].may_create
  BY <1>1, <1>3 DEF Runs, Inside
<1>5. made \in Runs /\ made.doc = doc /\ made.at = "prepared"
      /\ made.provider = proc[p].doc.active_provider
      /\ made.attempts = proc[p].attempts /\ made.fresh = proc[p].fresh /\ made.may_create = proc[p].may_create
  <2> HIDE DEF known, doc
  <2> QED
    BY <1>2, <1>4 DEF Runs
<1>6. \/ /\ proc' = [proc EXCEPT ![p] = known] /\ state' = state
      \/ /\ proc' = [proc EXCEPT ![p] = made] /\ state' = doc
  BY <1>1 DEF ensure_host_prepared
<1> HIDE DEF known, made, doc
<1>7. CASE proc' = [proc EXCEPT ![p] = known] /\ state' = state
  BY <1>1, <1>4, <1>7 DEF Enveloped, Alone, Moved, SameFile
<1>8. CASE proc' = [proc EXCEPT ![p] = made] /\ state' = doc
  BY <1>1, <1>2, <1>5, <1>8 DEF Enveloped, Alone, Moved
<1> QED
  BY <1>6, <1>7, <1>8

\* _consume_model_call_verdict
LEMMA RequiredFields ==
  ASSUME TypeOK, NEW p \in Procs, model_required(p)
  PROVE  Enveloped(p, "required") /\ proc'[p].provider = proc[p].provider
<1> DEFINE doc == [state EXCEPT !.calls_required = @ + 1]
<1>1. state \in Documents
  BY DEF TypeOK
<1>2. doc \in Documents /\ SameFile(doc, state) /\ doc.worker_pid = state.worker_pid
  BY <1>1 DEF Documents, SameFile
<1>3. write(p, "required", doc)
  BY DEF model_required
<1> HIDE DEF doc
<1> QED
  BY <1>2, <1>3, WriteStep DEF Enveloped, Inside

\* The target is on file.
LEMMA LeasedFields ==
  ASSUME TypeOK, NEW p \in Procs, checkpoint_leased(p), proc[p].provider \in Providers
  PROVE  /\ Alone(p) /\ Moved(p, "leased") /\ state' \in Documents
         /\ proc'[p].doc = proc[p].doc /\ proc'[p].provider = proc[p].provider
         /\ state'.fast_lane = state.fast_lane /\ state'.worker_pid = state.worker_pid
         /\ state'.status = "TARGET_LEASED" /\ state'.executions = state.executions
         /\ state'.active_provider = proc[p].provider
<1>1. state \in Documents
  BY DEF TypeOK
<1>2. /\ state' \in Documents
      /\ state'.fast_lane = state.fast_lane /\ state'.worker_pid = state.worker_pid
      /\ state'.status = "TARGET_LEASED" /\ state'.executions = state.executions
      /\ state'.active_provider = proc[p].provider
  BY <1>1 DEF checkpoint_leased, Documents, Statuses
<1> QED
  BY <1>2, GotoStep DEF checkpoint_leased, Inside

\* The worker is declared running.
LEMMA RunningFields ==
  ASSUME TypeOK, NEW p \in Procs, checkpoint_running(p), proc[p].provider \in Providers
  PROVE  /\ Alone(p) /\ Moved(p, "running") /\ state' \in Documents
         /\ proc'[p].doc = state' /\ proc'[p].provider = proc[p].provider
         /\ state'.fast_lane = state.fast_lane /\ state'.worker_pid = state.worker_pid
         /\ state'.status = "WORKER_RUNNING" /\ state'.executions = state.executions
         /\ state'.active_provider = proc[p].provider
<1> DEFINE doc == [state EXCEPT !.status = "WORKER_RUNNING", !.active_provider = proc[p].provider]
<1>1. state \in Documents
  BY DEF TypeOK
<1>2. /\ doc \in Documents
      /\ doc.fast_lane = state.fast_lane /\ doc.worker_pid = state.worker_pid
      /\ doc.status = "WORKER_RUNNING" /\ doc.executions = state.executions
      /\ doc.active_provider = proc[p].provider
  BY <1>1 DEF Documents, Statuses
<1>3. write(p, "running", doc)
  BY DEF checkpoint_running
<1> HIDE DEF doc
<1> QED
  BY <1>2, <1>3, WriteStep DEF Inside

\* The candidate is verified.
LEMMA VerifiedFields ==
  ASSUME TypeOK, NEW p \in Procs, finalize_completed(p)
  PROVE  /\ Alone(p) /\ Moved(p, "finalized") /\ state' \in Documents /\ proc'[p].doc = state'
         /\ state'.fast_lane = state.fast_lane /\ state'.worker_pid = state.worker_pid
         /\ state'.status = "VERIFIED" /\ state'.executions = state.executions
         /\ state'.active_provider = state.active_provider /\ state'.next_provider = state.next_provider
<1> DEFINE doc == [state EXCEPT !.status = "VERIFIED"]
<1>1. state \in Documents
  BY DEF TypeOK
<1>2. /\ doc \in Documents
      /\ doc.fast_lane = state.fast_lane /\ doc.worker_pid = state.worker_pid
      /\ doc.status = "VERIFIED" /\ doc.executions = state.executions
      /\ doc.active_provider = state.active_provider /\ doc.next_provider = state.next_provider
  BY <1>1 DEF Documents, Statuses
<1>3. write(p, "finalized", doc)
  BY DEF finalize_completed
<1> HIDE DEF doc
<1> QED
  BY <1>2, <1>3, WriteStep DEF Inside

\* The attempt ends, and its process.
LEMMA EndedFields ==
  ASSUME TypeOK, NEW p \in Procs, submit_for_approval(p) \/ fail(p)
  PROVE  /\ Alone(p) /\ proc'[p].at = "gone" /\ proc'[p].doc.status = "SUBMITTED" /\ state' \in Documents
         /\ state'.fast_lane = state.fast_lane /\ state'.worker_pid = state.worker_pid
         /\ state'.status \in Ended /\ state'.executions = state.executions
<1>1. state \in Documents
  BY DEF TypeOK
<1>2. /\ state' \in Documents
      /\ state'.fast_lane = state.fast_lane /\ state'.worker_pid = state.worker_pid
      /\ state'.status \in Ended /\ state'.executions = state.executions
  BY <1>1 DEF submit_for_approval, fail, Documents, Statuses, Ended
<1> QED
  BY <1>2, ExitStep DEF submit_for_approval, fail, After

\* A lost attempt is taken up where it was left.
LEMMA ResumeFields ==
  ASSUME TypeOK, NEW p \in Procs, resume(p)
  PROVE  /\ Alone(p) /\ proc'[p].doc = proc[p].doc
         /\ \/ Moved(p, "running") /\ proc[p].doc.status = "WORKER_RUNNING"
            \/ Moved(p, "completed") /\ proc[p].doc.status = "WORKER_COMPLETED"
            \/ Moved(p, "finalizing") /\ proc[p].doc.status = "VERIFIED"
<1>1. proc \in [Procs -> Runs] /\ proc[p] \in Runs
  BY DEF TypeOK
<1>2. CASE proc[p].doc.status = "WORKER_COMPLETED"
  <2> DEFINE r == [proc[p] EXCEPT !.at = "completed", !.recovered = TRUE]
  <2>1. proc' = [proc EXCEPT ![p] = r]
    BY <1>1, <1>2 DEF resume
  <2>2. /\ r \in Runs /\ r.doc = proc[p].doc /\ r.at = "completed"
        /\ r.attempts = proc[p].attempts /\ r.fresh = proc[p].fresh /\ r.may_create = proc[p].may_create
    BY <1>1 DEF Runs, Inside
  <2> HIDE DEF r
  <2> QED
    BY <1>1, <1>2, <2>1, <2>2 DEF Alone, Moved
<1> QED
  BY <1>2, GotoStep DEF resume, Inside

\* A step of one process keeps the types.
LEMMA TypedStep ==
  ASSUME Typed, NEW p \in Procs, Alone(p), state' \in Documents, Named(state'), RunTyped(proc'[p]),
         launcher' \in [Launchers -> Procs \cup {"idle", "cleared"}], UNCHANGED expired,
         leased' \in BOOLEAN, invokers' \subseteq Procs
  PROVE  Typed'
<1>1. ASSUME NEW q \in Procs PROVE RunTyped(proc'[q])
  BY DEF Alone, Typed
<1> QED
  BY <1>1 DEF Typed, TypeOK, Alone

\* What is written into the same file keeps its name.
LEMMA SameFileNamed ==
  ASSUME NEW d, NEW e, SameFile(d, e), Named(e)
  PROVE  Named(d)
BY DEF SameFile, Named

\* Every step of a process keeps the types.
LEMMA RunStepTyped ==
  ASSUME Typed, NEW p \in Procs, Run(p)
  PROVE  Typed'
<1>1. /\ TypeOK /\ Named(state) /\ RunTyped(proc[p]) /\ Named(proc[p].doc) /\ state \in Documents
      /\ launcher \in [Launchers -> Procs \cup {"idle", "cleared"}] /\ leased \in BOOLEAN /\ invokers \subseteq Procs
  BY DEF Typed, RunTyped, TypeOK
<1>2. ASSUME Alone(p), state' \in Documents, Named(state'), RunTyped(proc'[p]), UNCHANGED <<launcher, expired>>,
             leased' \in BOOLEAN, invokers' \subseteq Procs
      PROVE  Typed'
  BY <1>1, <1>2, TypedStep
<1>3. ASSUME NEW at, Enveloped(p, at), UNCHANGED <<launcher, expired, world>>,
             at \notin {"running", "returned"}, at \in WithProvider => proc'[p].provider \in Providers
      PROVE  Typed'
  <2>1. Named(state')
    BY <1>1, <1>3, SameFileNamed DEF Enveloped
  <2>2. Named(proc'[p].doc) /\ proc'[p].at = at
    BY <1>1, <1>3, <2>1 DEF Enveloped, Moved
  <2>3. RunTyped(proc'[p])
    BY <1>3, <2>2 DEF RunTyped
  <2> QED
    BY <1>1, <1>2, <1>3, <2>1, <2>3 DEF Enveloped, world
<1>4. ASSUME proc[p].at \in WithProvider PROVE proc[p].provider \in Providers
  BY <1>1, <1>4 DEF RunTyped
<1>5. CASE own(p)
  <2>1. CASE goto(p, "owning")
    <3>1. Alone(p) /\ Moved(p, "owning") /\ proc'[p].doc = proc[p].doc
      BY <1>1, <2>1, GotoStep DEF Inside
    <3>2. RunTyped(proc'[p])
      BY <1>1, <3>1 DEF Moved, RunTyped, WithProvider
    <3> QED
      BY <1>1, <1>2, <1>5, <3>1, <3>2 DEF own, world
  <2>2. CASE exit(p, "declined")
    <3>1. Alone(p) /\ proc'[p].at = "declined" /\ proc'[p].doc.status = "SUBMITTED"
      BY <1>1, <2>2, ExitStep DEF After
    <3>2. RunTyped(proc'[p])
      BY <3>1 DEF RunTyped, WithProvider, Named
    <3> QED
      BY <1>1, <1>2, <1>5, <3>1, <3>2 DEF own, world
  <2> QED
    BY <1>5, <2>1, <2>2 DEF own
<1>6. CASE enter(p)
  <2>1. Alone(p) /\ proc'[p].at = "entered" /\ proc'[p].doc = state
    BY <1>1, <1>6, EnterFields
  <2>2. RunTyped(proc'[p])
    BY <1>1, <2>1 DEF RunTyped, WithProvider
  <2> QED
    BY <1>1, <1>2, <1>6, <2>1, <2>2 DEF enter, world
<1>7. CASE ensure_effect_authorization(p)
  BY <1>1, <1>3, <1>7, AuthorizationFields DEF WithProvider, ensure_effect_authorization
<1>8. ASSUME NEW q \in Range(InitialOrder), select_initial_provider(p, q) PROVE Typed'
  <2>0. q \in Providers
    BY DEF Providers
  <2>1. Alone(p) /\ Moved(p, "leasing") /\ proc'[p].provider = q /\ proc'[p].doc = proc[p].doc
    BY <1>1, <1>8, <2>0, SelectFields
  <2>2. RunTyped(proc'[p])
    BY <1>1, <2>0, <2>1 DEF RunTyped, Moved
  <2> QED
    BY <1>1, <1>2, <1>8, <2>1, <2>2 DEF select_initial_provider
<1>9. CASE resume_escalation(p)
  <2>0. proc[p].doc.next_provider \in Providers
    BY <1>1, <1>9 DEF resume_escalation, TypeOK, Runs, Documents
  <2>1. Alone(p) /\ Moved(p, "replacing") /\ proc'[p].provider = proc[p].doc.next_provider /\ proc'[p].doc = proc[p].doc
    BY <1>1, <1>9, <2>0, ResumeEscalationFields
  <2>2. RunTyped(proc'[p])
    BY <1>1, <2>0, <2>1 DEF RunTyped, Moved
  <2> QED
    BY <1>1, <1>2, <1>9, <2>1, <2>2 DEF resume_escalation, world
<1>10. CASE resume(p)
  <2>1. /\ Alone(p) /\ proc'[p].doc = proc[p].doc
        /\ \/ proc'[p].at = "running" /\ proc[p].doc.status = "WORKER_RUNNING"
           \/ proc'[p].at \in {"completed", "finalizing"}
    BY <1>1, <1>10, ResumeFields DEF Moved
  <2>2. RunTyped(proc'[p])
    BY <1>1, <2>1 DEF RunTyped, WithProvider, Named
  <2> QED
    BY <1>1, <1>2, <1>10, <2>1, <2>2 DEF resume, world
<1>11. CASE checkpoint_leased(p)
  <2>0. proc[p].provider \in Providers
    BY <1>4, <1>11 DEF checkpoint_leased, WithProvider
  <2>1. /\ Alone(p) /\ Moved(p, "leased") /\ state' \in Documents /\ state'.status = "TARGET_LEASED"
        /\ proc'[p].doc = proc[p].doc /\ proc'[p].provider = proc[p].provider
    BY <1>1, <1>11, <2>0, LeasedFields
  <2>2. RunTyped(proc'[p]) /\ Named(state')
    BY <1>1, <2>0, <2>1 DEF RunTyped, Moved, Named
  <2> QED
    BY <1>1, <1>2, <1>11, <2>1, <2>2 DEF checkpoint_leased, world
<1>12. CASE checkpoint_running(p)
  <2>0. proc[p].provider \in Providers
    BY <1>4, <1>12 DEF checkpoint_running, WithProvider
  <2>1. /\ Alone(p) /\ Moved(p, "running") /\ state' \in Documents
        /\ proc'[p].doc = state' /\ state'.active_provider = proc[p].provider
    BY <1>1, <1>12, <2>0, RunningFields
  <2>2. RunTyped(proc'[p]) /\ Named(state')
    BY <1>1, <2>0, <2>1 DEF RunTyped, Moved, Named, WithProvider
  <2> QED
    BY <1>1, <1>2, <1>12, <2>1, <2>2 DEF checkpoint_running, world
<1>13. CASE ensure_host_prepared(p)
  <2>1. proc[p].doc.active_provider \in Providers
    BY <1>1, <1>13 DEF RunTyped, ensure_host_prepared
  <2>2. Enveloped(p, "prepared") /\ proc'[p].provider \in Providers
    BY <1>1, <1>13, <2>1, PreparedFields
  <2> QED
    BY <1>3, <1>13, <2>2 DEF ensure_host_prepared
<1>14. CASE ensure_tool_projection(p) \/ model_required(p)
  <2>1. proc[p].provider \in Providers
    BY <1>4, <1>14 DEF ensure_tool_projection, model_required, WithProvider
  <2>2. UNCHANGED <<launcher, expired, world>>
    BY <1>14 DEF ensure_tool_projection, model_required
  <2> QED
    BY <1>1, <1>3, <1>14, <2>1, <2>2, ProjectionFields, RequiredFields
<1>15. CASE model_avoided(p) \/ \E o \in Outcomes, t \in 0..MaxTries : worker_returns(p, o, t)
  <2>1. proc[p].provider \in Providers
    BY <1>4, <1>15 DEF model_avoided, worker_returns, WithProvider
  <2>2. /\ Alone(p) /\ state' \in Documents /\ SameFile(state', state) /\ Moved(p, "returned")
        /\ proc'[p].doc = state' /\ proc'[p].provider = proc[p].provider /\ proc'[p].receipt \in Receipts
    BY <1>1, <1>15, <2>1, AvoidedFields, ReturnFields
  <2>3. Named(state') /\ RunTyped(proc'[p])
    BY <1>1, <2>1, <2>2, SameFileNamed DEF RunTyped, Moved
  <2>4. UNCHANGED <<launcher, expired, world>>
    BY <1>15 DEF model_avoided, worker_returns
  <2> QED
    BY <1>1, <1>2, <2>2, <2>3, <2>4 DEF world
<1>16. CASE invoke(p) \/ provider_call(p)
  <2>1. proc[p].provider \in Providers
    BY <1>4, <1>16 DEF invoke, provider_call, WithProvider
  <2>2. Alone(p) /\ Moved(p, "invoking") /\ proc'[p].provider = proc[p].provider /\ proc'[p].doc = proc[p].doc
    BY <1>1, <1>16, InvokeFields, CallFields
  <2>3. RunTyped(proc'[p])
    BY <1>1, <2>1, <2>2 DEF RunTyped, Moved
  <2> QED
    BY <1>1, <1>2, <1>16, <2>2, <2>3 DEF invoke, provider_call
<1>17. CASE checkpoint_completed(p)
  <2>1. proc[p].provider \in Providers /\ proc[p].receipt \in Receipts
    BY <1>1, <1>17 DEF checkpoint_completed, RunTyped, WithProvider
  <2>2. /\ Alone(p) /\ state' \in Documents /\ state'.status = "WORKER_COMPLETED"
        /\ proc'[p].at = "completed" /\ proc'[p].doc = state'
    BY <1>1, <1>17, <2>1, CompletedFields
  <2>3. Named(state') /\ RunTyped(proc'[p])
    BY <2>2 DEF RunTyped, Named, WithProvider
  <2> QED
    BY <1>1, <1>2, <1>17, <2>2, <2>3 DEF checkpoint_completed, world
<1>18. ASSUME NEW q \in Providers, escalate(p, q) PROVE Typed'
  <2>1. /\ Alone(p) /\ state' \in Documents /\ state'.status = "WORKER_ESCALATING"
        /\ Moved(p, "replacing") /\ proc'[p].doc = proc[p].doc /\ proc'[p].provider = q
    BY <1>1, <1>18, EscalateFields
  <2>2. Named(state') /\ RunTyped(proc'[p])
    BY <1>1, <2>1 DEF RunTyped, Named, Moved
  <2> QED
    BY <1>1, <1>2, <1>18, <2>1, <2>2 DEF escalate, world
<1>19. CASE accept(p)
  <2>1. Alone(p) /\ Moved(p, "finalizing") /\ proc'[p].doc = proc[p].doc
    BY <1>1, <1>19, GotoStep DEF accept, Inside
  <2>2. RunTyped(proc'[p])
    BY <1>1, <2>1 DEF RunTyped, Moved, WithProvider
  <2> QED
    BY <1>1, <1>2, <1>19, <2>1, <2>2 DEF accept, world
<1>20. CASE replace_failed_lease(p)
  <2>1. Alone(p) /\ Moved(p, "leasing") /\ proc'[p].doc = proc[p].doc /\ proc'[p].provider = proc[p].provider
    BY <1>1, <1>20, GotoStep DEF replace_failed_lease, Inside
  <2>2. RunTyped(proc'[p])
    BY <1>1, <1>4, <1>20, <2>1 DEF RunTyped, Moved, WithProvider, replace_failed_lease
  <2> QED
    BY <1>1, <1>2, <1>20, <2>1, <2>2 DEF replace_failed_lease
<1>21. CASE finalize_completed(p)
  <2>1. Alone(p) /\ Moved(p, "finalized") /\ proc'[p].doc = state' /\ state' \in Documents /\ state'.status = "VERIFIED"
    BY <1>1, <1>21, VerifiedFields
  <2>2. RunTyped(proc'[p]) /\ Named(state')
    BY <2>1 DEF RunTyped, Moved, WithProvider, Named
  <2> QED
    BY <1>1, <1>2, <1>21, <2>1, <2>2 DEF finalize_completed, world
<1>22. CASE submit_for_approval(p) \/ fail(p)
  <2>1. /\ Alone(p) /\ proc'[p].at = "gone" /\ proc'[p].doc.status = "SUBMITTED"
        /\ state' \in Documents /\ state'.status \in Ended
    BY <1>1, <1>22, EndedFields
  <2>2. RunTyped(proc'[p]) /\ Named(state')
    BY <2>1 DEF RunTyped, WithProvider, Named, Ended
  <2> QED
    BY <1>1, <1>2, <1>22, <2>1, <2>2 DEF submit_for_approval, fail, world
<1> QED
  BY <1>5, <1>6, <1>7, <1>8, <1>9, <1>10, <1>11, <1>12, <1>13, <1>14, <1>15, <1>16, <1>17, <1>18,
     <1>19, <1>20, <1>21, <1>22 DEF Run

\* launch(), the loss of a process, and the clock.
LEMMA OtherStepTyped ==
  ASSUME Typed, (\E l \in Launchers : Launch(l)) \/ (\E p \in Procs : crash(p)) \/ expire \/ UNCHANGED vars
  PROVE  Typed'
<1>1. TypeOK /\ Named(state) /\ state \in Documents /\ \A p \in Procs : RunTyped(proc[p])
  BY DEF Typed, TypeOK
<1>2. ASSUME NEW l \in Launchers, launch_check(l) PROVE Typed'
  BY <1>1, <1>2 DEF launch_check, TypeOK, world, Typed
<1>3. ASSUME NEW l \in Launchers, NEW p \in Procs, launch_start(l, p) PROVE Typed'
  <2>1. goto(p, "started")
    BY <1>3 DEF launch_start, goto
  <2>2. Alone(p) /\ Moved(p, "started") /\ proc'[p].doc = proc[p].doc
    BY <1>1, <2>1, GotoStep
  <2>3. RunTyped(proc'[p])
    BY <1>1, <2>2 DEF RunTyped, Moved, WithProvider
  <2> QED
    BY <1>1, <1>3, <2>2, <2>3, TypedStep DEF launch_start, world, TypeOK
<1>4. ASSUME NEW l \in Launchers, launch_record(l) PROVE Typed'
  <2>1. state' \in Documents /\ SameFile(state', state)
    BY <1>1, <1>4 DEF launch_record, Documents, SameFile
  <2>2. Named(state')
    BY <1>1, <2>1, SameFileNamed
  <2> QED
    BY <1>1, <1>4, <2>1, <2>2 DEF launch_record, Typed, TypeOK, world
<1>5. ASSUME NEW p \in Procs, crash(p) PROVE Typed'
  <2>1. Alone(p) /\ proc'[p].at = "gone" /\ proc'[p].doc.status = "SUBMITTED"
    BY <1>1, <1>5, ExitStep DEF After, crash
  <2>2. RunTyped(proc'[p])
    BY <2>1 DEF RunTyped, WithProvider, Named
  <2> QED
    BY <1>1, <1>5, <2>1, <2>2, TypedStep DEF crash, world, TypeOK
<1>6. CASE expire \/ UNCHANGED vars
  BY <1>1, <1>6 DEF expire, vars, world, Typed, TypeOK
<1> QED
  BY <1>2, <1>3, <1>4, <1>5, <1>6 DEF Launch

\* The first state.
LEMMA InitTyped == Init => Typed
<1> SUFFICES ASSUME Init PROVE Typed
  OBVIOUS
<1>1. NewDocument \in Documents /\ NewDocument.status = "SUBMITTED"
  BY EmptySeq DEF NewDocument, Documents, Statuses
<1>2. NewRun \in Runs /\ NewRun.doc = NewDocument /\ NewRun.at = "none"
  BY <1>1, EmptySeq DEF NewRun, Runs, Before
<1>3. state \in Documents /\ state.status = "SUBMITTED"
  BY <1>1 DEF Init, Documents
<1>4. RunTyped(NewRun) /\ Named(state)
  BY <1>1, <1>2, <1>3 DEF RunTyped, Named, WithProvider
<1> QED
  BY <1>2, <1>3, <1>4 DEF Init, Typed, TypeOK

\* Every step.
LEMMA NextTyped == Typed /\ [Next]_vars => Typed'
BY RunStepTyped, OtherStepTyped DEF Next

\* The document, the runs and the receipts have their types, whatever processes
\* run: a receipt always names a provider of the contract.
THEOREM TypeCorrect == Spec => []TypeOK
<1>1. Typed => TypeOK
  BY DEF Typed
<1> QED
  BY <1>1, InitTyped, NextTyped, PTL DEF Spec

---------------------------------------------------------------------------
(* One owner.                                                              *)

\* launch() is called by one caller at a time.
SingleLauncher == \A l, m \in Launchers : l = m

\* A live process is the one its launcher is about to record, or the one on file.
Sole ==
  \A p \in Procs : alive(p) =>
    \E l \in Launchers : launcher[l] = p \/ (launcher[l] = "idle" /\ state.worker_pid = p)

\* What every step of a process has in common.
LEMMA RunShape ==
  ASSUME Typed, NEW p \in Procs, Run(p)
  PROVE  /\ Alone(p) /\ alive(p) /\ UNCHANGED <<launcher, expired>>
         /\ state'.worker_pid = state.worker_pid /\ state'.fast_lane = state.fast_lane
<1>1. TypeOK /\ RunTyped(proc[p])
  BY DEF Typed
<1>2. ASSUME proc[p].at \in WithProvider PROVE proc[p].provider \in Providers
  BY <1>1, <1>2 DEF RunTyped
<1>3. ASSUME NEW at, Enveloped(p, at)
      PROVE  Alone(p) /\ state'.worker_pid = state.worker_pid /\ state'.fast_lane = state.fast_lane
  BY <1>3 DEF Enveloped, SameFile
<1>4. alive(p) /\ UNCHANGED <<launcher, expired>>
  BY DEF Run, own, enter, ensure_effect_authorization, select_initial_provider, resume_escalation, resume,
     checkpoint_leased, checkpoint_running, ensure_host_prepared, ensure_tool_projection, model_required,
     model_avoided, invoke, provider_call, worker_returns, checkpoint_completed, accept, escalate,
     replace_failed_lease, finalize_completed, submit_for_approval, fail, alive, Inside
<1>5. CASE own(p) \/ accept(p) \/ replace_failed_lease(p)
  BY <1>1, <1>4, <1>5, GotoStep, ExitStep DEF own, accept, replace_failed_lease, Inside, After
<1>6. CASE enter(p) \/ resume_escalation(p) \/ resume(p)
  <2>1. resume_escalation(p) => proc[p].doc.next_provider \in Providers
    BY <1>1 DEF resume_escalation, TypeOK, Runs, Documents
  <2> QED
    BY <1>1, <1>4, <1>6, <2>1, EnterFields, ResumeEscalationFields, ResumeFields DEF enter, resume_escalation, resume
<1>7. ASSUME NEW q \in Range(InitialOrder), select_initial_provider(p, q)
      PROVE  Alone(p) /\ UNCHANGED state
  BY <1>1, <1>7, SelectFields DEF select_initial_provider, Providers
<1>8. CASE ensure_effect_authorization(p) \/ ensure_host_prepared(p) \/ ensure_tool_projection(p) \/ model_required(p)
  <2>1. ensure_tool_projection(p) => proc[p].provider \in Providers
    BY <1>2 DEF ensure_tool_projection, WithProvider
  <2> QED
    BY <1>1, <1>3, <1>4, <1>8, <2>1, AuthorizationFields, PreparedFields, ProjectionFields, RequiredFields
<1>9. CASE checkpoint_leased(p) \/ checkpoint_running(p)
  <2>1. proc[p].provider \in Providers
    BY <1>2, <1>9 DEF checkpoint_leased, checkpoint_running, WithProvider
  <2> QED
    BY <1>1, <1>4, <1>9, <2>1, LeasedFields, RunningFields
<1>10. CASE model_avoided(p) \/ \E o \in Outcomes, t \in 0..MaxTries : worker_returns(p, o, t)
  <2>1. proc[p].provider \in Providers
    BY <1>2, <1>10 DEF model_avoided, worker_returns, WithProvider
  <2> QED
    BY <1>1, <1>4, <1>10, <2>1, AvoidedFields, ReturnFields
<1>11. CASE invoke(p) \/ provider_call(p)
  BY <1>1, <1>4, <1>11, InvokeFields, CallFields DEF invoke, provider_call
<1>12. CASE checkpoint_completed(p)
  <2>1. proc[p].provider \in Providers /\ proc[p].receipt \in Receipts
    BY <1>1, <1>12 DEF checkpoint_completed, RunTyped, WithProvider
  <2> QED
    BY <1>1, <1>4, <1>12, <2>1, CompletedFields
<1>13. ASSUME NEW q \in Providers, escalate(p, q)
       PROVE  Alone(p) /\ state'.worker_pid = state.worker_pid /\ state'.fast_lane = state.fast_lane
  BY <1>1, <1>13, EscalateFields
<1>14. CASE finalize_completed(p) \/ submit_for_approval(p) \/ fail(p)
  BY <1>1, <1>4, <1>14, VerifiedFields, EndedFields
<1> QED
  BY <1>4, <1>5, <1>6, <1>7, <1>8, <1>9, <1>10, <1>11, <1>12, <1>13, <1>14 DEF Run

\* The one launcher keeps its process the only one.
LEMMA NextSole ==
  ASSUME SingleLauncher, Typed, Sole, [Next]_vars
  PROVE  Sole'
<1> USE ProcsAssumption DEF None
<1>1. TypeOK
  BY DEF Typed
<1>2. ASSUME UNCHANGED launcher, state'.worker_pid = state.worker_pid,
             \A q \in Procs : alive(q)' => alive(q)
      PROVE  Sole'
  BY <1>2 DEF Sole
<1>3. ASSUME NEW p \in Procs, Run(p) PROVE Sole'
  BY <1>2, <1>3, RunShape DEF Alone, alive
<1>4. ASSUME NEW p \in Procs, crash(p) PROVE Sole'
  BY <1>1, <1>2, <1>4, ExitStep DEF crash, Alone, alive, After, Inside
<1>5. CASE expire \/ UNCHANGED vars
  BY <1>2, <1>5 DEF expire, vars, alive
<1>6. ASSUME NEW l \in Launchers, launch_check(l) PROVE Sole'
  <2>1. \A q \in Procs : ~alive(q)
    BY <1>6 DEF launch_check, Sole, SingleLauncher, TypeOK
  <2> QED
    BY <1>6, <2>1 DEF launch_check, Sole, alive
<1>7. ASSUME NEW l \in Launchers, NEW p \in Procs, launch_start(l, p) PROVE Sole'
  <2>1. \A q \in Procs : ~alive(q)
    BY <1>7 DEF launch_start, Sole, SingleLauncher
  <2>2. \A q \in Procs \ {p} : ~alive(q)'
    BY <1>1, <1>7, <2>1 DEF launch_start, alive, TypeOK
  <2>3. launcher'[l] = p
    BY <1>1, <1>7 DEF launch_start, TypeOK
  <2> QED
    BY <2>2, <2>3 DEF Sole
<1>8. ASSUME NEW l \in Launchers, launch_record(l) PROVE Sole'
  <2>1. \A q \in Procs : alive(q) => launcher[l] = q
    BY <1>8 DEF launch_record, Sole, SingleLauncher
  <2>2. launcher'[l] = "idle" /\ state'.worker_pid = launcher[l] /\ UNCHANGED proc
    BY <1>1, <1>8 DEF launch_record, TypeOK, Documents
  <2> QED
    BY <2>1, <2>2 DEF Sole, alive
<1> QED
  BY <1>3, <1>4, <1>5, <1>6, <1>7, <1>8 DEF Next, Launch

\* There is one live process at most.
LEMMA SoleOwner ==
  ASSUME SingleLauncher, Typed, Sole, NEW p \in Procs, NEW q \in Procs, alive(p), alive(q)
  PROVE  p = q
BY ProcsAssumption DEF SingleLauncher, Sole

\* As long as launch() is called by one caller at a time, no two live processes
\* are past the ownership check of run_owned_attempt: a launch is suppressed
\* while the worker on file lives, and the process it starts is on file before
\* the next one looks.
THEOREM OwnedByOne == SingleLauncher => (Spec => []OneOwner)
<1> SUFFICES ASSUME SingleLauncher PROVE Spec => []OneOwner
  OBVIOUS
<1>1. Init => Sole
  BY DEF Init, Sole, alive, NewRun, Inside
<1>2. Typed /\ Sole => OneOwner
  BY SoleOwner DEF OneOwner, alive
<1>3. Typed /\ Sole /\ [Next]_vars => Sole'
  BY NextSole
<1> QED
  BY <1>1, <1>2, <1>3, InitTyped, NextTyped, PTL DEF Spec

---------------------------------------------------------------------------
(* Receipts.                                                               *)

Untried(q, e) == \A i \in 1..Len(e) : e[i].provider # q
AllTransient(e) == \A i \in 1..Len(e) : e[i].outcome = "incomplete"

\* The statuses from which a worker may still be called.
OpenStatus == {"SUBMITTED", "TARGET_LEASED", "WORKER_RUNNING", "WORKER_ESCALATING"}

\* What the durable document tells a relaunched process.
OnFile ==
  /\ state.status \in OpenStatus =>
       AllTransient(state.executions) /\ (state.fast_lane => state.executions = <<>>)
  /\ state.status = "SUBMITTED" => state.executions = <<>> /\ invokers = {}
  /\ state.status \in {"TARGET_LEASED", "WORKER_RUNNING"} => Untried(state.active_provider, state.executions)
  /\ state.status = "WORKER_ESCALATING" => Untried(state.next_provider, state.executions)

\* Where the snapshot of a process is the document.
Informed == {"entered", "authorized", "running", "prepared", "projected", "required", "invoking",
             "returned", "completed", "finalizing", "finalized"}
Working == {"running", "prepared", "projected", "required", "invoking", "returned"}

\* What a process knows, and what the document says where it stands.
Placed(p) ==
  /\ proc[p].at \in Inside \ {"owning"} =>
       /\ proc[p].attempts = state.executions
       /\ proc[p].fresh \/ proc[p].may_create => invokers \subseteq {p}
  /\ proc[p].at \in Informed => SameFile(proc[p].doc, state)
  /\ proc[p].at = "leasing" => state.status \in {"SUBMITTED", "WORKER_ESCALATING"}
  /\ proc[p].at = "replacing" => state.status = "WORKER_ESCALATING"
  /\ proc[p].at = "leased" => state.status = "TARGET_LEASED"
  /\ proc[p].at \in Working => state.status = "WORKER_RUNNING"
  /\ proc[p].at \in WithProvider => Untried(proc[p].provider, state.executions)
  /\ proc[p].at = "returned" => proc[p].receipt.provider = proc[p].provider

\* The inductive invariant of an attempt with one owner.
Attempted == Typed /\ Sole /\ OnFile /\ EscalationDisciplined /\ \A p \in Procs : Placed(p)

\* What a receipt adds to what is consumed.
LEMMA ConsumedAppend ==
  ASSUME NEW e \in Seq(Receipts), NEW r \in Receipts
  PROVE  /\ consumed_calls(Append(e, r)) = consumed_calls(e) + r.calls
         /\ consumed_tries(Append(e, r)) = consumed_tries(e) + r.tries
<1>1. /\ Append(e, r) \in Seq(Receipts) /\ Len(e) \in Nat /\ DOMAIN e = 1..Len(e)
      /\ DOMAIN Append(e, r) = 1..Len(e) + 1
      /\ \A i \in 1..Len(e) : Append(e, r)[i] = e[i]
      /\ Append(e, r)[Len(e) + 1] = r
  BY AppendProperties, LenProperties
<1>2. \A i \in 1..Len(e) : e[i] \in Receipts
  BY <1>1, ElementOfSeq
<1>3. r.calls \in Nat /\ r.tries \in Nat /\ \A i \in 1..Len(e) : e[i].calls \in Nat /\ e[i].tries \in Nat
  BY <1>2 DEF Receipts
<1> DEFINE c == [i \in 1..Len(e) |-> e[i].calls]
           t == [i \in 1..Len(e) |-> e[i].tries]
           c1 == [i \in 1..Len(e) + 1 |-> Append(e, r)[i].calls]
           t1 == [i \in 1..Len(e) + 1 |-> Append(e, r)[i].tries]
<1>4. c \in Seq(Nat) /\ t \in Seq(Nat) /\ Len(c) = Len(e) /\ Len(t) = Len(e)
  BY <1>1, <1>3
<1>5. c1 = Append(c, r.calls)
  <2>1. DOMAIN Append(c, r.calls) = 1..Len(e) + 1 /\ Append(c, r.calls)[Len(e) + 1] = r.calls
        /\ \A i \in 1..Len(e) : Append(c, r.calls)[i] = e[i].calls
    BY <1>1, <1>3, <1>4, AppendProperties
  <2>2. \A i \in 1..Len(e) + 1 : c1[i] = Append(c, r.calls)[i]
    BY <1>1, <2>1
  <2> QED
    BY <1>3, <1>4, <2>1, <2>2, AppendProperties
<1>6. t1 = Append(t, r.tries)
  <2>1. DOMAIN Append(t, r.tries) = 1..Len(e) + 1 /\ Append(t, r.tries)[Len(e) + 1] = r.tries
        /\ \A i \in 1..Len(e) : Append(t, r.tries)[i] = e[i].tries
    BY <1>1, <1>3, <1>4, AppendProperties
  <2>2. \A i \in 1..Len(e) + 1 : t1[i] = Append(t, r.tries)[i]
    BY <1>1, <2>1
  <2> QED
    BY <1>3, <1>4, <2>1, <2>2, AppendProperties
<1>7. consumed_calls(e) = total(c) /\ consumed_tries(e) = total(t)
      /\ consumed_calls(Append(e, r)) = total(c1) /\ consumed_tries(Append(e, r)) = total(t1)
  BY <1>1 DEF consumed_calls, consumed_tries
<1> HIDE DEF c, t, c1, t1
<1> QED
  BY <1>3, <1>4, <1>5, <1>6, <1>7, TotalAppend

\* With one owner only the process that takes the step is anywhere.
LEMMA PlacedStep ==
  ASSUME SingleLauncher, Attempted, NEW p \in Procs, alive(p), Alone(p), Placed(p)'
  PROVE  \A q \in Procs : Placed(q)'
<1> SUFFICES ASSUME NEW q \in Procs, q # p PROVE Placed(q)'
  OBVIOUS
<1>1. ~alive(q)
  BY SoleOwner DEF Attempted
<1>2. proc'[q].at = proc[q].at /\ proc[q].at \notin Inside
  BY <1>1 DEF alive, Alone
<1> QED
  BY <1>2 DEF Placed, Inside, Informed, Working, WithProvider

\* A step that leaves the receipts.
LEMMA SameReceipts ==
  ASSUME Attempted, state'.executions = state.executions, state'.fast_lane = state.fast_lane
  PROVE  EscalationDisciplined'
<1>1. EscalationDisciplined
  BY DEF Attempted
<1>2. consumed_calls(state.executions)' = consumed_calls(state.executions)
      /\ consumed_tries(state.executions)' = consumed_tries(state.executions)
  BY DEF consumed_calls, consumed_tries, total
<1> QED
  BY <1>1, <1>2 DEF EscalationDisciplined, CallBudget, FastLane

\* The start of an attempt keeps what is on file.
LEMMA StartKeeps ==
  ASSUME SingleLauncher, Attempted, NEW p \in Procs,
         own(p) \/ enter(p) \/ ensure_effect_authorization(p) \/ resume(p)
  PROVE  OnFile' /\ EscalationDisciplined' /\ Placed(p)'
<1>1. TypeOK /\ OnFile /\ Placed(p) /\ Typed /\ state \in Documents
  BY DEF Attempted, Typed, TypeOK
<1>2. UNCHANGED invokers
  BY DEF own, enter, ensure_effect_authorization, resume, world
<1>3. CASE own(p)
  <2>1. UNCHANGED state /\ proc'[p].at \in {"owning", "declined"}
    BY <1>1, <1>3, GotoStep, ExitStep DEF own, Inside, After, Moved
  <2>2. Placed(p)'
    BY <2>1 DEF Placed, Inside, Informed, Working, WithProvider
  <2> QED
    BY <1>1, <1>2, <2>1, <2>2, SameReceipts DEF OnFile
<1>4. CASE enter(p)
  <2>1. /\ UNCHANGED state /\ proc'[p].at = "entered" /\ proc'[p].doc = state
        /\ proc'[p].attempts = state.executions
        /\ proc'[p].fresh \/ proc'[p].may_create => state.status = "SUBMITTED"
    BY <1>1, <1>4, EnterFields DEF enter
  <2>2. Placed(p)'
    BY <1>1, <1>2, <2>1 DEF Placed, Inside, Informed, Working, WithProvider, SameFile, OnFile
  <2> QED
    BY <1>1, <1>2, <2>1, <2>2, SameReceipts DEF OnFile
<1>5. CASE ensure_effect_authorization(p)
  <2>1. Enveloped(p, "authorized") /\ proc[p].at = "entered"
    BY <1>1, <1>5, AuthorizationFields DEF ensure_effect_authorization
  <2>2. SameFile(proc'[p].doc, state') /\ SameFile(state', state)
    BY <1>1, <2>1 DEF Enveloped, SameFile, Placed, Informed
  <2>3. Placed(p)'
    BY <1>1, <1>2, <2>1, <2>2 DEF Placed, Inside, Informed, Working, WithProvider, SameFile, Enveloped, Moved
  <2> QED
    BY <1>1, <1>2, <2>2, <2>3, SameReceipts DEF OnFile, SameFile
<1>6. CASE resume(p)
  <2>1. UNCHANGED state /\ proc[p].at = "authorized" /\ SameFile(proc[p].doc, state)
    BY <1>1, <1>6 DEF resume, Placed, Informed
  <2>2. /\ proc'[p].doc = proc[p].doc
        /\ \/ Moved(p, "running") /\ state.status = "WORKER_RUNNING"
           \/ Moved(p, "completed")
           \/ Moved(p, "finalizing")
    BY <1>1, <1>6, <2>1, ResumeFields DEF SameFile
  <2>3. Placed(p)'
    BY <1>1, <1>2, <2>1, <2>2 DEF Placed, Inside, Informed, Working, WithProvider, Moved
  <2> QED
    BY <1>1, <1>2, <2>1, <2>3, SameReceipts DEF OnFile
<1> QED
  BY <1>3, <1>4, <1>5, <1>6

\* So does the choice of a provider that has left no receipt.
LEMMA ChoiceKeeps ==
  ASSUME SingleLauncher, Attempted, NEW p \in Procs,
         \/ \E q \in Range(InitialOrder) : select_initial_provider(p, q)
         \/ resume_escalation(p) \/ replace_failed_lease(p) \/ checkpoint_leased(p) \/ checkpoint_running(p)
  PROVE  OnFile' /\ EscalationDisciplined' /\ Placed(p)'
<1>1. TypeOK /\ OnFile /\ Placed(p) /\ RunTyped(proc[p]) /\ state \in Documents
  BY DEF Attempted, Typed, TypeOK
<1>2. UNCHANGED invokers
  BY DEF select_initial_provider, resume_escalation, replace_failed_lease, checkpoint_leased, checkpoint_running, world
<1>3. ASSUME NEW q \in Range(InitialOrder), select_initial_provider(p, q)
      PROVE  OnFile' /\ EscalationDisciplined' /\ Placed(p)'
  <2>1. UNCHANGED state /\ proc[p].at = "authorized" /\ state.status = "SUBMITTED"
    BY <1>1, <1>3 DEF select_initial_provider, Placed, Informed, SameFile
  <2>2. Moved(p, "leasing")
    BY <1>1, <1>3, SelectFields DEF Providers
  <2>3. Len(state.executions) = 0
    BY <1>1, <2>1 DEF OnFile
  <2>4. Placed(p)'
    BY <1>1, <1>2, <2>1, <2>2, <2>3 DEF Placed, Inside, Informed, Working, WithProvider, Moved, Untried
  <2> QED
    BY <1>1, <1>2, <2>1, <2>4, SameReceipts DEF OnFile
<1>4. CASE resume_escalation(p)
  <2>1. /\ UNCHANGED state /\ proc[p].at = "authorized" /\ SameFile(proc[p].doc, state)
        /\ state.status = "WORKER_ESCALATING" /\ proc[p].doc.next_provider \in Providers
    BY <1>1, <1>4 DEF resume_escalation, Placed, Informed, SameFile, TypeOK, Runs, Documents
  <2>2. Moved(p, "replacing") /\ proc'[p].provider = state.next_provider
    BY <1>1, <1>4, <2>1, ResumeEscalationFields DEF SameFile
  <2>3. Placed(p)'
    BY <1>1, <1>2, <2>1, <2>2 DEF Placed, Inside, Informed, Working, WithProvider, Moved, OnFile
  <2> QED
    BY <1>1, <1>2, <2>1, <2>3, SameReceipts DEF OnFile
<1>5. CASE replace_failed_lease(p)
  <2>1. UNCHANGED state /\ proc[p].at = "replacing" /\ Moved(p, "leasing") /\ proc'[p].provider = proc[p].provider
    BY <1>1, <1>5, GotoStep DEF replace_failed_lease, Inside
  <2>2. Placed(p)'
    BY <1>1, <1>2, <2>1 DEF Placed, Inside, Informed, Working, WithProvider, Moved
  <2> QED
    BY <1>1, <1>2, <2>1, <2>2, SameReceipts DEF OnFile
<1>6. ASSUME proc[p].at \in {"leasing", "leased"},
             state'.status \in {"TARGET_LEASED", "WORKER_RUNNING"}, state'.executions = state.executions,
             state'.fast_lane = state.fast_lane, state'.active_provider = proc[p].provider
      PROVE  OnFile' /\ EscalationDisciplined'
  <2>1. state.status \in OpenStatus /\ Untried(proc[p].provider, state.executions)
    BY <1>1, <1>6 DEF Placed, OpenStatus, WithProvider
  <2> QED
    BY <1>1, <1>2, <1>6, <2>1, SameReceipts DEF OnFile
<1>7. CASE checkpoint_leased(p)
  <2>0. proc[p].provider \in Providers /\ proc[p].at = "leasing"
    BY <1>1, <1>7 DEF checkpoint_leased, WithProvider, RunTyped
  <2>1. /\ Moved(p, "leased") /\ proc'[p].provider = proc[p].provider
        /\ state'.fast_lane = state.fast_lane
        /\ state'.status = "TARGET_LEASED" /\ state'.executions = state.executions
        /\ state'.active_provider = proc[p].provider
    BY <1>1, <1>7, <2>0, LeasedFields
  <2>2. Placed(p)'
    BY <1>1, <1>2, <2>0, <2>1 DEF Placed, Inside, Informed, Working, WithProvider, Moved
  <2> QED
    BY <1>6, <2>0, <2>1, <2>2
<1>8. CASE checkpoint_running(p)
  <2>0. proc[p].provider \in Providers /\ proc[p].at = "leased"
    BY <1>1, <1>8 DEF checkpoint_running, WithProvider, RunTyped
  <2>1. /\ Moved(p, "running") /\ proc'[p].doc = state'
        /\ state'.fast_lane = state.fast_lane
        /\ state'.status = "WORKER_RUNNING" /\ state'.executions = state.executions
        /\ state'.active_provider = proc[p].provider
    BY <1>1, <1>8, <2>0, RunningFields
  <2>2. Placed(p)'
    BY <1>1, <1>2, <2>0, <2>1 DEF Placed, Inside, Informed, Working, WithProvider, Moved, SameFile
  <2> QED
    BY <1>6, <2>0, <2>1, <2>2
<1> QED
  BY <1>3, <1>4, <1>5, <1>7, <1>8

\* The round up to the receipt: the document stays the same file.
LEMMA RoundKeeps ==
  ASSUME SingleLauncher, Attempted, NEW p \in Procs,
         \/ ensure_host_prepared(p) \/ ensure_tool_projection(p) \/ model_required(p) \/ model_avoided(p)
         \/ invoke(p) \/ provider_call(p)
         \/ \E o \in Outcomes, t \in 0..MaxTries : worker_returns(p, o, t)
  PROVE  OnFile' /\ EscalationDisciplined' /\ Placed(p)'
<1>1. TypeOK /\ OnFile /\ Placed(p) /\ RunTyped(proc[p]) /\ state \in Documents
  BY DEF Attempted, Typed, TypeOK
<1>2. proc[p].at \in Working
  BY GateAssumption DEF ensure_host_prepared, ensure_tool_projection, model_required, model_avoided, invoke,
     provider_call, worker_returns, Working
<1>3. state.status = "WORKER_RUNNING" /\ SameFile(proc[p].doc, state)
  BY <1>1, <1>2 DEF Placed, Informed, Working
<1>4. proc[p].at # "running" => proc[p].provider \in Providers /\ Untried(proc[p].provider, state.executions)
  BY <1>1, <1>2 DEF RunTyped, Placed, Working, WithProvider
<1>5. invokers' \subseteq invokers \cup {p}
  BY DEF ensure_host_prepared, ensure_tool_projection, model_required, model_avoided, invoke,
     provider_call, worker_returns, world
<1>6. /\ SameFile(state', state) /\ SameFile(proc'[p].doc, state')
      /\ Untried(proc'[p].provider, state.executions)
      /\ proc'[p].at \in Working \ {"running"}
      /\ proc'[p].at = "returned" => proc'[p].receipt.provider = proc'[p].provider
      /\ proc'[p].attempts = proc[p].attempts
      /\ proc'[p].fresh = proc[p].fresh /\ proc'[p].may_create = proc[p].may_create
  <2>1. CASE ensure_host_prepared(p)
    <3>1. Enveloped(p, "prepared") /\ proc'[p].provider = state.active_provider
      BY <1>1, <1>3, <2>1, PreparedFields DEF SameFile
    <3>2. Untried(state.active_provider, state.executions)
      BY <1>1, <1>3 DEF OnFile
    <3> QED
      BY <1>3, <3>1, <3>2 DEF Enveloped, Moved, SameFile, Working
  <2>2. CASE ensure_tool_projection(p)
    <3>1. proc[p].provider \in Providers /\ Untried(proc[p].provider, state.executions)
      BY <1>4, <2>2 DEF ensure_tool_projection
    <3>2. Enveloped(p, "projected") /\ proc'[p].provider = proc[p].provider
      BY <1>1, <2>2, <3>1, ProjectionFields
    <3> QED
      BY <1>3, <3>1, <3>2 DEF Enveloped, Moved, SameFile, Working
  <2>3. CASE model_required(p)
    <3>1. Untried(proc[p].provider, state.executions)
      BY <1>4, <2>3 DEF model_required
    <3>2. Enveloped(p, "required") /\ proc'[p].provider = proc[p].provider
      BY <1>1, <2>3, RequiredFields
    <3> QED
      BY <1>3, <3>1, <3>2 DEF Enveloped, Moved, SameFile, Working
  <2>4. CASE invoke(p) \/ provider_call(p)
    <3>1. Untried(proc[p].provider, state.executions)
      BY <1>4, <2>4, GateAssumption DEF invoke, provider_call
    <3>2. /\ Moved(p, "invoking") /\ proc'[p].provider = proc[p].provider /\ proc'[p].doc = proc[p].doc
          /\ UNCHANGED state
      BY <1>1, <2>4, InvokeFields, CallFields DEF invoke, provider_call
    <3> QED
      BY <1>3, <3>1, <3>2 DEF Moved, SameFile, Working
  <2>5. CASE model_avoided(p) \/ \E o \in Outcomes, t \in 0..MaxTries : worker_returns(p, o, t)
    <3>1. proc[p].provider \in Providers /\ Untried(proc[p].provider, state.executions)
      BY <1>4, <2>5 DEF model_avoided, worker_returns
    <3>2. /\ SameFile(state', state) /\ Moved(p, "returned") /\ proc'[p].doc = state'
          /\ proc'[p].provider = proc[p].provider
          /\ proc'[p].receipt.provider = proc[p].provider
      BY <1>1, <2>5, <3>1, AvoidedFields, ReturnFields
    <3> QED
      BY <3>1, <3>2 DEF Moved, SameFile, Working
  <2> QED
    BY <2>1, <2>2, <2>3, <2>4, <2>5
<1>7. OnFile' /\ EscalationDisciplined'
  <2>1. state'.status = "WORKER_RUNNING" /\ state'.executions = state.executions
        /\ state'.fast_lane = state.fast_lane /\ state'.active_provider = state.active_provider
    BY <1>3, <1>6 DEF SameFile
  <2> QED
    BY <1>1, <1>3, <2>1, SameReceipts DEF OnFile, OpenStatus
<1>8. Placed(p)'
  <2>1. state'.status = "WORKER_RUNNING" /\ state'.executions = state.executions
    BY <1>3, <1>6 DEF SameFile
  <2>2. /\ proc[p].attempts = state.executions
        /\ proc[p].fresh \/ proc[p].may_create => invokers \subseteq {p}
    BY <1>1, <1>2 DEF Placed, Working, Inside
  <2>3. proc'[p].at \notin {"leasing", "replacing", "leased"}
    BY <1>6 DEF Working
  <2> QED
    BY <1>5, <1>6, <2>1, <2>2, <2>3 DEF Placed
<1> QED
  BY <1>7, <1>8

\* The receipt of a provider that had none, within what is left of the budgets.
LEMMA ReceiptKeeps ==
  ASSUME SingleLauncher, Attempted, NEW p \in Procs, checkpoint_completed(p)
  PROVE  OnFile' /\ EscalationDisciplined' /\ Placed(p)'
<1>1. TypeOK /\ OnFile /\ Placed(p) /\ RunTyped(proc[p]) /\ state \in Documents /\ EscalationDisciplined
  BY DEF Attempted, Typed, TypeOK
<1> DEFINE e == state.executions
           r == proc[p].receipt
<1>2. /\ proc[p].at = "returned" /\ state.status = "WORKER_RUNNING" /\ proc[p].attempts = e
      /\ r \in Receipts /\ proc[p].provider \in Providers
      /\ Untried(r.provider, e) /\ AllTransient(e) /\ (state.fast_lane => e = <<>>)
      /\ proc[p].fresh \/ proc[p].may_create => invokers \subseteq {p}
  BY <1>1 DEF checkpoint_completed, RunTyped, Placed, Working, WithProvider, OnFile, OpenStatus, Inside
<1>3. e \in Seq(Receipts) /\ Len(e) \in Nat
  BY <1>1, LenProperties DEF Documents
<1>4. /\ state'.status = "WORKER_COMPLETED" /\ state'.executions = Append(e, r)
      /\ state'.fast_lane = state.fast_lane
      /\ proc'[p].at = "completed" /\ proc'[p].doc = state' /\ proc'[p].attempts = Append(e, r)
      /\ proc'[p].fresh = proc[p].fresh /\ proc'[p].may_create = proc[p].may_create
      /\ UNCHANGED invokers
  BY ZenonT(30), <1>1, <1>2, CompletedFields DEF retained, checkpoint_completed, world
<1>5. /\ Append(e, r) \in Seq(Receipts) /\ Len(Append(e, r)) = Len(e) + 1
      /\ \A i \in 1..Len(e) : Append(e, r)[i] = e[i]
      /\ Append(e, r)[Len(e) + 1] = r
  BY <1>2, <1>3, AppendProperties
<1>6. /\ consumed_calls(Append(e, r)) = consumed_calls(e) + r.calls
      /\ consumed_tries(Append(e, r)) = consumed_tries(e) + r.tries
  BY <1>2, <1>3, ConsumedAppend
<1>7. consumed_calls(e) \in Nat /\ consumed_tries(e) \in Nat /\ r.calls \in Nat /\ r.tries \in Nat
  <2>1. r.calls \in Nat /\ r.tries \in Nat
    BY <1>2 DEF Receipts
  <2>2. DOMAIN e = 1..Len(e) /\ \A i \in 1..Len(e) : e[i] \in Receipts
    BY <1>3, LenProperties, ElementOfSeq
  <2>3. \A i \in 1..Len(e) : e[i].calls \in Nat /\ e[i].tries \in Nat
    BY <2>2 DEF Receipts
  <2>4. [i \in DOMAIN e |-> e[i].calls] \in Seq(Nat) /\ [i \in DOMAIN e |-> e[i].tries] \in Seq(Nat)
    <3> HIDE DEF e
    <3> QED
      BY <1>3, <2>2, <2>3
  <2>5. total([i \in DOMAIN e |-> e[i].calls]) \in Nat /\ total([i \in DOMAIN e |-> e[i].tries]) \in Nat
    <3> HIDE DEF e
    <3> QED
      BY <2>4, TotalAppend
  <2> QED
    BY <2>1, <2>5 DEF consumed_calls, consumed_tries
<1>8. /\ consumed_calls(Append(e, r)) <= IF state.fast_lane THEN 1 ELSE MaxCalls
      /\ consumed_tries(Append(e, r)) <= MaxTries
  <2>1. /\ r.calls <= (IF state.fast_lane THEN 1 ELSE MaxCalls) - consumed_calls(e)
        /\ r.tries <= MaxTries - consumed_tries(e)
    BY <1>2 DEF checkpoint_completed, remaining_calls, remaining_tries, configured_budget, FastLane
  <2>2. (IF state.fast_lane THEN 1 ELSE MaxCalls) \in Nat /\ MaxTries \in Nat
    BY BudgetAssumption
  <2> HIDE DEF e, r
  <2> QED
    BY <1>6, <1>7, <2>1, <2>2
<1> DEFINE f == Append(e, r)
<1>9. \A i, j \in 1..Len(f) : f[i].provider = f[j].provider => i = j
  <2>1. \A i, j \in 1..Len(e) : e[i].provider = e[j].provider => i = j
    BY <1>1 DEF EscalationDisciplined
  <2>2. \A i \in 1..Len(f) : i \in 1..Len(e) \/ i = Len(e) + 1
    BY <1>3, <1>5
  <2>3. \A i \in 1..Len(e) : f[i].provider = e[i].provider /\ e[i].provider # r.provider
    BY <1>2, <1>5 DEF Untried
  <2>4. f[Len(e) + 1].provider = r.provider
    BY <1>5
  <2> HIDE DEF e, f, r
  <2> QED
    BY <2>1, <2>2, <2>3, <2>4
<1>10. \A i \in 1..Len(f) - 1 : f[i].outcome = "incomplete"
  BY <1>2, <1>3, <1>5 DEF AllTransient
<1>11. state.fast_lane => Len(f) <= 1
  BY <1>2, <1>5
<1>12. EscalationDisciplined'
  <2>1. consumed_calls(state.executions)' = consumed_calls(f) /\ consumed_tries(state.executions)' = consumed_tries(f)
    BY <1>4 DEF consumed_calls, consumed_tries, total
  <2>2. state'.executions = f
    BY <1>4
  <2> HIDE DEF f
  <2> QED
    BY <1>4, <1>8, <1>9, <1>10, <1>11, <2>1, <2>2 DEF EscalationDisciplined, CallBudget, FastLane, f
<1>13. OnFile'
  BY <1>4 DEF OnFile, OpenStatus
<1>14. Placed(p)'
  BY <1>2, <1>4 DEF Placed, Inside, Informed, Working, WithProvider, SameFile
<1> QED
  BY <1>12, <1>13, <1>14

\* What follows a receipt.
LEMMA FollowKeeps ==
  ASSUME SingleLauncher, Attempted, NEW p \in Procs,
         \/ accept(p) \/ \E q \in Providers : escalate(p, q)
         \/ finalize_completed(p) \/ submit_for_approval(p) \/ fail(p)
  PROVE  OnFile' /\ EscalationDisciplined' /\ Placed(p)'
<1>1. TypeOK /\ OnFile /\ Placed(p) /\ state \in Documents /\ EscalationDisciplined
  BY DEF Attempted, Typed, TypeOK
<1>2. UNCHANGED invokers
  BY DEF accept, escalate, finalize_completed, submit_for_approval, fail, world
<1>3. CASE accept(p)
  <2>1. /\ UNCHANGED state /\ proc[p].at = "completed" /\ Moved(p, "finalizing") /\ proc'[p].doc = proc[p].doc
    BY <1>1, <1>3, GotoStep DEF accept, Inside
  <2>2. Placed(p)'
    BY <1>1, <1>2, <2>1 DEF Placed, Inside, Informed, Working, WithProvider, Moved
  <2> QED
    BY <1>1, <1>2, <2>1, <2>2, SameReceipts DEF OnFile
<1>4. ASSUME NEW q \in Providers, escalate(p, q)
      PROVE  OnFile' /\ EscalationDisciplined' /\ Placed(p)'
  <2> DEFINE e == state.executions
  <2>1. /\ proc[p].at = "completed" /\ proc[p].attempts = e /\ ~state.fast_lane
        /\ q \in candidates(p) /\ decide(p) = "ESCALATE" /\ proc[p].attempts # <<>>
    BY <1>1, <1>4 DEF escalate, Placed, Inside, FastLane
  <2>2. /\ state'.status = "WORKER_ESCALATING" /\ state'.executions = e /\ state'.next_provider = q
        /\ state'.fast_lane = state.fast_lane
        /\ Moved(p, "replacing") /\ proc'[p].provider = q
    BY <1>1, <1>4, <2>1, EscalateFields
  <2>3. e \in Seq(Receipts) /\ Len(e) \in Nat /\ DOMAIN e = 1..Len(e) /\ Len(e) # 0
    BY <1>1, <2>1, LenProperties, EmptySeq DEF Documents
  <2>4. Untried(q, e)
    BY <2>1, <2>3 DEF candidates, attempted, Untried, Range
  <2>5. e[Len(e)].outcome = "incomplete"
    BY <2>1 DEF decide, Last
  <2>6. AllTransient(e)
    <3>1. \A i \in 1..Len(e) : i \in 1..Len(e) - 1 \/ i = Len(e)
      BY <2>3
    <3>2. \A i \in 1..Len(e) - 1 : e[i].outcome = "incomplete"
      BY <1>1 DEF EscalationDisciplined
    <3> QED
      BY <2>5, <3>1, <3>2 DEF AllTransient
  <2>7. OnFile'
    BY <2>1, <2>2, <2>4, <2>6 DEF OnFile
  <2>8. Placed(p)'
    BY <1>1, <1>2, <2>1, <2>2, <2>4 DEF Placed, Inside, Informed, Working, WithProvider, Moved
  <2> QED
    BY <2>2, <2>7, <2>8, SameReceipts
<1>5. CASE finalize_completed(p)
  <2>1. /\ proc[p].at = "finalizing" /\ Moved(p, "finalized") /\ proc'[p].doc = state'
        /\ state'.fast_lane = state.fast_lane /\ state'.status = "VERIFIED" /\ state'.executions = state.executions
    BY <1>1, <1>5, VerifiedFields DEF finalize_completed
  <2>2. Placed(p)'
    BY <1>1, <1>2, <2>1 DEF Placed, Inside, Informed, Working, WithProvider, Moved, SameFile
  <2> QED
    BY <2>1, <2>2, SameReceipts DEF OnFile, OpenStatus
<1>6. CASE submit_for_approval(p) \/ fail(p)
  <2>1. /\ proc'[p].at = "gone" /\ state'.fast_lane = state.fast_lane
        /\ state'.status \in Ended /\ state'.executions = state.executions
    BY <1>1, <1>6, EndedFields
  <2>2. Placed(p)'
    BY <2>1 DEF Placed, Inside, Informed, Working, WithProvider
  <2> QED
    BY <2>1, <2>2, SameReceipts DEF OnFile, OpenStatus, Ended
<1> QED
  BY <1>3, <1>4, <1>5, <1>6

\* Every step of an attempt with one owner.
LEMMA NextAttempted ==
  ASSUME SingleLauncher, Attempted, [Next]_vars
  PROVE  Attempted'
<1>1. Typed' /\ Sole' /\ Typed /\ TypeOK /\ OnFile /\ state \in Documents
  BY NextTyped, NextSole DEF Attempted, Typed, TypeOK
<1>2. ASSUME NEW p \in Procs, Run(p) PROVE Attempted'
  <2>1. OnFile' /\ EscalationDisciplined' /\ Placed(p)'
    BY <1>2, StartKeeps, ChoiceKeeps, RoundKeeps, ReceiptKeeps, FollowKeeps DEF Run
  <2>2. \A q \in Procs : Placed(q)'
    BY <1>1, <1>2, <2>1, RunShape, PlacedStep
  <2> QED
    BY <1>1, <2>1, <2>2 DEF Attempted
<1>3. ASSUME SameFile(state', state), UNCHANGED invokers,
             \A q \in Procs : proc'[q].at \notin Inside \/ proc'[q] = proc[q]
      PROVE  Attempted'
  <2>1. OnFile'
    BY <1>1, <1>3 DEF OnFile, SameFile
  <2>2. EscalationDisciplined'
    BY <1>3, SameReceipts DEF SameFile
  <2>3. ASSUME NEW q \in Procs PROVE Placed(q)'
    <3>1. CASE proc'[q].at \notin Inside
      BY <3>1 DEF Placed, Inside, Informed, Working, WithProvider
    <3>2. CASE proc'[q] = proc[q]
      BY <1>3, <3>2 DEF Attempted, Placed, SameFile
    <3> QED
      BY <1>3, <3>1, <3>2
  <2> QED
    BY <1>1, <2>1, <2>2, <2>3 DEF Attempted
<1>4. ASSUME NEW p \in Procs, crash(p) PROVE Attempted'
  <2>1. UNCHANGED <<state, invokers>> /\ Alone(p) /\ proc'[p].at = "gone"
    BY <1>1, <1>4, ExitStep DEF crash, world, After
  <2> QED
    BY <1>3, <2>1 DEF Alone, Inside, SameFile
<1>5. CASE expire \/ UNCHANGED vars
  BY <1>3, <1>5 DEF expire, vars, world, SameFile
<1>6. ASSUME NEW l \in Launchers, launch_check(l) PROVE Attempted'
  BY <1>3, <1>6 DEF launch_check, world, SameFile
<1>7. ASSUME NEW l \in Launchers, NEW p \in Procs, launch_start(l, p) PROVE Attempted'
  <2>1. Alone(p) /\ proc'[p].at = "started" /\ UNCHANGED <<state, invokers>>
    BY <1>1, <1>7, GotoStep DEF launch_start, goto, Moved, world
  <2> QED
    BY <1>3, <2>1 DEF Alone, Inside, SameFile
<1>8. ASSUME NEW l \in Launchers, launch_record(l) PROVE Attempted'
  <2>1. SameFile(state', state)
    BY <1>1, <1>8 DEF launch_record, Documents, SameFile
  <2> QED
    BY <1>3, <1>8, <2>1 DEF launch_record, world
<1> QED
  BY <1>2, <1>4, <1>5, <1>6, <1>7, <1>8 DEF Next, Launch

\* The first state.
LEMMA InitAttempted == Init => Attempted
<1> SUFFICES ASSUME Init PROVE Attempted
  OBVIOUS
<1>1. Typed
  BY InitTyped
<1>2. \A p \in Procs : proc[p].at = "none"
  BY DEF Init, NewRun
<1>3. Sole /\ \A p \in Procs : Placed(p)
  BY <1>2 DEF Sole, alive, Placed, Inside, Informed, Working, WithProvider
<1>4. state.executions = <<>> /\ state.status = "SUBMITTED" /\ invokers = {}
  BY DEF Init, NewDocument
<1>5. Len(state.executions) = 0
  BY <1>4
<1>6. OnFile
  BY <1>4, <1>5 DEF OnFile, AllTransient
<1>7. consumed_calls(state.executions) = 0 /\ consumed_tries(state.executions) = 0
  <2> DEFINE s == [i \in DOMAIN state.executions |-> state.executions[i].calls]
             t == [i \in DOMAIN state.executions |-> state.executions[i].tries]
             f == [i \in 0..0 |-> 0]
  <2>1. s = <<>> /\ t = <<>>
    BY <1>4
  <2>2. SumUpTo(<<>>, 0, f) /\ f[0] = 0 /\ <<>> \in Seq(Nat) /\ Len(<<>>) = 0
    BY DEF SumUpTo
  <2>3. total(<<>>) = 0
    <3> HIDE DEF f
    <3> QED
      BY <2>2, TotalIs
  <2> QED
    BY <2>1, <2>3 DEF consumed_calls, consumed_tries
<1>8. EscalationDisciplined
  BY <1>5, <1>7, BudgetAssumption DEF EscalationDisciplined, CallBudget
<1> QED
  BY <1>1, <1>3, <1>6, <1>8 DEF Attempted

\* Over any number of relaunches and escalations of an attempt with one owner,
\* the receipts on file are one per provider, end with the only one that may end
\* the escalation, and stay within the budgets of the contract together.
THEOREM EscalationStaysDisciplined == SingleLauncher => (Spec => []EscalationDisciplined)
<1> SUFFICES ASSUME SingleLauncher PROVE Spec => []EscalationDisciplined
  OBVIOUS
<1>1. Attempted => EscalationDisciplined
  BY DEF Attempted
<1>2. Attempted /\ [Next]_vars => Attempted'
  BY NextAttempted
<1> QED
  BY <1>1, <1>2, InitAttempted, PTL DEF Spec

\* Once a worker may have run, no relaunched process makes a part of the envelope:
\* a run that makes one started on a SUBMITTED document, and the only worker that
\* was called since is its own.
THEOREM NeverMintedLate == SingleLauncher => (Spec => NoLateMint)
<1> SUFFICES ASSUME SingleLauncher PROVE Spec => NoLateMint
  OBVIOUS
<1>1. ASSUME Attempted, [Next]_vars PROVE [envelope' # envelope => \A p \in invokers : alive(p)]_vars
  <2>1. state \in Documents /\ TypeOK
    BY <1>1 DEF Attempted, Typed, TypeOK
  <2>2. ASSUME NEW p \in Procs, ensure_effect_authorization(p) \/ ensure_host_prepared(p) \/ ensure_tool_projection(p)
        PROVE  envelope' # envelope => \A q \in invokers : alive(q)
    <3>1. proc[p].at \in Inside \ {"owning"} /\ Placed(p)
      BY <1>1, <2>2 DEF ensure_effect_authorization, ensure_host_prepared, ensure_tool_projection, Inside, Attempted
    <3>2. state' = state \/ proc[p].fresh \/ proc[p].may_create
      BY <2>2 DEF ensure_effect_authorization, ensure_host_prepared, ensure_tool_projection
    <3>3. state' = state => envelope' = envelope
      BY DEF envelope
    <3> QED
      BY <3>1, <3>2, <3>3 DEF Placed, alive
  <2>3. ASSUME NEW p \in Procs, Run(p),
               ~(ensure_effect_authorization(p) \/ ensure_host_prepared(p) \/ ensure_tool_projection(p))
        PROVE  envelope' = envelope
    BY <2>1, <2>3 DEF Run, own, enter, select_initial_provider, resume_escalation, resume, write,
       checkpoint_leased, checkpoint_running, model_required, model_avoided, invoke, provider_call,
       worker_returns, checkpoint_completed, accept, escalate, replace_failed_lease, finalize_completed,
       submit_for_approval, fail, envelope, Documents
  <2>4. ASSUME (\E l \in Launchers : Launch(l)) \/ (\E p \in Procs : crash(p)) \/ expire \/ UNCHANGED vars
        PROVE  envelope' = envelope
    BY <2>1, <2>4 DEF Launch, launch_check, launch_start, launch_record, crash, expire, vars, envelope, Documents
  <2> QED
    BY <1>1, <2>2, <2>3, <2>4 DEF Next
<1>2. Attempted /\ [Next]_vars => Attempted'
  BY NextAttempted
<1> QED
  BY <1>1, <1>2, InitAttempted, PTL DEF Spec, NoLateMint
====
