--------------------- MODULE StateOwnerManifestProofs ---------------------
(***************************************************************************)
(* Proofs about StateOwnerManifest for every set of processes, files,      *)
(* transactions and selections and every bound.                            *)
(***************************************************************************)
EXTENDS StateOwnerManifest, TLAPS

\* Who is at work holds the lock.
Held == \A p \in Procs : guard[p] # Idle => lock = p

\* What a process is at, the manifest says.
Phases ==
  \A p \in Procs :
    /\ guard[p].at \in {"prepared", "open", "restoring"} => current.state = "PREPARED"
    /\ guard[p].at = "committed" => current.state = "COMMITTED"
    /\ guard[p].at = "restoring" => guard[p].left \subseteq DOMAIN current.files

\* A transaction has a snapshot of what it selects.
Snapshots == current.state = "PREPARED" => DOMAIN current.snapshot = DOMAIN current.files

\* The inductive invariant.
IInv == TypeOK /\ Held /\ Phases /\ Snapshots /\ UncommittedDeclared

\* What a restore would bring back is what was last committed.
Faithful ==
  current.state = "PREPARED" =>
    \A f \in DOMAIN current.files \cap Tasks : current.snapshot[f] = settled[f]

\* The transaction before a restored one is committed for good, and past: no
\* manifest is ever made again that equals one with a marker.
Chained ==
  /\ current.state = "PREPARED" => current.tx # current.previous
  /\ \A m \in intents \cup restored :
       m.previous \in Txs /\ history[m.previous].state = "COMMITTED" /\ current.tx # m.previous

\* Who writes, writes a manifest without a complete marker, and a restore has
\* brought back what it has ticked off.
Writing ==
  \A p \in Procs :
    /\ guard[p] # Idle /\ guard[p].at # "committed" => current \notin restored
    /\ guard[p].at = "restoring" =>
         /\ current \in intents
         /\ \A f \in (DOMAIN current.files \cap Tasks) \ guard[p].left : file[f] = current.snapshot[f]

\* The inductive invariant of restores.
RInv == Faithful /\ Chained /\ Writing /\ RestoreExact

\* An interrupted restore keeps its intent, and nobody writes for its manifest.
Interrupted ==
  /\ broken \subseteq intents
  /\ \A p \in Procs : guard[p].at \in {"prepared", "open", "restoring"} => current \notin broken

---------------------------------------------------------------------------
\* Records: what is not Idle has a phase, what is not absent has files.
LEMMA GuardFields ==
  ASSUME NEW g \in Guards \cup {Idle}
  PROVE  /\ g.at \in {"prepared", "open", "committed", "restoring"} => g \in Guards
         /\ g.at \in {"prepared", "open", "committed", "restoring"} <=> g # Idle
BY DEF Guards, Idle

\* The fields of a new manifest.
LEMMA ManifestFields ==
  ASSUME NEW m \in Manifests \cup {NoManifest}
  PROVE  /\ m.state \in {"PREPARED", "COMMITTED"} <=> m \in Manifests
         /\ m = NoManifest <=> m.state = "ABSENT"
         /\ m.tx \in Txs \cup {None}
         /\ m \in Manifests => /\ m.tx \in Txs /\ m.gen \in 1..MaxGen
                               /\ m.files \in Observations /\ m.snapshot \in Observations
BY DEF Manifests, NoManifest

\* What is read of selected files is an observation.
LEMMA Observed ==
  ASSUME NEW f \in [Files -> Versions], NEW s \in Selections
  PROVE  Restrict(f, s) \in Observations /\ DOMAIN Restrict(f, s) = s
<1>1. s \subseteq Files
  BY FileAssumption
<1>2. Restrict(f, s) \in [s -> Versions]
  BY <1>1 DEF Restrict
<1> QED
  BY <1>2 DEF Observations, Restrict

\* An observation covers a selection, with a version for each file.
LEMMA Selected ==
  ASSUME NEW o \in Observations
  PROVE  /\ DOMAIN o \in Selections
         /\ \A f \in DOMAIN o : o[f] \in Versions
BY DEF Observations

\* Nobody holds a free lock.
LEMMA FreeLock ==
  ASSUME IInv, lock = None
  PROVE  \A p \in Procs : guard[p] = Idle
BY NoneAssumption DEF IInv, Held

\* Who is at work is the only one.
LEMMA OneHolder ==
  ASSUME IInv, NEW p \in Procs, guard[p] # Idle
  PROVE  lock = p /\ \A q \in Procs \ {p} : guard[q] = Idle
BY DEF IInv, Held

---------------------------------------------------------------------------
\* The invariant holds initially.
LEMMA InitIInv == Init => IInv
<1> SUFFICES ASSUME Init PROVE IInv
  OBVIOUS
<1>1. TypeOK
  <2>1. file \in [Files -> Versions] /\ settled \in [Tasks -> Versions]
    BY BoundAssumption DEF Init, Versions, Files
  <2> QED
    BY <2>1, BoundAssumption DEF Init, TypeOK
<1>2. Held /\ Phases
  BY DEF Init, Held, Phases, Idle
<1>3. UncommittedDeclared
  BY FileAssumption DEF Init, UncommittedDeclared, Files
<1>4. Snapshots
  BY DEF Init, Snapshots, NoManifest
<1> QED
  BY <1>1, <1>2, <1>3, <1>4 DEF IInv

\* Steps that change no task file and no manifest.
LEMMA QuietStep ==
  ASSUME IInv, TypeOK', UNCHANGED <<current, settled>>, \A f \in Tasks : file'[f] = file[f],
         \A p \in Procs : guard'[p] \in {guard[p], Idle},
         \A p \in Procs : guard'[p] # Idle => lock' = lock
  PROVE  IInv'
<1>1. Held'
  BY DEF IInv, Held
<1>2. Phases'
  <2> SUFFICES ASSUME NEW p \in Procs
               PROVE  /\ guard'[p].at \in {"prepared", "open", "restoring"} => current.state = "PREPARED"
                      /\ guard'[p].at = "committed" => current.state = "COMMITTED"
                      /\ guard'[p].at = "restoring" => guard'[p].left \subseteq DOMAIN current.files
    BY DEF Phases
  <2>1. CASE guard'[p] = Idle
    BY <2>1 DEF Idle
  <2>2. CASE guard'[p] = guard[p]
    BY <2>2 DEF IInv, Phases
  <2> QED
    BY <2>1, <2>2
<1>3. UncommittedDeclared' /\ Snapshots'
  BY DEF IInv, UncommittedDeclared, Snapshots
<1> QED
  BY <1>1, <1>2, <1>3 DEF IInv

\* Generations, tokens and the journal go on under a manifest.
LEMMA GenerationSteps ==
  ASSUME IInv, NEW p \in Procs, install_generation(p) \/ read_generation(p) \/ journal_progress(p)
  PROVE  IInv'
<1>1. TypeOK'
  <2>1. CASE install_generation(p)
    BY <2>1, BoundAssumption DEF install_generation, IInv, TypeOK, markers
  <2>2. CASE read_generation(p)
    BY <2>2 DEF read_generation, IInv, TypeOK, markers
  <2>3. CASE journal_progress(p)
    <3>1. file' \in [Files -> Versions]
      BY <2>3, BoundAssumption DEF journal_progress, IInv, TypeOK, Files, Versions
    <3> QED
      BY <2>3, <3>1 DEF journal_progress, IInv, TypeOK, markers
  <2> QED
    BY <2>1, <2>2, <2>3
<1>2. \A f \in Tasks : file'[f] = file[f]
  BY FileAssumption DEF install_generation, read_generation, journal_progress, IInv, TypeOK, Files
<1> QED
  BY <1>1, <1>2, QuietStep DEF install_generation, read_generation, journal_progress

\* An operation that fails leaves what it wrote, and the lock.
LEMMA FailStep ==
  ASSUME IInv, NEW p \in Procs, fail(p)
  PROVE  IInv'
<1>1. current \in Manifests \/ guard[p].at # "restoring"
  <2>1. guard[p].at = "restoring" => current.state = "PREPARED"
    BY DEF IInv, Phases
  <2> QED
    BY <2>1, ManifestFields DEF IInv, TypeOK
<1>2. TypeOK'
  BY <1>1 DEF fail, done, IInv, TypeOK, markers
<1>3. \A q \in Procs : guard'[q] \in {guard[q], Idle} /\ (guard'[q] # Idle => lock' = lock)
  BY OneHolder DEF fail, done, IInv, TypeOK
<1> QED
  BY <1>2, <1>3, QuietStep DEF fail

\* A step of the only process at work, which stays at work.
LEMMA WorkStep ==
  ASSUME IInv, TypeOK', UncommittedDeclared', Snapshots', NEW p \in Procs, NEW g \in Guards,
         \A q \in Procs \ {p} : guard[q] = Idle,
         guard' = [guard EXCEPT ![p] = g], lock' = p,
         g.at \in {"prepared", "open", "restoring"} => current'.state = "PREPARED",
         g.at = "committed" => current'.state = "COMMITTED",
         g.at = "restoring" => g.left \subseteq DOMAIN current'.files
  PROVE  IInv'
<1>1. guard'[p] = g /\ \A q \in Procs \ {p} : guard'[q] = Idle
  BY DEF IInv, TypeOK
<1>2. Held'
  BY <1>1 DEF Held
<1>3. Phases'
  <2> SUFFICES ASSUME NEW q \in Procs
               PROVE  /\ guard'[q].at \in {"prepared", "open", "restoring"} => current'.state = "PREPARED"
                      /\ guard'[q].at = "committed" => current'.state = "COMMITTED"
                      /\ guard'[q].at = "restoring" => guard'[q].left \subseteq DOMAIN current'.files
    BY DEF Phases
  <2>1. CASE q = p
    BY <1>1, <2>1
  <2>2. CASE q # p
    BY <1>1, <2>2 DEF Idle
  <2> QED
    BY <2>1, <2>2
<1> QED
  BY <1>2, <1>3 DEF IInv

\* prepare_manifest: the PREPARED manifest and its snapshot.
LEMMA PrepareStep ==
  ASSUME IInv, NEW p \in Procs, NEW s \in Selections, NEW t \in Txs, prepare(p, s, t)
  PROVE  IInv'
<1> DEFINE g == [at |-> "prepared", left |-> {}]
<1>1. g \in Guards
  BY DEF Guards
<1>2. current' \in Manifests /\ current'.state = "PREPARED"
  <2>1. Restrict(file, s) \in Observations
    BY Observed DEF IInv, TypeOK
  <2>2. current.tx \in Txs \cup {None} /\ file[Journal] \in Versions /\ token[p] \in 1..MaxGen
    BY ManifestFields DEF IInv, TypeOK, Files
  <2> QED
    BY <2>1, <2>2 DEF prepare, Manifests
<1>3. TypeOK'
  BY <1>1, <1>2 DEF prepare, IInv, TypeOK, markers
<1>4. UncommittedDeclared'
  <2>1. current.state # "PREPARED"
    BY DEF prepare, may_prepare, NoManifest
  <2> QED
    BY <2>1 DEF prepare, IInv, UncommittedDeclared
<1>5. Snapshots'
  BY DEF prepare, Snapshots
<1>6. guard' = [guard EXCEPT ![p] = g] /\ lock' = p
  BY DEF prepare
<1> HIDE DEF g
<1>7. g.at = "prepared"
  BY DEF g
<1>8. \A q \in Procs : guard[q] = Idle
  BY FreeLock DEF prepare
<1> QED
  BY <1>1, <1>2, <1>3, <1>4, <1>5, <1>6, <1>7, <1>8, WorkStep

\* The history entry of a prepared manifest.
LEMMA PrepareHistoryStep ==
  ASSUME IInv, NEW p \in Procs, prepare_history(p)
  PROVE  IInv'
<1> DEFINE g == [guard[p] EXCEPT !.at = "open"]
<1>1. guard[p] \in Guards /\ guard[p] # Idle
  BY GuardFields DEF prepare_history, IInv, TypeOK
<1>2. g \in Guards /\ g.at = "open"
  BY <1>1 DEF Guards
<1>3. current \in Manifests /\ current.state = "PREPARED"
  BY ManifestFields DEF prepare_history, IInv, TypeOK, Phases
<1>4. guard' = [guard EXCEPT ![p] = g]
  BY DEF prepare_history, IInv, TypeOK
<1>5. TypeOK'
  <2>1. guard' \in [Procs -> Guards \cup {Idle}]
    BY <1>2, <1>4 DEF IInv, TypeOK
  <2>2. history' \in [Txs -> Manifests \cup {NoManifest}]
    BY <1>3 DEF prepare_history, IInv, TypeOK
  <2> QED
    BY <2>1, <2>2 DEF prepare_history, IInv, TypeOK, markers
<1>6. UncommittedDeclared' /\ Snapshots'
  BY DEF prepare_history, IInv, UncommittedDeclared, Snapshots
<1>7. lock' = p /\ \A q \in Procs \ {p} : guard[q] = Idle
  BY <1>1, OneHolder DEF prepare_history
<1>8. current' = current
  BY DEF prepare_history
<1> HIDE DEF g
<1> QED
  BY <1>2, <1>3, <1>4, <1>5, <1>6, <1>7, <1>8, WorkStep

\* A write inside the guard is declared by its manifest.
LEMMA OwnerWriteStep ==
  ASSUME IInv, NEW p \in Procs, NEW f \in Tasks, owner_write(p, f)
  PROVE  IInv'
<1>1. file' \in [Files -> Versions]
  BY BoundAssumption DEF owner_write, IInv, TypeOK, Files, Versions
<1>2. TypeOK'
  BY <1>1 DEF owner_write, IInv, TypeOK, markers
<1>3. current.state = "PREPARED"
  BY DEF owner_write, IInv, Phases
<1>4. UncommittedDeclared'
  <2> SUFFICES ASSUME NEW h \in Tasks, file'[h] # settled[h]
               PROVE  h \in DOMAIN current.files
    BY <1>3 DEF owner_write, UncommittedDeclared
  <2>1. CASE h = f
    BY <2>1 DEF owner_write
  <2>2. CASE h # f
    BY <2>2 DEF owner_write, IInv, UncommittedDeclared, TypeOK, Files
  <2> QED
    BY <2>1, <2>2
<1>5. Held' /\ Phases' /\ Snapshots'
  BY DEF owner_write, IInv, Held, Phases, Snapshots
<1> QED
  BY <1>2, <1>4, <1>5 DEF IInv

\* commit_manifest publishes what is on disk.
LEMMA PublishStep ==
  ASSUME IInv, NEW p \in Procs, commit(p) \/ recommit(p)
  PROVE  IInv'
<1> DEFINE g == [at |-> "committed", left |-> {}]
<1>1. g \in Guards
  BY DEF Guards
<1>2. current.state = "PREPARED" /\ lock' = p /\ \A q \in Procs \ {p} : guard[q] = Idle
  <2>1. CASE commit(p)
    <3>1. guard[p] # Idle
      BY <2>1 DEF commit, Idle
    <3> QED
      BY <2>1, <3>1, OneHolder DEF commit, IInv, Phases
  <2>2. CASE recommit(p)
    BY <2>2, FreeLock DEF recommit
  <2> QED
    BY <2>1, <2>2
<1>3. current \in Manifests
  BY <1>2, ManifestFields DEF IInv, TypeOK
<1>4. current' \in Manifests /\ current'.state = "COMMITTED"
  <2>1. DOMAIN current.files \in Selections
    BY <1>3, ManifestFields, Selected
  <2>2. Restrict(file, DOMAIN current.files) \in Observations
    BY <2>1, Observed DEF IInv, TypeOK
  <2> QED
    BY <1>3, <2>2 DEF commit, recommit, publish, Manifests
<1>5. settled' \in [Tasks -> Versions]
  BY DEF commit, recommit, publish, IInv, TypeOK, Files
<1>6. guard' = [guard EXCEPT ![p] = g]
  BY DEF commit, recommit, publish
<1>7. TypeOK'
  BY <1>1, <1>2, <1>4, <1>5, <1>6 DEF commit, recommit, IInv, TypeOK, markers
<1>8. UncommittedDeclared'
  <2>1. \A f \in Tasks : file'[f] = settled'[f]
    BY <1>2 DEF commit, recommit, publish, IInv, UncommittedDeclared
  <2> QED
    BY <2>1 DEF UncommittedDeclared
<1>9. Snapshots' /\ g.at = "committed"
  BY <1>4 DEF Snapshots
<1> HIDE DEF g
<1> QED
  BY <1>1, <1>2, <1>4, <1>6, <1>7, <1>8, <1>9, WorkStep

\* The last step of a commit or a restore.
LEMMA FinishSteps ==
  ASSUME IInv, NEW p \in Procs, commit_history(p) \/ restore_complete(p)
  PROVE  IInv'
<1>1. guard[p] # Idle
  BY DEF commit_history, restore_complete, Idle
<1>2. current \in Manifests
  BY ManifestFields DEF commit_history, restore_complete, IInv, TypeOK, Phases
<1>3. TypeOK'
  <2>1. CASE commit_history(p)
    BY <2>1, <1>2, ManifestFields DEF commit_history, done, IInv, TypeOK, markers
  <2>2. CASE restore_complete(p)
    BY <2>2, <1>2 DEF restore_complete, done, IInv, TypeOK
  <2> QED
    BY <2>1, <2>2
<1>4. \A q \in Procs : guard'[q] \in {guard[q], Idle} /\ (guard'[q] # Idle => lock' = lock)
  BY <1>1, OneHolder DEF commit_history, restore_complete, done, IInv, TypeOK
<1> QED
  BY <1>3, <1>4, QuietStep DEF commit_history, restore_complete

\* A restore declares itself before it writes.
LEMMA RestoreIntentStep ==
  ASSUME IInv, NEW p \in Procs, restore_intent(p)
  PROVE  IInv'
<1> DEFINE g == [at |-> "restoring", left |-> DOMAIN current.files \cap Tasks]
<1>1. g \in Guards
  BY DEF Guards
<1>2. current \in Manifests /\ current.state = "PREPARED" /\ current' = current
  BY ManifestFields DEF restore_intent, IInv, TypeOK
<1>3. guard' = [guard EXCEPT ![p] = g] /\ lock' = p /\ \A q \in Procs : guard[q] = Idle
  BY FreeLock DEF restore_intent
<1>4. TypeOK'
  BY <1>1, <1>2, <1>3 DEF restore_intent, IInv, TypeOK
<1>5. UncommittedDeclared' /\ Snapshots'
  BY DEF restore_intent, IInv, UncommittedDeclared, Snapshots
<1>6. g.at = "restoring" /\ g.left \subseteq DOMAIN current'.files
  BY <1>2
<1> HIDE DEF g
<1> QED
  BY <1>1, <1>2, <1>3, <1>4, <1>5, <1>6, WorkStep

\* A file is written back.
LEMMA RestoreWriteStep ==
  ASSUME IInv, NEW p \in Procs, NEW f \in Tasks, restore_write(p, f)
  PROVE  IInv'
<1> DEFINE g == [guard[p] EXCEPT !.left = @ \ {f}]
<1>1. guard[p] \in Guards /\ guard[p] # Idle
  BY GuardFields DEF restore_write, IInv, TypeOK
<1>2. g \in Guards /\ g.at = "restoring" /\ g.left \subseteq guard[p].left
  BY <1>1 DEF Guards, restore_write
<1>3. current \in Manifests /\ current.state = "PREPARED" /\ current' = current
  BY ManifestFields DEF restore_write, IInv, TypeOK, Phases
<1>4. guard[p].left \subseteq DOMAIN current.files /\ f \in DOMAIN current.files
  BY DEF restore_write, IInv, Phases
<1>5. guard' = [guard EXCEPT ![p] = g] /\ lock' = p /\ \A q \in Procs \ {p} : guard[q] = Idle
  BY <1>1, OneHolder DEF restore_write, IInv, TypeOK
<1>6. file' \in [Files -> Versions]
  <2>1. current.snapshot[f] \in Versions
    BY <1>3, <1>4, ManifestFields, Selected DEF IInv, Snapshots
  <2> QED
    BY <2>1 DEF restore_write, IInv, TypeOK, Files
<1>7. TypeOK'
  <2>1. guard' \in [Procs -> Guards \cup {Idle}]
    BY <1>2, <1>5 DEF IInv, TypeOK
  <2> QED
    BY <2>1, <1>6 DEF restore_write, IInv, TypeOK, markers
<1>8. UncommittedDeclared'
  <2> SUFFICES ASSUME NEW h \in Tasks, file'[h] # settled[h]
               PROVE  h \in DOMAIN current.files
    BY <1>3 DEF restore_write, UncommittedDeclared
  <2>1. CASE h = f
    BY <1>4, <2>1
  <2>2. CASE h # f
    BY <2>2 DEF restore_write, IInv, UncommittedDeclared, TypeOK, Files
  <2> QED
    BY <2>1, <2>2
<1>9. Snapshots'
  BY <1>3 DEF IInv, Snapshots
<1> HIDE DEF g
<1> QED
  BY <1>2, <1>3, <1>4, <1>5, <1>7, <1>8, <1>9, WorkStep

\* Every step keeps the invariant.
LEMMA NextIInv == IInv /\ [Next]_vars => IInv'
<1> SUFFICES ASSUME IInv, [Next]_vars PROVE IInv'
  OBVIOUS
<1>1. CASE UNCHANGED vars
  BY <1>1 DEF vars, markers, IInv, TypeOK, Held, Phases, Snapshots, UncommittedDeclared
<1>2. CASE Next
  <2> PICK p \in Procs :
         \/ install_generation(p) \/ read_generation(p) \/ fail(p) \/ journal_progress(p)
         \/ \E s \in Selections, t \in Txs : prepare(p, s, t)
         \/ prepare_history(p)
         \/ \E f \in Tasks : owner_write(p, f)
         \/ commit(p) \/ recommit(p) \/ commit_history(p)
         \/ restore_intent(p)
         \/ \E f \in Tasks : restore_write(p, f)
         \/ restore_complete(p)
    BY <1>2 DEF Next
  <2> QED
    BY GenerationSteps, FailStep, PrepareStep, PrepareHistoryStep, OwnerWriteStep, PublishStep,
       FinishSteps, RestoreIntentStep, RestoreWriteStep
<1> QED
  BY <1>1, <1>2

---------------------------------------------------------------------------
\* The invariant of restores holds initially.
LEMMA InitRInv == Init => RInv
BY DEF Init, RInv, Faithful, Chained, Writing, RestoreExact, NoManifest, Idle

\* Steps that change no task file, no manifest and no marker.
LEMMA QuietRStep ==
  ASSUME IInv, RInv, UNCHANGED <<current, settled, markers>>, \A f \in Tasks : file'[f] = file[f],
         \A t \in Txs : history[t].state = "COMMITTED" => history'[t].state = "COMMITTED",
         \A p \in Procs : guard'[p] \in {guard[p], Idle}
  PROVE  RInv'
<1>1. Faithful' /\ RestoreExact'
  BY DEF RInv, Faithful, RestoreExact, markers
<1>2. Chained'
  BY DEF RInv, Chained, markers
<1>3. Writing'
  <2> SUFFICES ASSUME NEW p \in Procs
               PROVE  /\ guard'[p] # Idle /\ guard'[p].at # "committed" => current \notin restored
                      /\ guard'[p].at = "restoring" =>
                           /\ current \in intents
                           /\ \A f \in (DOMAIN current.files \cap Tasks) \ guard'[p].left :
                                file[f] = current.snapshot[f]
    BY DEF Writing, markers
  <2>1. CASE guard'[p] = Idle
    BY <2>1 DEF Idle
  <2>2. CASE guard'[p] = guard[p]
    BY <2>2 DEF RInv, Writing
  <2> QED
    BY <2>1, <2>2
<1> QED
  BY <1>1, <1>2, <1>3 DEF RInv

\* Steps that write no task file.
LEMMA QuietRSteps ==
  ASSUME IInv, RInv, NEW p \in Procs,
         \/ install_generation(p) \/ read_generation(p) \/ journal_progress(p)
         \/ fail(p) \/ commit_history(p)
  PROVE  RInv'
<1>1. \A f \in Tasks : file'[f] = file[f]
  BY FileAssumption DEF install_generation, read_generation, journal_progress, fail, commit_history,
     IInv, TypeOK, Files
<1>2. \A q \in Procs : guard'[q] \in {guard[q], Idle}
  BY DEF install_generation, read_generation, journal_progress, fail, commit_history, done, IInv, TypeOK
<1>3. \A t \in Txs : history[t].state = "COMMITTED" => history'[t].state = "COMMITTED"
  <2>1. CASE commit_history(p)
    BY <2>1 DEF commit_history, IInv, TypeOK, Phases
  <2> QED
    BY <2>1 DEF install_generation, read_generation, journal_progress, fail
<1> QED
  BY <1>1, <1>2, <1>3, QuietRStep
  DEF install_generation, read_generation, journal_progress, fail, commit_history

\* A snapshot is taken when everything is committed.
LEMMA PrepareRStep ==
  ASSUME IInv, RInv, NEW p \in Procs, NEW s \in Selections, NEW t \in Txs, prepare(p, s, t)
  PROVE  RInv'
<1>1. \A q \in Procs : guard[q] = Idle
  BY FreeLock DEF prepare
<1>2. current.state # "PREPARED"
  BY DEF prepare, may_prepare, NoManifest
<1>3. current'.tx = t /\ current'.previous = current.tx /\ current.tx # t
  BY DEF prepare, may_prepare
<1>4. Faithful'
  <2>1. s \subseteq Files /\ DOMAIN current'.files = s
    BY FileAssumption, Observed DEF prepare, IInv, TypeOK
  <2>2. \A f \in s \cap Tasks : current'.snapshot[f] = file[f]
    BY <2>1 DEF prepare, Restrict
  <2> QED
    BY <1>2, <2>1, <2>2 DEF Faithful, prepare, IInv, UncommittedDeclared
<1>5. Chained'
  <2>1. history[t].state = "ABSENT"
    BY DEF prepare, may_prepare, NoManifest
  <2> QED
    BY <1>3, <2>1 DEF prepare, RInv, Chained, markers
<1>6. current' \notin restored'
  BY <1>3 DEF prepare, RInv, Chained, markers
<1>7. Writing'
  <2> SUFFICES ASSUME NEW q \in Procs PROVE guard'[q].at # "restoring"
    BY <1>6 DEF Writing
  <2> QED
    BY <1>1 DEF prepare, IInv, TypeOK, Idle
<1> QED
  BY <1>4, <1>5, <1>6, <1>7 DEF RInv, RestoreExact

\* The history entry of a prepared manifest.
LEMMA PrepareHistoryRStep ==
  ASSUME IInv, RInv, NEW p \in Procs, prepare_history(p)
  PROVE  RInv'
<1>1. guard[p] # Idle /\ guard[p].at = "prepared" /\ current \notin restored
  BY DEF prepare_history, RInv, Writing, Idle
<1>2. Chained'
  BY DEF prepare_history, RInv, Chained, IInv, TypeOK, markers
<1>3. Writing'
  <2> SUFFICES ASSUME NEW q \in Procs PROVE guard'[q].at # "restoring"
    BY <1>1 DEF Writing, prepare_history, markers
  <2>1. CASE q = p
    BY <2>1 DEF prepare_history, IInv, TypeOK
  <2>2. CASE q # p
    BY <1>1, <2>2, OneHolder DEF prepare_history, IInv, TypeOK, Idle
  <2> QED
    BY <2>1, <2>2
<1>4. Faithful' /\ RestoreExact'
  BY DEF prepare_history, RInv, Faithful, RestoreExact, markers
<1> QED
  BY <1>2, <1>3, <1>4 DEF RInv

\* A write inside the guard does not touch the snapshot.
LEMMA OwnerWriteRStep ==
  ASSUME IInv, RInv, NEW p \in Procs, NEW f \in Tasks, owner_write(p, f)
  PROVE  RInv'
<1>1. guard[p] # Idle /\ guard[p].at = "open" /\ current \notin restored
  BY DEF owner_write, RInv, Writing, Idle
<1>2. \A q \in Procs : guard[q].at # "restoring"
  BY <1>1, OneHolder DEF Idle
<1>3. Writing' /\ RestoreExact'
  BY <1>1, <1>2 DEF owner_write, Writing, RestoreExact, markers
<1>4. Faithful' /\ Chained'
  BY DEF owner_write, RInv, Faithful, Chained, markers
<1> QED
  BY <1>3, <1>4 DEF RInv

\* A commit makes what is on disk the last committed state.
LEMMA PublishRStep ==
  ASSUME IInv, RInv, NEW p \in Procs, commit(p) \/ recommit(p)
  PROVE  RInv'
<1>1. current \in Manifests
  BY ManifestFields DEF commit, recommit, IInv, TypeOK, Phases
<1>2. current'.state = "COMMITTED" /\ current'.tx = current.tx
  BY <1>1 DEF commit, recommit, publish, Manifests
<1>3. \A q \in Procs \ {p} : guard[q] = Idle
  <2>1. CASE commit(p)
    BY <2>1, OneHolder DEF commit, Idle
  <2>2. CASE recommit(p)
    BY <2>2, FreeLock DEF recommit
  <2> QED
    BY <2>1, <2>2
<1>4. Writing'
  <2> SUFFICES ASSUME NEW q \in Procs PROVE guard'[q] = Idle \/ guard'[q].at = "committed"
    BY DEF Writing, Idle
  <2>1. CASE q = p
    BY <2>1 DEF commit, recommit, publish, IInv, TypeOK
  <2>2. CASE q # p
    BY <1>3, <2>2 DEF commit, recommit, publish, IInv, TypeOK
  <2> QED
    BY <2>1, <2>2
<1>5. Chained'
  BY <1>2 DEF commit, recommit, RInv, Chained, markers
<1> QED
  BY <1>2, <1>4, <1>5 DEF RInv, Faithful, RestoreExact

\* A restore starts with nothing ticked off.
LEMMA RestoreIntentRStep ==
  ASSUME IInv, RInv, NEW p \in Procs, restore_intent(p)
  PROVE  RInv'
<1>1. current \in Manifests /\ current' = current /\ current \notin restored' /\ current \in intents'
  BY ManifestFields DEF restore_intent, IInv, TypeOK
<1>2. Chained'
  <2>1. current.previous \in Txs /\ history[current.previous].state = "COMMITTED"
    BY <1>1 DEF restore_intent, previous_committed, Manifests
  <2>2. current.tx # current.previous
    BY DEF restore_intent, RInv, Chained
  <2> QED
    BY <2>1, <2>2 DEF restore_intent, RInv, Chained
<1>3. Writing'
  <2>1. \A q \in Procs \ {p} : guard'[q] = Idle
    BY FreeLock DEF restore_intent, IInv, TypeOK
  <2>2. guard'[p].left = DOMAIN current.files \cap Tasks
    BY DEF restore_intent, IInv, TypeOK
  <2> QED
    BY <1>1, <2>1, <2>2 DEF Writing, Idle
<1>4. Faithful' /\ RestoreExact'
  BY <1>1 DEF restore_intent, RInv, Faithful, RestoreExact
<1> QED
  BY <1>2, <1>3, <1>4 DEF RInv

\* A file that is ticked off is back.
LEMMA RestoreWriteRStep ==
  ASSUME IInv, RInv, NEW p \in Procs, NEW f \in Tasks, restore_write(p, f)
  PROVE  RInv'
<1>1. guard[p] \in Guards /\ guard[p] # Idle /\ guard[p].at = "restoring"
  BY GuardFields DEF restore_write, IInv, TypeOK
<1>2. current' = current /\ current \notin restored' /\ current \in intents'
  BY <1>1 DEF restore_write, RInv, Writing, markers
<1>3. Writing'
  <2>1. \A q \in Procs \ {p} : guard'[q] = Idle
    BY <1>1, OneHolder DEF restore_write, IInv, TypeOK
  <2>2. guard'[p].left = guard[p].left \ {f}
    BY <1>1 DEF restore_write, IInv, TypeOK, Guards
  <2>3. \A h \in (DOMAIN current.files \cap Tasks) \ guard'[p].left : file'[h] = current.snapshot[h]
    BY <1>1, <2>2 DEF restore_write, RInv, Writing, IInv, TypeOK, Files
  <2> QED
    BY <1>2, <2>1, <2>3 DEF Writing, Idle
<1>4. Faithful' /\ Chained' /\ RestoreExact'
  BY <1>2 DEF restore_write, RInv, Faithful, Chained, RestoreExact, markers
<1> QED
  BY <1>3, <1>4 DEF RInv

\* A restore is complete when every selected file is back.
LEMMA RestoreCompleteRStep ==
  ASSUME IInv, RInv, NEW p \in Procs, restore_complete(p)
  PROVE  RInv'
<1>1. guard[p] # Idle /\ current.state = "PREPARED"
  BY DEF restore_complete, IInv, Phases, Idle
<1>2. \A f \in DOMAIN current.files \cap Tasks : file[f] = settled[f]
  BY <1>1 DEF restore_complete, RInv, Writing, Faithful
<1>3. Chained'
  <2>1. current \in intents \cup restored => current.tx # current.previous
    BY <1>1 DEF RInv, Chained
  <2>2. current \in intents
    BY DEF restore_complete, RInv, Writing
  <2> QED
    BY <2>1, <2>2 DEF restore_complete, RInv, Chained
<1>4. Writing'
  <2>1. \A q \in Procs : guard'[q] = Idle
    BY <1>1, OneHolder DEF restore_complete, done, IInv, TypeOK
  <2> QED
    BY <2>1 DEF Writing, Idle
<1>5. Faithful' /\ RestoreExact'
  BY <1>2 DEF restore_complete, RInv, Faithful, RestoreExact
<1> QED
  BY <1>3, <1>4, <1>5 DEF RInv

\* Every step keeps the invariant of restores.
LEMMA NextRInv == IInv /\ RInv /\ [Next]_vars => RInv'
<1> SUFFICES ASSUME IInv, RInv, [Next]_vars PROVE RInv'
  OBVIOUS
<1>1. CASE UNCHANGED vars
  BY <1>1 DEF vars, markers, RInv, Faithful, Chained, Writing, RestoreExact
<1>2. CASE Next
  <2> PICK p \in Procs :
         \/ install_generation(p) \/ read_generation(p) \/ fail(p) \/ journal_progress(p)
         \/ \E s \in Selections, t \in Txs : prepare(p, s, t)
         \/ prepare_history(p)
         \/ \E f \in Tasks : owner_write(p, f)
         \/ commit(p) \/ recommit(p) \/ commit_history(p)
         \/ restore_intent(p)
         \/ \E f \in Tasks : restore_write(p, f)
         \/ restore_complete(p)
    BY <1>2 DEF Next
  <2> QED
    BY QuietRSteps, PrepareRStep, PrepareHistoryRStep, OwnerWriteRStep, PublishRStep,
       RestoreIntentRStep, RestoreWriteRStep, RestoreCompleteRStep
<1> QED
  BY <1>1, <1>2

\* An older generation's transaction is neither committed nor replaced by any step.
LEMMA NextFenced ==
  ASSUME [Next]_vars, current.state = "PREPARED", current.gen < installed, IInv
  PROVE  current' = current
<1>1. current.gen \in Nat /\ installed \in Nat
  BY ManifestFields DEF IInv, TypeOK
<1> QED
  BY <1>1 DEF Next, vars, NoManifest, install_generation, read_generation, fail, journal_progress,
     prepare, may_prepare, prepare_history, owner_write, commit, recommit, commit_history,
     restore_intent, restore_write, restore_complete

---------------------------------------------------------------------------
\* The types of manifests, history, markers and guards.
THEOREM TypeCorrect == Spec => []TypeOK
<1>1. IInv => TypeOK
  BY DEF IInv
<1> QED
  BY <1>1, InitIInv, NextIInv, PTL DEF Spec

\* Wherever transactions and restores fail: bytes of a task file that were not
\* committed are declared by a PREPARED manifest that selects the file.
THEOREM Declared == Spec => []UncommittedDeclared
<1>1. IInv => UncommittedDeclared
  BY DEF IInv
<1> QED
  BY <1>1, InitIInv, NextIInv, PTL DEF Spec

\* While the marker of a restore is COMPLETE, the files it is about are those
\* last committed, whatever ids, markers and history writes were lost before.
THEOREM RestoredIsCommitted == Spec => []RestoreExact
<1>1. RInv => RestoreExact
  BY DEF RInv
<1> QED
  BY <1>1, InitIInv, NextIInv, InitRInv, NextRInv, PTL DEF Spec

\* A PREPARED manifest of an older generation stays as it is for good.
THEOREM Fenced == Spec => FencedForGood
<1>1. IInv /\ [Next]_vars => [current.state = "PREPARED" /\ current.gen < installed => current' = current]_vars
  BY NextFenced
<1> QED
  BY <1>1, InitIInv, NextIInv, PTL DEF Spec, FencedForGood

\* Starting, failing and finishing transactions and restores: an interrupted
\* manifest is not restored again, and never comes to be prepared again.
LEMMA NextInterrupted == IInv /\ RInv /\ Interrupted /\ [Next]_vars => Interrupted'
<1> SUFFICES ASSUME IInv, RInv, Interrupted, [Next]_vars PROVE Interrupted'
  OBVIOUS
<1>1. CASE UNCHANGED vars
  BY <1>1 DEF vars, markers, Interrupted
<1>2. ASSUME NEW p \in Procs,
             \/ install_generation(p) \/ read_generation(p) \/ journal_progress(p)
             \/ \E f \in Tasks : owner_write(p, f)
      PROVE  Interrupted'
  BY <1>2 DEF install_generation, read_generation, journal_progress, owner_write, markers, Interrupted
<1>3. ASSUME NEW p \in Procs, fail(p) PROVE Interrupted'
  <2>1. UNCHANGED <<current, intents>> /\ guard'[p] = Idle /\ broken' \subseteq broken \cup {current}
    BY <1>3 DEF fail, done, markers, IInv, TypeOK
  <2>2. \A q \in Procs \ {p} : guard'[q] = Idle
    BY <1>3, OneHolder DEF fail, done, IInv, TypeOK
  <2>3. broken' \subseteq intents
    BY <1>3 DEF fail, Interrupted, RInv, Writing
  <2> QED
    BY <2>1, <2>2, <2>3 DEF Interrupted, Idle
<1>4. ASSUME NEW p \in Procs, NEW s \in Selections, NEW t \in Txs, prepare(p, s, t) PROVE Interrupted'
  <2>1. UNCHANGED <<broken, intents>> /\ current'.previous = current.tx
    BY <1>4 DEF prepare, markers
  <2>2. current' \notin intents
    BY <2>1 DEF RInv, Chained
  <2> QED
    BY <2>1, <2>2 DEF Interrupted
<1>5. ASSUME NEW p \in Procs, prepare_history(p) PROVE Interrupted'
  <2>1. UNCHANGED <<broken, intents, current>> /\ \A q \in Procs \ {p} : guard'[q] = guard[q]
    BY <1>5 DEF prepare_history, markers, IInv, TypeOK
  <2> QED
    BY <1>5, <2>1 DEF prepare_history, Interrupted
<1>6. ASSUME NEW p \in Procs, commit(p) \/ recommit(p) \/ commit_history(p) PROVE Interrupted'
  <2>1. UNCHANGED <<broken, intents>>
    BY <1>6 DEF commit, recommit, commit_history, markers
  <2>2. guard'[p].at \in {"committed", "idle"} /\ \A q \in Procs \ {p} : guard'[q] = guard[q]
    BY <1>6 DEF commit, recommit, commit_history, publish, done, Idle, IInv, TypeOK
  <2>3. \A q \in Procs \ {p} : guard[q] = Idle
    BY <1>6, FreeLock, OneHolder DEF commit, recommit, commit_history, Idle
  <2> QED
    BY <2>1, <2>2, <2>3 DEF Interrupted, Idle
<1>7. ASSUME NEW p \in Procs, restore_intent(p) PROVE Interrupted'
  <2>1. UNCHANGED <<broken, current>> /\ intents \subseteq intents' /\ current \notin intents
    BY <1>7 DEF restore_intent, recoverable
  <2> QED
    BY <2>1 DEF Interrupted
<1>8. ASSUME NEW p \in Procs, NEW f \in Tasks, restore_write(p, f) PROVE Interrupted'
  <2>1. UNCHANGED <<broken, intents, current>> /\ current \notin broken
    BY <1>8 DEF restore_write, markers, Interrupted
  <2> QED
    BY <2>1 DEF Interrupted
<1>9. ASSUME NEW p \in Procs, restore_complete(p) PROVE Interrupted'
  <2>1. UNCHANGED <<broken, current>> /\ intents' = intents \ {current} /\ current \notin broken
    BY <1>9 DEF restore_complete, Interrupted
  <2> QED
    BY <2>1 DEF Interrupted
<1> QED
  BY <1>1, <1>2, <1>3, <1>4, <1>5, <1>6, <1>7, <1>8, <1>9 DEF Next

\* After a restore was interrupted, by whatever and wherever between its writes,
\* the task files stay as it left them: it is not restored a second time, and no
\* operation goes on writing for its transaction.
THEOREM InterruptedForGood == Spec => InterruptedStays
<1> DEFINE Stay == current \in broken => \A f \in Tasks : file'[f] = file[f]
<1>1. Init => Interrupted
  BY DEF Init, Interrupted, Idle
<1>2. ASSUME IInv, Interrupted, Next PROVE Stay
  <2> SUFFICES ASSUME current \in broken, NEW f \in Tasks PROVE file'[f] = file[f]
    OBVIOUS
  <2> PICK p \in Procs :
         \/ install_generation(p) \/ read_generation(p) \/ fail(p) \/ journal_progress(p)
         \/ \E s \in Selections, t \in Txs : prepare(p, s, t)
         \/ prepare_history(p)
         \/ \E g \in Tasks : owner_write(p, g)
         \/ commit(p) \/ recommit(p) \/ commit_history(p)
         \/ restore_intent(p)
         \/ \E g \in Tasks : restore_write(p, g)
         \/ restore_complete(p)
    BY <1>2 DEF Next
  <2>1. ~(\E g \in Tasks : owner_write(p, g)) /\ ~(\E g \in Tasks : restore_write(p, g))
    BY <1>2 DEF Interrupted, owner_write, restore_write
  <2>2. CASE journal_progress(p)
    BY <1>2, <2>2, FileAssumption DEF journal_progress, IInv, TypeOK, Files
  <2>3. CASE file' = file
    BY <2>3
  <2> QED
    BY <2>1, <2>2, <2>3 DEF install_generation, read_generation, fail, prepare, prepare_history,
       commit, recommit, commit_history, restore_intent, restore_complete
<1>3. IInv /\ Interrupted /\ [Next]_vars => [Stay]_vars
  BY <1>2
<1> QED
  BY <1>1, <1>3, InitIInv, NextIInv, InitRInv, NextRInv, NextInterrupted, PTL DEF Spec, InterruptedStays
====
