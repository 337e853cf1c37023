------------------------ MODULE StateOwnerManifest ------------------------
(***************************************************************************)
(* Owner transactions (kernel/events/state_owner_manifest.py): the manifest*)
(* of a root, the transactions that prepare and commit it around writes of *)
(* selected files, and the restore of a transaction that was left behind.  *)
(*                                                                         *)
(* All of this runs under event_store_lock.  A process that raises or dies *)
(* gives the lock back and leaves on disk what it had written, so every    *)
(* durable write is an action.  Snapshots are written before the manifest  *)
(* that names them and are part of it here.  A digest is its manifest: a   *)
(* transaction has one PREPARED and one COMMITTED manifest.  The owner and *)
(* the root are one; edited files and symlinks are left out.               *)
(*                                                                         *)
(* A file's contents are a version; 0 is an absent file.  The journal has  *)
(* an unresolved effect in its odd versions.                               *)
(***************************************************************************)
EXTENDS Integers, Functions

CONSTANTS Procs,       \* processes
          Tasks,       \* files of the roles that can be restored
          Journal,     \* the append-only file of an immutable role
          Txs,         \* transaction ids
          Selections,  \* the sets of files a transaction may select
          MaxGen,      \* bound on writer generations
          MaxVersion,  \* bound on versions of a task file
          MaxJournal   \* bound on versions of the journal

Files == Tasks \cup {Journal}
None == "none"
ASSUME FileAssumption == Journal \notin Tasks /\ Selections \subseteq SUBSET Files
ASSUME NoneAssumption == None \notin Procs /\ None \notin Txs
ASSUME BoundAssumption ==
  MaxGen \in Nat \ {0} /\ MaxJournal \in Nat \ {0, 1} /\ MaxVersion \in 1..MaxJournal

Versions == 0..MaxJournal
Observations == UNION {[s -> Versions] : s \in Selections}
\* files: what prepare or commit observed; snapshot: what prepare copied;
\* since: the journal at that time.
Manifests == [tx : Txs, gen : 1..MaxGen, state : {"PREPARED", "COMMITTED"},
              previous : Txs \cup {None}, files : Observations, snapshot : Observations,
              since : Versions]
NoManifest == [tx |-> None, state |-> "ABSENT"]
Idle == [at |-> "idle"]
Guards == [at : {"prepared", "open", "committed", "restoring"}, left : SUBSET Tasks]

VARIABLES
  installed,  \* the installed writer generation
  token,      \* token[p]: the generation p is bound to
  lock,       \* the holder of event_store_lock
  file,       \* file[f]: the contents of file f
  current,    \* the manifest of the root
  history,    \* history[t]: the manifest kept for transaction t
  intents,    \* manifests with a recovery marker that is PREPARED
  restored,   \* manifests with a recovery marker that is COMPLETE
  guard,      \* guard[p]: how far p's operation is
  settled,    \* settled[f]: the contents of task file f last committed
  broken      \* manifests whose restore has been interrupted

markers == <<intents, restored>>
vars == <<installed, token, lock, file, current, history, markers, guard, settled, broken>>

TypeOK ==
  /\ installed \in 1..MaxGen
  /\ token \in [Procs -> 1..MaxGen]
  /\ lock \in Procs \cup {None}
  /\ file \in [Files -> Versions]
  /\ current \in Manifests \cup {NoManifest}
  /\ history \in [Txs -> Manifests \cup {NoManifest}]
  /\ intents \subseteq Manifests /\ restored \subseteq Manifests
  /\ guard \in [Procs -> Guards \cup {Idle}]
  /\ settled \in [Tasks -> Versions]
  /\ broken \subseteq Manifests

Init ==
  /\ installed = 1
  /\ token = [p \in Procs |-> 1]
  /\ lock = None
  /\ \E n, m \in {0, 1} : /\ file = [f \in Files |-> IF f = Journal THEN 2 * m ELSE n]
                          /\ settled = [f \in Tasks |-> n]
  /\ current = NoManifest
  /\ history = [t \in Txs |-> NoManifest]
  /\ intents = {} /\ restored = {} /\ broken = {}
  /\ guard = [p \in Procs |-> Idle]

---------------------------------------------------------------------------
(* The writer generation, and the end of an operation.                     *)

install_generation(p) ==
  /\ lock = None
  /\ installed < MaxGen
  /\ installed' = installed + 1
  /\ token' = [token EXCEPT ![p] = installed + 1]
  /\ UNCHANGED <<lock, file, current, history, markers, guard, settled, broken>>

read_generation(p) ==
  /\ guard[p] = Idle
  /\ token' = [token EXCEPT ![p] = installed]
  /\ UNCHANGED <<installed, lock, file, current, history, markers, guard, settled, broken>>

done(p) ==
  /\ lock' = None
  /\ guard' = [guard EXCEPT ![p] = Idle]

\* The operation of p raises, or p dies.
fail(p) ==
  /\ guard[p] # Idle
  /\ broken' = IF guard[p].at = "restoring" THEN broken \cup {current} ELSE broken
  /\ done(p)
  /\ UNCHANGED <<installed, token, file, current, history, markers, settled>>

\* The journal goes on under the lock and the generation, in a transaction or
\* outside (EffectJournal).
journal_progress(p) ==
  /\ lock \in {None, p}
  /\ token[p] = installed
  /\ file[Journal] < MaxJournal
  /\ file' = [file EXCEPT ![Journal] = @ + 1]
  /\ UNCHANGED <<installed, token, lock, current, history, markers, guard, settled, broken>>

---------------------------------------------------------------------------
(* Owner transactions.                                                     *)

\* _validate_committed_selections: a selected file that the manifest lists is
\* as committed.  Events and effects are listed under a fresh entry id.
baseline_ok(s) == \A f \in s \cap DOMAIN current.files \cap Tasks : file[f] = current.files[f]

\* Mutant of may_prepare: a PREPARED manifest is replaced.
mutant_may_prepare(s, t) ==
  /\ current.tx # t /\ history[t] = NoManifest
  /\ current.state = "COMMITTED" => baseline_ok(s)

\* prepare_manifest: a fresh transaction id, nothing unresolved, the baseline.
may_prepare(s, t) ==
  /\ current.tx # t /\ history[t] = NoManifest
  /\ \/ current = NoManifest
     \/ current.state = "COMMITTED" /\ baseline_ok(s)

\* owner_transaction_guard, prepare_manifest: the files are captured and the
\* PREPARED manifest is written.
prepare(p, s, t) ==
  /\ lock = None
  /\ token[p] = installed
  /\ may_prepare(s, t)
  /\ lock' = p
  /\ current' = [tx |-> t, gen |-> token[p], state |-> "PREPARED", previous |-> current.tx,
                 files |-> Restrict(file, s), snapshot |-> Restrict(file, s),
                 since |-> file[Journal]]
  /\ guard' = [guard EXCEPT ![p] = [at |-> "prepared", left |-> {}]]
  /\ UNCHANGED <<installed, token, file, history, markers, settled, broken>>

\* prepare_manifest: the manifest goes to the history too.
prepare_history(p) ==
  /\ guard[p].at = "prepared"
  /\ history' = [history EXCEPT ![current.tx] = current]
  /\ guard' = [guard EXCEPT ![p].at = "open"]
  /\ UNCHANGED <<installed, token, lock, file, current, markers, settled, broken>>

\* A write of a selected file, after assert_owner_write.
owner_write(p, f) ==
  /\ guard[p].at = "open"
  /\ token[p] = installed
  /\ f \in DOMAIN current.files
  /\ file[f] < MaxVersion
  /\ file' = [file EXCEPT ![f] = @ + 1]
  /\ UNCHANGED <<installed, token, lock, current, history, markers, guard, settled, broken>>

\* The COMMITTED manifest, with the files as they are now.
publish(p) ==
  /\ current' = [current EXCEPT !.state = "COMMITTED",
                                !.files = Restrict(file, DOMAIN current.files)]
  /\ settled' = [f \in Tasks |-> IF f \in DOMAIN current.files THEN file[f] ELSE settled[f]]
  /\ guard' = [guard EXCEPT ![p] = [at |-> "committed", left |-> {}]]

\* _capture_observation: a file that existed has to exist.
observable == \A f \in DOMAIN current.files : current.files[f] # 0 => file[f] # 0

\* commit_owner_transaction, commit_manifest.
commit(p) ==
  /\ guard[p].at = "open"
  /\ token[p] = installed /\ current.gen = installed
  /\ observable
  /\ publish(p)
  /\ UNCHANGED <<installed, token, lock, file, history, markers, broken>>

\* Mutant of recommit: the manifest of another generation is committed.
mutant_recommit(p) ==
  /\ lock = None
  /\ current.state = "PREPARED"
  /\ observable
  /\ lock' = p
  /\ publish(p)
  /\ UNCHANGED <<installed, token, file, history, markers, broken>>

\* commit_manifest of a PREPARED manifest found on disk, by an owner of its
\* generation: the files are observed again.
recommit(p) ==
  /\ lock = None
  /\ current.state = "PREPARED"
  /\ token[p] = installed /\ current.gen = installed
  /\ observable
  /\ lock' = p
  /\ publish(p)
  /\ UNCHANGED <<installed, token, file, history, markers, broken>>

commit_history(p) ==
  /\ guard[p].at = "committed"
  /\ history' = [history EXCEPT ![current.tx] = current]
  /\ done(p)
  /\ UNCHANGED <<installed, token, file, current, markers, settled, broken>>

---------------------------------------------------------------------------
(* classify and restore_previous_committed.                                *)

\* A recovery marker of this transaction that is not the complete one of this
\* very manifest.
denied == \E m \in intents \cup restored : m.tx = current.tx /\ (m # current \/ m \in intents)

\* What the manifest, the markers and the files say of the root.
classify ==
  CASE current = NoManifest -> "ABSENT"
    [] current # NoManifest /\ denied -> "DENIED"
    [] current.state = "PREPARED" /\ ~denied -> "PREPARED_UNKNOWN"
    [] current.state = "COMMITTED" /\ ~denied ->
         IF \A f \in DOMAIN current.files : file[f] = current.files[f]
           THEN "COMMITTED" ELSE "TAMPERED_OR_UNKNOWN"

\* The COMMITTED manifest the current one chains from, found in the history.
previous_committed(m) ==
  /\ m.previous # None
  /\ history[m.previous].state = "COMMITTED"

\* Mutant of recoverable: an interrupted restore is started again.
mutant_recoverable(m) == TRUE

\* A restore that was interrupted stays so.
recoverable(m) == m \notin intents

\* The journal, if the transaction selected it, exists, has not moved and has
\* no unresolved effect.
no_progress(m) ==
  Journal \in DOMAIN m.files =>
    file[Journal] = m.files[Journal] /\ file[Journal] > 0 /\ file[Journal] % 2 = 0

\* The plan: the generation has advanced since the previous manifest, and
\* every mutable file has a snapshot.  The intent is persisted first.
restore_intent(p) ==
  /\ lock = None
  /\ current.state = "PREPARED"
  /\ token[p] = installed
  /\ previous_committed(current)
  /\ installed > history[current.previous].gen
  /\ recoverable(current)
  /\ no_progress(current)
  /\ \A f \in DOMAIN current.files \cap Tasks : current.snapshot[f] # 0
  /\ lock' = p
  /\ intents' = intents \cup {current}
  /\ restored' = restored \ {current}
  /\ guard' = [guard EXCEPT ![p] = [at |-> "restoring", left |-> DOMAIN current.files \cap Tasks]]
  /\ UNCHANGED <<installed, token, file, current, history, settled, broken>>

restore_write(p, f) ==
  /\ guard[p].at = "restoring"
  /\ f \in guard[p].left
  /\ file' = [file EXCEPT ![f] = current.snapshot[f]]
  /\ guard' = [guard EXCEPT ![p].left = @ \ {f}]
  /\ UNCHANGED <<installed, token, lock, current, history, markers, settled, broken>>

\* Mutant of restore_complete: the marker is completed before the last write.
mutant_restore_complete(p) ==
  /\ guard[p].at = "restoring"
  /\ intents' = intents \ {current}
  /\ restored' = restored \cup {current}
  /\ done(p)
  /\ UNCHANGED <<installed, token, file, current, history, settled, broken>>

restore_complete(p) ==
  /\ guard[p].at = "restoring"
  /\ guard[p].left = {}
  /\ intents' = intents \ {current}
  /\ restored' = restored \cup {current}
  /\ done(p)
  /\ UNCHANGED <<installed, token, file, current, history, settled, broken>>

---------------------------------------------------------------------------
Next ==
  \E p \in Procs :
    \/ install_generation(p) \/ read_generation(p) \/ fail(p) \/ journal_progress(p)
    \/ \E s \in Selections, t \in Txs : prepare(p, s, t)
    \/ prepare_history(p)
    \/ \E f \in Tasks : owner_write(p, f)
    \/ commit(p) \/ recommit(p) \/ commit_history(p)
    \/ restore_intent(p)
    \/ \E f \in Tasks : restore_write(p, f)
    \/ restore_complete(p)

Spec == Init /\ [][Next]_vars

---------------------------------------------------------------------------
(* Properties.                                                             *)

\* Whoever failed where: a task file holds bytes that were not committed only
\* while a PREPARED manifest that selects it says so.
UncommittedDeclared ==
  \A f \in Tasks : file[f] # settled[f] =>
    current.state = "PREPARED" /\ f \in DOMAIN current.files

\* A completed restore has brought back what was last committed.
RestoreExact ==
  current.state = "PREPARED" /\ current \in restored =>
    \A f \in DOMAIN current.files \cap Tasks : file[f] = settled[f]

\* A transaction left behind by an older generation is out of reach of every
\* writer: nobody commits or replaces it, whatever is restored around it.
FencedForGood ==
  [][current.state = "PREPARED" /\ current.gen < installed => current' = current]_vars

\* "A crash after this point leaves a marker that forces reconcile-only
\* handling instead of a second restore attempt": after an interrupted restore
\* the files stay as they were found.
InterruptedStays ==
  [][(current \in broken) => \A f \in Tasks : file'[f] = file[f]]_vars
====
