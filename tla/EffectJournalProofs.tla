------------------------ MODULE EffectJournalProofs ------------------------
(***************************************************************************)
(* Proofs about EffectJournal, for every set of processes, effects and     *)
(* results and any number of generations.                                  *)
(***************************************************************************)
EXTENDS EffectJournal, TLAPS

\* What an execute() under way knows, what the journal keeps of every effect
\* that was started, and what the callers were told.
IInv ==
  /\ TypeOK
  /\ CallsOwnTheJournal
  /\ RecordsWellFormed
  /\ AtMostOnce
  /\ RecordBeforeEffect
  /\ AnswersDurable

\* The placeholders for an absent record and an absent call differ from the
\* real ones.
LEMMA Placeholders ==
  /\ \A r \in Record : r # NoRecord
  /\ \A c \in Call : c # Idle
BY DEF Record, NoRecord, States, Call, Idle

\* The empty store satisfies the inductive invariant.
LEMMA InitIInv == Init => IInv
<1> SUFFICES ASSUME Init PROVE IInv
  OBVIOUS
<1>1. TypeOK
  BY DEF Init, TypeOK, NoToken, Token, Journal
<1>2. CallsOwnTheJournal /\ RecordsWellFormed
  BY DEF Init, CallsOwnTheJournal, RecordsWellFormed, well_formed
<1>3. AtMostOnce /\ RecordBeforeEffect /\ AnswersDurable
  BY DEF Init, AtMostOnce, RecordBeforeEffect, AnswersDurable
<1> QED
  BY <1>1, <1>2, <1>3 DEF IInv

\* Reading or advancing the generation keeps the invariant: it happens while
\* nobody is inside execute(), or touches one idle process only.
LEMMA GenerationStep ==
  ASSUME IInv, NEW p \in Procs,
         read_generation(p) \/ \E g \in 1..MaxGen : install_generation(p, g)
  PROVE  IInv'
<1> USE Placeholders DEF IInv
<1>1. CASE read_generation(p)
  <2>1. TypeOK'
    BY <1>1 DEF TypeOK, read_generation, disk
  <2>2. CallsOwnTheJournal'
    BY <1>1 DEF TypeOK, read_generation, disk, CallsOwnTheJournal, generation_ok
  <2> QED
    BY <1>1, <2>1, <2>2 DEF read_generation, disk, RecordsWellFormed,
       AtMostOnce, RecordBeforeEffect, AnswersDurable
<1>2. ASSUME NEW g \in 1..MaxGen, install_generation(p, g) PROVE IInv'
  <2>1. TypeOK'
    BY <1>2, MaxGenAssumption DEF TypeOK, install_generation, Token
  <2>2. \A q \in Procs : call[q] = Idle
    BY <1>2, NoProcAssumption DEF install_generation, CallsOwnTheJournal
  <2>3. CallsOwnTheJournal'
    BY <1>2, <2>2 DEF install_generation, CallsOwnTheJournal
  <2>4. RecordsWellFormed'
    BY <1>2, MaxGenAssumption
       DEF install_generation, advances, RecordsWellFormed, well_formed, TypeOK, Token, Journal, Record
  <2> QED
    BY <1>2, <2>1, <2>3, <2>4 DEF install_generation, AtMostOnce, RecordBeforeEffect, AnswersDurable
<1> QED
  BY <1>1, <1>2

\* A process is admitted to the journal only while nobody is inside execute().
LEMMA AdmittedAlone ==
  ASSUME IInv, NEW p \in Procs, admitted(p)
  PROVE  \A q \in Procs : call[q] = Idle
BY NoProcAssumption DEF IInv, CallsOwnTheJournal, admitted

\* What an operation that writes the journal once does: it adds a record or
\* changes one that is not COMPLETED, and answers what the journal then says.
OneWrite(p, e) ==
  /\ admitted(p)
  /\ UNCHANGED <<installed, token, lock, call, dispatches>>
  /\ \/ UNCHANGED records
     \/ /\ records[e] = NoRecord
        /\ records' = [records EXCEPT ![e] = new_record(p, "PENDING")]
     \/ \E s \in States, q \in Results \cup {NoResult} :
          /\ s = "COMPLETED" <=> q # NoResult
          /\ records[e] # NoRecord
          /\ records[e].state # "COMPLETED"
          /\ write_record(e, s, q)
  /\ \/ UNCHANGED answers
     \/ /\ answers' = [answers EXCEPT ![e] = @ \cup {records'[e].result}]
        /\ records'[e].result \in Results
        /\ records'[e] # NoRecord
        /\ records'[e].state = "COMPLETED"

\* Such an operation keeps the invariant.
LEMMA OneWriteStep ==
  ASSUME IInv, NEW p \in Procs, NEW e \in Effects, OneWrite(p, e)
  PROVE  IInv'
<1> USE Placeholders DEF IInv
<1>1. admitted(p) /\ \A q \in Procs : call[q] = Idle
  BY AdmittedAlone DEF OneWrite
<1>2. token[p] \in Token /\ token[p] = installed
  BY <1>1 DEF admitted, generation_ok, TypeOK
<1>3. OneWrite(p, e)!2 /\ OneWrite(p, e)!3 /\ OneWrite(p, e)!4
  BY DEF OneWrite
<1>4. TypeOK'
  BY <1>2, <1>3 DEF TypeOK, Journal, Record, States, Token, new_record, write_record
<1>5. CallsOwnTheJournal'
  BY <1>1, <1>3 DEF CallsOwnTheJournal
<1>6. \A f \in Effects : records[f] # NoRecord =>
        /\ records'[f] # NoRecord
        /\ records'[f].generation = records[f].generation
        /\ records[f].state = "COMPLETED" => records'[f] = records[f]
  BY <1>3 DEF TypeOK, Journal, Record, States, new_record, write_record
<1>7. RecordsWellFormed'
  <2>1. CASE UNCHANGED records
    BY <1>3, <2>1 DEF RecordsWellFormed
  <2>2. CASE records' = [records EXCEPT ![e] = new_record(p, "PENDING")]
    BY <1>2, <1>3, <2>2 DEF RecordsWellFormed, well_formed, new_record, TypeOK, Journal, Token
  <2>3. ASSUME NEW s \in States, NEW q \in Results \cup {NoResult},
               s = "COMPLETED" <=> q # NoResult,
               records[e] # NoRecord,
               write_record(e, s, q)
        PROVE  RecordsWellFormed'
    <3>1. records[e] \in Record /\ records' = [records EXCEPT ![e].state = s, ![e].result = q]
      BY <2>3 DEF TypeOK, Journal, write_record
    <3>2. /\ records'[e].generation = records[e].generation
          /\ records'[e].state = s
          /\ records'[e].result = q
          /\ \A f \in Effects \ {e} : records'[f] = records[f]
      BY <3>1 DEF TypeOK, Journal, Record
    <3> QED
      BY <1>3, <2>3, <3>1, <3>2 DEF RecordsWellFormed, well_formed
  <2> QED
    BY <1>3, <2>1, <2>2, <2>3
<1>8. AtMostOnce' /\ RecordBeforeEffect'
  BY <1>3, <1>6 DEF AtMostOnce, RecordBeforeEffect
<1>9. AnswersDurable'
  BY <1>3, <1>6 DEF AnswersDurable, TypeOK
<1> QED
  BY <1>4, <1>5, <1>7, <1>8, <1>9

\* reserve, transition, reconcile and execute on an existing record are such
\* operations.
LEMMA OneWriteOperations ==
  ASSUME IInv, NEW p \in Procs, NEW e \in Effects
  PROVE  /\ reserve(p, e) => OneWrite(p, e)
         /\ \A r \in Results :
              \/ \E s \in States : transition(p, e, s, r)
              \/ reconcile(p, e, r)
              \/ execute_existing(p, e, r)
              => OneWrite(p, e)
<1> USE Placeholders DEF IInv, OneWrite
<1>1. reserve(p, e) => OneWrite(p, e)
  BY DEF reserve
<1>2. ASSUME NEW r \in Results,
             \/ \E s \in States : transition(p, e, s, r)
             \/ reconcile(p, e, r)
             \/ execute_existing(p, e, r)
      PROVE  OneWrite(p, e)
  <2>1. CASE \E s \in States : transition(p, e, s, r)
    BY <2>1, NoResultAssumption DEF transition, open
  <2>2. records[e] # NoRecord =>
          /\ records[e] \in Record
          /\ records[e].state = "COMPLETED" => records[e].result \in Results
    BY DEF TypeOK, Journal, Record, RecordsWellFormed, well_formed
  <2>3. ASSUME records[e] # NoRecord, open(e), resolve(e, r)
        PROVE  /\ \E s \in States, q \in Results \cup {NoResult} :
                    (s = "COMPLETED" <=> q # NoResult) /\ write_record(e, s, q)
               /\ OneWrite(p, e)!4
    <3>1. CASE write_record(e, "COMPLETED", r) /\ answer(e, r)
      BY <2>2, <2>3, <3>1, NoResultAssumption DEF write_record, answer, States, TypeOK, Journal, Record
    <3>2. CASE write_record(e, "UNKNOWN", NoResult) /\ UNCHANGED answers
      BY <3>2 DEF States
    <3> QED
      BY <2>3, <3>1, <3>2 DEF resolve
  <2>4. CASE reconcile(p, e, r)
    BY <2>2, <2>3, <2>4 DEF reconcile, open, answer, Record, States
  <2>5. CASE execute_existing(p, e, r)
    BY <2>2, <2>3, <2>5 DEF execute_existing, open, answer, Record, States
  <2> QED
    BY <1>2, <2>1, <2>4, <2>5
<1> QED
  BY <1>1, <1>2

\* execute() reserves a fresh effect: the writer takes the lock.
LEMMA ReserveStep ==
  ASSUME IInv, NEW p \in Procs, NEW e \in Effects, execute_reserve(p, e)
  PROVE  IInv'
<1> USE Placeholders DEF IInv
<1>1. admitted(p) /\ \A q \in Procs : call[q] = Idle
  BY AdmittedAlone DEF execute_reserve
<1>2. token[p] \in Token /\ token[p] = installed
  BY <1>1 DEF admitted, generation_ok, TypeOK
<1>3. new_record(p, "PENDING") \in Record
  BY <1>2 DEF new_record, Record, Token, States
<1>4. TypeOK'
  BY <1>3 DEF TypeOK, execute_reserve, save, Journal, Call
<1>5. \A f \in Effects : records[f] # NoRecord => records'[f] = records[f]
  BY DEF execute_reserve, save, TypeOK, Journal
<1>6. dispatches[e] = 0
  BY DEF RecordBeforeEffect, execute_reserve, TypeOK
<1>7. CallsOwnTheJournal'
  BY <1>1, <1>2, <1>3, <1>6
     DEF CallsOwnTheJournal, execute_reserve, save, new_record, TypeOK, Journal,
         generation_ok, admitted
<1>8. RecordsWellFormed'
  BY <1>2, <1>5 DEF RecordsWellFormed, well_formed, execute_reserve, save, new_record,
     TypeOK, Journal, Token
<1>9. AtMostOnce' /\ RecordBeforeEffect'
  BY <1>5 DEF AtMostOnce, RecordBeforeEffect, execute_reserve
<1>10. AnswersDurable'
  BY <1>5 DEF AnswersDurable, execute_reserve
<1> QED
  BY <1>4, <1>7, <1>8, <1>9, <1>10

\* The steps inside execute(): its copy of the journal is the journal, so
\* writing it back changes the record of its own effect and nothing else.
LEMMA ExecuteStep ==
  ASSUME IInv, NEW p \in Procs,
         \/ execute_mark(p)
         \/ execute_dispatch(p)
         \/ \E r \in Results : execute_complete(p, r)
         \/ execute_uncertain(p)
  PROVE  IInv'
<1> USE Placeholders DEF IInv
<1> DEFINE e == call[p].effect
<1>1. call[p] # Idle
  BY DEF execute_mark, execute_dispatch, execute_complete, execute_uncertain, Idle
<1>2. /\ call[p] \in Call
      /\ e \in Effects
      /\ records[e] \in Record
      /\ call[p].data = records
      /\ records[e].state # "COMPLETED"
  BY <1>1 DEF TypeOK, Call, Journal, CallsOwnTheJournal
<1>3. \A q \in Procs \ {p} : call[q] = Idle
  BY <1>1 DEF CallsOwnTheJournal
<1>4. answers[e] = {}
  BY <1>2 DEF AnswersDurable, TypeOK
<1>5. CASE execute_mark(p)
  <2>1. /\ records' = [records EXCEPT ![e].state = "DISPATCHED"]
        /\ call' = [call EXCEPT ![p] = [at |-> "marked", effect |-> e, data |-> records']]
        /\ UNCHANGED <<installed, token, lock, dispatches, answers>>
    BY <1>2, <1>5 DEF execute_mark, save
  <2>2. records'[e] \in Record /\ records'[e].state = "DISPATCHED"
        /\ records'[e].generation = records[e].generation
        /\ records'[e].result = records[e].result
    BY <1>2, <2>1 DEF TypeOK, Journal, Record, States
  <2>3. \A f \in Effects \ {e} : records'[f] = records[f]
    BY <1>2, <2>1 DEF TypeOK, Journal
  <2>4. TypeOK'
    BY <1>2, <2>1, <2>2 DEF TypeOK, Journal, Call
  <2>5. CallsOwnTheJournal'
    BY <1>1, <1>2, <1>3, <1>5, <2>1, <2>2
       DEF CallsOwnTheJournal, TypeOK, generation_ok, execute_mark
  <2>6. RecordsWellFormed'
    BY <1>2, <2>1, <2>2, <2>3 DEF RecordsWellFormed, well_formed
  <2>7. AtMostOnce' /\ RecordBeforeEffect'
    BY <2>1, <2>2, <2>3 DEF AtMostOnce, RecordBeforeEffect
  <2>8. AnswersDurable'
    BY <1>4, <2>1, <2>3 DEF AnswersDurable
  <2> QED
    BY <2>4, <2>5, <2>6, <2>7, <2>8
<1>6. CASE execute_dispatch(p)
  <2>1. /\ dispatches[e] = 0
        /\ dispatches' = [dispatches EXCEPT ![e] = 1]
        /\ call' = [call EXCEPT ![p].at = "dispatching"]
        /\ UNCHANGED <<disk, token, lock, answers>>
    <3>1. dispatches[e] = 0
      BY <1>1, <1>6 DEF execute_dispatch, CallsOwnTheJournal
    <3> QED
      BY <1>6, <3>1 DEF execute_dispatch
  <2>2. TypeOK'
    BY <1>2, <2>1 DEF TypeOK, Call, disk
  <2>3. CallsOwnTheJournal'
    BY <1>1, <1>2, <1>3, <2>1 DEF CallsOwnTheJournal, TypeOK, Call, generation_ok, disk
  <2>4. RecordsWellFormed' /\ AnswersDurable'
    BY <2>1 DEF RecordsWellFormed, AnswersDurable, disk
  <2>5. AtMostOnce' /\ RecordBeforeEffect'
    BY <1>1, <1>2, <2>1 DEF AtMostOnce, RecordBeforeEffect, disk, TypeOK
  <2> QED
    BY <2>2, <2>3, <2>4, <2>5
<1>7. ASSUME NEW s \in States, NEW q \in Results \cup {NoResult},
             s = "COMPLETED" <=> q # NoResult,
             finish(p, e, s, q),
             \/ s = "COMPLETED" /\ answer(e, q)
             \/ UNCHANGED answers
      PROVE  IInv'
  <2>1. /\ records' = [records EXCEPT ![e].state = s, ![e].result = q]
        /\ call' = [call EXCEPT ![p] = Idle]
        /\ lock' = NoProc
        /\ UNCHANGED <<installed, token, dispatches>>
    BY <1>2, <1>7 DEF finish
  <2>2. records'[e] \in Record /\ records'[e].state = s /\ records'[e].result = q
        /\ records'[e].generation = records[e].generation
    BY <1>2, <1>7, <2>1 DEF TypeOK, Journal, Record
  <2>3. \A f \in Effects \ {e} : records'[f] = records[f]
    BY <1>2, <2>1 DEF TypeOK, Journal
  <2>4. answers' \in [Effects -> SUBSET Results]
    BY <1>2, <1>7 DEF answer, TypeOK
  <2>5. TypeOK'
    BY <1>2, <2>1, <2>2, <2>4 DEF TypeOK, Journal
  <2>6. CallsOwnTheJournal'
    BY <1>3, <2>1 DEF CallsOwnTheJournal, TypeOK
  <2>7. RecordsWellFormed'
    <3>1. well_formed(records[e], installed.generation) /\ records[e] # NoRecord
      BY <1>2 DEF RecordsWellFormed
    <3>2. well_formed(records'[e], installed'.generation)
      BY <1>7, <2>1, <2>2, <3>1 DEF well_formed
    <3>3. \A f \in Effects \ {e} : well_formed(records'[f], installed'.generation)
      BY <2>1, <2>3 DEF RecordsWellFormed
    <3> QED
      BY <1>2, <3>2, <3>3 DEF RecordsWellFormed
  <2>8. AtMostOnce' /\ RecordBeforeEffect'
    BY <2>1, <2>2, <2>3 DEF AtMostOnce, RecordBeforeEffect
  <2>9. AnswersDurable'
    BY <1>2, <1>4, <1>7, <2>2, <2>3 DEF AnswersDurable, answer, TypeOK
  <2> QED
    BY <2>5, <2>6, <2>7, <2>8, <2>9
<1>8. CASE \E r \in Results : execute_complete(p, r)
  BY <1>7, <1>8, NoResultAssumption DEF execute_complete, States
<1>9. CASE execute_uncertain(p)
  BY <1>7, <1>9 DEF execute_uncertain, States
<1> QED
  BY <1>5, <1>6, <1>8, <1>9

\* A crash at any point drops the lock and the copy, never the journal.
LEMMA CrashStep ==
  ASSUME IInv, NEW p \in Procs, crash(p)
  PROVE  IInv'
<1> USE Placeholders DEF IInv, crash, disk
<1>1. TypeOK'
  BY DEF TypeOK, NoToken, Token
<1>2. CallsOwnTheJournal'
  BY DEF CallsOwnTheJournal, TypeOK, generation_ok
<1> QED
  BY <1>1, <1>2 DEF RecordsWellFormed, AtMostOnce, RecordBeforeEffect, AnswersDurable

\* IInv is inductive.
LEMMA NextIInv == IInv /\ [Next]_vars => IInv'
<1> SUFFICES ASSUME IInv, [Next]_vars PROVE IInv'
  OBVIOUS
<1>1. CASE UNCHANGED vars
  BY <1>1 DEF vars, disk, IInv, TypeOK, CallsOwnTheJournal, RecordsWellFormed, AtMostOnce,
     RecordBeforeEffect, AnswersDurable, generation_ok
<1>2. CASE Next
  <2> PICK p \in Procs :
        \/ read_generation(p)
        \/ \E g \in 1..MaxGen : install_generation(p, g)
        \/ \E e \in Effects : reserve(p, e)
        \/ \E e \in Effects, s \in States, r \in Results : transition(p, e, s, r)
        \/ \E e \in Effects, r \in Results : reconcile(p, e, r)
        \/ Execute(p)
        \/ crash(p)
    BY <1>2 DEF Next
  <2>1. CASE read_generation(p) \/ \E g \in 1..MaxGen : install_generation(p, g)
    BY <2>1, GenerationStep
  <2>2. ASSUME NEW e \in Effects, reserve(p, e) PROVE IInv'
    BY <2>2, OneWriteStep, OneWriteOperations
  <2>3. ASSUME NEW e \in Effects, NEW r \in Results,
               \/ \E s \in States : transition(p, e, s, r)
               \/ reconcile(p, e, r)
               \/ execute_existing(p, e, r)
        PROVE  IInv'
    BY <2>3, OneWriteStep, OneWriteOperations
  <2>4. CASE Execute(p)
    BY <2>3, <2>4, ReserveStep, ExecuteStep DEF Execute
  <2>5. CASE crash(p)
    BY <2>5, CrashStep
  <2> QED
    BY <2>1, <2>2, <2>3, <2>4, <2>5
<1> QED
  BY <1>1, <1>2

\* Every behaviour of the journal satisfies the inductive invariant.
THEOREM Invariance == Spec => []IInv
<1>1. Init => IInv
  BY InitIInv
<1>2. IInv /\ [Next]_vars => IInv'
  BY NextIInv
<1> QED
  BY <1>1, <1>2, PTL DEF Spec

\* The state of processes, manifest and journal is always of its type.
THEOREM TypeCorrect == Spec => []TypeOK
<1>1. IInv => TypeOK
  BY DEF IInv
<1> QED
  BY <1>1, Invariance, PTL

\* dispatch() runs at most once for an effect identity, for any number of
\* processes, effects, results and generations, whatever crashes.
THEOREM DispatchedAtMostOnce == Spec => []AtMostOnce
<1>1. IInv => AtMostOnce
  BY DEF IInv
<1> QED
  BY <1>1, Invariance, PTL

\* An effect that was started has a durable record.
THEOREM StartedIsRecorded == Spec => []RecordBeforeEffect
<1>1. IInv => RecordBeforeEffect
  BY DEF IInv
<1> QED
  BY <1>1, Invariance, PTL

\* What one caller was told of an effect is what the journal keeps.
THEOREM AnswersStayTrue == Spec => []AnswersDurable
<1>1. IInv => AnswersDurable
  BY DEF IInv
<1> QED
  BY <1>1, Invariance, PTL

\* The holder of the installed generation can always read the journal.
THEOREM NeverLockedOut == Spec => []JournalReadable
<1>1. IInv => JournalReadable
  BY DEF IInv, JournalReadable, readable, RecordsWellFormed, generation_ok
<1> QED
  BY <1>1, Invariance, PTL

\* An operation that writes the journal once is fenced.
LEMMA OneWriteFenced ==
  ASSUME IInv, NEW p \in Procs, NEW e \in Effects, OneWrite(p, e)
  PROVE  FencedWrite
<1> USE Placeholders DEF IInv
<1>1. token[p] = installed /\ lock = NoProc
  BY DEF OneWrite, admitted, generation_ok
<1>2. \A f \in Effects \ {e} : records'[f] = records[f]
  BY DEF OneWrite, write_record, TypeOK, Journal
<1>3. records'[e] # records[e] =>
        /\ records'[e] # NoRecord
        /\ records[e] # NoRecord =>
             /\ records[e].state # "COMPLETED"
             /\ records'[e].generation = records[e].generation
  BY DEF OneWrite, write_record, new_record, TypeOK, Journal, Record, States, NoRecord
<1> QED
  BY <1>1, <1>2, <1>3 DEF FencedWrite

\* So is every write of an execute(), which owns the lock and the generation.
LEMMA ExecuteFenced ==
  ASSUME IInv, NEW p \in Procs,
         \/ \E e \in Effects : execute_reserve(p, e)
         \/ execute_mark(p)
         \/ execute_dispatch(p)
         \/ \E r \in Results : execute_complete(p, r)
         \/ execute_uncertain(p)
  PROVE  FencedWrite
<1> USE Placeholders DEF IInv
<1>1. ASSUME NEW e \in Effects, execute_reserve(p, e) PROVE FencedWrite
  <2>1. token[p] = installed /\ lock = NoProc
    BY <1>1 DEF execute_reserve, admitted, generation_ok
  <2>2. /\ \A f \in Effects \ {e} : records'[f] = records[f]
        /\ records[e] = NoRecord
        /\ records'[e] # NoRecord
    BY <1>1 DEF execute_reserve, save, new_record, TypeOK, Journal, NoRecord
  <2> QED
    BY <2>1, <2>2 DEF FencedWrite
<1>2. CASE execute_dispatch(p)
  BY <1>2 DEF execute_dispatch, disk, FencedWrite
<1>3. CASE \/ execute_mark(p)
           \/ \E r \in Results : execute_complete(p, r)
           \/ execute_uncertain(p)
  <2> DEFINE e == call[p].effect
  <2>1. call[p] # Idle
    BY <1>3 DEF execute_mark, execute_complete, execute_uncertain, Idle
  <2>2. /\ token[p] = installed
        /\ lock = p
        /\ call[p].data = records
        /\ e \in Effects
        /\ records[e] \in Record
        /\ records[e].state # "COMPLETED"
    BY <2>1 DEF CallsOwnTheJournal, generation_ok, TypeOK, Journal, Call
  <2> DEFINE OnlyEffectWritten ==
        /\ \A f \in Effects \ {e} : records'[f] = records[f]
        /\ records'[e] # NoRecord
        /\ records'[e].generation = records[e].generation
  <2>3. OnlyEffectWritten
    <3>1. CASE execute_mark(p)
      BY <2>2, <3>1 DEF execute_mark, save, TypeOK, Journal, Record, NoRecord
    <3>2. ASSUME NEW s \in States, NEW q, finish(p, e, s, q)
          PROVE  OnlyEffectWritten
      BY <2>2, <3>2 DEF finish, TypeOK, Journal, Record, NoRecord, States
    <3>3. CASE \E r \in Results : execute_complete(p, r)
      BY <3>2, <3>3 DEF execute_complete, States
    <3>4. CASE execute_uncertain(p)
      BY <3>2, <3>4 DEF execute_uncertain, States
    <3> QED
      BY <1>3, <3>1, <3>3, <3>4
  <2> QED
    BY <2>2, <2>3 DEF FencedWrite
<1> QED
  BY <1>1, <1>2, <1>3

\* Every journal write is made under the installed generation, keeps every
\* record and leaves COMPLETED records alone.
THEOREM JournalFenced == Spec => WritesFenced
<1>1. ASSUME IInv, Next PROVE FencedWrite
  <2> PICK p \in Procs :
        \/ read_generation(p)
        \/ \E g \in 1..MaxGen : install_generation(p, g)
        \/ \E e \in Effects : reserve(p, e)
        \/ \E e \in Effects, s \in States, r \in Results : transition(p, e, s, r)
        \/ \E e \in Effects, r \in Results : reconcile(p, e, r)
        \/ Execute(p)
        \/ crash(p)
    BY <1>1 DEF Next
  <2>1. CASE \/ read_generation(p)
             \/ \E g \in 1..MaxGen : install_generation(p, g)
             \/ crash(p)
    BY <2>1 DEF read_generation, install_generation, crash, disk, FencedWrite
  <2>2. ASSUME NEW e \in Effects, reserve(p, e) PROVE FencedWrite
    BY <1>1, <2>2, OneWriteFenced, OneWriteOperations
  <2>3. ASSUME NEW e \in Effects, NEW r \in Results,
               \/ \E s \in States : transition(p, e, s, r)
               \/ reconcile(p, e, r)
               \/ execute_existing(p, e, r)
        PROVE  FencedWrite
    BY <1>1, <2>3, OneWriteFenced, OneWriteOperations
  <2>4. CASE Execute(p)
    BY <1>1, <2>3, <2>4, ExecuteFenced DEF Execute
  <2> QED
    BY <2>1, <2>2, <2>3, <2>4
<1>2. IInv /\ [Next]_vars => [FencedWrite]_vars
  BY <1>1
<1> QED
  BY <1>2, Invariance, PTL DEF Spec, WritesFenced

\* The generation only advances, and never under an execute().
THEOREM GenerationsAdvanceQuietly == Spec => GenerationStable
<1>1. ASSUME IInv, Next, installed' # installed PROVE QuietAdvance
  <2>1. PICK p \in Procs, g \in 1..MaxGen : install_generation(p, g)
    BY <1>1 DEF Next, Execute, read_generation, reserve, transition, reconcile,
       execute_existing, execute_reserve, execute_mark, execute_dispatch, execute_complete,
       execute_uncertain, finish, crash, disk
  <2>2. \A q \in Procs : call[q] = Idle
    BY <1>1, <2>1, NoProcAssumption DEF install_generation, IInv, CallsOwnTheJournal
  <2> QED
    BY <2>1, <2>2 DEF install_generation, advances, QuietAdvance
<1>2. IInv /\ [Next]_vars => [QuietAdvance]_vars
  BY <1>1 DEF QuietAdvance
<1> QED
  BY <1>2, Invariance, PTL DEF Spec, GenerationStable

---------------------------------------------------------------------------
(* Refinement: the images of claimed and outcome under the mapping of      *)
(* EffectJournal; starts and told are dispatches and answers.              *)

claimed == [e \in Effects |-> records[e] # NoRecord]
outcome == [e \in Effects |-> IF records[e] # NoRecord THEN records[e].result ELSE NoResult]

\* What a step of the journal looks like from outside.
OnceStep == [Once!Next]_<<claimed, dispatches, outcome, answers>>

\* A step that leaves records, dispatches and answers alone is not seen.
LEMMA Unseen ==
  ASSUME UNCHANGED <<records, dispatches, answers>>
  PROVE  OnceStep
BY DEF OnceStep, claimed, outcome

\* A first record claims its effect.
LEMMA ClaimStep ==
  ASSUME IInv, NEW e \in Effects, NEW p \in Procs,
         records[e] = NoRecord,
         records' = [records EXCEPT ![e] = new_record(p, "PENDING")],
         UNCHANGED <<dispatches, answers>>
  PROVE  OnceStep
<1>1. records'[e] # NoRecord /\ records'[e].result = NoResult
  BY DEF IInv, TypeOK, Journal, new_record, NoRecord
<1>2. \A f \in Effects \ {e} : records'[f] = records[f]
  BY DEF IInv, TypeOK, Journal
<1>3. claimed' = [claimed EXCEPT ![e] = TRUE]
  BY <1>1, <1>2 DEF claimed
<1>4. outcome' = outcome
  BY <1>1, <1>2 DEF outcome
<1>5. Once!Claim(e)
  BY <1>3, <1>4 DEF Once!Claim, claimed, outcome
<1> QED
  BY <1>5 DEF OnceStep, Once!Next

\* Writing a record that is not COMPLETED settles its effect on the result, if
\* the record becomes COMPLETED, and is not seen otherwise.
LEMMA SettleStep ==
  ASSUME IInv, NEW e \in Effects, NEW s \in States, NEW q \in Results \cup {NoResult},
         s = "COMPLETED" <=> q # NoResult,
         records[e] # NoRecord, records[e].state # "COMPLETED",
         records' = [records EXCEPT ![e].state = s, ![e].result = q],
         UNCHANGED dispatches,
         \/ UNCHANGED answers
         \/ s = "COMPLETED" /\ answers' = [answers EXCEPT ![e] = @ \cup {q}]
  PROVE  OnceStep
<1>1. /\ records'[e] # NoRecord
      /\ records'[e].result = q
      /\ records[e].result = NoResult
  BY DEF IInv, TypeOK, Journal, Record, NoRecord, States, RecordsWellFormed, well_formed
<1>2. \A f \in Effects \ {e} : records'[f] = records[f]
  BY DEF IInv, TypeOK, Journal
<1>3. claimed' = claimed
  BY <1>1, <1>2 DEF claimed
<1>4. outcome[e] = NoResult /\ outcome' = [outcome EXCEPT ![e] = q]
  <2>1. outcome[e] = NoResult /\ outcome'[e] = q
    <3>1. outcome'[e] = IF records'[e] # NoRecord THEN records'[e].result ELSE NoResult
      BY DEF outcome
    <3> QED
      BY <1>1, <3>1 DEF outcome
  <2>2. ASSUME NEW f \in Effects \ {e} PROVE outcome'[f] = outcome[f]
    <3>1. outcome'[f] = IF records'[f] # NoRecord THEN records'[f].result ELSE NoResult
      BY DEF outcome
    <3>2. outcome[f] = IF records[f] # NoRecord THEN records[f].result ELSE NoResult
      BY DEF outcome
    <3> QED
      BY <1>2, <3>1, <3>2
  <2>3. DOMAIN outcome = Effects /\ DOMAIN outcome' = Effects
    BY DEF outcome
  <2>4. /\ outcome = [f \in Effects |-> outcome[f]]
        /\ outcome' = [f \in Effects |-> outcome'[f]]
    BY DEF outcome
  <2> QED
    BY <2>1, <2>2, <2>3, <2>4
<1>5. CASE s = "COMPLETED"
  <2>1. answers[e] = {}
    BY DEF IInv, TypeOK, AnswersDurable
  <2>2. answers' \in {answers, [answers EXCEPT ![e] = {q}]}
    BY <2>1 DEF IInv, TypeOK
  <2>3. claimed[e] /\ q \in Results
    BY <1>5 DEF claimed
  <2>4. Once!Settle(e, q)
    BY <1>3, <1>4, <2>2, <2>3 DEF Once!Settle, claimed, outcome
  <2> QED
    BY <2>3, <2>4 DEF OnceStep, Once!Next
<1>6. CASE s # "COMPLETED"
  <2>1. outcome' = outcome
    BY <1>4, <1>6 DEF outcome
  <2> QED
    BY <1>3, <1>6, <2>1 DEF OnceStep
<1> QED
  BY <1>5, <1>6

\* Answering what a COMPLETED record says tells the outcome.
LEMMA TellStep ==
  ASSUME IInv, NEW e \in Effects,
         records[e] # NoRecord, records[e].state = "COMPLETED",
         answers' = [answers EXCEPT ![e] = @ \cup {records[e].result}],
         UNCHANGED <<records, dispatches>>
  PROVE  OnceStep
<1>1. outcome[e] = records[e].result /\ outcome[e] # NoResult
  BY DEF IInv, RecordsWellFormed, well_formed, outcome
<1>2. answers[e] \cup {records[e].result} = {outcome[e]}
  BY <1>1 DEF IInv, AnswersDurable
<1>3. Once!Tell(e)
  BY <1>1, <1>2 DEF Once!Tell, IInv, TypeOK, claimed, outcome
<1> QED
  BY <1>3 DEF OnceStep, Once!Next

\* An operation that writes the journal once claims, settles or tells.
LEMMA OneWriteOnce ==
  ASSUME IInv, NEW p \in Procs, NEW e \in Effects, OneWrite(p, e)
  PROVE  OnceStep
<1>1. OneWrite(p, e)!2 /\ OneWrite(p, e)!3 /\ OneWrite(p, e)!4
  BY DEF OneWrite
<1>2. CASE UNCHANGED records
  BY <1>1, <1>2, Unseen, TellStep
<1>3. CASE /\ records[e] = NoRecord
           /\ records' = [records EXCEPT ![e] = new_record(p, "PENDING")]
  <2>1. records'[e].state # "COMPLETED"
    BY <1>3 DEF IInv, TypeOK, Journal, new_record
  <2> QED
    BY <1>1, <1>3, <2>1, ClaimStep
<1>4. ASSUME NEW s \in States, NEW q \in Results \cup {NoResult},
             s = "COMPLETED" <=> q # NoResult,
             records[e] # NoRecord, records[e].state # "COMPLETED",
             write_record(e, s, q)
      PROVE  OnceStep
  <2>1. records'[e].state = s /\ records'[e].result = q
    BY <1>4 DEF write_record, IInv, TypeOK, Journal, Record, NoRecord
  <2>2. \/ UNCHANGED answers
        \/ s = "COMPLETED" /\ answers' = [answers EXCEPT ![e] = @ \cup {q}]
    BY <1>1, <2>1
  <2> QED
    BY <1>1, <1>4, <2>2, SettleStep DEF write_record
<1> QED
  BY <1>1, <1>2, <1>3, <1>4

\* The steps of a fresh execute() claim, start and settle.
LEMMA ExecuteOnce ==
  ASSUME IInv, NEW p \in Procs,
         \/ \E e \in Effects : execute_reserve(p, e)
         \/ execute_mark(p)
         \/ execute_dispatch(p)
         \/ \E r \in Results : execute_complete(p, r)
         \/ execute_uncertain(p)
  PROVE  OnceStep
<1>1. ASSUME NEW e \in Effects, execute_reserve(p, e) PROVE OnceStep
  BY <1>1, ClaimStep DEF execute_reserve, save
<1>2. CASE execute_mark(p) \/ execute_dispatch(p)
           \/ (\E r \in Results : execute_complete(p, r)) \/ execute_uncertain(p)
  <2> DEFINE e == call[p].effect
  <2>1. call[p] # Idle
    BY <1>2 DEF execute_mark, execute_dispatch, execute_complete, execute_uncertain, Idle
  <2>2. /\ call[p].data = records
        /\ e \in Effects
        /\ records[e] # NoRecord
        /\ records[e].state # "COMPLETED"
        /\ dispatches[e] = IF call[p].at = "dispatching" THEN 1 ELSE 0
    BY <2>1 DEF IInv, CallsOwnTheJournal, TypeOK, Call
  <2>3. records[e].result = NoResult
    BY <2>2 DEF IInv, RecordsWellFormed, well_formed
  <2>4. CASE execute_mark(p)
    <3>1. records' = [records EXCEPT ![e].state = "DISPATCHED", ![e].result = NoResult]
      BY <2>2, <2>3, <2>4 DEF execute_mark, save, IInv, TypeOK, Journal, Record, NoRecord
    <3> QED
      BY <2>2, <2>4, <3>1, SettleStep DEF execute_mark, States
  <2>5. CASE execute_dispatch(p)
    <3>1. dispatches[e] = 0 /\ dispatches' = [dispatches EXCEPT ![e] = 1]
      <4>1. call[p].at = "marked" /\ dispatches' = [dispatches EXCEPT ![e] = dispatches[e] + 1]
        BY <2>5 DEF execute_dispatch
      <4> HIDE DEF e
      <4>2. dispatches[e] = 0
        BY <2>2, <4>1
      <4> QED
        BY <4>1, <4>2
    <3>2. Once!Start(e)
      BY <2>2, <2>3, <2>5, <3>1 DEF Once!Start, execute_dispatch, disk
    <3> QED
      BY <2>2, <3>2 DEF OnceStep, Once!Next
  <2>6. ASSUME NEW r \in Results, execute_complete(p, r) PROVE OnceStep
    BY <2>2, <2>6, SettleStep, NoResultAssumption DEF execute_complete, finish, answer, States
  <2>7. CASE execute_uncertain(p)
    BY <2>2, <2>7, SettleStep DEF execute_uncertain, finish, States
  <2> QED
    BY <1>2, <2>4, <2>5, <2>6, <2>7
<1> QED
  BY <1>1, <1>2

\* The journal, with its lock, its crashes and its generation changes, is an
\* implementation of effects that are claimed, started once and settled once.
THEOREM JournalImplementsEffectOnce == Spec => ImplementsEffectOnce
<1>1. Init => Once!Init
  BY DEF Init, Once!Init
<1>2. ASSUME IInv, Next PROVE OnceStep
  <2> PICK p \in Procs :
        \/ read_generation(p)
        \/ \E g \in 1..MaxGen : install_generation(p, g)
        \/ \E e \in Effects : reserve(p, e)
        \/ \E e \in Effects, s \in States, r \in Results : transition(p, e, s, r)
        \/ \E e \in Effects, r \in Results : reconcile(p, e, r)
        \/ Execute(p)
        \/ crash(p)
    BY <1>2 DEF Next
  <2>1. CASE \/ read_generation(p)
             \/ \E g \in 1..MaxGen : install_generation(p, g)
             \/ crash(p)
    BY <2>1, Unseen DEF read_generation, install_generation, crash, disk
  <2>2. ASSUME NEW e \in Effects, reserve(p, e) PROVE OnceStep
    BY <1>2, <2>2, OneWriteOnce, OneWriteOperations
  <2>3. ASSUME NEW e \in Effects, NEW r \in Results,
               \/ \E s \in States : transition(p, e, s, r)
               \/ reconcile(p, e, r)
               \/ execute_existing(p, e, r)
        PROVE  OnceStep
    BY <1>2, <2>3, OneWriteOnce, OneWriteOperations
  <2>4. CASE Execute(p)
    BY <1>2, <2>3, <2>4, ExecuteOnce DEF Execute
  <2> QED
    BY <2>1, <2>2, <2>3, <2>4
<1>3. IInv /\ [Next]_vars => [Once!Next]_Once!vars
  <2>1. CASE UNCHANGED vars
    BY <2>1, Unseen DEF vars, disk, OnceStep, claimed, outcome, Once!vars
  <2> QED
    BY <1>2, <2>1 DEF OnceStep, claimed, outcome, Once!vars
<1> QED
  BY <1>1, <1>3, Invariance, PTL DEF Spec, ImplementsEffectOnce, Once!Spec
====
