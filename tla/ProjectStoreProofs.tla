------------------------- MODULE ProjectStoreProofs -------------------------
(***************************************************************************)
(* Theorems about ProjectStore, for any number of handles, any edit engine *)
(* that meets EngineAssumption, any history and any failures.              *)
(*                                                                         *)
(* Inductive is the invariant behind them.  A step either leaves the log,  *)
(* the revision and the document of db alone (Quiet), or it is a COMMIT,   *)
(* which appends the record of an admissible request (Enters); the lemmas  *)
(* say what each kind of step preserves.                                   *)
(***************************************************************************)
EXTENDS ProjectStore, TLAPS

USE DEF UndoKey

\* What every step but Commit does to the command log: nothing.
Quiet ==
  /\ db'.log = db.log
  /\ db'.revision = db.revision
  /\ db'.document = db.document

\* What Commit does to it, for the transaction tx.
Enters(tx) ==
  /\ Admissible(db, tx)
  /\ db'.log = Append(db.log, RecordOf(db, tx))
  /\ db'.revision = db.revision + 1
  /\ db'.document = Apply(tx.op, db.document)

-----------------------------------------------------------------------------
\* Appending keeps every earlier entry in its place and adds one at the end.
LEMMA AppendFacts ==
  ASSUME NEW S, NEW s \in Seq(S), NEW e \in S
  PROVE  /\ Append(s, e) \in Seq(S)
         /\ DOMAIN s = 1..Len(s)
         /\ Len(s) \in Nat
         /\ Len(Append(s, e)) = Len(s) + 1
         /\ DOMAIN Append(s, e) = 1..(Len(s) + 1)
         /\ \A i \in DOMAIN s : Append(s, e)[i] = s[i] /\ s[i] \in S
         /\ Append(s, e)[Len(s) + 1] = e
  OBVIOUS

\* The record of an admissible transaction is a record.
LEMMA RecordOfType ==
  ASSUME NEW t \in Tables, NEW tx \in Transactions, Admissible(t, tx)
  PROVE  RecordOf(t, tx) \in Records
  BY EngineAssumption DEF Tables, Records, RecordOf, Admissible, Transactions

\* The current state as a checkpoint, stored over one of the same revision.
LEMMA UpsertedType ==
  ASSUME NEW t \in Tables
  PROVE  Upserted(t, CheckpointOf(t)) \in SUBSET Checkpoints
  BY DEF Tables, Upserted, CheckpointOf, Checkpoints

-----------------------------------------------------------------------------
LEMMA InitInductive == Init => Inductive
  <1> SUFFICES ASSUME Init PROVE Inductive
    OBVIOUS
  <1> USE EngineAssumption, ConstantsAssumption DEF Init, Genesis
  <1>1. Genesis \in Tables
    BY DEF Tables, Checkpoints
  <1>2. TypeOK
    BY <1>1 DEF TypeOK, Stages
  <1>3. WriterInv /\ WorkInv /\ BaseInv
    BY DEF WriterInv, WorkInv, BaseInv, InTransaction
  <1>4. OutcomeInv
    BY DEF OutcomeInv
  <1>5. VerifyPasses /\ AppliedOnce
    BY DEF VerifyPasses, AppliedOnce, LogIndex, DocumentAt
  <1>6. QED
    BY <1>2, <1>3, <1>4, <1>5 DEF Inductive

-----------------------------------------------------------------------------
(***************************************************************************)
(* Type correctness, one step per action.                                  *)
(***************************************************************************)
LEMMA UndoRequestType ==
  ASSUME TypeOK, NEW i \in LogIndex(db), NEW undoId \in UndoIds
  PROVE  UndoRequest(i, undoId) \in Transactions /\ db.log[i].tx.id \in TxIds
  <1>1. db.log[i] \in Records
    BY AppendFacts DEF TypeOK, Tables, LogIndex
  <1>2. QED
    BY <1>1, ConstantsAssumption
    DEF UndoRequest, Transactions, Records, AllKeys, TypeOK, Tables

LEMMA TypeStep ==
  ASSUME TypeOK, WorkInv, [Next]_vars
  PROVE  TypeOK'
  <1> USE DEF TypeOK
  <1>1. CASE UNCHANGED vars
    BY <1>1 DEF vars
  <1>2. CASE CreateCheckpoint
    <2>1. db' \in Tables
      BY <1>2, UpsertedType DEF CreateCheckpoint, Tables
    <2>2. QED
      BY <1>2, <2>1 DEF CreateCheckpoint
  <1>3. ASSUME NEW h \in Handles, Call(h) PROVE TypeOK'
    <2>1. ASSUME NEW intent \in Intents, Submit(h, intent) PROVE TypeOK'
      <3>1. [id |-> intent.id, key |-> intent.key, base |-> db.revision, op |-> intent.op]
              \in Transactions
        BY ConstantsAssumption DEF Transactions, AllKeys, Tables
      <3>2. QED
        BY <2>1, <3>1 DEF Submit, Stages
    <2>2. ASSUME NEW tx \in answered \cup refused, Resubmit(h, tx) PROVE TypeOK'
      BY <2>2 DEF Resubmit, Stages
    <2>3. ASSUME NEW i \in LogIndex(db), NEW undoId \in UndoIds, SubmitUndo(h, i, undoId)
          PROVE  TypeOK'
      BY <2>3, UndoRequestType DEF SubmitUndo, Stages
    <2>4. CASE GiveUp(h)
      BY <2>4 DEF GiveUp, Finish, Stages
    <2>5. QED
      BY <1>3, <2>1, <2>2, <2>3, <2>4 DEF Call
  <1>4. ASSUME NEW h \in Handles, Work(h) PROVE TypeOK'
    <2>1. CASE Replay(h)
      BY <2>1 DEF Replay, MayBegin, Finish, Stages
    <2>2. CASE Refuse(h)
      BY <2>2 DEF Refuse, MayBegin, Finish, Stages
    <2>3. CASE Begin(h)
      BY <2>3 DEF Begin, MayBegin, Stages
    <2>4. CASE InsertCommand(h)
      <3>1. RecordOf(db, request[h]) \in Records
        BY <2>4, RecordOfType DEF InsertCommand, WorkInv, InTransaction
      <3>2. work' \in Tables
        BY <2>4, <3>1, AppendFacts DEF InsertCommand, Tables
      <3>3. QED
        BY <2>4, <3>2 DEF InsertCommand, Stages
    <2>5. CASE UpdateState(h)
      <3>1. RecordOf(db, request[h]) \in Records
        BY <2>5, RecordOfType DEF UpdateState, WorkInv, InTransaction
      <3>2. work' \in Tables
        BY <2>5, <3>1 DEF UpdateState, Tables, Records
      <3>3. QED
        BY <2>5, <3>2 DEF UpdateState, Stages
    <2>6. CASE InsertCheckpoint(h)
      <3>1. work' \in Tables
        BY <2>6, UpsertedType DEF InsertCheckpoint, Tables
      <3>2. QED
        BY <2>6, <3>1 DEF InsertCheckpoint, Stages
    <2>7. CASE Commit(h)
      BY <2>7 DEF Commit, Stages
    <2>8. CASE Respond(h)
      BY <2>8 DEF Respond, Finish, Stages
    <2>9. CASE Retry(h)
      <3>1. CASE UNCHANGED request
        BY <2>9, <3>1 DEF Retry, Stages
      <3>2. CASE ~UNCHANGED request
        <4>1. PICK i \in LogIndex(db) :
                request' = [request EXCEPT ![h] = UndoRequest(i, request[h].id)]
          BY <2>9, <3>2 DEF Retry
        <4>2. db.log[i] \in Records
          BY AppendFacts DEF Tables, LogIndex
        <4>3. UndoRequest(i, request[h].id) \in Transactions
          BY <2>9, <4>2 DEF Retry, UndoRequest, Transactions, Records, AllKeys, Tables
        <4>4. QED
          BY <2>9, <4>1, <4>3 DEF Retry, Stages
      <3>3. QED
        BY <3>1, <3>2
    <2>10. QED
      BY <1>4, <2>1, <2>2, <2>3, <2>4, <2>5, <2>6, <2>7, <2>8, <2>9 DEF Work
  <1>5. ASSUME NEW h \in Handles, Fail(h) PROVE TypeOK'
    <2>1. failures' \in 0..MaxFailures
      BY <1>5, ConstantsAssumption DEF Fail, Rollback, LoseResponse
    <2>2. stage' \in [Handles -> Stages] /\ stage[h] # "idle"
      BY <1>5 DEF Fail, Rollback, LoseResponse, Stages, InTransaction
    <2>3. \A g \in Handles : stage'[g] # "idle" => stage[g] # "idle"
      BY <1>5, <2>2 DEF Fail, Rollback, LoseResponse
    <2>4. work' \in Tables /\ writer' \in Handles \cup {Nobody}
      BY <1>5 DEF Fail, Rollback, LoseResponse
    <2>5. QED
      BY <1>5, <2>1, <2>2, <2>3, <2>4 DEF Fail, Rollback, LoseResponse
  <1>6. QED
    BY <1>1, <1>2, <1>3, <1>4, <1>5 DEF Next

-----------------------------------------------------------------------------
(***************************************************************************)
(* The command log.                                                        *)
(***************************************************************************)
LEMMA StepKind ==
  ASSUME Inductive, [Next]_vars
  PROVE  \/ Quiet
         \/ \E h \in Handles : Commit(h) /\ request[h] \in Transactions /\ Enters(request[h])
  <1> USE DEF Quiet
  <1>1. CASE UNCHANGED vars
    BY <1>1 DEF vars
  <1>2. CASE CreateCheckpoint
    BY <1>2 DEF CreateCheckpoint, Inductive, TypeOK, Tables
  <1>3. ASSUME NEW h \in Handles, Call(h) PROVE Quiet
    BY <1>3 DEF Call, Submit, Resubmit, SubmitUndo, GiveUp
  <1>4. ASSUME NEW h \in Handles, Work(h), ~Commit(h) PROVE Quiet
    BY <1>4 DEF Work, Replay, Refuse, Begin, InsertCommand, UpdateState, InsertCheckpoint,
                Respond, Retry
  <1>5. ASSUME NEW h \in Handles, Commit(h)
        PROVE  request[h] \in Transactions /\ Enters(request[h])
    BY <1>5 DEF Commit, Enters, Inductive, TypeOK, WorkInv, InTransaction
  <1>6. ASSUME NEW h \in Handles, Fail(h) PROVE Quiet
    BY <1>6 DEF Fail, Rollback, LoseResponse
  <1>7. QED
    BY <1>1, <1>2, <1>3, <1>4, <1>5, <1>6 DEF Next

\* A quiet step keeps what is said of the log, and every verdict on a request.
LEMMA QuietKeeps ==
  ASSUME Quiet
  PROVE  /\ VerifyPasses => VerifyPasses'
         /\ AppliedOnce => AppliedOnce'
         /\ \A tx : Committed(db', tx) <=> Committed(db, tx)
         /\ \A tx : Admissible(db', tx) <=> Admissible(db, tx)
  BY DEF Quiet, VerifyPasses, AppliedOnce, Committed, Admissible, KeyUsed, IdUsed,
         LogIndex, DocumentAt

\* The appended record continues the chain, and its ID and key are new.
LEMMA EntersKeeps ==
  ASSUME TypeOK, VerifyPasses, AppliedOnce, NEW tx \in Transactions, Enters(tx)
  PROVE  VerifyPasses' /\ AppliedOnce'
  <1> DEFINE r == RecordOf(db, tx)
  <1>1. r \in Records /\ db.log \in Seq(Records)
    BY RecordOfType DEF TypeOK, Tables, Enters
  <1>2. /\ DOMAIN db.log = 1..db.revision
        /\ db.revision \in Nat
        /\ Len(db'.log) = db.revision + 1
        /\ DOMAIN db'.log = 1..(db.revision + 1)
        /\ \A i \in DOMAIN db.log : db'.log[i] = db.log[i]
        /\ db'.log[db.revision + 1] = r
    BY <1>1, AppendFacts DEF Enters, VerifyPasses
  <1>3. /\ r.tx = tx
        /\ r.before = db.document
        /\ r.after = Apply(tx.op, db.document)
        /\ r.committed = db.revision + 1
        /\ tx.base = db.revision
    BY DEF RecordOf, Enters, Admissible
  <1> HIDE DEF r
  <1>4. \A n \in 0..db.revision : DocumentAt(db', n) = DocumentAt(db, n)
    BY <1>2 DEF DocumentAt
  <1>5. VerifyPasses'
    <2>1. db'.revision = Len(db'.log) /\ db'.document = DocumentAt(db', db'.revision)
      BY <1>2, <1>3 DEF Enters, DocumentAt
    <2>2. ASSUME NEW i \in LogIndex(db')
          PROVE  /\ db'.log[i].committed = i
                 /\ db'.log[i].tx.base = i - 1
                 /\ db'.log[i].before = DocumentAt(db', i - 1)
                 /\ db'.log[i].after = Apply(db'.log[i].tx.op, db'.log[i].before)
      <3>1. CASE i = db.revision + 1
        BY <1>2, <1>3, <1>4, <3>1 DEF VerifyPasses
      <3>2. CASE i \in DOMAIN db.log
        BY <1>2, <1>4, <3>2 DEF VerifyPasses, LogIndex
      <3>3. QED
        BY <1>2, <3>1, <3>2 DEF LogIndex
    <2>3. QED
      BY <2>1, <2>2 DEF VerifyPasses
  <1>6. AppliedOnce'
    <2>1. \A i \in DOMAIN db.log : db.log[i].tx.id # tx.id /\ db.log[i].tx.key # tx.key
      BY DEF Enters, Admissible, KeyUsed, IdUsed, LogIndex
    <2>2. \A i \in LogIndex(db') : i \in DOMAIN db.log \/ i = db.revision + 1
      BY <1>2 DEF LogIndex
    <2>3. SUFFICES ASSUME NEW i \in LogIndex(db'), NEW j \in LogIndex(db'),
                          \/ db'.log[i].tx.id = db'.log[j].tx.id
                          \/ db'.log[i].tx.key = db'.log[j].tx.key
                   PROVE  i = j
      BY DEF AppliedOnce
    <2>4. CASE i \in DOMAIN db.log /\ j \in DOMAIN db.log
      BY <1>2, <2>3, <2>4 DEF AppliedOnce, LogIndex
    <2>5. CASE i \in DOMAIN db.log /\ j = db.revision + 1
      BY <1>2, <1>3, <2>1, <2>3, <2>5
    <2>6. CASE i = db.revision + 1 /\ j \in DOMAIN db.log
      BY <1>2, <1>3, <2>1, <2>3, <2>6
    <2>7. QED
      BY <2>2, <2>4, <2>5, <2>6
  <1>7. QED
    BY <1>5, <1>6

\* The log gains tx and nothing else; what was inadmissible stays so.
LEMMA EntersVerdicts ==
  ASSUME TypeOK, VerifyPasses, NEW tx \in Transactions, Enters(tx)
  PROVE  /\ \A other : Committed(db', other) <=> Committed(db, other) \/ other = tx
         /\ \A other \in Transactions :
              other.base <= db.revision => ~Admissible(db', other)
  <1>1. RecordOf(db, tx) \in Records /\ db.log \in Seq(Records)
    BY RecordOfType DEF TypeOK, Tables, Enters
  <1>2. /\ DOMAIN db.log = 1..db.revision
        /\ db.revision \in Nat
        /\ DOMAIN db'.log = 1..(db.revision + 1)
        /\ \A i \in DOMAIN db.log : db'.log[i] = db.log[i]
        /\ db'.log[db.revision + 1].tx = tx
    BY <1>1, AppendFacts DEF Enters, VerifyPasses, RecordOf
  <1>3. \A other : Committed(db', other) <=> Committed(db, other) \/ other = tx
    BY <1>2 DEF Committed, LogIndex
  <1>4. \A other \in Transactions : other.base <= db.revision => ~Admissible(db', other)
    BY <1>2 DEF Admissible, Transactions, Enters
  <1>5. QED
    BY <1>3, <1>4

-----------------------------------------------------------------------------
(***************************************************************************)
(* The write lock and the open transaction.                                *)
(***************************************************************************)
LEMMA WriterStep ==
  ASSUME TypeOK, WriterInv, [Next]_vars
  PROVE  WriterInv'
  <1> USE ConstantsAssumption DEF WriterInv, TypeOK, InTransaction
  <1>1. CASE UNCHANGED vars
    BY <1>1 DEF vars
  <1>2. CASE CreateCheckpoint
    BY <1>2 DEF CreateCheckpoint
  <1>3. ASSUME NEW h \in Handles, Call(h) PROVE WriterInv'
    BY <1>3 DEF Call, Submit, Resubmit, SubmitUndo, GiveUp, Finish
  <1>4. ASSUME NEW h \in Handles, Work(h) PROVE WriterInv'
    <2>1. CASE Replay(h) \/ Refuse(h) \/ Begin(h)
      BY <2>1 DEF Replay, Refuse, Begin, MayBegin, Finish
    <2>2. CASE InsertCommand(h) \/ UpdateState(h) \/ InsertCheckpoint(h)
      BY <2>2 DEF InsertCommand, UpdateState, InsertCheckpoint
    <2>3. CASE Commit(h) \/ Respond(h) \/ Retry(h)
      BY <2>3 DEF Commit, Respond, Retry, Finish
    <2>4. QED
      BY <1>4, <2>1, <2>2, <2>3 DEF Work
  <1>5. ASSUME NEW h \in Handles, Fail(h) PROVE WriterInv'
    BY <1>5 DEF Fail, Rollback, LoseResponse
  <1>6. QED
    BY <1>1, <1>2, <1>3, <1>4, <1>5 DEF Next

\* A step that takes no handle into a transaction or along it, and leaves the
\* tables of the open one alone, keeps WorkInv.
LEMMA WorkUntouched ==
  ASSUME WorkInv, UNCHANGED <<db, work>>,
         \A h \in Handles : stage'[h] \in InTransaction =>
                              stage'[h] = stage[h] /\ request'[h] = request[h]
  PROVE  WorkInv'
  BY DEF WorkInv

LEMMA WorkStep ==
  ASSUME Inductive, [Next]_vars
  PROVE  WorkInv'
  <1> USE ConstantsAssumption DEF Inductive, TypeOK
  <1>1. CASE UNCHANGED vars
    BY <1>1 DEF vars, WorkInv
  <1>2. CASE CreateCheckpoint
    BY <1>2 DEF CreateCheckpoint, WorkInv, WriterInv
  <1>3. ASSUME NEW h \in Handles, Call(h) PROVE WorkInv'
    BY <1>3, WorkUntouched DEF Call, Submit, Resubmit, SubmitUndo, GiveUp, Finish, InTransaction
  <1>4. ASSUME NEW h \in Handles, Work(h) PROVE WorkInv'
    <2>1. CASE Replay(h) \/ Refuse(h)
      BY <2>1, WorkUntouched DEF Replay, Refuse, MayBegin, Finish, InTransaction
    <2>2. CASE Begin(h)
      BY <2>2 DEF Begin, MayBegin, WorkInv, WriterInv, InTransaction
    <2>3. CASE InsertCommand(h)
      <3>1. work'.log = Append(db.log, RecordOf(db, request[h]))
        BY <2>3 DEF InsertCommand, WorkInv, InTransaction, Tables
      <3>2. Admissible(db, request[h])
        BY <2>3 DEF InsertCommand, WorkInv, InTransaction
      <3>3. \A g \in Handles : stage'[g] \in InTransaction => g = h
        BY <2>3 DEF InsertCommand, WriterInv, InTransaction
      <3>4. QED
        BY <2>3, <3>1, <3>2, <3>3 DEF InsertCommand, WorkInv
    <2>4. CASE UpdateState(h)
      <3>1. /\ work'.log = Append(db.log, RecordOf(db, request[h]))
            /\ work'.revision = db.revision + 1
            /\ work'.document = Apply(request[h].op, db.document)
        BY <2>4 DEF UpdateState, WorkInv, InTransaction, Tables, RecordOf
      <3>2. Admissible(db, request[h])
        BY <2>4 DEF UpdateState, WorkInv, InTransaction
      <3>3. \A g \in Handles : stage'[g] \in InTransaction => g = h
        BY <2>4 DEF UpdateState, WriterInv, InTransaction
      <3>4. QED
        BY <2>4, <3>1, <3>2, <3>3 DEF UpdateState, WorkInv
    <2>5. CASE InsertCheckpoint(h)
      <3>1. /\ work'.log = work.log
            /\ work'.revision = work.revision
            /\ work'.document = work.document
        BY <2>5 DEF InsertCheckpoint, Tables
      <3>2. /\ Admissible(db, request[h])
            /\ work.log = Append(db.log, RecordOf(db, request[h]))
            /\ work.revision = db.revision + 1
            /\ work.document = Apply(request[h].op, db.document)
        BY <2>5 DEF InsertCheckpoint, WorkInv, InTransaction
      <3>3. \A g \in Handles : stage'[g] \in InTransaction => g = h
        BY <2>5 DEF InsertCheckpoint, WriterInv, InTransaction
      <3>4. QED
        BY <2>5, <3>1, <3>2, <3>3 DEF InsertCheckpoint, WorkInv
    <2>6. CASE Commit(h)
      <3>1. \A g \in Handles : stage'[g] \notin InTransaction
        BY <2>6, WriterStep DEF Commit, WriterInv
      <3>2. QED
        BY <3>1 DEF WorkInv
    <2>7. CASE Respond(h) \/ Retry(h)
      BY <2>7, WorkUntouched DEF Respond, Retry, Finish, InTransaction
    <2>8. QED
      BY <1>4, <2>1, <2>2, <2>3, <2>4, <2>5, <2>6, <2>7 DEF Work
  <1>5. ASSUME NEW h \in Handles, Fail(h) PROVE WorkInv'
    <2>1. CASE Rollback(h)
      <3>1. \A g \in Handles : stage'[g] \notin InTransaction
        BY <2>1, WriterStep DEF Rollback, WriterInv, InTransaction
      <3>2. QED
        BY <3>1 DEF WorkInv
    <2>2. CASE LoseResponse(h)
      BY <2>2, WorkUntouched DEF LoseResponse, InTransaction
    <2>3. QED
      BY <1>5, <2>1, <2>2 DEF Fail
  <1>6. QED
    BY <1>1, <1>2, <1>3, <1>4, <1>5 DEF Next

-----------------------------------------------------------------------------
(***************************************************************************)
(* Outcomes.                                                               *)
(***************************************************************************)

\* Revisions only grow, what is committed stays so, and what was refused is
\* neither committed nor admissible after any step.
LEMMA VerdictsPersist ==
  ASSUME Inductive, [Next]_vars
  PROVE  /\ db.revision \in Nat /\ db'.revision \in Nat
         /\ db.revision <= db'.revision
         /\ \A tx : Committed(db, tx) => Committed(db', tx)
         /\ \A tx \in refused : ~Committed(db', tx) /\ ~Admissible(db', tx)
  <1> USE DEF Inductive
  <1>1. db.revision \in Nat
    BY DEF TypeOK, Tables
  <1>2. CASE Quiet
    BY <1>1, <1>2, QuietKeeps DEF Quiet, OutcomeInv
  <1>3. ASSUME NEW h \in Handles, request[h] \in Transactions, Enters(request[h])
        PROVE  /\ db'.revision = db.revision + 1
               /\ \A tx : Committed(db, tx) => Committed(db', tx)
               /\ \A tx \in refused : ~Committed(db', tx) /\ ~Admissible(db', tx)
    <2>1. db'.revision = db.revision + 1
      BY <1>3 DEF Enters
    <2>2. \A tx : Committed(db', tx) <=> Committed(db, tx) \/ tx = request[h]
      BY <1>3, EntersVerdicts
    <2>3. \A tx \in refused : tx # request[h]
      BY <1>3 DEF OutcomeInv, Enters
    <2>4. \A tx \in refused : ~Admissible(db', tx)
      BY <1>3, EntersVerdicts DEF BaseInv, TypeOK
    <2>5. QED
      BY <2>1, <2>2, <2>3, <2>4 DEF OutcomeInv
  <1>4. QED
    BY <1>1, <1>2, <1>3, StepKind

LEMMA BaseStep ==
  ASSUME Inductive, [Next]_vars
  PROVE  BaseInv'
  <1>1. /\ db.revision \in Nat /\ db'.revision \in Nat
        /\ db.revision <= db'.revision
    BY VerdictsPersist
  <1>2. \A h \in Handles : stage'[h] # "idle" =>
          \/ request'[h].base = db.revision
          \/ \E tx \in answered \cup refused : request'[h] = tx
          \/ stage[h] # "idle" /\ request'[h] = request[h]
    <2> USE DEF Inductive, TypeOK
    <2>1. CASE UNCHANGED vars
      BY <2>1 DEF vars
    <2>2. CASE CreateCheckpoint
      BY <2>2 DEF CreateCheckpoint
    <2>3. ASSUME NEW g \in Handles, NEW h \in Handles, Call(g), stage'[h] # "idle"
          PROVE  \/ request'[h].base = db.revision
                 \/ \E tx \in answered \cup refused : request'[h] = tx
                 \/ stage[h] # "idle" /\ request'[h] = request[h]
      BY <2>3 DEF Call, Submit, Resubmit, SubmitUndo, UndoRequest, GiveUp, Finish
    <2>4. ASSUME NEW g \in Handles, NEW h \in Handles, Work(g), stage'[h] # "idle"
          PROVE  \/ request'[h].base = db.revision
                 \/ stage[h] # "idle" /\ request'[h] = request[h]
      <3>1. CASE Replay(g) \/ Refuse(g) \/ Begin(g) \/ Respond(g)
        BY <2>4, <3>1 DEF Replay, Refuse, Begin, MayBegin, Respond, Finish
      <3>2. CASE InsertCommand(g) \/ UpdateState(g) \/ InsertCheckpoint(g) \/ Commit(g)
        BY <2>4, <3>2 DEF InsertCommand, UpdateState, InsertCheckpoint, Commit
      <3>3. CASE Retry(g)
        BY <2>4, <3>3 DEF Retry, UndoRequest
      <3>4. QED
        BY <2>4, <3>1, <3>2, <3>3 DEF Work
    <2>5. ASSUME NEW g \in Handles, NEW h \in Handles, Fail(g), stage'[h] # "idle"
          PROVE  stage[h] # "idle" /\ request'[h] = request[h]
      BY <2>5 DEF Fail, Rollback, LoseResponse, InTransaction
    <2>6. QED
      BY <2>1, <2>2, <2>3, <2>4, <2>5 DEF Next
  <1>3. answered' \cup refused' \subseteq
          answered \cup refused \cup {request[h] : h \in {g \in Handles : stage[g] # "idle"}}
    BY DEF Next, vars, CreateCheckpoint, Call, Submit, Resubmit, SubmitUndo, GiveUp, Work, Replay,
           Refuse, Begin, MayBegin, InsertCommand, UpdateState, InsertCheckpoint, Commit, Respond,
           Retry, Fail, Rollback, LoseResponse
  <1>4. /\ \A h \in Handles : stage[h] # "idle" => request[h].base \in Nat
        /\ \A tx \in answered \cup refused : tx.base \in Nat
    BY DEF Inductive, TypeOK, Transactions
  <1>5. /\ \A h \in Handles : stage[h] # "idle" => request[h].base <= db'.revision
        /\ \A tx \in answered \cup refused : tx.base <= db'.revision
    BY <1>1, <1>4 DEF Inductive, BaseInv
  <1>6. \A h \in Handles : stage'[h] # "idle" => request'[h].base <= db'.revision
    BY <1>1, <1>2, <1>5
  <1>7. \A tx \in answered' \cup refused' : tx.base <= db'.revision
    BY <1>3, <1>5
  <1>8. QED
    BY <1>6, <1>7 DEF BaseInv

LEMMA OutcomeStep ==
  ASSUME Inductive, [Next]_vars
  PROVE  OutcomeInv'
  <1> USE DEF Inductive, TypeOK
  <1>1. /\ \A tx : Committed(db, tx) => Committed(db', tx)
        /\ \A tx \in refused : ~Committed(db', tx) /\ ~Admissible(db', tx)
    BY VerdictsPersist
  <1>2. \A h \in Handles : stage'[h] = "committed" =>
          \/ Commit(h) /\ request'[h] = request[h]
          \/ stage[h] = "committed" /\ request'[h] = request[h]
    <2>1. CASE UNCHANGED vars
      BY <2>1 DEF vars
    <2>2. CASE CreateCheckpoint
      BY <2>2 DEF CreateCheckpoint
    <2>3. ASSUME NEW g \in Handles, NEW h \in Handles, Call(g) \/ Fail(g),
                 stage'[h] = "committed"
          PROVE  stage[h] = "committed" /\ request'[h] = request[h]
      BY <2>3 DEF Call, Submit, Resubmit, SubmitUndo, GiveUp, Finish, Fail, Rollback, LoseResponse
    <2>4. ASSUME NEW g \in Handles, NEW h \in Handles, Work(g), stage'[h] = "committed"
          PROVE  \/ Commit(h) /\ request'[h] = request[h]
                 \/ stage[h] = "committed" /\ request'[h] = request[h]
      <3>1. CASE Replay(g) \/ Refuse(g) \/ Begin(g) \/ Respond(g) \/ Retry(g)
        BY <2>4, <3>1 DEF Replay, Refuse, Begin, MayBegin, Respond, Retry, Finish
      <3>2. CASE InsertCommand(g) \/ UpdateState(g) \/ InsertCheckpoint(g) \/ Commit(g)
        BY <2>4, <3>2 DEF InsertCommand, UpdateState, InsertCheckpoint, Commit
      <3>3. QED
        BY <2>4, <3>1, <3>2 DEF Work
    <2>5. QED
      BY <2>1, <2>2, <2>3, <2>4 DEF Next
  <1>3. \A h \in Handles : Commit(h) => Committed(db', request[h])
    <2>1. ASSUME NEW h \in Handles, Commit(h)
          PROVE  request[h] \in Transactions /\ Enters(request[h])
      BY <2>1 DEF Commit, Enters, WorkInv, InTransaction
    <2>2. QED
      BY <2>1, EntersVerdicts
  <1>4. \A tx \in answered' : tx \in answered \/ Committed(db, tx)
    BY DEF Next, vars, CreateCheckpoint, Call, Submit, Resubmit, SubmitUndo, GiveUp, Work, Replay,
           Refuse, Begin, InsertCommand, UpdateState, InsertCheckpoint, Commit, Respond,
           Retry, Fail, Rollback, LoseResponse, OutcomeInv
  <1>5. \A tx \in refused' :
          \/ tx \in refused
          \/ ~Committed(db', tx) /\ ~Admissible(db', tx)
    <2>1. refused' = refused \/ \E h \in Handles : Refuse(h)
      BY DEF Next, vars, CreateCheckpoint, Call, Submit, Resubmit, SubmitUndo, GiveUp, Work, Replay,
             Begin, InsertCommand, UpdateState, InsertCheckpoint, Commit, Respond,
             Retry, Fail, Rollback, LoseResponse
    <2>2. QED
      BY <2>1 DEF Refuse
  <1>6. QED
    BY <1>1, <1>2, <1>3, <1>4, <1>5 DEF OutcomeInv

-----------------------------------------------------------------------------
(***************************************************************************)
(* Theorems.                                                               *)
(***************************************************************************)

LEMMA InductiveStep == Inductive /\ [Next]_vars => Inductive'
  <1> SUFFICES ASSUME Inductive, [Next]_vars PROVE Inductive'
    OBVIOUS
  <1>1. TypeOK' /\ WriterInv' /\ WorkInv'
    BY TypeStep, WriterStep, WorkStep DEF Inductive
  <1>2. BaseInv' /\ OutcomeInv'
    BY BaseStep, OutcomeStep
  <1>3. VerifyPasses' /\ AppliedOnce'
    BY StepKind, QuietKeeps, EntersKeeps DEF Inductive
  <1>4. QED
    BY <1>1, <1>2, <1>3 DEF Inductive

THEOREM InductiveHolds == Spec => []Inductive
  BY InitInductive, InductiveStep, PTL DEF Spec

\* Every variable keeps its type: in particular the open transaction and the
\* durable tables hold well-formed logs and checkpoints whatever fails.
THEOREM TypeCorrect == Spec => []TypeOK
  BY InductiveHolds, PTL DEF Inductive

\* ProjectStore.verify() finds nothing to report in any reachable file: the
\* recorded commands, replayed, give every recorded document and the current.
THEOREM VerifyAlwaysPasses == Spec => []VerifyPasses
  BY InductiveHolds, PTL DEF Inductive

\* A transaction retried after a lost response, or sent to several handles at
\* once, is applied at most once.
THEOREM EachAppliedOnce == Spec => []AppliedOnce
  BY InductiveHolds, PTL DEF Inductive

\* commit() never takes an answer back: what it reported as committed is in
\* the log, what it reported as refused is not and never will be.
THEOREM AnswersAreFinal == Spec => []AnswersHold
  <1>1. Inductive => AnswersHold
    BY DEF Inductive, OutcomeInv, AnswersHold
  <1>2. QED
    BY <1>1, InductiveHolds, PTL

\* History is not rewritten: a step adds at most one command, at the end.
THEOREM HistoryIsKept == Spec => LogAppendOnly
  <1> DEFINE Grows == /\ Len(db'.log) \in {Len(db.log), Len(db.log) + 1}
                      /\ \A i \in LogIndex(db) : db'.log[i] = db.log[i]
                      /\ db'.revision >= db.revision
  <1>1. ASSUME Inductive, [Next]_vars PROVE Grows
    <2>1. db.revision \in Nat /\ db.log \in Seq(Records)
      BY <1>1 DEF Inductive, TypeOK, Tables
    <2>2. CASE Quiet
      BY <2>1, <2>2 DEF Quiet
    <2>3. ASSUME NEW h \in Handles, request[h] \in Transactions, Enters(request[h]) PROVE Grows
      <3>1. RecordOf(db, request[h]) \in Records
        BY <1>1, <2>3, RecordOfType DEF Inductive, TypeOK, Enters
      <3>2. QED
        BY <2>1, <2>3, <3>1, AppendFacts DEF Enters, LogIndex
    <2>4. QED
      BY <1>1, <2>2, <2>3, StepKind
  <1>2. QED
    BY <1>1, InductiveHolds, PTL DEF Spec, LogAppendOnly

-----------------------------------------------------------------------------
(***************************************************************************)
(* The command log implements the ledger.                                  *)
(***************************************************************************)

\* The edits callers wait for, and the log as the ledger has it.
Asked == {request[h] : h \in {g \in Handles : stage[g] # "idle"}}

Edited == [i \in DOMAIN db.log |-> db.log[i].tx]

\* The end of a call withdraws its request unless another handle has it too.
LEMMA FinishAsked ==
  ASSUME TypeOK, NEW h \in Handles, stage[h] # "idle", Finish(h)
  PROVE  Asked' \in {Asked, Asked \ {request[h]}}
  <1>1. Asked' = {request[f] : f \in {g \in Handles : g # h /\ stage[g] # "idle"}}
    BY DEF Asked, Finish, TypeOK
  <1>2. CASE \E g \in Handles : g # h /\ stage[g] # "idle" /\ request[g] = request[h]
    <2>1. Asked' = Asked
      BY <1>1, <1>2 DEF Asked
    <2>2. QED
      BY <2>1
  <1>3. CASE \A g \in Handles : g # h /\ stage[g] # "idle" => request[g] # request[h]
    <2>1. Asked' = Asked \ {request[h]}
      BY <1>1, <1>3 DEF Asked
    <2>2. QED
      BY <2>1
  <1>4. QED
    BY <1>2, <1>3

\* A COMMIT is the entry of its request.
LEMMA CommitEnters ==
  ASSUME Inductive, NEW h \in Handles, Commit(h)
  PROVE  Ledger!Enter(request[h])
  <1> DEFINE tx == request[h]
  <1>1. tx \in Transactions /\ Enters(tx)
    BY DEF Commit, Enters, Inductive, TypeOK, WorkInv, InTransaction
  <1>2. RecordOf(db, tx) \in Records /\ db.log \in Seq(Records)
    BY <1>1, RecordOfType DEF Inductive, TypeOK, Tables, Enters
  <1>3. Edited \in Seq(Transactions) /\ DOMAIN Edited = DOMAIN db.log /\ Len(Edited) = Len(db.log)
    <2>1. DOMAIN db.log = 1..Len(db.log) /\ Len(db.log) \in Nat
      BY <1>2, AppendFacts
    <2>2. \A i \in DOMAIN db.log : db.log[i] \in Records
      BY <1>2, AppendFacts
    <2>3. \A i \in DOMAIN db.log : db.log[i].tx \in Transactions
      BY <2>2 DEF Records
    <2>4. Edited \in [1..Len(db.log) -> Transactions]
      BY <2>1, <2>3 DEF Edited
    <2>5. QED
      BY <2>1, <2>4
  <1>4. Edited' = Append(Edited, tx)
    <2>1. /\ DOMAIN db.log = 1..Len(db.log)
          /\ Len(db.log) \in Nat
          /\ DOMAIN db'.log = 1..(Len(db.log) + 1)
          /\ \A i \in DOMAIN db.log : db'.log[i] = db.log[i]
          /\ db'.log[Len(db.log) + 1].tx = tx
      BY <1>1, <1>2, AppendFacts DEF Enters, RecordOf
    <2>2. \A i \in DOMAIN db'.log :
            db'.log[i].tx = IF i = Len(db.log) + 1 THEN tx ELSE Edited[i]
      BY <2>1 DEF Edited
    <2>3. Append(Edited, tx) =
            [i \in 1..(Len(db.log) + 1) |-> IF i = Len(db.log) + 1 THEN tx ELSE Edited[i]]
      BY <1>1, <1>3
    <2>4. QED
      BY <2>1, <2>2, <2>3 DEF Edited
  <1>5. tx.base = Len(Edited) /\ db'.document = Apply(tx.op, db.document)
    BY <1>1, <1>3 DEF Inductive, VerifyPasses, Enters, Admissible
  <1>6. \A i \in DOMAIN Edited : Edited[i].id # tx.id /\ Edited[i].key # tx.key
    BY <1>1 DEF Edited, Enters, Admissible, KeyUsed, IdUsed, LogIndex
  <1>7. tx \notin refused /\ Apply(tx.op, db.document) # Rejected
    BY <1>1 DEF Inductive, OutcomeInv, Enters, Admissible
  <1>8. Asked' = Asked /\ UNCHANGED <<answered, refused>>
    BY DEF Commit, Asked, Inductive, TypeOK
  <1>9. QED
    BY <1>4, <1>5, <1>6, <1>7, <1>8 DEF Ledger!Enter, Edited, Asked

LEMMA LedgerStep ==
  ASSUME Inductive, [Next]_vars
  PROVE  [Ledger!LedgerNext]_(Ledger!ledgerVars)
  <1> DEFINE Still == UNCHANGED <<Edited, db.document, answered, refused>>
  <1>1. ASSUME Still, Asked' = Asked PROVE UNCHANGED Ledger!ledgerVars
    BY <1>1 DEF Ledger!ledgerVars, Edited, Asked
  <1>2. ASSUME Still, TypeOK' PROVE Ledger!ComeAndGo
    <2>1. Asked' \in SUBSET Transactions
      BY <1>2 DEF Asked, TypeOK
    <2>2. QED
      BY <1>2, <2>1 DEF Ledger!ComeAndGo, Edited, Asked
  <1>3. TypeOK'
    BY TypeStep DEF Inductive
  <1>4. ASSUME NEW h \in Handles, Committed(db, request[h]), stage[h] # "idle",
               answered' = answered \cup {request[h]}, UNCHANGED <<db, refused>>, Finish(h)
        PROVE  Ledger!LedgerNext
    <2>1. request[h] \in Asked /\ Asked' \in {Asked, Asked \ {request[h]}}
      BY <1>4, FinishAsked DEF Inductive, Asked
    <2>2. Ledger!InLedger(request[h])
      BY <1>4 DEF Ledger!InLedger, Committed, LogIndex
    <2>3. QED
      BY <1>4, <2>1, <2>2 DEF Ledger!LedgerNext, Ledger!Acknowledge, Ledger!Answered, Asked
  <1>5. CASE UNCHANGED vars
    BY <1>1, <1>5 DEF vars, Edited, Asked
  <1>6. CASE CreateCheckpoint
    BY <1>1, <1>6 DEF CreateCheckpoint, Edited, Asked, Inductive, TypeOK, Tables
  <1>7. ASSUME NEW h \in Handles, Call(h) PROVE Ledger!LedgerNext
    <2>1. Still
      BY <1>7 DEF Call, Submit, Resubmit, SubmitUndo, GiveUp, Edited
    <2>2. QED
      BY <1>2, <1>3, <2>1 DEF Ledger!LedgerNext
  <1>8. ASSUME NEW h \in Handles, Work(h) PROVE [Ledger!LedgerNext]_(Ledger!ledgerVars)
    <2>1. CASE Replay(h)
      BY <1>4, <2>1 DEF Replay, MayBegin
    <2>2. CASE Refuse(h)
      <3>1. request[h] \in Asked /\ Asked' \in {Asked, Asked \ {request[h]}}
        BY <2>2, FinishAsked DEF Inductive, Asked, Refuse, MayBegin
      <3>2. ~Ledger!InLedger(request[h])
        BY <2>2 DEF Ledger!InLedger, Committed, LogIndex, Refuse
      <3>3. QED
        BY <2>2, <3>1, <3>2 DEF Ledger!LedgerNext, Ledger!Deny, Ledger!Answered, Asked, Refuse
    <2>3. CASE Begin(h) \/ InsertCommand(h) \/ UpdateState(h) \/ InsertCheckpoint(h)
      <3>1. Still
        BY <2>3 DEF Begin, InsertCommand, UpdateState, InsertCheckpoint, Edited
      <3>2. Asked' = Asked
        BY <2>3 DEF Begin, MayBegin, InsertCommand, UpdateState, InsertCheckpoint, Asked, Inductive, TypeOK
      <3>3. QED
        BY <1>1, <3>1, <3>2
    <2>4. CASE Commit(h)
      <3>1. request[h] \in Asked
        BY <2>4 DEF Commit, Asked
      <3>2. Ledger!Enter(request[h])
        BY <2>4, CommitEnters
      <3>3. QED
        BY <3>1, <3>2 DEF Ledger!LedgerNext, Ledger!Enter, Asked
    <2>5. CASE Respond(h)
      <3>1. Committed(db, request[h])
        BY <2>5 DEF Respond, Inductive, OutcomeInv
      <3>2. QED
        BY <1>4, <2>5, <3>1 DEF Respond
    <2>6. CASE Retry(h)
      <3>1. Still
        BY <2>6 DEF Retry, Edited
      <3>2. QED
        BY <1>2, <1>3, <3>1 DEF Ledger!LedgerNext
    <2>7. QED
      BY <1>8, <2>1, <2>2, <2>3, <2>4, <2>5, <2>6 DEF Work
  <1>9. ASSUME NEW h \in Handles, Fail(h) PROVE UNCHANGED Ledger!ledgerVars
    <2>1. Still
      BY <1>9 DEF Fail, Rollback, LoseResponse, Edited
    <2>2. Asked' = Asked
      BY <1>9 DEF Fail, Rollback, LoseResponse, InTransaction, Asked, Inductive, TypeOK
    <2>3. QED
      BY <1>1, <2>1, <2>2
  <1>10. QED
    BY <1>5, <1>6, <1>7, <1>8, <1>9 DEF Next

\* The command log is a ledger: handles, lock, transactions and failures do
\* not show in what callers see.
THEOREM Implementation == Spec => ImplementsLedger
  <1>1. Init => Ledger!LedgerInit
    BY DEF Init, Genesis, Ledger!LedgerInit
  <1>2. Inductive /\ [Next]_vars => [Ledger!LedgerNext]_(Ledger!ledgerVars)
    BY LedgerStep
  <1>3. QED
    BY <1>1, <1>2, InductiveHolds, PTL DEF Spec, ImplementsLedger, Ledger!LedgerSpec

-----------------------------------------------------------------------------
(***************************************************************************)
(* Checkpoints.  Every checkpoint is written in a transaction at the state *)
(* it is of (WorkCheckpoints), over any other of its revision.             *)
(***************************************************************************)
LEMMA WorkCheckpointsStep ==
  ASSUME Inductive, WorkCheckpoints, [Next]_vars
  PROVE  WorkCheckpoints'
  <1> USE DEF Inductive, TypeOK
  \* Enough for the steps that leave the tables alone.
  <1>0. ASSUME UNCHANGED <<db, work>>,
               \A h \in Handles : stage'[h] \in InTransaction =>
                 stage[h] \in InTransaction /\ (stage[h] = "checkpointed" <=> stage'[h] = "checkpointed")
        PROVE  WorkCheckpoints'
    BY <1>0 DEF WorkCheckpoints
  <1>1. CASE UNCHANGED vars
    BY <1>0, <1>1 DEF vars
  <1>2. CASE CreateCheckpoint
    <2>1. \A h \in Handles : stage'[h] \notin InTransaction
      BY <1>2, ConstantsAssumption DEF CreateCheckpoint, WriterInv
    <2>2. QED
      BY <2>1 DEF WorkCheckpoints
  <1>3. ASSUME NEW h \in Handles, Call(h) PROVE WorkCheckpoints'
    BY <1>0, <1>3 DEF Call, Submit, Resubmit, SubmitUndo, GiveUp, Finish, InTransaction
  <1>4. ASSUME NEW h \in Handles, Work(h) PROVE WorkCheckpoints'
    <2>1. CASE Replay(h) \/ Refuse(h)
      BY <1>0, <2>1 DEF Replay, Refuse, MayBegin, Finish, InTransaction
    <2>2. CASE Begin(h)
      <3>1. \A g \in Handles : stage'[g] \in InTransaction => stage'[g] = "applied"
        BY <2>2, ConstantsAssumption DEF Begin, MayBegin, WriterInv, InTransaction
      <3>2. QED
        BY <2>2, <3>1 DEF Begin, WorkCheckpoints
    <2>3. CASE InsertCommand(h) \/ UpdateState(h)
      <3>1. work'.checkpoints = work.checkpoints /\ db' = db
        BY <2>3 DEF InsertCommand, UpdateState, Tables
      <3>2. stage[h] \in InTransaction /\ stage[h] # "checkpointed" /\ stage'[h] # "checkpointed"
        BY <2>3 DEF InsertCommand, UpdateState, InTransaction
      <3>3. \A g \in Handles : stage'[g] \in InTransaction => g = h
        BY <2>3 DEF InsertCommand, UpdateState, WriterInv, InTransaction
      <3>4. QED
        BY <3>1, <3>2, <3>3 DEF WorkCheckpoints
    <2>4. CASE InsertCheckpoint(h)
      <3>1. /\ stage[h] = "updated" /\ stage'[h] = "checkpointed" /\ db' = db
            /\ work.checkpoints = db.checkpoints /\ work.revision = db.revision + 1
        BY <2>4 DEF InsertCheckpoint, InTransaction, WorkInv, WorkCheckpoints
      <3>2. \A g \in Handles : stage'[g] \in InTransaction => g = h
        BY <2>4 DEF InsertCheckpoint, WriterInv, InTransaction
      <3>3. work'.revision = work.revision /\ work'.document = work.document
        BY <2>4 DEF InsertCheckpoint, Tables
      <3>4. work'.checkpoints = IF work.revision % CheckpointInterval = 0
                                THEN Upserted(work, CheckpointOf(work)) ELSE work.checkpoints
        BY <2>4 DEF InsertCheckpoint, Tables
      <3>5. Upserted(work, CheckpointOf(work)) = Upserted(db, CheckpointOf(work'))
        BY <3>1, <3>3 DEF Upserted, CheckpointOf
      <3>6. work'.checkpoints = IF (db'.revision + 1) % CheckpointInterval = 0
                                THEN Upserted(db', CheckpointOf(work')) ELSE db'.checkpoints
        BY <3>1, <3>4, <3>5 DEF Upserted
      <3>7. QED
        BY <3>1, <3>2, <3>6 DEF WorkCheckpoints
    <2>5. CASE Commit(h)
      <3>1. \A g \in Handles : stage'[g] \notin InTransaction
        BY <2>5, WriterStep DEF Commit, WriterInv, InTransaction
      <3>2. QED
        BY <3>1 DEF WorkCheckpoints
    <2>6. CASE Respond(h) \/ Retry(h)
      BY <1>0, <2>6 DEF Respond, Retry, Finish, InTransaction
    <2>7. QED
      BY <1>4, <2>1, <2>2, <2>3, <2>4, <2>5, <2>6 DEF Work
  <1>5. ASSUME NEW h \in Handles, Fail(h) PROVE WorkCheckpoints'
    <2>1. CASE Rollback(h)
      <3>1. \A g \in Handles : stage'[g] \notin InTransaction
        BY <2>1, WriterStep DEF Rollback, WriterInv, InTransaction
      <3>2. QED
        BY <3>1 DEF WorkCheckpoints
    <2>2. CASE LoseResponse(h)
      BY <1>0, <2>2 DEF LoseResponse, InTransaction
    <2>3. QED
      BY <1>5, <2>1, <2>2 DEF Fail
  <1>6. QED
    BY <1>1, <1>2, <1>3, <1>4, <1>5 DEF Next

\* A checkpoint of the newest state goes in, whatever was there for it.
LEMMA UpsertedFaithful ==
  ASSUME NEW tables \in Tables, NEW before \in Tables, NEW n \in Nat, NEW document,
         CheckpointsFaithful,
         tables.revision = n,
         db \in Tables, db.revision <= n, n <= db.revision + 1,
         tables.checkpoints = {c \in db.checkpoints : c.revision # n} \cup {[revision |-> n, document |-> document]},
         document = DocumentAt(tables, n),
         \A m \in 0..db.revision : DocumentAt(tables, m) = DocumentAt(db, m)
  PROVE  /\ \A c \in tables.checkpoints :
              c.revision \in 0..tables.revision /\ c.document = DocumentAt(tables, c.revision)
         /\ \A c, d \in tables.checkpoints : c.revision = d.revision => c = d
         /\ \A m \in 0..tables.revision :
              m % CheckpointInterval = 0 => \E c \in tables.checkpoints : c.revision = m
  <1> DEFINE new == [revision |-> n, document |-> document]
  <1>1. new.revision = n /\ new.document = document
    OBVIOUS
  <1> HIDE DEF new
  <1>2. tables.checkpoints = {c \in db.checkpoints : c.revision # n} \cup {new}
    BY DEF new
  <1>3. db.revision \in Nat /\ \A c \in db.checkpoints : c.revision \in Nat
    BY DEF Tables, Checkpoints
  <1>4. \A c \in db.checkpoints : c.revision \in 0..db.revision /\ c.document = DocumentAt(db, c.revision)
    BY DEF CheckpointsFaithful
  <1>5. \A c \in tables.checkpoints :
          c.revision \in 0..tables.revision /\ c.document = DocumentAt(tables, c.revision)
    BY <1>1, <1>2, <1>3, <1>4
  <1>6. \A c, d \in tables.checkpoints : c.revision = d.revision => c = d
    BY <1>1, <1>2 DEF CheckpointsFaithful
  <1>7. ASSUME NEW m \in 0..tables.revision, m % CheckpointInterval = 0
        PROVE  \E c \in tables.checkpoints : c.revision = m
    <2>1. CASE m = n
      BY <1>1, <1>2, <2>1
    <2>2. CASE m # n
      <3>1. m \in 0..db.revision
        BY <1>3, <2>2
      <3>2. PICK c \in db.checkpoints : c.revision = m
        BY <1>7, <3>1 DEF CheckpointsFaithful
      <3>3. QED
        BY <1>2, <2>2, <3>2
    <2>3. QED
      BY <2>1, <2>2
  <1>8. QED
    BY <1>5, <1>6, <1>7

LEMMA CheckpointsStep ==
  ASSUME Inductive, WorkCheckpoints, CheckpointsFaithful, [Next]_vars
  PROVE  CheckpointsFaithful'
  <1> USE DEF Inductive, TypeOK
  <1>0. db \in Tables /\ db' \in Tables /\ db.revision \in Nat
    BY TypeStep DEF Tables
  <1>1. CASE UNCHANGED db
    BY <1>1 DEF CheckpointsFaithful, DocumentAt
  <1>2. CASE CreateCheckpoint
    <2>1. /\ db'.log = db.log /\ db'.revision = db.revision
          /\ db'.checkpoints = {c \in db.checkpoints : c.revision # db.revision}
                               \cup {[revision |-> db.revision, document |-> db.document]}
      BY <1>0, <1>2 DEF CreateCheckpoint, Tables, Upserted, CheckpointOf
    <2>2. \A m : DocumentAt(db', m) = DocumentAt(db, m)
      BY <2>1 DEF DocumentAt
    <2>3. db.document = DocumentAt(db', db.revision)
      BY <2>2 DEF VerifyPasses
    <2>4. QED
      BY <1>0, <2>1, <2>2, <2>3, UpsertedFaithful DEF CheckpointsFaithful
  <1>3. ASSUME NEW h \in Handles, Commit(h) PROVE CheckpointsFaithful'
    <2>1. /\ stage[h] = "checkpointed" /\ db' = work
          /\ request[h] \in Transactions /\ Enters(request[h])
          /\ db'.document = Apply(request[h].op, db.document) /\ db'.revision = db.revision + 1
      BY <1>3 DEF Commit, Enters, WorkInv, InTransaction
    <2>2. /\ RecordOf(db, request[h]) \in Records /\ db.log \in Seq(Records)
          /\ RecordOf(db, request[h]).after = Apply(request[h].op, db.document)
      BY <2>1, RecordOfType DEF Tables, Enters, RecordOf
    <2>3. /\ DOMAIN db.log = 1..db.revision
          /\ \A i \in DOMAIN db.log : db'.log[i] = db.log[i]
          /\ db'.log[db.revision + 1] = RecordOf(db, request[h])
      BY <2>1, <2>2, AppendFacts DEF Enters, VerifyPasses
    <2>4. \A m \in 0..db.revision : DocumentAt(db', m) = DocumentAt(db, m)
      BY <1>0, <2>3 DEF DocumentAt
    <2>5. db'.document = DocumentAt(db', db.revision + 1)
      BY <1>0, <2>1, <2>2, <2>3 DEF DocumentAt
    <2>6. CASE (db.revision + 1) % CheckpointInterval = 0
      <3>1. db'.checkpoints = {c \in db.checkpoints : c.revision # db.revision + 1}
                              \cup {[revision |-> db.revision + 1, document |-> db'.document]}
        BY <2>1, <2>6 DEF WorkCheckpoints, InTransaction, Upserted, CheckpointOf
      <3>2. QED
        BY <1>0, <2>1, <2>4, <2>5, <3>1, UpsertedFaithful DEF CheckpointsFaithful
    <2>7. CASE (db.revision + 1) % CheckpointInterval # 0
      <3>1. db'.checkpoints = db.checkpoints
        BY <2>1, <2>7 DEF WorkCheckpoints, InTransaction
      <3>2. \A c \in db'.checkpoints : c.revision \in 0..db.revision /\ c.document = DocumentAt(db', c.revision)
        BY <2>4, <3>1 DEF CheckpointsFaithful
      <3>3. \A c, d \in db'.checkpoints : c.revision = d.revision => c = d
        BY <3>1 DEF CheckpointsFaithful
      <3>4. ASSUME NEW m \in 0..db'.revision, m % CheckpointInterval = 0
            PROVE  \E c \in db'.checkpoints : c.revision = m
        <4>1. m \in 0..db.revision
          BY <1>0, <2>1, <2>7, <3>4
        <4>2. QED
          BY <3>1, <3>4, <4>1 DEF CheckpointsFaithful
      <3>5. \A c \in db'.checkpoints : c.revision \in 0..db'.revision
        BY <1>0, <2>1, <3>2
      <3>6. QED
        BY <3>2, <3>3, <3>4, <3>5 DEF CheckpointsFaithful
    <2>8. QED
      BY <2>6, <2>7
  <1>4. ASSUME NEW h \in Handles, Call(h) \/ Fail(h) PROVE UNCHANGED db
    BY <1>4 DEF Call, Submit, Resubmit, SubmitUndo, GiveUp, Fail, Rollback, LoseResponse
  <1>5. ASSUME NEW h \in Handles, Work(h), ~Commit(h) PROVE UNCHANGED db
    BY <1>5 DEF Work, Replay, Refuse, Begin, InsertCommand, UpdateState, InsertCheckpoint,
                Respond, Retry
  <1>6. UNCHANGED vars => UNCHANGED db
    BY DEF vars
  <1>7. QED
    BY <1>1, <1>2, <1>3, <1>4, <1>5, <1>6 DEF Next

\* Every checkpoint, automatic or explicit, is the state the log has at its
\* revision, and there is one at every interval, for any interval, handles,
\* failures and history.
THEOREM CheckpointsAreTrue == Spec => []CheckpointsFaithful
  <1>1. Init => WorkCheckpoints /\ CheckpointsFaithful
    <2> SUFFICES ASSUME Init PROVE WorkCheckpoints /\ CheckpointsFaithful
      OBVIOUS
    <2>1. /\ db.revision = 0 /\ db.checkpoints = {[revision |-> 0, document |-> GenesisDoc]}
          /\ \A h \in Handles : stage[h] \notin InTransaction
      BY DEF Init, Genesis, InTransaction
    <2>2. \A n \in 0..0 : n = 0
      OBVIOUS
    <2>3. DocumentAt(db, 0) = GenesisDoc
      BY DEF DocumentAt
    <2>4. QED
      BY <2>1, <2>2, <2>3 DEF WorkCheckpoints, CheckpointsFaithful
  <1>2. Inductive /\ WorkCheckpoints /\ CheckpointsFaithful /\ [Next]_vars
          => WorkCheckpoints' /\ CheckpointsFaithful'
    BY WorkCheckpointsStep, CheckpointsStep
  <1>3. QED
    BY <1>1, <1>2, InductiveHolds, PTL DEF Spec

-----------------------------------------------------------------------------
(***************************************************************************)
(* Undo.  What a transaction undoes is decided by its key and by entries   *)
(* no younger than its base revision, which never change (UndoInv).  A     *)
(* caller that chose one of undo's own keys for another edit would break   *)
(* this: the theorem assumes that no key of Keys has their form.           *)
(***************************************************************************)
\* Every entry of the log is a record, within the current revision.
LEMMA LogEntries ==
  ASSUME TypeOK, VerifyPasses
  PROVE  /\ db.revision \in Nat
         /\ LogIndex(db) = 1..db.revision
         /\ \A i \in LogIndex(db) : db.log[i] \in Records
  BY AppendFacts DEF TypeOK, Tables, VerifyPasses, LogIndex

\* A key a caller chose is no key of undo.
LEMMA PlainUndoesNothing ==
  ASSUME Keys \cap (TxIds \X Nat) = {}, TypeOK, VerifyPasses,
         NEW tx \in Transactions, tx.key \in Keys
  PROVE  Undoes(tx)
  <1>1. \A j \in LogIndex(db) : UndoKey(db.log[j].tx.id, tx.base) \in TxIds \X Nat
    BY LogEntries DEF Records, Transactions
  <1>2. QED
    BY <1>1 DEF Undoes

\* The request that undo builds has the inverse of the command it names:
\* no other command has that ID.
LEMMA UndoRequestUndoes ==
  ASSUME TypeOK, VerifyPasses, AppliedOnce, NEW i \in LogIndex(db), NEW undoId
  PROVE  Undoes(UndoRequest(i, undoId))
  <1>1. \A j \in LogIndex(db) : db.log[j].tx.id = db.log[i].tx.id => j = i
    BY DEF AppliedOnce
  <1>2. QED
    BY <1>1 DEF Undoes, UndoRequest

\* What a transaction undoes does not change when a command enters.
LEMMA EntersUndoes ==
  ASSUME TypeOK, VerifyPasses, NEW tx \in Transactions, Enters(tx),
         NEW other, other.base \in Nat, other.base <= db.revision, Undoes(other)
  PROVE  Undoes(other)'
  <1>1. RecordOf(db, tx) \in Records /\ db.log \in Seq(Records)
    BY RecordOfType DEF TypeOK, Tables, Enters
  <1>2. /\ DOMAIN db.log = 1..db.revision
        /\ db.revision \in Nat
        /\ DOMAIN db'.log = 1..(db.revision + 1)
        /\ \A i \in DOMAIN db.log : db'.log[i] = db.log[i]
    BY <1>1, AppendFacts DEF Enters, VerifyPasses
  <1>3. \A j \in LogIndex(db') : j <= other.base => j \in LogIndex(db) /\ db'.log[j] = db.log[j]
    BY <1>2 DEF LogIndex
  <1>4. QED
    BY <1>3 DEF Undoes

\* Requests, outcomes and bases of the steps that leave the log alone.
LEMMA QuietUndo ==
  ASSUME UndoInv, Quiet,
         \A h \in Handles : stage'[h] # "idle" => Undoes(request'[h]),
         \A tx \in answered' \cup refused' : Undoes(tx)
  PROVE  UndoInv'
  <1>1. \A tx : Undoes(tx) => \A j \in LogIndex(db') :
          j <= tx.base /\ tx.key = UndoKey(db'.log[j].tx.id, tx.base) => tx.op = db'.log[j].inverse
    BY DEF Undoes, Quiet, LogIndex
  <1>2. QED
    BY <1>1 DEF UndoInv, Undoes, Quiet, LogIndex

LEMMA UndoStep ==
  ASSUME Keys \cap (TxIds \X Nat) = {}, Inductive, UndoInv, [Next]_vars
  PROVE  UndoInv'
  <1> USE DEF Inductive, TypeOK
  <1>0. ASSUME Quiet, UNCHANGED <<answered, refused>>,
               \A h \in Handles : stage'[h] # "idle" =>
                 \/ Undoes(request'[h])
                 \/ stage[h] # "idle" /\ request'[h] = request[h]
        PROVE  UndoInv'
    BY <1>0, QuietUndo DEF UndoInv
  \* A call that submits.
  <1>s. ASSUME NEW h \in Handles, Quiet, UNCHANGED <<answered, refused>>, Undoes(request'[h]),
                \A g \in Handles \ {h} : stage'[g] = stage[g] /\ request'[g] = request[g]
         PROVE  UndoInv'
    <2>1. ASSUME NEW g \in Handles, stage'[g] # "idle"
          PROVE  \/ Undoes(request'[g])
                 \/ stage[g] # "idle" /\ request'[g] = request[g]
      <3>1. CASE g = h
        BY <1>s, <3>1
      <3>2. CASE g # h
        BY <1>s, <2>1, <3>2
      <3>3. QED
        BY <3>1, <3>2
    <2>2. QED
      BY <1>0, <1>s, <2>1
  <1>1. CASE UNCHANGED vars
    BY <1>0, <1>1 DEF vars, Quiet
  <1>2. CASE CreateCheckpoint
    BY <1>0, <1>2 DEF CreateCheckpoint, Quiet, Tables
  <1>3. ASSUME NEW h \in Handles, Call(h) PROVE UndoInv'
    <2>1. ASSUME NEW intent \in Intents, Submit(h, intent) PROVE UndoInv'
      <3>1. request'[h] \in Transactions /\ request'[h].key \in Keys
        BY <2>1, ConstantsAssumption DEF Submit, Transactions, AllKeys, Tables
      <3>2. Undoes(request'[h])
        BY <3>1, PlainUndoesNothing
      <3>3. /\ Quiet /\ UNCHANGED <<answered, refused>>
            /\ \A g \in Handles \ {h} : stage'[g] = stage[g] /\ request'[g] = request[g]
        BY <2>1 DEF Submit, Quiet
      <3>4. QED
        BY <1>s, <3>2, <3>3
    <2>2. ASSUME NEW tx \in answered \cup refused, Resubmit(h, tx) PROVE UndoInv'
      <3>1. Undoes(request'[h])
        BY <2>2 DEF Resubmit, UndoInv
      <3>2. /\ Quiet /\ UNCHANGED <<answered, refused>>
            /\ \A g \in Handles \ {h} : stage'[g] = stage[g] /\ request'[g] = request[g]
        BY <2>2 DEF Resubmit, Quiet
      <3>3. QED
        BY <1>s, <3>1, <3>2
    <2>3. ASSUME NEW i \in LogIndex(db), NEW undoId \in UndoIds, SubmitUndo(h, i, undoId)
          PROVE  UndoInv'
      <3>1. request'[h] = UndoRequest(i, undoId)
        BY <2>3 DEF SubmitUndo
      <3>2. Undoes(request'[h])
        BY <3>1, UndoRequestUndoes
      <3>3. /\ Quiet /\ UNCHANGED <<answered, refused>>
            /\ \A g \in Handles \ {h} : stage'[g] = stage[g] /\ request'[g] = request[g]
        BY <2>3 DEF SubmitUndo, Quiet
      <3>4. QED
        BY <1>s, <3>2, <3>3
    <2>4. CASE GiveUp(h)
      BY <1>0, <2>4 DEF GiveUp, Finish, Quiet
    <2>5. QED
      BY <1>3, <2>1, <2>2, <2>3, <2>4 DEF Call
  <1>4. ASSUME NEW h \in Handles, Work(h), ~Commit(h) PROVE UndoInv'
    <2>1. CASE Replay(h) \/ Refuse(h) \/ Respond(h)
      <3>1. Quiet /\ stage[h] # "idle"
        BY <2>1 DEF Replay, Refuse, Respond, MayBegin, Quiet
      <3>2. \A tx \in answered' \cup refused' : tx \in answered \cup refused \/ tx = request[h]
        BY <2>1 DEF Replay, Refuse, Respond
      <3>3. \A g \in Handles : stage'[g] # "idle" => stage[g] # "idle" /\ request'[g] = request[g]
        BY <2>1 DEF Replay, Refuse, Respond, Finish
      <3>4. QED
        BY <3>1, <3>2, <3>3, QuietUndo DEF UndoInv
    <2>2. CASE Begin(h) \/ InsertCommand(h) \/ UpdateState(h) \/ InsertCheckpoint(h)
      BY <1>0, <2>2 DEF Begin, InsertCommand, UpdateState, InsertCheckpoint, MayBegin, Quiet
    <2>3. CASE Retry(h)
      <3>1. CASE UNCHANGED request
        BY <1>0, <2>3, <3>1 DEF Retry, Quiet
      <3>2. CASE ~UNCHANGED request
        <4>1. PICK i \in LogIndex(db) :
                request' = [request EXCEPT ![h] = UndoRequest(i, request[h].id)]
          BY <2>3, <3>2 DEF Retry
        <4>2. Undoes(request'[h])
          BY <4>1, UndoRequestUndoes
        <4>3. /\ Quiet /\ UNCHANGED <<answered, refused>>
              /\ \A g \in Handles \ {h} : stage'[g] = stage[g] /\ request'[g] = request[g]
          BY <2>3, <4>1 DEF Retry, Quiet
        <4>4. QED
          BY <1>s, <4>2, <4>3
      <3>3. QED
        BY <3>1, <3>2
    <2>4. QED
      BY <1>4, <2>1, <2>2, <2>3 DEF Work
  <1>5. ASSUME NEW h \in Handles, Commit(h) PROVE UndoInv'
    <2>1. /\ request[h] \in Transactions /\ Enters(request[h]) /\ stage[h] # "idle"
          /\ UNCHANGED <<request, answered, refused>>
          /\ \A g \in Handles : stage'[g] # "idle" => stage[g] # "idle"
      BY <1>5 DEF Commit, Enters, WorkInv, InTransaction
    <2>2. \A tx \in Transactions : tx.base <= db.revision /\ Undoes(tx) =>
            \A j \in LogIndex(db') :
              j <= tx.base /\ tx.key = UndoKey(db'.log[j].tx.id, tx.base) => tx.op = db'.log[j].inverse
      BY <2>1, EntersUndoes DEF Undoes, Transactions
    <2>3. /\ RecordOf(db, request[h]) \in Records /\ db.log \in Seq(Records)
          /\ RecordOf(db, request[h]).tx = request[h]
          /\ RecordOf(db, request[h]).inverse = Inverse(request[h].op, RecordOf(db, request[h]).before)
      BY <2>1, RecordOfType DEF Tables, Enters, RecordOf
    <2>4. /\ LogIndex(db') = 1..(db.revision + 1) /\ LogIndex(db) = 1..db.revision
          /\ db.revision \in Nat
          /\ \A i \in LogIndex(db) : db'.log[i] = db.log[i] /\ db.log[i] \in Records
          /\ db'.log[db.revision + 1] = RecordOf(db, request[h])
      BY <2>1, <2>3, AppendFacts DEF Enters, VerifyPasses, LogIndex
    <2>5. \A g \in Handles : stage'[g] # "idle" => Undoes(request[g])'
      BY <2>1, <2>2 DEF UndoInv, BaseInv, Undoes
    <2>6. \A tx \in answered' \cup refused' : Undoes(tx)'
      BY <2>1, <2>2 DEF UndoInv, BaseInv, Undoes
    <2>7. ASSUME NEW i \in LogIndex(db')
          PROVE  /\ Undoes(db.log[i].tx)'
                 /\ db'.log[i].inverse = Inverse(db'.log[i].tx.op, db'.log[i].before)
      <3>1. CASE i = db.revision + 1
        <4>1. db'.log[i].tx = request[h]
          BY <2>3, <2>4, <3>1
        <4>2. request[h].base <= db.revision /\ Undoes(request[h])
          BY <2>1 DEF BaseInv, UndoInv
        <4>3. /\ db'.log[i].inverse = Inverse(db'.log[i].tx.op, db'.log[i].before)
              /\ db'.log[i].tx = request[h]
          BY <2>3, <2>4, <3>1, <4>1
        <4>4. \A j \in LogIndex(db') :
                j <= request[h].base /\ request[h].key = UndoKey(db'.log[j].tx.id, request[h].base)
                  => request[h].op = db'.log[j].inverse
          BY <2>1, <2>2, <4>2
        <4>5. QED
          BY <4>3, <4>4 DEF Undoes
      <3>2. CASE i \in LogIndex(db)
        <4>1. db'.log[i] = db.log[i] /\ db.log[i].tx \in Transactions
          BY <2>4, <3>2 DEF Records
        <4>2. db.log[i].tx.base <= db.revision
          BY <2>4, <3>2 DEF VerifyPasses
        <4>3. QED
          BY <2>2, <3>2, <4>1, <4>2 DEF UndoInv, Undoes
      <3>3. QED
        BY <2>4, <3>1, <3>2
    <2>8. QED
      BY <2>5, <2>6, <2>7 DEF UndoInv
  <1>6. ASSUME NEW h \in Handles, Fail(h) PROVE UndoInv'
    BY <1>0, <1>6 DEF Fail, Rollback, LoseResponse, InTransaction, Quiet
  <1>7. QED
    BY <1>1, <1>2, <1>3, <1>4, <1>5, <1>6 DEF Next

\* The inverse that undo replays on the newest command is the one that was
\* made for it, on the document it left.
LEMMA UndoInvRestores ==
  ASSUME Inductive, UndoInv
  PROVE  UndoRestores
  <1> USE DEF Inductive
  <1> SUFFICES ASSUME NEW i \in LogIndex(db), i > 1,
                      db.log[i].tx.key = UndoKey(db.log[i - 1].tx.id, i - 1)
               PROVE  db.log[i].after = db.log[i - 1].before
    BY DEF UndoRestores
  <1>1. i - 1 \in LogIndex(db) /\ i \in Nat
    BY LogEntries
  <1> DEFINE undo == db.log[i]
             command == db.log[i - 1]
  <1>2. undo \in Records /\ command \in Records
    BY <1>1, LogEntries
  <1>3. undo.tx.base = i - 1 /\ undo.before = command.after
    BY <1>1 DEF VerifyPasses, DocumentAt
  <1>4. undo.tx.op = Inverse(command.tx.op, command.before)
    BY <1>1, <1>3 DEF UndoInv, Undoes
  <1>5. /\ command.after = Apply(command.tx.op, command.before)
        /\ undo.after = Apply(undo.tx.op, undo.before)
    BY <1>1 DEF VerifyPasses
  <1> HIDE DEF undo, command
  <1>6. command.tx.op \in Ops /\ command.before \in Docs /\ command.after \in Docs /\ undo.after \in Docs
    BY <1>2 DEF Records, Transactions
  <1>7. undo.after \in {command.before, Rejected}
    BY <1>3, <1>4, <1>5, <1>6, EngineAssumption, InverseAssumption
  <1>8. undo.after = command.before
    BY <1>6, <1>7, EngineAssumption
  <1>9. QED
    BY <1>8 DEF undo, command

\* Undo of the newest command brings back the document before it, for any
\* edit engine whose inverse restores what it was computed from, whatever
\* other handles committed between undo's reading and its transaction.
THEOREM UndoIsInverse ==
  ASSUME Keys \cap (TxIds \X Nat) = {}
  PROVE  Spec => []UndoRestores
  <1>1. Init => UndoInv
    BY DEF Init, Genesis, UndoInv, LogIndex
  <1>2. Inductive /\ UndoInv /\ [Next]_vars => UndoInv'
    BY UndoStep
  <1>3. Inductive /\ UndoInv => UndoRestores
    BY UndoInvRestores
  <1>4. QED
    BY <1>1, <1>2, <1>3, InductiveHolds, PTL DEF Spec
=============================================================================
