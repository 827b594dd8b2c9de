---------------------------- MODULE ProjectStore ----------------------------
(***************************************************************************)
(* The command log of packages/project-store/src/project-store.ts: commit, *)
(* undo and createCheckpoint over one SQLite file that several open        *)
(* handles (request handlers, processes) share.                            *)
(*                                                                         *)
(* A document is opaque here: Apply and Inverse stand for applyTransaction *)
(* of the edit engine, and an operation is a whole operations list.  The   *)
(* durable file is the record db; the open BEGIN IMMEDIATE transaction     *)
(* works on a private copy, work, that replaces db at COMMIT and is        *)
(* dropped by ROLLBACK or by the death of the process.                     *)
(***************************************************************************)
EXTENDS Integers, Sequences, FiniteSets

CONSTANTS
  Handles,            \* open ProjectStore handles, each with at most one call
  TxIds,              \* transaction IDs
  Keys,               \* idempotency keys chosen by callers
  Docs, GenesisDoc,   \* project documents, and the one the store was created with
  Ops,                \* operation lists
  Apply(_, _),        \* Apply(op, doc): the edited document, or Rejected
  Inverse(_, _),      \* Inverse(op, doc): the inverse list recorded with op
  Rejected,           \* the edit engine threw: nothing to apply
  Nobody,             \* no handle, no request, no undo target
  Intents,            \* what callers submit through commit
  UndoIds,            \* the transaction IDs callers pass to undo
  CheckpointInterval, \* a checkpoint every so many revisions
  MaxRevision,        \* bound: revisions a behaviour may commit
  MaxFailures         \* bound: injected failures, lost responses and crashes

VARIABLES
  db,        \* the durable SQLite tables
  work,      \* the same tables as the open write transaction sees them
  writer,    \* the handle that holds the write lock, or Nobody
  stage,     \* where each handle is in its call
  request,   \* the transaction each handle submits
  undoing,   \* the command a handle undoes, or Nobody for a plain commit
  answered,  \* transactions a caller was told are committed
  refused,   \* transactions a caller was told are not
  failures   \* failures so far

vars == <<db, work, writer, stage, request, undoing, answered, refused, failures>>

-----------------------------------------------------------------------------
(***************************************************************************)
(* Data.  Undo derives its idempotency key from the target and the         *)
(* revision it read, so those keys are pairs.                              *)
(***************************************************************************)
UndoKey(target, revision) == <<target, revision>>

AllKeys == Keys \cup (TxIds \X Nat)

Transactions == [id: TxIds, key: AllKeys, base: Nat, op: Ops]

Records == [tx: Transactions, before: Docs, after: Docs, inverse: Ops, committed: Nat]

Checkpoints == [revision: Nat, document: Docs]

Tables == [revision: Nat, document: Docs, log: Seq(Records), checkpoints: SUBSET Checkpoints]

ASSUME EngineAssumption ==
  /\ GenesisDoc \in Docs
  /\ Rejected \notin Docs
  /\ \A op \in Ops, d \in Docs : Apply(op, d) \in Docs \cup {Rejected}
  /\ \A op \in Ops, d \in Docs : Apply(op, d) # Rejected => Inverse(op, d) \in Ops

\* An inverse list, when it still applies, restores the document it was
\* computed from.  It may be refused: a lock can forbid the edit by then.
ASSUME InverseAssumption ==
  \A op \in Ops, d \in Docs :
    Apply(op, d) # Rejected => Apply(Inverse(op, d), Apply(op, d)) \in {d, Rejected}

ASSUME ConstantsAssumption ==
  /\ Nobody \notin Handles
  /\ Nobody \notin TxIds
  /\ Intents \subseteq [id: TxIds, key: Keys, op: Ops]
  /\ UndoIds \subseteq TxIds
  /\ CheckpointInterval \in Nat \ {0}
  /\ MaxRevision \in Nat
  /\ MaxFailures \in Nat

LogIndex(tables) == DOMAIN tables.log

KeyUsed(tables, key) == \E i \in LogIndex(tables) : tables.log[i].tx.key = key

IdUsed(tables, id) == \E i \in LogIndex(tables) : tables.log[i].tx.id = id

Committed(tables, tx) == \E i \in LogIndex(tables) : tables.log[i].tx = tx

\* Mutants of Admissible: one check of commit dropped.
AdmissibleAnyId(tables, tx) ==
  ~KeyUsed(tables, tx.key) /\ tx.base = tables.revision /\ Apply(tx.op, tables.document) # Rejected

AdmissibleStale(tables, tx) ==
  ~KeyUsed(tables, tx.key) /\ ~IdUsed(tables, tx.id) /\ Apply(tx.op, tables.document) # Rejected

AdmissibleUnapplied(tables, tx) ==
  ~KeyUsed(tables, tx.key) /\ ~IdUsed(tables, tx.id) /\ tx.base = tables.revision

\* What commit computes once no replay and no conflict was found.
Admissible(tables, tx) ==
  /\ ~KeyUsed(tables, tx.key)
  /\ ~IdUsed(tables, tx.id)
  /\ tx.base = tables.revision
  /\ Apply(tx.op, tables.document) # Rejected

RecordOf(tables, tx) ==
  [tx        |-> tx,
   before    |-> tables.document,
   after     |-> Apply(tx.op, tables.document),
   inverse   |-> Inverse(tx.op, tables.document),
   committed |-> tables.revision + 1]

\* INSERT ... ON CONFLICT(revision) DO UPDATE
Upserted(tables, checkpoint) ==
  {c \in tables.checkpoints : c.revision # checkpoint.revision} \cup {checkpoint}

CheckpointOf(tables) == [revision |-> tables.revision, document |-> tables.document]

Genesis ==
  [revision    |-> 0,
   document    |-> GenesisDoc,
   log         |-> <<>>,
   checkpoints |-> {[revision |-> 0, document |-> GenesisDoc]}]

-----------------------------------------------------------------------------
Stages == {"idle", "ready", "applied", "inserted", "updated", "checkpointed",
           "committed", "lost"}

InTransaction == {"applied", "inserted", "updated", "checkpointed"}

Init ==
  /\ db = Genesis
  /\ work = Genesis
  /\ writer = Nobody
  /\ stage = [h \in Handles |-> "idle"]
  /\ request = [h \in Handles |-> Nobody]
  /\ undoing = [h \in Handles |-> Nobody]
  /\ answered = {}
  /\ refused = {}
  /\ failures = 0

-----------------------------------------------------------------------------
(***************************************************************************)
(* Calls.  A caller plans on the revision it reads and submits later; undo *)
(* reads the command and the snapshot outside any transaction.             *)
(***************************************************************************)
Submit(h, intent) ==
  /\ stage[h] = "idle"
  /\ db.revision < MaxRevision
  /\ request' = [request EXCEPT ![h] =
       [id |-> intent.id, key |-> intent.key, base |-> db.revision, op |-> intent.op]]
  /\ undoing' = [undoing EXCEPT ![h] = Nobody]
  /\ stage' = [stage EXCEPT ![h] = "ready"]
  /\ UNCHANGED <<db, work, writer, answered, refused, failures>>

\* A caller, or a proxy, sends a transaction again that was already decided.
Resubmit(h, tx) ==
  /\ stage[h] = "idle"
  /\ tx \in answered \cup refused
  /\ request' = [request EXCEPT ![h] = tx]
  /\ undoing' = [undoing EXCEPT ![h] = Nobody]
  /\ stage' = [stage EXCEPT ![h] = "ready"]
  /\ UNCHANGED <<db, work, writer, answered, refused, failures>>

\* Mutant of UndoRequest: the operations of the command itself.
UndoRequestForward(i, undoId) ==
  [id   |-> undoId,
   key  |-> UndoKey(db.log[i].tx.id, db.revision),
   base |-> db.revision,
   op   |-> db.log[i].tx.op]

UndoRequest(i, undoId) ==
  [id   |-> undoId,
   key  |-> UndoKey(db.log[i].tx.id, db.revision),
   base |-> db.revision,
   op   |-> db.log[i].inverse]

SubmitUndo(h, i, undoId) ==
  /\ stage[h] = "idle"
  /\ db.revision < MaxRevision
  /\ request' = [request EXCEPT ![h] = UndoRequest(i, undoId)]
  /\ undoing' = [undoing EXCEPT ![h] = db.log[i].tx.id]
  /\ stage' = [stage EXCEPT ![h] = "ready"]
  /\ UNCHANGED <<db, work, writer, answered, refused, failures>>

\* The caller never learned what became of its call.  A commit is sent again
\* as it was; undo is called again, which reads the snapshot again.
Retry(h) ==
  /\ stage[h] = "lost"
  /\ stage' = [stage EXCEPT ![h] = "ready"]
  /\ \/ /\ undoing[h] = Nobody
        /\ UNCHANGED request
     \/ \E i \in LogIndex(db) :
          /\ db.log[i].tx.id = undoing[h]
          /\ request' = [request EXCEPT ![h] = UndoRequest(i, request[h].id)]
  /\ UNCHANGED <<db, work, writer, undoing, answered, refused, failures>>

\* The call is over for its caller.
Finish(h) ==
  /\ stage' = [stage EXCEPT ![h] = "idle"]
  /\ request' = [request EXCEPT ![h] = Nobody]
  /\ undoing' = [undoing EXCEPT ![h] = Nobody]

GiveUp(h) ==
  /\ stage[h] = "lost"
  /\ Finish(h)
  /\ UNCHANGED <<db, work, writer, answered, refused, failures>>

-----------------------------------------------------------------------------
(***************************************************************************)
(* commit.  BEGIN IMMEDIATE waits for the write lock; until COMMIT nobody  *)
(* else writes, so what the call reads is one state of db.                 *)
(***************************************************************************)
\* Mutants of MayBegin: BEGIN that takes no lock, and one that also gives way
\* to every other call that waits.
MayBeginDeferred(h) == stage[h] = "ready"

MayBeginPolite(h) ==
  /\ stage[h] = "ready"
  /\ writer = Nobody
  /\ \A g \in Handles \ {h} : stage[g] # "ready"

MayBegin(h) ==
  /\ stage[h] = "ready"
  /\ writer = Nobody

\* The key is in the log with this payload: the original record is returned.
Replay(h) ==
  /\ MayBegin(h)
  /\ Committed(db, request[h])
  /\ answered' = answered \cup {request[h]}
  /\ Finish(h)
  /\ UNCHANGED <<db, work, writer, refused, failures>>

\* Mutant of Refuse: the conflict checks come before the replay.
RefuseFirst(h) ==
  /\ MayBegin(h)
  /\ ~Admissible(db, request[h])
  /\ refused' = refused \cup {request[h]}
  /\ Finish(h)
  /\ UNCHANGED <<db, work, writer, answered, failures>>

\* IDEMPOTENCY_CONFLICT, REVISION_CONFLICT, or an error of the edit engine.
Refuse(h) ==
  /\ MayBegin(h)
  /\ ~Committed(db, request[h])
  /\ ~Admissible(db, request[h])
  /\ refused' = refused \cup {request[h]}
  /\ Finish(h)
  /\ UNCHANGED <<db, work, writer, answered, failures>>

Begin(h) ==
  /\ MayBegin(h)
  /\ ~Committed(db, request[h])
  /\ Admissible(db, request[h])
  /\ writer' = h
  /\ work' = db
  /\ stage' = [stage EXCEPT ![h] = "applied"]
  /\ UNCHANGED <<db, request, undoing, answered, refused, failures>>

InsertCommand(h) ==
  /\ stage[h] = "applied"
  /\ work' = [work EXCEPT !.log = Append(@, RecordOf(db, request[h]))]
  /\ stage' = [stage EXCEPT ![h] = "inserted"]
  /\ UNCHANGED <<db, writer, request, undoing, answered, refused, failures>>

UpdateState(h) ==
  /\ stage[h] = "inserted"
  /\ work' = [work EXCEPT !.revision = RecordOf(db, request[h]).committed,
                          !.document = RecordOf(db, request[h]).after]
  /\ stage' = [stage EXCEPT ![h] = "updated"]
  /\ UNCHANGED <<db, writer, request, undoing, answered, refused, failures>>

\* Mutant of InsertCheckpoint: the snapshot read before the transaction.
InsertCheckpointStale(h) ==
  /\ stage[h] = "updated"
  /\ work' = IF work.revision % CheckpointInterval = 0
               THEN [work EXCEPT !.checkpoints = Upserted(work, [CheckpointOf(work) EXCEPT !.document = db.document])]
               ELSE work
  /\ stage' = [stage EXCEPT ![h] = "checkpointed"]
  /\ UNCHANGED <<db, writer, request, undoing, answered, refused, failures>>

InsertCheckpoint(h) ==
  /\ stage[h] = "updated"
  /\ \/ /\ work.revision % CheckpointInterval = 0
        /\ work' = [work EXCEPT !.checkpoints = Upserted(work, CheckpointOf(work))]
     \/ /\ work.revision % CheckpointInterval # 0
        /\ UNCHANGED work
  /\ stage' = [stage EXCEPT ![h] = "checkpointed"]
  /\ UNCHANGED <<db, writer, request, undoing, answered, refused, failures>>

Commit(h) ==
  /\ stage[h] = "checkpointed"
  /\ db' = work
  /\ writer' = Nobody
  /\ stage' = [stage EXCEPT ![h] = "committed"]
  /\ UNCHANGED <<work, request, undoing, answered, refused, failures>>

Respond(h) ==
  /\ stage[h] = "committed"
  /\ answered' = answered \cup {request[h]}
  /\ Finish(h)
  /\ UNCHANGED <<db, work, writer, refused, failures>>

-----------------------------------------------------------------------------
(***************************************************************************)
(* Failures.  An exception before COMMIT rolls back, and SQLite rolls back *)
(* the transaction of a process that dies; an exception or a death after   *)
(* COMMIT only loses the response.  A full disk is an exception, and so is *)
(* a BEGIN that waited for the lock longer than the busy timeout.          *)
(***************************************************************************)
\* Mutant of Rollback: statements outside a transaction.
RollbackNothing(h) ==
  /\ stage[h] \in InTransaction
  /\ failures < MaxFailures
  /\ failures' = failures + 1
  /\ db' = work
  /\ writer' = Nobody
  /\ stage' = [stage EXCEPT ![h] = "lost"]
  /\ UNCHANGED <<work, request, undoing, answered, refused>>

Rollback(h) ==
  /\ stage[h] \in InTransaction
  /\ failures < MaxFailures
  /\ failures' = failures + 1
  /\ work' = db
  /\ writer' = Nobody
  /\ stage' = [stage EXCEPT ![h] = "lost"]
  /\ UNCHANGED <<db, request, undoing, answered, refused>>

LoseResponse(h) ==
  /\ stage[h] \in {"ready", "committed"}
  /\ failures < MaxFailures
  /\ failures' = failures + 1
  /\ stage' = [stage EXCEPT ![h] = "lost"]
  /\ UNCHANGED <<db, work, writer, request, undoing, answered, refused>>

\* Mutant of CreateCheckpoint: a connection that ignores the lock.
CreateCheckpointUnlocked ==
  /\ db' = [db EXCEPT !.checkpoints = Upserted(db, CheckpointOf(db))]
  /\ work' = db'
  /\ UNCHANGED <<writer, stage, request, undoing, answered, refused, failures>>

\* createCheckpoint: one transaction of its own at the current revision.
CreateCheckpoint ==
  /\ writer = Nobody
  /\ db' = [db EXCEPT !.checkpoints = Upserted(db, CheckpointOf(db))]
  /\ work' = db'
  /\ UNCHANGED <<writer, stage, request, undoing, answered, refused, failures>>

-----------------------------------------------------------------------------
Call(h) ==
  \/ \E intent \in Intents : Submit(h, intent)
  \/ \E tx \in answered \cup refused : Resubmit(h, tx)
  \/ \E i \in LogIndex(db), undoId \in UndoIds : SubmitUndo(h, i, undoId)
  \/ GiveUp(h)

\* The steps the store itself takes, and the caller's insistence on an answer.
Work(h) ==
  \/ Replay(h)
  \/ Refuse(h)
  \/ Begin(h)
  \/ InsertCommand(h)
  \/ UpdateState(h)
  \/ InsertCheckpoint(h)
  \/ Commit(h)
  \/ Respond(h)
  \/ Retry(h)

Fail(h) == Rollback(h) \/ LoseResponse(h)

Next ==
  \/ CreateCheckpoint
  \/ \E h \in Handles : Call(h) \/ Work(h) \/ Fail(h)

Spec == Init /\ [][Next]_vars

FairSpec == Spec /\ \A h \in Handles : WF_vars(Work(h))
-----------------------------------------------------------------------------
(***************************************************************************)
(* Properties.                                                             *)
(***************************************************************************)

\* Every variable has its type, and a call under way has a transaction.
TypeOK ==
  /\ db \in Tables
  /\ work \in Tables
  /\ writer \in Handles \cup {Nobody}
  /\ stage \in [Handles -> Stages]
  /\ request \in [Handles -> {Nobody} \cup Transactions]
  /\ \A h \in Handles : stage[h] # "idle" => request[h] \in Transactions
  /\ undoing \in [Handles -> TxIds \cup {Nobody}]
  /\ answered \subseteq Transactions
  /\ refused \subseteq Transactions
  /\ failures \in 0..MaxFailures

DocumentAt(tables, n) == IF n = 0 THEN GenesisDoc ELSE tables.log[n].after

\* verify(): replaying every committed operation list from the first
\* checkpoint reproduces each recorded document and the current one, and the
\* committed revisions have no gap, whatever failures and concurrent handles
\* did in between.
VerifyPasses ==
  /\ db.revision = Len(db.log)
  /\ db.document = DocumentAt(db, db.revision)
  /\ \A i \in LogIndex(db) :
       /\ db.log[i].committed = i
       /\ db.log[i].tx.base = i - 1
       /\ db.log[i].before = DocumentAt(db, i - 1)
       /\ db.log[i].after = Apply(db.log[i].tx.op, db.log[i].before)

\* No transaction is applied twice, however often it is retried after a lost
\* response: transaction IDs and idempotency keys are unique in the log.
AppliedOnce ==
  \A i, j \in LogIndex(db) :
    \/ db.log[i].tx.id = db.log[j].tx.id
    \/ db.log[i].tx.key = db.log[j].tx.key
    => i = j

\* What commit answered is true and stays true: a transaction reported as
\* committed is in the durable log, and one reported as refused never enters
\* it, also when it is sent again, so that no caller is told both.
AnswersHold ==
  /\ \A tx \in answered : Committed(db, tx)
  /\ \A tx \in refused : ~Committed(db, tx)

\* Every checkpoint, automatic or explicit, holds the document the log has at
\* its revision: recovery from any of them meets the same history.
CheckpointsFaithful ==
  /\ \A c \in db.checkpoints : c.revision \in 0..db.revision /\ c.document = DocumentAt(db, c.revision)
  /\ \A c, d \in db.checkpoints : c.revision = d.revision => c = d
  /\ \A n \in 0..db.revision :
       n % CheckpointInterval = 0 => \E c \in db.checkpoints : c.revision = n

\* undo() of the newest command brings back the document before it, although
\* it reads the command and the revision before its transaction begins.
UndoRestores ==
  \A i \in LogIndex(db) :
    /\ i > 1
    /\ db.log[i].tx.key = UndoKey(db.log[i - 1].tx.id, i - 1)
    => db.log[i].after = db.log[i - 1].before

\* One step adds at most one command, at the end, and rewrites none.
LogAppendOnly ==
  [][ /\ Len(db'.log) \in {Len(db.log), Len(db.log) + 1}
      /\ \A i \in LogIndex(db) : db'.log[i] = db.log[i]
      /\ db'.revision >= db.revision ]_vars

\* Handles, lock, transactions and failures are invisible to callers: the log
\* is a ledger that takes each edit whole and once, in the state between two
\* others that its caller had seen.  An edit enters it when COMMIT returns.
Ledger == INSTANCE EditLedger WITH
  Edits        <- Transactions,
  asked        <- {request[h] : h \in {g \in Handles : stage[g] # "idle"}},
  ledger       <- [i \in DOMAIN db.log |-> db.log[i].tx],
  head         <- db.document,
  acknowledged <- answered,
  denied       <- refused

ImplementsLedger == Ledger!LedgerSpec

\* A caller that insists is told the outcome in the end: no failure leaves
\* the write lock held or a call without an answer.
CallsSettle == \A h \in Handles : stage[h] = "ready" ~> stage[h] = "idle"
-----------------------------------------------------------------------------
(***************************************************************************)
(* The inductive invariant behind the theorems of ProjectStoreProofs.      *)
(***************************************************************************)

\* Only the writer is inside a transaction.
WriterInv == \A h \in Handles : stage[h] \in InTransaction <=> writer = h

\* What the open transaction has written so far, on a state of db nobody else
\* can have changed since the call decided that its request is admissible.
WorkInv ==
  \A h \in Handles : stage[h] \in InTransaction =>
    /\ Admissible(db, request[h])
    /\ work.log = IF stage[h] = "applied" THEN db.log ELSE Append(db.log, RecordOf(db, request[h]))
    /\ stage[h] \in {"updated", "checkpointed"} =>
         /\ work.revision = db.revision + 1
         /\ work.document = Apply(request[h].op, db.document)

\* Nobody plans on a revision that does not exist yet.
BaseInv ==
  /\ \A h \in Handles : stage[h] # "idle" => request[h].base <= db.revision
  /\ \A tx \in answered \cup refused : tx.base <= db.revision

\* A call past COMMIT has its record, and a refused transaction can never be
\* admitted again: its key or ID is taken, or its revision is history, or the
\* document it was refused on is still the current one.
OutcomeInv ==
  /\ \A h \in Handles : stage[h] = "committed" => Committed(db, request[h])
  /\ \A tx \in answered : Committed(db, tx)
  /\ \A tx \in refused : ~Committed(db, tx) /\ ~Admissible(db, tx)

Inductive ==
  TypeOK /\ WriterInv /\ WorkInv /\ BaseInv /\ OutcomeInv /\ VerifyPasses /\ AppliedOnce

\* The open transaction stores a checkpoint with its last write, of the state
\* it is about to commit, and until then has those of db.
WorkCheckpoints ==
  \A h \in Handles : stage[h] \in InTransaction =>
    work.checkpoints = IF stage[h] = "checkpointed" /\ (db.revision + 1) % CheckpointInterval = 0
                       THEN Upserted(db, CheckpointOf(work)) ELSE db.checkpoints

\* A transaction whose key says that it undoes an earlier command has the
\* inverse of that command, and the inverse is the one the engine made.
Undoes(tx) ==
  \A j \in LogIndex(db) :
    j <= tx.base /\ tx.key = UndoKey(db.log[j].tx.id, tx.base) => tx.op = db.log[j].inverse

UndoInv ==
  /\ \A h \in Handles : stage[h] # "idle" => Undoes(request[h])
  /\ \A tx \in answered \cup refused : Undoes(tx)
  /\ \A i \in LogIndex(db) :
       /\ Undoes(db.log[i].tx)
       /\ db.log[i].inverse = Inverse(db.log[i].tx.op, db.log[i].before)
=============================================================================
