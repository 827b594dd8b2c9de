\* Two handles and two revisions: every caller that insists gets its answer, checkpoints hold what
\* the log holds, and undo restores.
CONSTANTS
  t1 = t1  t2 = t2  u1 = u1 
  k1 = k1  k2 = k2
  h1 = h1  h2 = h2
  a = a  b = b
  Rejected = Rejected
  Nobody = Nobody
  Handles <- MCHandles
  TxIds <- MCTxIds
  Keys <- MCKeys
  Docs <- MCDocs
  GenesisDoc <- MCGenesis
  Ops <- MCOps
  Apply <- MCApply
  Inverse <- MCInverse
  Intents <- MCPlainIntents
  UndoIds <- MCSharedUndoIds
  CheckpointInterval = 2
  MaxRevision = 2
  MaxFailures = 1
SPECIFICATION FairSpec
INVARIANTS Inductive CheckpointsFaithful UndoRestores
PROPERTY CallsSettle
