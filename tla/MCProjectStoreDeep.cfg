\* Run by hand: one handle and three revisions, so that an undo is undone.
CONSTANTS
  t1 = t1  t2 = t2  u1 = u1 
  k1 = k1  k2 = k2
  h1 = h1  h2 = h2
  a = a  b = b
  Rejected = Rejected
  Nobody = Nobody
  Handles <- MCOneHandle
  TxIds <- MCTxIds
  Keys <- MCKeys
  Docs <- MCDocs
  GenesisDoc <- MCGenesis
  Ops <- MCOps
  Apply <- MCApply
  Inverse <- MCInverse
  Intents <- MCPlainIntents
  UndoIds <- MCSharedUndoIds
  CheckpointInterval = 2
  MaxRevision = 3
  MaxFailures = 1
SPECIFICATION Spec
INVARIANTS Inductive CheckpointsFaithful UndoRestores
