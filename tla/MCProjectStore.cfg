\* Two handles race, fail and retry; keys and IDs are reused.
CONSTANTS
  t1 = t1  t2 = t2  u1 = u1 
  k1 = k1  k2 = k2
  h1 = h1  h2 = h2
  a = a  b = b
  Rejected = Rejected
  Nobody = Nobody
  Handles <- MCHandles
  TxIds <- MCTxIds
  Keys <- MCKeys
  Docs <- MCDocs
  GenesisDoc <- MCGenesis
  Ops <- MCOps
  Apply <- MCApply
  Inverse <- MCInverse
  Intents <- MCIntents
  UndoIds <- MCUndoIds
  CheckpointInterval = 2
  MaxRevision = 2
  MaxFailures = 2
SPECIFICATION Spec
SYMMETRY Symmetry
INVARIANTS TypeOK VerifyPasses AppliedOnce AnswersHold
PROPERTIES LogAppendOnly ImplementsLedger
