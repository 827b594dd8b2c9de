\* Two operations in one or two transactions, and up to three operations and
\* undos in all.
SPECIFICATION Spec
CONSTANTS
  Actors <- MCActors
  InitialDocuments <- MCDocuments
  SpareClips <- MCSpareClips
  SpareTracks <- MCSpareTracks
  SpareLocks <- MCSpareLocks
  SpareObjects <- MCSpareObjects
  Starts = {0, 1, 3}
  Durations = {1, 2}
  SplitIds = {"r1"}
  Patches <- MCPatches
  Offered <- MCOffered
  MaxOperations = 2
  MaxSteps = 3
INVARIANTS
  UndoRestores
  UndoAccepted
  ProtectedStays
  CutsAreExact
CHECK_DEADLOCK FALSE
