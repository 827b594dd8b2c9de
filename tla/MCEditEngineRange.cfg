\* One transaction of one operation on the document whose range [2, 3) is locked.
SPECIFICATION Spec
CONSTANTS
  Actors <- MCActors
  InitialDocuments <- MCDocuments
  SpareClips <- MCSpareClips
  SpareTracks <- MCSpareTracks
  SpareLocks <- MCSpareLocks
  SpareObjects <- MCSpareObjects
  Starts = {0, 1, 3}
  Durations = {1, 2}
  SplitIds = {"r1"}
  Patches <- MCPatches
  Offered <- MCOffered
  MaxOperations = 1
  MaxSteps = 3
INVARIANT LockedRangeUntouched
CHECK_DEADLOCK FALSE
