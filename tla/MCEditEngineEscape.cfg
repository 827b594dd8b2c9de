\* One transaction of one clip.update on the document whose source range is locked.
SPECIFICATION Spec
CONSTANTS
  Actors <- MCActors
  InitialDocuments <- MCDocuments
  SpareClips <- MCSpareClips
  SpareTracks <- MCSpareTracks
  SpareLocks <- MCSpareLocks
  SpareObjects <- MCSpareObjects
  Starts = {0, 1, 3}
  Durations = {1, 2}
  SplitIds = {"r1"}
  Patches <- MCPatches
  Offered = {"clip.update"}
  MaxOperations = 1
  MaxSteps = 2
INVARIANT SourceLocksHold
CHECK_DEADLOCK FALSE
