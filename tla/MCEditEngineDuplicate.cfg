\* A transaction adds a track whose clip has an id in use, moves that clip to the
\* old track and removes the old track; then it is undone.
SPECIFICATION Spec
CONSTANTS
  Actors <- MCActors
  InitialDocuments <- MCPlainDocument
  SpareClips <- MCSpareClips
  SpareTracks <- MCCopyingTracks
  SpareLocks <- MCSpareLocks
  SpareObjects <- MCSpareObjects
  Starts = {0, 1, 3}
  Durations = {1, 2}
  SplitIds = {"r1"}
  Patches <- MCPatches
  Offered = {"track.add", "track.remove", "clip.move"}
  MaxOperations = 3
  MaxSteps = 4
INVARIANT UndoAlwaysRestores
CHECK_DEADLOCK FALSE
