\* Two builds of one project at a time, of two recordings, up to three started;
\* a Studio with two browsers and three rotations; and a page of it with two
\* writes, one of a high risk, and a preview.
SPECIFICATION Spec
CONSTANTS
  Recordings = {"a", "b"}
  Playable = {"b"}
  Runs = {"r1", "r2"}
  Outputs <- MCOutputs
  StreamLength = 3
  MaxStarts = 3
  MaxEdits = 1
  Browsers = {"x", "y"}
  Requests = {"q1", "q2", "q3"}
  MaxGeneration = 3
  MaxPairings = 3
  None = None
  Nothing = Nothing
  Candidates = {"high"}
  HighRisk = {"high"}
  Presets = {"source"}
  MaxRevision = 2
  MaxSent = 2
  MaxPreviews = 1
  Unset = Unset
CHECK_DEADLOCK FALSE
INVARIANTS FilesAsRegistered TranscribedOnce ResultStands RotationsChained
  NoBlindRepeat AsShown
