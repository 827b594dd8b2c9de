\* A page with three writes of two scopes: a decision and an export at once, and
\* the export asked for again. Nothing is built and no credential rotates.
SPECIFICATION Spec
CONSTANTS
  Recordings = {"b"}
  Playable = {"b"}
  Runs = {}
  Outputs <- MCOutputs
  StreamLength = 3
  MaxStarts = 0
  MaxEdits = 0
  Browsers = {}
  Requests = {}
  MaxGeneration = 1
  MaxPairings = 0
  None = None
  Nothing = Nothing
  Candidates = {"high"}
  HighRisk = {"high"}
  Presets = {"source"}
  MaxRevision = 1
  MaxSent = 3
  MaxPreviews = 0
  Unset = Unset
CHECK_DEADLOCK FALSE
INVARIANT OneJobEach
