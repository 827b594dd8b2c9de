\* A deletion taken back before a later one.
SPECIFICATION Spec
CONSTANTS
  Media = "m"
  None = None
  Words <- MCWords
  Texts <- MCTexts
  Recognised <- MCRecognised
  Fillers <- MCFillers
  MaybeFillers <- MCNothing
  Silences <- MCSilences
  Handle = 1
  LeastSilence = 1
  LongestFiller = 1
  MaxRepetition = 2
  WindowWords = 3
  WindowOverlap = 2
  MostFindings = 4
  Pause = 2
  SentenceEnds <- MCFillers
  Decodable = 7
  CueCharacters = 4
  CueDuration = 6
  CueGap = 2
  Corrections <- MCNothing
  MediaLength = 8
  Detected <- MCDetected
  LocalReviews <- MCSuggested
  AgentReviews <- MCAgentSuggested
  AgentEdits <- MCNoEdits
  MaxSelection = 1
  MaxRevision = 3
CHECK_DEADLOCK FALSE
INVARIANT ReviewReadable
