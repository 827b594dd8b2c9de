\* One candidate under trial, two revisions, four events; or two collectors,
\* three runs of them, two projects.
SPECIFICATION Spec
CONSTANTS
  None = None
  StaleAfter = 1
  Candidates = {"c1"}
  Suggested = {}
  Sessions = {"s1"}
  Baselines = {"m1"}
  Verdicts = {"good"}
  EnrolledAt = 1
  MaxClock = 2
  MaxBack = 1
  MaxRevision = 2
  MaxJobs = 1
  MaxEvents = 4
  Absent = Absent
  RequiredProjects = 2
  RequiredClasses = {"accent", "vfr"}
  RequiredOperators = 1
  c1 = c1  c2 = c2
  Collectors <- MCCollectors
  Cohorts = {"a", "b", "r"}
  Projects = {"p", "q"}
  SourceOf <- MCSources
  Authorized0 <- MCMarkers
  FiguresOf <- MCFigures
  ClassesOf <- MCClasses
  Clipped = {"p", "q"}
  MaxRuns = 3
  MaxEdits = 1
SYMMETRY MCSymmetry
INVARIANTS CountsOnlyRunning BundleAccepted JudgedAsExported RegisteredAsProved PassedMeansTrusted
CHECK_DEADLOCK FALSE
