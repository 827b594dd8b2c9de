\* Two exports, edits and two crashes, in any place; every export settles.
CONSTANTS
  j1 = j1  j2 = j2   wide = wide  tall = tall
  Nobody = Nobody
  Jobs <- MCJobs
  Presets <- MCPresets
  MaxRevision = 1
  MaxCrashes = 2
  MaxFaults = 0
  MaxOutside = 0
SPECIFICATION FairSpec
CHECK_DEADLOCK FALSE
INVARIANTS ReportedFilesExist RegisteredMeansSucceeded
PROPERTY JobsSettle
