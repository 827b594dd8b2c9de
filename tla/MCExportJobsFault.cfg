\* A store write fails after the commit.
CONSTANTS
  j1 = j1  j2 = j2   wide = wide  tall = tall
  Nobody = Nobody
  Jobs <- MCJobs
  Presets <- MCPresets
  MaxRevision = 0
  MaxCrashes = 0
  MaxFaults = 1
  MaxOutside = 0
SPECIFICATION Spec
CHECK_DEADLOCK FALSE
INVARIANT ReportedFilesExist
