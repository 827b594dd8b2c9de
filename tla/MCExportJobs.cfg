\* Two exports, edits, a crash, two failed store writes, a commit from outside.
CONSTANTS
  j1 = j1  j2 = j2   wide = wide  tall = tall
  Nobody = Nobody
  Jobs <- MCJobs
  Presets <- MCPresets
  MaxRevision = 1
  MaxCrashes = 1
  MaxFaults = 2
  MaxOutside = 1
SPECIFICATION Spec
CHECK_DEADLOCK FALSE
INVARIANTS CancelledRegistersNothing DeliversAsAsked
PROPERTIES PublishKeepsFiles
