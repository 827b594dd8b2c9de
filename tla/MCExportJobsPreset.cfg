\* A restart adopts the report of another preset.
CONSTANTS
  j1 = j1  j2 = j2   wide = wide  tall = tall
  Nobody = Nobody
  Jobs <- MCJobs
  Presets <- MCPresets
  MaxRevision = 0
  MaxCrashes = 1
  MaxFaults = 0
  MaxOutside = 0
SPECIFICATION Spec
CHECK_DEADLOCK FALSE
INVARIANT DeliversItsPreset
