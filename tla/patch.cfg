SPECIFICATION Spec
CONSTANTS
  MaxRuns = 4
  Absent = Absent
  Truncated = Truncated
  Damaged = Damaged
INVARIANTS
  CompleteCopyExists
  FailureRestores
  SavedOverBackup
