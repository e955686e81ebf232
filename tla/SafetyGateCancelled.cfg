SPECIFICATION Spec
CONSTANTS
  Actions = {a1}
  MaxCrashes = 1
  LegacyWaitFor = FALSE
INVARIANT CancelledNeverRuns
