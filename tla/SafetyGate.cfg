SPECIFICATION Spec
CONSTANTS
  Actions = {a1, a2}
  MaxCrashes = 2
  LegacyWaitFor = FALSE
SYMMETRY ActionSymmetry
INVARIANTS TypeOK GateInv PendingMatchesStore WaitersAreReachable ExpiredNeverRuns
INVARIANTS AtMostOnce RunsOnlyOnConsent OneExecutor
PROPERTIES StatusIsFinal ImplementsContract
