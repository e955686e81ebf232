SPECIFICATION FairSpec
CONSTANTS
  Tasks = {t1}
  Runs = {r1, r2}
  Long = {r1}
  Far = {d2}
  Devices = {d1, d2}
  MaxEscalations = 1
  MaxAsked = 2
  MaxCrashes = 1
ACTION_CONSTRAINT Few
CHECK_DEADLOCK FALSE
INVARIANTS TypeOK TaskInv UndisturbedRow AskedForEachRun CompletedWasExecuted
PROPERTY RunsEnd
