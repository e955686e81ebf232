SPECIFICATION Spec
CONSTANTS
  Tasks = {t1}
  Runs = {r1}
  Devices = {d1, d2}
  MaxEscalations = 0
  MaxAsked = 2
  MaxCrashes = 0
CHECK_DEADLOCK FALSE
PROPERTY CancelHolds
