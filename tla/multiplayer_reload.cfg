SPECIFICATION Spec
CONSTANTS
  Tab = {a}
  MaxEdits = 1
  MaxFaults = 1
  MaxInFlight = 1
INVARIANTS
  UnsavedUntilSettled
CHECK_DEADLOCK FALSE
