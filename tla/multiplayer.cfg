SPECIFICATION Spec
CONSTANTS
  Tab = {a, b}
  MaxEdits = 2
  MaxFaults = 2
  MaxInFlight = 1
SYMMETRY Symmetry
INVARIANTS
  TypeOK
  ReportsAreTrue
  NothingHangs
  RetryArmed
  IdleMeansSettled
  SequencedInOrder
CHECK_DEADLOCK FALSE
