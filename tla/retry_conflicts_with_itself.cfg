SPECIFICATION Spec
CONSTANTS
  Tab = {a}
  Handler = {h1, h2}
  NoHandler = NoHandler
  CyclicEdits = {}
  Destroys = {}
  MaxEdits = 1
  MaxLoads = 1
  MaxFaults = 1
  MaxRetryRecovery = 0
  MaxAllowedApiErrors = 0
SYMMETRY Symmetry
INVARIANTS
  MismatchMeansForeignEdit
CHECK_DEADLOCK FALSE
