SPECIFICATION Spec
CONSTANTS
  Tab = {a}
  Handler = {h1, h2}
  NoHandler = NoHandler
  CyclicEdits = {}
  Destroys = {a}
  MaxEdits = 2
  MaxLoads = 2
  MaxFaults = 0
  MaxRetryRecovery = 0
  MaxAllowedApiErrors = 0
SYMMETRY Symmetry
INVARIANTS
  IdleMeansSaved
CHECK_DEADLOCK FALSE
