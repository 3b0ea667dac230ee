SPECIFICATION Spec
CONSTANTS
  Tab = {a}
  Handler = {h1, h2}
  NoHandler = NoHandler
  CyclicEdits = {2}
  Destroys = {}
  MaxEdits = 3
  MaxLoads = 1
  MaxFaults = 1
  MaxRetryRecovery = 0
  MaxAllowedApiErrors = 0
SYMMETRY Symmetry
INVARIANTS
  CompletedIsSaved
CHECK_DEADLOCK FALSE
