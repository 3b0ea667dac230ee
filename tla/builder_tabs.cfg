SPECIFICATION Spec
CONSTANTS
  Tab = {a, b}
  Handler = {h1, h2}
  NoHandler = NoHandler
  CyclicEdits = {}
  Destroys = {}
  MaxEdits = 2
  MaxLoads = 2
  MaxFaults = 1
  MaxRetryRecovery = 1
  MaxAllowedApiErrors = 1
SYMMETRY Symmetry
INVARIANTS
  SavedOnWhatWasSeen
  CompletedIsSaved
  IdleMeansSaved
CHECK_DEADLOCK FALSE
