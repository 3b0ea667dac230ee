SPECIFICATION Spec
CONSTANTS
  Tab = {a}
  Handler = {h1, h2}
  NoHandler = NoHandler
  CyclicEdits = {2}
  Destroys = {a}
  MaxEdits = 3
  MaxLoads = 2
  MaxFaults = 2
  MaxRetryRecovery = 1
  MaxAllowedApiErrors = 1
SYMMETRY Symmetry
INVARIANTS
  TypeOK
  SavedInOrder
  CompletedIsSavedUnlessCyclic
  PollerServesQueue
CHECK_DEADLOCK FALSE
