SPECIFICATION FairSpec
CONSTANTS
  Tab = {a}
  Handler = {h1, h2}
  NoHandler = NoHandler
  CyclicEdits = {}
  Destroys = {}
  MaxEdits = 2
  MaxLoads = 2
  MaxFaults = 2
  MaxRetryRecovery = 1
  MaxAllowedApiErrors = 1
PROPERTIES
  EditsSettle
CHECK_DEADLOCK FALSE
