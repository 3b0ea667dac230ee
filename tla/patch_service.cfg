SPECIFICATION Spec
CONSTANTS
  t1 = t1
  t2 = t2
  t3 = t3
  t4 = t4
  t5 = t5
  t6 = t6
  t7 = t7
  NoTx = NoTx
  Tx = {t1, t2, t3, t4, t5, t6, t7}
  Cyclic = {t2}
  AssetTx = {t3, t4}
  PreviewTx = {t1, t3}
  Importer = {i1}
  Handler = {h1, h2}
  Request <- MCRequest
INVARIANTS
  TypeOK
  SnapshotMatchesVersion
  AppliedOnce
  SavedAssetsApplied
  AcceptedWasSaved
  PreviewWasSaved
PROPERTIES
  CommitsExtendLog
  ImplementsBuildLog
CHECK_DEADLOCK FALSE
