SPECIFICATION Spec
CONSTANTS
  Session = {s1, s2}
  Call = {c1, c2}
  pages = pages
  styles = styles
  Namespace = {pages, styles}
  Operation <- Contracts
  NoSnapshot = NoSnapshot
  Nobody = Nobody
  BusyRetries = 1
  MaxEdits = 1
  MaxFaults = 1
SYMMETRY Symmetry
INVARIANTS
  TypeOK
  ContentIsTrue
  ReportsAreTrue
  NotSavedTwiceInARow
  WrittenIsShown
  KnownFileIsInMemory
CHECK_DEADLOCK FALSE
