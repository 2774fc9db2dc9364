CONSTANTS
  boot = boot
  ensure = ensure
  api = api
  NoStart = NoStart
  Callers = {boot, ensure, api}
  Starters = {boot, ensure}
  MaxFreezes = 2
  RunIds = {"r1", "r2"}
  SymbolOf <- RunSymbols
  RunLimit = 1
  MaxLessons = 2
  LessonLimit = 1
  MaxLearned = 4
  Readers = {b1, b2}
  Free = Free
  MaxChanges = 2
  Editors = {b1, b2}
  Listable = {"BTC"}
  Intervals = {1, 2}
  MaxEdits = 3
SPECIFICATION RuntimeFairSpec
INVARIANTS
  QuietAfterStop
  
  CloseIsShown
  ScheduleCurrent
PROPERTIES
  ContractKept
  ReconcileEnds
  GapFreezes
CHECK_DEADLOCK FALSE
