SPECIFICATION Spec
CONSTANTS
  Proc = {gui}
  Viewer = {}
  NFiles = 2
  old = old new = new ext = ext absent = absent
  a = a b = b
  Bytes <- MCBytes
  Absent = absent
  ExtBytes = {ext}
  Conn = {a, b}
  Draft = {d1, d2}
  TempDraft = {d2}
  Receipt = {r1, r2, r3}
  Input <- BothInput
  Policy = {"abort", "save"}
  Builtin = TRUE
  InitConns <- MCInitConns
  InitCurrent = a
  None = None
  MaxRev = 1
  MaxFaults = 2
  MaxEdits = 1
  InWindow = FALSE
SYMMETRY MCReceiptSymmetry
INVARIANTS TypeOK HistoryIsSound SettledIsInStep
PROPERTIES ReportsAreTrue DriftSavedWhenInStep ImplementsAtomicConfig
