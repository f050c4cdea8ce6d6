SPECIFICATION Spec
CONSTANTS
  Proc = {gui, cli}
  Viewer = {gui}
  NFiles = 2
  old = old new = new ext = ext absent = absent
  a = a b = b
  Bytes <- MCBytes
  Absent = absent
  ExtBytes = {ext, absent}
  Conn = {a, b}
  Draft = {d1}
  TempDraft = {}
  Receipt = {r1, r2}
  Input <- CreateInput
  Policy = {"revert"}
  Builtin = TRUE
  InitConns <- MCInitOne
  InitCurrent = a
  None = None
  MaxRev = 2
  MaxFaults = 1
  MaxEdits = 1
  InWindow = FALSE
SYMMETRY MCReceiptSymmetry
PROPERTIES OnlyRecordedBytesReplaced ConsumedDraftIsThePlanned
