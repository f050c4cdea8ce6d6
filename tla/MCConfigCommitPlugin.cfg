SPECIFICATION FairSpec
CONSTANTS
  Proc = {gui}
  Viewer = {}
  NFiles = 2
  old = old new = new ext = ext absent = absent
  a = a b = b
  Bytes <- MCBytes
  Absent = absent
  ExtBytes = {ext}
  Conn = {a, b}
  Draft = {d1}
  TempDraft = {}
  Receipt = {r1, r2}
  Input <- SwitchInput
  Policy = {"revert"}
  Builtin = FALSE
  InitConns <- MCInitConns
  InitCurrent = a
  None = None
  MaxRev = 1
  MaxFaults = 1
  MaxEdits = 1
  InWindow = FALSE
PROPERTY InterruptedIsSettled
