SPECIFICATION Spec
CONSTANTS
  d1 = d1
  d2 = d2
  Device <- MCDevice
  First <- MCFirst
  Known <- MCKnown
  Reader = {d1}
  None = None
  Half = Half
  Blank = Blank
  MaxEdits = 1
  MaxFaults = 0
PROPERTIES LocalRowsKept
