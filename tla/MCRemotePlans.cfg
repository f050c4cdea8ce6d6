CONSTANTS
  p1 = p1  p2 = p2  r1 = r1  r2 = r2  k1 = k1  k2 = k2  a = a  b = b
  None = None  Direct = Direct
  Plan <- MCPlan  Req <- MCReq  Key <- MCKey  View <- MCView
  MaxPlans = 1  MaxKeys = 1  MaxChanges = 1  MaxFaults = 1
  Overlap = FALSE
SPECIFICATION Spec
SYMMETRY Alike
INVARIANTS TypeOK AppliedOnceAndTruly InterruptedBlocks
CHECK_DEADLOCK FALSE
