CONSTANTS
  p1 = p1  p2 = p2  r1 = r1  r2 = r2  k1 = k1  k2 = k2  a = a  b = b
  None = None  Direct = Direct
  Plan <- MCPlan  Req <- MCReq  Key <- MCKey  View <- MCView
  MaxPlans = 2  MaxKeys = 1  MaxChanges = 0  MaxFaults = 0
  Overlap = FALSE
SPECIFICATION Spec
PROPERTY StaleNeverApplied
CHECK_DEADLOCK FALSE
