SPECIFICATION Spec
CONSTANTS
  Daemon = {d1, d2}
  user = user admin = admin
  Client = {user, admin}
  Goals <- MCGoals
  Op = {o1, o2}
  None = None
  MaxPolls = 2
  MaxFaults = 1
SYMMETRY MCSymmetry
INVARIANTS TypeOK ServingIsReachable NoLockIsLeaked OneChangeAtATime
