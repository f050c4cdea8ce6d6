SPECIFICATION FairSpec
CONSTANTS
  p1 = p1 p2 = p2
  Client = {c1, c2}
  Server = {s1, s2}
  Port = {p1, p2}
  None = None
  Interval = {0, 60}
  Default <- MCDefault
  Found <- MCFound
  MaxOps = 2
  MaxFaults = 1
INVARIANTS TypeOK OneServer StatusIsTrue ConfigInForce IntentIsFollowed
PROPERTIES AnswersAreTrue OperationsEnd
