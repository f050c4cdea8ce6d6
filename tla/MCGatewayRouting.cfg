SPECIFICATION FairSpec
CONSTANTS
  c1 = c1  c2 = c2  r1 = r1  timer = timer  manual = manual  None = None
  Channel = {c1, c2}
  Request = {r1}
  Prober = {timer, manual}
  Timer = timer
  Rank <- MCRank
  Kinds <- MCKinds
  Serves <- MCServes
  Starts <- MCStarts
  MaxChanges = 1
INVARIANTS TypeOK HealthIsTrue NoneIsPassedOver
PROPERTIES NeverSentAgain HealthConverges TurnsEnd
