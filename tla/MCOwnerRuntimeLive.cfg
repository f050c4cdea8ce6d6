SPECIFICATION FairSpec
CONSTANTS
  Daemon = {d1}
  user = user admin = admin
  Client = {user}
  Goals <- MCAllGoals
  Op = {o1, o2}
  None = None
  MaxPolls = 2
  MaxFaults = 1
PROPERTY CommandsReturn
