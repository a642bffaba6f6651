SPECIFICATION FairSpec
CONSTANTS
  m1 = m1
  m2 = m2
  Requests <- MCRivalRequests
  NoRequest = NoRequest
  Results = {v1}
  Pending = Pending
  TicksPerSecond = 1
  MaxExpiryWindow = 2
  Skew = 1
  ReplayWindow = 3
  MaxStepBack = 0
  Horizon = 4
  MaxLog = 2
  MaxCrashes = 2
PROPERTY
  EffectIsAnswered
