SPECIFICATION Spec
CONSTANTS
  m1 = m1
  m2 = m2
  Requests <- MCRequests
  NoRequest = NoRequest
  Results = {v1, v2}
  Pending = Pending
  TicksPerSecond = 2
  MaxExpiryWindow = 1
  Skew = 1
  ReplayWindow = 3
  MaxStepBack = 2
  Horizon = 10
  MaxLog = 3
  MaxCrashes = 1
INVARIANTS
  
  AnsweredIsDurable
  SameAnswer
  RowsBackedByEffects
  IdReusedAfterWindow
  
PROPERTY
  ImplementsService
SYMMETRY ResultSymmetry
