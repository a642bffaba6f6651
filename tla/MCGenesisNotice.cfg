SPECIFICATION Spec
CONSTANTS
  modulr = modulr
  Operators = {k1, k2}
  Labels = {modulr}
  Dotted = {dotted}
  Default = modulr
  Cores = {c1, c2}
  OpsAllowed = {c1, c2}
  None = None
  MaxCalls = 2
  MaxChallenges = 2
SYMMETRY Interchangeable
CONSTRAINT IsSmall
INVARIANTS ShownIsOfThisCore  BusyIsInFlight
