SPECIFICATION Spec
CONSTANTS
  Servers = {s1}
  Names = {n1, n2}
  None = None
  IdleTimeout = 1
  MaxLifetime = 2
  MaxIdentities = 2
  MaxSessions = 3
  Horizon = 4
SYMMETRY Interchangeable
INVARIANTS ShownIsStored SessionsShowFile
PROPERTIES WithinLimits
