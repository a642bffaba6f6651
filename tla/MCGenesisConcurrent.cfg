SPECIFICATION Spec
CONSTANTS
  server = server
  cli = cli
  Processes <- MCProcesses
  Cli <- MCCli
  Operators = {o1, o2}
  OrgKeys = {k1, k2}
  Labels = {l1}
  Brandings = {}
  None = None
  Ttl = 1
  Window = 1
  Overlap = TRUE
  MaxChallenges = 2
  Horizon = 1
INVARIANTS VerifiedOnce OperatorProved
PROPERTIES InstanceStable BindingsKept
