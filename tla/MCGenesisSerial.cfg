SPECIFICATION Spec
CONSTANTS
  server = server
  cli = cli
  Processes <- MCProcesses
  Cli <- MCCli
  Operators = {o1, o2}
  OrgKeys = {k1, k2}
  Labels = {l1, l2}
  Brandings = {b1}
  None = None
  Ttl = 2
  Window = 1
  Overlap = FALSE
  MaxChallenges = 2
  Horizon = 2
INVARIANTS CompletionBacked NoOrphanBinding
PROPERTIES  ImplementsGenesis
