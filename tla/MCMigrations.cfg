SPECIFICATION FairSpec
CONSTANTS
  Processes = {server, cli}
  Script <- RepositoryScript
INVARIANTS RecordedIsApplied UpHasSchema
PROPERTIES EveryoneComesUp
