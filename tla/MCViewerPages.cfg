SPECIFICATION Spec
CONSTANTS
  SEED_CHARS = 2
  StoredBefore <- MCStoredBefore
  Endpoints <- MCEndpoints
  MaxEndpoints = 2
  Presets <- MCPresets
  Seeds <- MCSeeds
  Pictures <- MCPictures
  TakenNames <- MCTakenNames
  TakenOrgs <- MCTakenOrgs
  NameTexts <- MCNameTexts
  OrgTexts <- MCOrgTexts
  Bios <- MCBios
  Queries <- MCQueries
  Modules <- MCModules
  FieldTexts <- MCFieldTexts
  Ratings <- MCRatings
  ArchiveFiles <- MCArchiveFiles
  IconFiles <- MCIconFiles
  Switches = {code}
  MaxMarketDepth = 1
  MaxLookups = 2
CONSTRAINT IsSmall
INVARIANTS
  ViewsAreCurrent
  AnswersBelongToQuestion
  NothingLeftBehind
PROPERTIES
  ReloadKeepsSettings
