SPECIFICATION Spec
CONSTANTS
  MIN_BALLS = 3
  MAX_BALLS = 4
  SEED_BALLS = 4
  MERGE_BLEND = 1
  SPLIT_COOLDOWN = 2
  Columns = 5
  Rows = 5
  LifeSeeds <- Seeds
  MIN_POPULATION = 3
  STAGNANT_GENS_LIMIT = 1
  MAX_GENS_BEFORE_RESEED = 3
  WallColumns = 2
  Walls <- SomeWalls
  StartGap = 2
INVARIANTS OneLoopWhileShown 
PROPERTIES WaitsEnd
