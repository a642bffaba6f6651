SPECIFICATION EntitySpec
CONSTANTS
  Names = {n1}
  Core = core
  Identities = {i1, i2}
  Keys = {k1, k2}
  Dials = {r1, r2}
  Documents = {doc}
  Metas = {m1}
  Priorities = {0, 1}
  None = None
  Omitted = Omitted
  Cleared = Cleared
  MaxDials = 4
  Times = {1, 2}
  Phases = {running}
  Handles = {h1}
  Logos = {l1}
  Images = {p1}
  Texts = {t1}
SYMMETRY Interchangeable
CONSTRAINT IsSmall
INVARIANTS PrimaryRouteInSync DialsByOwner StateByOwner GenesisInStep
PROPERTIES OwnersFixed
