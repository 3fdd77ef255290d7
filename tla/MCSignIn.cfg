SPECIFICATION Spec
CONSTANTS
  ann = ann
  bob = bob
  Nobody = Nobody
  Names <- Users
  AccessTtl = 2
  RefreshTtl = 3
  RateLimit = 2
  MaxTime = 2
  MaxOthers = 1
  MaxCalls = 3
  MaxStarts = 2
SYMMETRY Symmetry
INVARIANT TypeOK
INVARIANT EndedStaysEnded
INVARIANT SceneFitsSession
