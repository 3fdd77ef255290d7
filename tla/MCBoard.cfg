CONSTANTS
  A = A  B = B  bear = bear  veil = veil  bolt = bolt  ring = ring  t1 = t1
  None = None
  Players = {A, B}
  Cards = {bear, veil, ring, bolt}
  Tokens = {t1}
  OwnerOf <- MCOwner
  Kind <- MCKind
  InSideboard = {bolt}
  LegendName <- MCLegend
  Indestructible = {ring}
  TriggersOf <- MCTriggers
  Delve = {bear}
  Flashback = {bolt}
  Fast = {}
  OpeningHand = {bear, ring}
  MaxCalls = 3
  MaxStack = 2
  MaxDelayed = 1
SPECIFICATION Spec
INVARIANTS TypeOK ZonesSound SettledWhenAsked
