SPECIFICATION Spec
CONSTANTS
  P = P
  Q = Q
  a1 = a1
  a2 = a2
  b1 = b1
  b2 = b2
  Seats <- MCSeats
  Active = P
  Creatures = {a1, a2, b1, b2}
  Controller <- MCController
  Power <- MCPower
  Toughness <- MCToughness
  Printed <- MCPrinted
  Protected <- MCProtected
  Shunned = {}
  Life = 2
  Given = {"Trample"}
  MaxPairs = 2
  MaxEffects = 2
INVARIANT TypeOK
PROPERTIES DeclarationsFit DamageFitsCombat
