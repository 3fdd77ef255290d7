\* Concessions, agreed draws and players who leave.
CONSTANTS
  p1 = p1
  p2 = p2
  None = None
  Players = {p1, p2}
  Kinds = {"yes", "concede_request", "draw_offer", "accept"}
  Calls = {"leave"}
  MaxPending = 2
  MaxStale = 2
  MaxStreams = 1
  MaxCalls = 5
SPECIFICATION Spec
SYMMETRY Symmetry
INVARIANTS
  TypeOK
  GameFitsPlayers
  OutcomeIsMeant
