SPECIFICATION FairSpec
CONSTANTS
  Players = {ann, bob, cay}
  ann = ann
  bob = bob
  cay = cay
  elo <- ratings
  MaxQueue = 2
  MaxGames = 1
  MaxIds = 2
  MaxWait = 1
INVARIANTS TypeOK PlayersAccounted
CHECK_DEADLOCK FALSE
PROPERTY NoTwoWaitForever
