SPECIFICATION Spec
CONSTANTS
  g1 = g1  g2 = g2  s1 = s1  s2 = s2
  Games <- MCGames
  Streams <- MCStreams
  gameOf <- MCGameOf
  seated <- MCSeated
  Reaper = Reaper
  NoGame = NoGame
  HistoryConns = 1
  RatingConns = 2
  MaxFaults = 1
CHECK_DEADLOCK FALSE
INVARIANTS TypeOK RecordsWhole ForgottenOnlyInARace WatchedIsKept
PROPERTIES FinishedIsRecorded
