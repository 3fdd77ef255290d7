\* Streams that close and come back, rejoins, the reaper, a stop;
\* without symmetry, which TLC cannot combine with liveness.
CONSTANTS
  p1 = p1
  p2 = p2
  None = None
  Players = {p1, p2}
  Kinds = {"auto_on", "auto_off"}
  Calls = {"close", "rejoin", "reap", "stop"}
  MaxPending = 1
  MaxStale = 2
  MaxStreams = 1
  MaxCalls = 4
SPECIFICATION Spec
PROPERTIES
  
  NobodyWaitsForever
