SPECIFICATION FairSpec
CONSTANTS
  ActionStreams = {first, second, third}
  StateStreams = {resumed}
  NoStream = none
  first = first
  second = second
  third = third
  resumed = resumed
  none = none
  MaxEvents = 2
  MaxPending = 1
  MaxLog = 1
INVARIANTS TypeOK NoGapNoRepeat
PROPERTY EventsArrive
CHECK_DEADLOCK FALSE
