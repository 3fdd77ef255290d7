\* Three players, the fewest for which turn order and the count of passes
\* can go wrong in different ways.
CONSTANTS
  N = 3
  MaxStack = 2
SPECIFICATION Spec
INVARIANTS
  TypeOK
  PhasesBeginSettled
PROPERTIES
  PriorityGoesRound
  RuleSpec
  StoppedGameEnds
