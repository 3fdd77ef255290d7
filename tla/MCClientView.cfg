SPECIFICATION ViewSpec
CONSTANTS
  Me = "me"
  Opponent = "opponent"
  Owner <- Owners
  Kind <- Kinds
  InHand <- Hand
  Life <- Lives
  MaxTold = 2
  MaxLosses = 1
INVARIANT ViewTypeOK
 
INVARIANT PromptShown
CHECK_DEADLOCK FALSE
