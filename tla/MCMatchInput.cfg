SPECIFICATION InputSpec
CONSTANTS
  Mine <- Own
  Theirs <- Other
  Hand <- Cards
  Lands = {"forest"}
  Offers <- Asks
  MaxPrompts = 2
  MaxReplays = 1
  Nothing = "nothing"
INVARIANT InputTypeOK
INVARIANT AnswerFits
INVARIANT AnsweredOnce
