SPECIFICATION Spec
CONSTANTS
  cardA = cardA
  cardB = cardB
  Cards <- MCCards
  Blank = Blank
  UidBytes = 2
  BlockBytes = 2
  Blocks = 1
  MaxWrites = 2
  Overlap = TRUE
  EarlyTicks = FALSE
INVARIANT ReplyInStep
