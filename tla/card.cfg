SPECIFICATION FairSpec
CONSTANTS
  cardA = cardA
  cardB = cardB
  Cards <- MCCards
  Blank = Blank
  UidBytes = 2
  BlockBytes = 2
  Blocks = 1
  MaxWrites = 2
  Overlap = FALSE
  EarlyTicks = FALSE
INVARIANTS
  TypeOK
  ReplyInStep
  CardFollowsControl
PROPERTY ReplyComes
