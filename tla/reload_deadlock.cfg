SPECIFICATION FairSpec
CONSTANTS
  t1 = t1
  t2 = t2
  host = host
  nobody = nobody
  Threads <- MCOneThread
  Host = host
  NoOwner = nobody
  MaxWrites = 3
  MaxGen = 3
  Leftover <- MCLeftover
  QueueBlocks = TRUE
PROPERTY AutoSwap
CHECK_DEADLOCK FALSE
