SPECIFICATION FairSpec
CONSTANTS
  FrameLen = 3
  TxCap = 7
  Kinds <- MCKinds
  TouchMax = 5
  CtlMax = 2
  Width = 2
  Files <- MCFiles
  Cursors <- MCCursors
  Budgets <- MCBudgets
  MaxOpens = 2
INVARIANTS
  TypeOK
  PollsAnsweredOnce
  NoGhostPress
PROPERTY TouchFollowsFile
CHECK_DEADLOCK FALSE
