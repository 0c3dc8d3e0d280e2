SPECIFICATION Spec
CONSTANTS
  MaxRuns = 2
  MaxLines = 2
  Chunk = 3
  Keep = 2
  Drop = 1
  Said <- MCSaid
  Words <- MCWords
  Heights <- MCHeights
  Budgets <- MCBudgets
INVARIANTS
  TypeOK
  ShownIsTheRun
  ViewIsFiltered
  FollowsTheEnd
PROPERTIES
  MarkStaysPut
  EveryLineShown
CHECK_DEADLOCK FALSE
