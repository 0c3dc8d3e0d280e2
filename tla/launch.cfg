SPECIFICATION Spec
CONSTANTS
  c1 = c1
  c2 = c2
  worker = worker
  nobody = nobody
  Clis <- MCClis
  Worker = worker
  Nobody = nobody
  MaxGames = 2
  MaxWindows = 2
  CloseAnytime = FALSE
  ReadersBlock = FALSE
  SlowLaunch = FALSE
SYMMETRY MCSymmetry
INVARIANTS
  TypeOK
  OneGame
  WaitTellsTruth
  
