SPECIFICATION Spec
CONSTANTS
  Requests <- MCRequests
  Controls <- MCControls
  BoardId <- MCBoardId
  StartCoins = {0, 255, 16382}
  ReadSizes = {9, 512}
  MaxPresses = 2
INVARIANTS
  TypeOK
  
  NoCoinInvented
