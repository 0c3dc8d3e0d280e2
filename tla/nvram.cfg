SPECIFICATION Spec
CONSTANTS
  d1 = d1
  ff = ff
  zz = zz
  Data <- MCData
  Erased = ff
  Zero = zz
  uu = uu
  Unset = uu
  SramSize = 2
  MaxTransfer = 2
  MaxBank = 1
  MaxRestarts = 1
INVARIANTS
  TypeOK
  RegServedValid
PROPERTY ActsAsHardware
