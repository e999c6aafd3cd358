SPECIFICATION Spec
CONSTANTS
  a = a
  b = b
  Others <- TwoOthers
  Root = a
  NoParent = NoParent
  T_MIN = 1
  T_MAX = 3
  CLOCK_SECOND = 1
  TIMEOUT_PARENT = 7
  MaxLost = 1
  MaxRestarts = 1
INVARIANT TypeOK
INVARIANT NextDIOInTime
PROPERTY DetachHasCause
