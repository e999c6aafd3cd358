SPECIFICATION Spec
CONSTANTS
  a = a
  b = b
  Motes <- TwoMotes
  Values <- TwoValues
  MAX_VALUES = 3
  MIN_VALUES = 2
  THRESHOLD = 2
  TIMEOUT = 3
  RETRANSMISSION = 2
  MaxTime = 7
  Arrivals <- Seconds
  Short <- Inexact
INVARIANT TypeOK
INVARIANT DictionariesAgree
PROPERTY EndsWithCause
PROPERTY ImplementsWindows
PROPERTY OpensOnSlope
SYMMETRY Symmetry
CHECK_DEADLOCK FALSE
