SPECIFICATION Spec
CONSTANTS
  a = a
  b = b
  c = c
  Motes <- ThreeMotes
  NoAddr = NoAddr
  Values <- TwoValues
  MAX_NB_COMPUTED = 2
  MAX_NB_VALUES = 3
  MIN_NB_VALUES_COMPUTE = 2
  SLOPE_THRESHOLD = 0
  TIMEOUT_DATA = 1
  RETRANSMISSION = 1
SYMMETRY MoteSymmetry
INVARIANT TypeOK
INVARIANT OneSlotPerMote
PROPERTY ImplementsWindows
PROPERTY OpensExactly
