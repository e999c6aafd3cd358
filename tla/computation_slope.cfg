SPECIFICATION Spec
CONSTANTS
  a = a
  b = b
  c = c
  Motes <- OneMote
  NoAddr = NoAddr
  Values <- TwoValues
  MAX_NB_COMPUTED = 1
  MAX_NB_VALUES = 6
  MIN_NB_VALUES_COMPUTE = 5
  SLOPE_THRESHOLD = 0
  TIMEOUT_DATA = 1
  RETRANSMISSION = 1
PROPERTY OpensOnRise
