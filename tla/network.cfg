SPECIFICATION FairSpec
CONSTANTS
  root = root
  a = a
  b = b
  NoAddr = NoAddr
  Null = Null
  Motes = {root, a, b}
  Root = root
  Sensors = {b}
  Neighbours <- Triangle
  HeapJunk <- AsRoot
  MapJunk <- AsA
  INITIAL_SIZE = 5
  MAX_CHAIN_LENGTH = 3
  MaxTable = 11
  MaxFaults = 1
INVARIANTS
  TypeOK
  HopsKnow
  OpenFindsHop
PROPERTIES
  RoutesLearned
