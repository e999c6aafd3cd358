SPECIFICATION FairStableSpec
CONSTANTS
  root = root
  a = a
  b = b
  c = c
  NoAddr = NoAddr
  Null = Null
  Motes = {root, a, b, c}
  Root = root
  Neighbours <- Down
  INFINITE_RANK = 4
  Rss <- SmallRss
  RSS_THRESHOLD = 3
  HeapJunk <- NoJunk
  MaxQueue = 1
  MaxFaults = 0
INVARIANTS
  RanksDescend
  NeverTooClose
  ReachesRoot
PROPERTIES
  NeverWorse
  FormsTree
  ShortestPaths
  ParentsSettle
