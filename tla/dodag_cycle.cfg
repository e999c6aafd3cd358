SPECIFICATION Spec
CONSTANTS
  root = root
  a = a
  b = b
  c = c
  NoAddr = NoAddr
  Null = Null
  Motes = {root, a, b}
  Root = root
  Neighbours <- Triangle
  INFINITE_RANK = 4
  Rss <- OneRss
  RSS_THRESHOLD = 3
  HeapJunk <- NoJunk
  MaxQueue = 1
  MaxFaults = 1
INVARIANTS
  NoCycle
