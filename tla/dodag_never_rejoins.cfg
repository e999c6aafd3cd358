SPECIFICATION FairSpec
CONSTANTS
  root = root
  a = a
  b = b
  c = c
  NoAddr = NoAddr
  Null = Null
  Motes = {root, a}
  Root = root
  Neighbours <- PairG
  INFINITE_RANK = 4
  Rss <- OneRss
  RSS_THRESHOLD = 3
  HeapJunk <- NoJunk
  MaxQueue = 1
  MaxFaults = 1
PROPERTIES
  Rejoins
