\* Two workers; two channels of all four profiles; two sources and a bad URL.
SPECIFICATION Spec
CONSTANTS
  Workers = {w1, w2}
  Clients = {}
  Ids <- DistinctIds
  Urls = {u1, u2, bad}
  WellFormed = {u1, u2}
  NProfiles = 4
  PathHits <- MCPathHits
  RtspThreads = 1
  MaxRecords = 1
  NoUrl = NoUrl
  NoCall = NoCall
  NoThread = NoThread
  NoMount = NoMount
INVARIANT MountsMatchChannels
INVARIANT OneChannelPerSource
PROPERTY ImplementsRegistry
