\* Channels cam1 and cam10.
SPECIFICATION Spec
CONSTANTS
  Workers = {w1}
  Clients = {c1}
  Ids <- PrefixIds
  Urls = {u1, u2}
  WellFormed = {u1, u2}
  NProfiles = 2
  PathHits <- MCPathHits
  RtspThreads = 1
  MaxRecords = 1
  NoUrl = NoUrl
  NoCall = NoCall
  NoThread = NoThread
  NoMount = NoMount
PROPERTY OnlyOwnClientsSevered
