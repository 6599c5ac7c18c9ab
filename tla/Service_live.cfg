\* Liveness: no symmetry.
SPECIFICATION FairSpec
CONSTANTS
  Workers = {w1, w2}
  Clients = {c1, c2}
  Ids <- OneId
  Urls = {u1}
  WellFormed = {u1}
  NProfiles = 1
  PathHits <- MCPathHits
  RtspThreads = 1
  MaxRecords = 1
  NoUrl = NoUrl
  NoCall = NoCall
  NoThread = NoThread
  NoMount = NoMount
PROPERTY CallsReturn
PROPERTY CallbacksRun
PROPERTY SeveredClientsLeave
