\* Two workers, two clients and two RTSP threads, each SETUP done up to twice.
SPECIFICATION Spec
CONSTANTS
  Workers = {w1, w2}
  Clients = {c1, c2}
  Ids <- OneId
  Urls = {u1, u2}
  WellFormed = {u1, u2}
  NProfiles = 2
  PathHits <- MCPathHits
  RtspThreads = 2
  MaxRecords = 2
  NoUrl = NoUrl
  NoCall = NoCall
  NoThread = NoThread
  NoMount = NoMount
SYMMETRY Symmetry
INVARIANT TypeOK
INVARIANT IInv
INVARIANT RecordsAreOfCurrentClients
PROPERTY UnmountedAfterRecordsGone
