\* A SETUP races with the removal of its channel.
SPECIFICATION Spec
CONSTANTS
  Workers = {w1}
  Clients = {c1}
  Ids <- OneId
  Urls = {u1}
  WellFormed = {u1}
  NProfiles = 4
  PathHits <- MCPathHits
  RtspThreads = 1
  MaxRecords = 1
  NoUrl = NoUrl
  NoCall = NoCall
  NoThread = NoThread
  NoMount = NoMount
PROPERTY DisconnectedBeforeUnmount
