SPECIFICATION FairSpec
CONSTANTS
  Scripts <- RequestScripts
  Routes <- RouteUrls
  Streamed <- StreamedUrls
  MaxHeader = 60
  UllMax = 199
CHECK_DEADLOCK FALSE
INVARIANTS
  TypeOK
  DeliveredAsSent
PROPERTIES
  RequestsEnd
