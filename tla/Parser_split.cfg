SPECIFICATION Spec
CONSTANTS
  Scripts <- SplitScripts
  Routes <- RouteUrls
  Streamed <- StreamedUrls
  MaxHeader = 60
  UllMax = 199
CHECK_DEADLOCK FALSE
INVARIANT
  KnownUrlsFound
