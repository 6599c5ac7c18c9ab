SPECIFICATION Spec
CONSTANTS
  Pieces <- MCPieces
  MaxPieces <- MCMaxPieces
  MaxDepth = 3
  IntMax = 9
  UintMax = 19
  Places = 2
  OutBuf = 6
  Handles = {x, y}
  Strings <- MCStrings
  MaxBuffers = 2
  MaxItems = 30
  MaxGrowth = 7
  RemainLimit = 8
  Variables = {x, y}
  Scalars <- MCScalars
  Keys = {"k"}
  MaxIndex = 1
  UrlPieces <- MCUrlPieces
  MaxUrlPieces = 4
  Names <- MCNames
  MaxPairs = 2
  UriPieces <- MCUriPieces
  MaxUriPieces = 6
CHECK_DEADLOCK FALSE
INVARIANTS
  TypeOK
  AcceptedIsJson
  ReloadsSame
  TrimKeepsValue
  ReadsAgree
  OneOwner
  RoomCounted
  LastWriteShows
  GetFindsFirst
  PartsAreOfAuthority
PROPERTIES
  PopRemovesWhatItReturns
