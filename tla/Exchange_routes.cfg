SPECIFICATION Spec
CONSTANTS
  Methods <- MCMethods
  Build <- Validated
  Search <- Find
  Routes <- MCRoutes
  Urls <- MCUrls
  Manners <- MCManners
  MaxRules = 3
  IntMax = 9
  UintMax = 19
  StreamThreshold = 4
  StatusSize = 2
  FileSize = 3
CHECK_DEADLOCK FALSE
INVARIANTS
  TypeOK
  RoutedAsDeclared
  AnsweredOnce
  CodesAgree
  AllowTellsMethods
  LengthTold
