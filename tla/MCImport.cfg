SPECIFICATION Spec
CONSTANTS
  Files <- MCFiles
  Opens <- MCOpens
  Parses <- MCParses
  Document <- MCDocument
  ParserDiagnostics <- MCParserDiagnostics
  CanonicalOf <- MCCanonical
  ModelDiagnostics <- MCReports
  SectionCount = 8
  AuthorSection <- MCSection
  AuthorDiagnostics <- ImporterDiagnostics
  Posted <- Warnings
  NoDocument = NoDocument
  NoStage = NoStage
  NoLayer = NoLayer
  Words <- MCWords
  Lower <- MCLower
  Cap = 8
  Controls = {"NUL", "TAB"}
  Schemes = {"C:"}
  None = None
  Limit = 2
INVARIANTS
  ReadIsAllOrNothing
  PostedOnce
  ReferencesResolve
  FallbacksAreReported
PROPERTIES
  ReadReturns
CHECK_DEADLOCK FALSE
