\* Pass 1 over trees of .h/.cpp files and trees of .td files: every include
\* graph, every order.
CONSTANTS
  a = a
  b = b
  c = c
  t = t
  p = p
  NoFile = NoFile
  Scanned <- MCScanned
  TDChoices <- MCTDChoices
  Templates <- MCTemplates
  Placeholders <- MCPlaceholders
  IncludeGraphs <- MCAllGraphs
  UserSeq <- MCUserSeq
  AllFiles <- MCAllFiles
  Tmpls <- MCTmpls
  TmplName <- MCTmplName
  Raws <- MCRaws
  DotTok = "."
  DotDot = ".."
  Unresolved = Unresolved
  TdBase <- MCTdBase
SYMMETRY MCSymmetry
SPECIFICATION RunSpec
INVARIANT TypeOK
INVARIANT NoAbort
INVARIANT FrontierExact
INVARIANT BackRefsExact
INVARIANT ResolveAsSpecified
INVARIANT TdListsReach
PROPERTY ImplementsPass1
\* Pass 1 ends once every file is processed or an assert has fired.
CHECK_DEADLOCK FALSE
