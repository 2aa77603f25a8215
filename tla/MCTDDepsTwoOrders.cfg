\* A .td file in a tree of headers, processed in two orders.
CONSTANTS
  a = a
  b = b
  c = c
  t = t
  p = p
  NoFile = NoFile
  Scanned <- MCScanned
  TDChoices <- MCTD
  Templates <- MCTemplates
  Placeholders <- MCPlaceholders
  IncludeGraphs <- MCAllGraphs
SPECIFICATION TwoSpec
INVARIANT SameClosures
CHECK_DEADLOCK FALSE
