\* Stamps with -s pointing at an in-tree build directory.
CONSTANTS
  r1 = r1
  r2 = r2
  x = x
  y = y
  z = z
  s = s
  u = u
  w = w
  f1 = f1
  f2 = f2
  f3 = f3
  f4 = f4
  f5 = f5
  f6 = f6
  Dirs <- MCDirs
  Roots <- MCRoots
  Parent <- MCParent
  CompLen <- MCCompLen
  Aliased <- MCRootAndStampAliases
  AliasLen <- MCAliasLen
  Tracked <- MCTracked
  FileDir <- MCFileDir
SPECIFICATION Spec
INVARIANT StampDependsComplete
\* The section ends once every listed directory's stamp is written.
CHECK_DEADLOCK FALSE
