\* The walk of two roots, then the stamps over what it tracked.
CONSTANTS
  OldOutput = OldOutput
  r1 = r1
  r2 = r2
  x = x
  y = y
  z = z
  v = v
  s = s
  u = u
  w = w
  e = e
  q = q
  o = o
  f1 = f1
  f2 = f2
  f3 = f3
  f4 = f4
  f5 = f5
  f6 = f6
  f7 = f7
  f8 = f8
  s1 = s1
  t1 = t1
  t2 = t2
  c1 = c1
  NoPrefix = NoPrefixVal
  NoPrefixVal = NoPrefixVal
  UserSeq <- MCUserSeq
  Dirs <- MCDirs
  Parent <- MCParent
  Files <- MCFiles
  FileDir <- MCFileDir
  Kind <- MCKind
  Excluded <- MCExcluded
  Name <- MCName
  TmplName <- MCTmplName
  Mtime <- MCMtime
  InfileStat <- MCInfileStat
  CompLen <- MCCompLen
  Aliased <- MCAliased
  AliasLen <- MCAliasLen
SPECIFICATION Spec
INVARIANT TypeOK
INVARIANT WalkListsOnce
INVARIANT TrackedAreScanned
INVARIANT WalkMatchesSpec
INVARIANT StampTreeMirrorsDirs
INVARIANT StampDependsComplete
INVARIANT FirstRootWins
PROPERTY InfileConverges
\* Runs repeat; the clock stops once it has passed the -i file's second.
CHECK_DEADLOCK FALSE
