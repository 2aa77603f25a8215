\* xargs over llvm, clang and clang-tools-extra given as relative roots.
CONSTANTS
  L = L
  C = C
  X = X
  lib = lib
  lit = lit
  libc = libc
  a = a
  b = b
  c = c
  d = d
  e = e
  g = g
  PartialTok = PartialTok
  NoChars = NoChars
  DotTok = DotTok
  NoCwd = NoCwd
  ArgMax = 16
  Comps <- MCComps
  CompLen <- MCCompLen
  Common <- MCCommon
  Walks <- MCWalksExtra
SPECIFICATION Spec
INVARIANT BatchesCoverWalk
\* The walk is finite: xargs ends after the last batch or at an assert.
CHECK_DEADLOCK FALSE
