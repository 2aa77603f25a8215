\* xargs over llvm and clang: every order of up to four of five paths.
CONSTANTS
  L = L
  C = C
  X = X
  lib = lib
  lit = lit
  libc = libc
  a = a
  b = b
  c = c
  d = d
  e = e
  g = g
  PartialTok = PartialTok
  NoChars = NoChars
  DotTok = DotTok
  NoCwd = NoCwd
  ArgMax = 16
  Comps <- MCComps
  CompLen <- MCCompLen
  Common <- MCCommon
  Walks <- MCWalks
SPECIFICATION Spec
INVARIANT TypeOK
INVARIANT XargsAssertsHold
INVARIANT BatchesCoverWalk
INVARIANT BatchesFit
\* The walk is finite: xargs ends after the last batch or at an assert.
CHECK_DEADLOCK FALSE
