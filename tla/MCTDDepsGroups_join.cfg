\* Grouping when one stem is the join of two others (a_b.inc).
CONSTANTS
  t0 = t0
  t1 = t1
  t2 = t2
  s0 = s0
  s1 = s1
  s2 = s2
  s3 = s3
  n1 = n1
  n2 = n2
  n3 = n3
  wa = wa
  wb = wb
  wc = wc
  wNone = wNone
  NoneWord = wNone
  MaxNameLen = 40
  TargetOrder <- MCTargetOrder
  Named <- MCNamed
  SrcsOf <- MCSrcsOf
  Names <- MCNames
  Rank <- MCRank
  Stem <- MCJoinStems
  WordLen <- MCWordLen
  Base <- MCBase
  DepsChoices <- MCDepsChoices
SPECIFICATION Spec
INVARIANT GroupsCoverSources
\* The section ends after TDDEPS_MANAGED_FILES is written.
CHECK_DEADLOCK FALSE
