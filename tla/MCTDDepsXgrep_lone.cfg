\* The grep pipeline with a last batch of one file.
CONSTANTS
  f1 = f1
  f2 = f2
  f3 = f3
  f4 = f4
  f5 = f5
  f6 = f6
  i1 = i1
  i2 = i2
  k1 = k1
  k2 = k2
  k3 = k3
  k4 = k4
  nA = nA
  nB = nB
  NoPrefix = NoPrefix
  NJobs = 2
  Batches <- MCBatchesLone
  Incs <- MCIncs
  IncludeChoices <- MCIncludeChoices
  CmakeBatches <- MCCmakeBatches
  CmakeChoices <- MCCmakeChoices
SPECIFICATION Spec
INVARIANT ReportedExactlyOnce
\* The pipeline ends once the last job is drained, or at the assert.
CHECK_DEADLOCK FALSE
