CONSTANTS
  t1 = t1
  t2 = t2
  Images = {i1, i2}
  Texts <- TwoTexts
  Similar <- NoneSimilar
  Extractions <- TwoQuestions
  Workers = {w1}
  NoImage = NoImage
  MaxQueueAttempts = 1
  MaxFaults = 0
  LateRuns = FALSE
  EnhancerFails = FALSE
  Experts = {e1, e2}
  MaxDeletes = 1
  Posts = FALSE
SPECIFICATION FairReadSpec
PROPERTY EveryUpdateEnds
INVARIANT NoUpdateIsStuck
