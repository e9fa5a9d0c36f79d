CONSTANTS
  t1 = t1
  t2 = t2
  Images = {i1}
  Texts <- OneText
  Similar <- NoneSimilar
  Extractions <- OneQuestion
  Workers = {w1, w2}
  NoImage = NoImage
  MaxQueueAttempts = 2
  MaxFaults = 0
  LateRuns = TRUE
  EnhancerFails = FALSE
  Experts = {e1}
  MaxDeletes = 1
  Posts = TRUE
SPECIFICATION ReviewSpec
SYMMETRY Symmetry
INVARIANTS ReviewTypeOK ManualAnswersStay CleanedStaysClean ReopeningKeepsBytes
PROPERTIES ImplementsQuestionLife DecidedStaysDecided
