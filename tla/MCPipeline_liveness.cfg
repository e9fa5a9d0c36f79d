CONSTANTS
  t1 = t1
  t2 = t2
  Images = {i1, i2}
  Texts <- MCTexts
  Similar <- MCSimilar
  Extractions <- MCExtractions
  Workers = {w1, w2}
  NoImage = NoImage
  MaxQueueAttempts = 2
  MaxFaults = 1
  LateRuns = FALSE
  EnhancerFails = FALSE
SPECIFICATION FairSpec
PROPERTIES UploadIsDecided FoundIsShown
