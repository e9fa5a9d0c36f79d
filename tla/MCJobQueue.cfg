CONSTANTS
  Jobs <- OneJob
  Workers = {w1, w2}
  NoJob = NoJob
  MaxQueueAttempts = 3
  MaxRestarts = 2
  MaxFaults = 2
SPECIFICATION FairSpec
INVARIANTS TypeOK OneRunPerAttempt PunctualRunOwnsJob
PROPERTIES ImplementsLifecycle EveryJobSettles
