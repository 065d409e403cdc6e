CONSTANTS
  NumRuns    = 1
  Workers    = {w1, w2}
  NoWorker   = NoWorker
  MaxRetries = 2
SPECIFICATION FairSpec
PROPERTIES
  EveryRunEnds
