CONSTANTS
  None = None
  w1 = w1
  w2 = w2
  Tasks <- OneTask
  Unusable <- NoTask
  Workers <- OneWorker
  Budget <- AwayOnce
SPECIFICATION FairSpec
PROPERTIES
  ExpiredIsReclaimed
