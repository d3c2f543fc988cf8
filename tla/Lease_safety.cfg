CONSTANTS
  None = None
  w1 = w1
  w2 = w2
  Tasks <- OneTask
  Unusable <- NoTask
  Workers <- TwoWorkers
  Budget <- Everything
SPECIFICATION Spec
INVARIANTS
  TypeOK
  ReportedMeansTaken
PROPERTIES
  LeaseHonoured
