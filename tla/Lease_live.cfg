CONSTANTS
  None = None
  w1 = w1
  w2 = w2
  Tasks <- ThreeTasks
  Unusable <- ThirdTask
  Workers <- TwoWorkers
  Budget <- Shaky
SPECIFICATION FairSpec
INVARIANTS
  OneMacPerTask
PROPERTIES
  TasksEnd
  WorkersComeBack
  ExpiredIsReclaimed
