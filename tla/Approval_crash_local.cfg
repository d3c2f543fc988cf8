CONSTANTS
  None = None
  l1 = l1
  p1 = p1
  n1 = n1
  Tasks <- LocalTask
  Risk <- LocalRisk
  MaxBoots = 2
  EarlyInput = {}
SPECIFICATION FairSpec
CHECK_DEADLOCK FALSE
PROPERTIES
  ApprovalResumes
