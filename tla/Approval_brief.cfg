CONSTANTS
  None = None
  l1 = l1
  p1 = p1
  n1 = n1
  Tasks <- LocalTask
  Risk <- LocalRisk
  MaxBoots = 1
  EarlyInput = {}
SPECIFICATION Spec
CHECK_DEADLOCK FALSE
INVARIANT RiskNeedsApproval
