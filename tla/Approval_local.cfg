CONSTANTS
  None = None
  l1 = l1
  p1 = p1
  n1 = n1
  Tasks <- HostTasks
  Risk <- HostRisk
  MaxBoots = 3
  EarlyInput = {}
SPECIFICATION FairSpec
CHECK_DEADLOCK FALSE
INVARIANTS
  TypeOK
  GateHeld
  OneExecutor
  LocalDecisionInFlight
PROPERTIES
  DecisionTakesEffect
  ExecutionSettles
