CONSTANTS
  None = None
  l1 = l1
  p1 = p1
  n1 = n1
  Tasks <- PaperclipTask
  Risk <- PaperclipRisk
  MaxBoots = 3
  EarlyInput = {p1}
SPECIFICATION FairSpec
CHECK_DEADLOCK FALSE
INVARIANTS
  GateHeld
  OneExecutor
  PaperclipAuthority
  PaperclipAtomic
PROPERTIES
  HoldEndsByDecision
  IntentSettles
  ExecutionSettles
