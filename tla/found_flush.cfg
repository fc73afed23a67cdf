SPECIFICATION Spec
CONSTANTS
  clawmax = clawmax
  digo = digo
  b1 = b1
  b2 = b2
  q1 = q1
  q2 = q2
  Direct = {clawmax, digo}
  Home = clawmax
  AgentForge = AgentForge
  Bindings = {b1}
  Configured = b1
  Requests = {q1}
  None = None
  MaxReceipts = 2
  MaxActivities = 1
  MaxEnrollments = 1
  MaxRevocations = 0
  MaxChanges = 0
  MaxFaults = 0
INVARIANTS
  OwnReceiverOnly
CHECK_DEADLOCK FALSE
