SPECIFICATION FairSpec
CONSTANTS
  clawmax = clawmax
  digo = digo
  b1 = b1
  b2 = b2
  q1 = q1
  q2 = q2
  Direct = {clawmax}
  Home = clawmax
  AgentForge = AgentForge
  Bindings = {b1, b2}
  Configured = b1
  Requests = {q1}
  None = None
  MaxReceipts = 2
  MaxActivities = 2
  MaxEnrollments = 1
  MaxRevocations = 1
  MaxChanges = 1
  MaxFaults = 1
INVARIANTS
  TypeOK
  StopIsFinal
  OwnReceiverOnly
  PurgedIsGone
PROPERTIES
  AtLeastOnce
  QueuedLeaves
  PurgeEnds
CHECK_DEADLOCK FALSE
