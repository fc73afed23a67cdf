SPECIFICATION FairSpec
CONSTANTS
  d1 = d1
  d2 = d2
  r1 = r1
  r2 = r2
  r3 = r3
  w1 = w1
  w2 = w2
  c1 = c1
  c2 = c2
  Processes = {d1, d2}
  Runs = {r1, r2, r3}
  WorkflowOf <- MCWorkflowOf
  Configs = {c1, c2}
  Covers <- MCCovers
  Off = Off
  None = None
  MaxDeliveries = 2
  MaxEdits = 1
  MaxCrashes = 1
INVARIANTS
  TypeOK
  MailedOnce
  ReceiptsTellTheTruth
PROPERTIES
  BriefIsClaimed
CHECK_DEADLOCK FALSE
