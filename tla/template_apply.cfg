SPECIFICATION FairSpec
CONSTANTS
  p1 = p1
  p2 = p2
  f1 = f1
  f2 = f2
  groups = groups
  Plans = {p1, p2}
  Keys = {k1}
  Files = {f1, f2, groups}
  PlanFiles <- MCPlanFiles
  Shared <- MCShared
  User = User
  None = None
  MaxCrash = 2
  MaxFault = 1
  MaxOutside = 1
  MaxTurns = 2
INVARIANTS
  TypeOK
  AdmittedIsSettled
  CleanupWaitsForRuns
PROPERTIES
  AppliedStaysRegistered
  RollBackKeepsEdits
  ReadersSeeAtomicApply
  LockIsFreed
  QuarantineEnds
CHECK_DEADLOCK FALSE
