CONSTANTS
  a = a
  b = b
  c = c
  p = p
  q = q
  Workflows = {a}
  Agents = {p, q}
  Execs <- Runs2
  DependsOn <- SoloDeps
  Participants <- SoloAgents
  MaxRuns <- SoloLimit
  NoWorkflow = NoWorkflow
  UserOps = {"edit", "delete", "purge", "report"}
  BudgetOutcomes = {TRUE, FALSE}
  MaxTriggers = 2
  MaxCrashes = 1
SPECIFICATION Spec
INVARIANTS
  TypeOK
  ClaimIsRunner
  StoppedNeverSucceeds
  RecordsTellTheSteps
  RunLimit
PROPERTIES
  OutcomeIsFinal
