CONSTANTS
  a = a
  b = b
  c = c
  p = p
  q = q
  Workflows = {a, b, c}
  Agents = {p}
  Execs <- Runs6
  DependsOn <- JoinDeps
  Participants <- OneAgent
  MaxRuns <- JoinLimit
  NoWorkflow = NoWorkflow
  UserOps = {}
  BudgetOutcomes = {FALSE}
  MaxTriggers = 3
  MaxCrashes = 1
SPECIFICATION Spec
PROPERTIES
  DependenciesSettled
