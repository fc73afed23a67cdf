CONSTANTS
  a = a
  b = b
  c = c
  p = p
  q = q
  Workflows = {a, b, c}
  Agents = {p}
  Execs <- Runs6
  DependsOn <- DiamondDeps
  Participants <- OneAgent
  MaxRuns <- NoLimits
  NoWorkflow = NoWorkflow
  UserOps = {}
  BudgetOutcomes = {FALSE}
  MaxTriggers = 2
  MaxCrashes = 0
SPECIFICATION Spec
PROPERTIES
  DependenciesSettled
