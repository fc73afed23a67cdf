CONSTANTS
  a = a
  b = b
  c = c
  p = p
  q = q
  Workflows = {a, b}
  Agents = {p, q}
  Execs <- Runs4
  DependsOn <- ChainDeps
  Participants <- ChainAgents
  MaxRuns <- ChainNoLimit
  NoWorkflow = NoWorkflow
  UserOps = {"pause"}
  BudgetOutcomes = {FALSE}
  MaxTriggers = 2
  MaxCrashes = 0
SPECIFICATION FairSpec
PROPERTIES
  StopReleases
