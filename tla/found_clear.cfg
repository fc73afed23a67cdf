SPECIFICATION Spec
CONSTANTS
  AGENTS = AGENTS
  SYSTEM = SYSTEM
  WORKFLOWS = WORKFLOWS
  a1 = a1
  a2 = a2
  j1 = j1
  j2 = j2
  t1 = t1
  t2 = t2
  w1 = w1
  Names <- MCNames
  Scaffold <- MCScaffold
  AgentsDir = AGENTS
  FlowsDir = WORKFLOWS
  Agents = {a1, a2}
  Jobs = {j1, j2}
  AgentOf <- MCAgentOf
  FlowJobs = {j1}
  Tokens = {t1, t2}
  Requests = {w1}
  None = None
  Torn = Torn
  Orphan = Orphan
  MaxWrites = 0
INVARIANTS
  RetryIsPossible
CHECK_DEADLOCK FALSE
