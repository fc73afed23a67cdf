CONSTANTS
  bob = bob
  r = r
  chat = chat
  message = message
  step = step
  Agents = {bob}
  Turns = {chat, message, step}
  AgentOf <- MCAgentOf
  Kind <- MCKind
  Runs = {r}
  RunOf <- MCRunOf
  MaxReruns <- MCMaxReruns
  NoTurn = NoTurn
SPECIFICATION FairSpec
INVARIANTS
  NoStaleEntry
  ChatsEndBeforeRemoval
PROPERTIES
  ImplementsLock
  AbortedTurnEnds
  StoppedStepEnds
CHECK_DEADLOCK FALSE
