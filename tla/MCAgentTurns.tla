----------------------------- MODULE MCAgentTurns -----------------------------
(***************************************************************************)
(* One agent with a chat, a direct message and a step for the model        *)
(* checker.                                                                *)
(***************************************************************************)
EXTENDS AgentTurns, TLC

CONSTANTS bob, r, chat, message, step

MCAgentOf == [t \in Turns |-> bob]
MCRunOf == [t \in Turns |-> r]
MCKind ==
  [t \in Turns |-> CASE t = chat -> "chat"
                     [] t = message -> "message"
                     [] t = step -> "step"]
MCMaxReruns == [t \in Turns |-> 2]
===============================================================================
