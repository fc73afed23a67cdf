------------------------------ MODULE AgentLock ------------------------------
(***************************************************************************)
(* What runExclusiveAgentExecution promises its callers: the turns of one  *)
(* agent run one at a time, in the order in which they asked, and a free   *)
(* agent serves the next turn.                                             *)
(***************************************************************************)
CONSTANTS Turns, AgentOf

VARIABLES
  waiting,  \* turns that asked for their agent and wait
  holding,  \* turns that have their agent
  ahead     \* ahead[t]: the turns of the same agent that asked before t

vars == <<waiting, holding, ahead>>

Present(a) == {t \in waiting \cup holding : AgentOf[t] = a}

\* Every turn that asked before t has gone.
IsNext(t) == t \in waiting /\ ahead[t] \cap Present(AgentOf[t]) = {}

Init == waiting = {} /\ holding = {} /\ ahead = [t \in Turns |-> {}]

Ask(t) ==
  /\ t \notin waiting \cup holding
  /\ waiting' = waiting \cup {t}
  /\ ahead' = [ahead EXCEPT ![t] = Present(AgentOf[t])]
  /\ UNCHANGED holding

Enter(t) ==
  /\ IsNext(t)
  /\ \A u \in holding : AgentOf[u] # AgentOf[t]
  /\ waiting' = waiting \ {t}
  /\ holding' = holding \cup {t}
  /\ UNCHANGED ahead

\* A turn that is refused when its time comes.
Pass(t) ==
  /\ IsNext(t)
  /\ waiting' = waiting \ {t}
  /\ UNCHANGED <<holding, ahead>>

Leave(t) ==
  /\ t \in holding
  /\ holding' = holding \ {t}
  /\ UNCHANGED <<waiting, ahead>>

Next == \E t \in Turns : Ask(t) \/ Enter(t) \/ Pass(t) \/ Leave(t)

\* A turn whose predecessors have all gone does not wait any longer.
Spec == Init /\ [][Next]_vars
FairSpec == Spec /\ \A t \in Turns : WF_vars(Enter(t) \/ Pass(t))
=============================================================================
