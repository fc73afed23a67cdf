-------------------------- MODULE AgentTurns_proofs --------------------------
(***************************************************************************)
(* Proofs about the turns of an agent: the promise chain of                *)
(* runExclusiveAgentExecution is a first-come-first-served lock, it leaves *)
(* no entry behind, and no chat holds an agent that was removed.           *)
(***************************************************************************)
EXTENDS AgentTurns, TLAPS

-----------------------------------------------------------------------------
(* How a step moves a turn through the line of its agent.                  *)

\* t joins the line.
Joins(t) == pc[t] \in {"new", "registered"} /\ Enqueue(t)

\* t gives the agent back, or is refused when its time comes.
Leaves(t) ==
  /\ pc[t] \in Inside \/ Due(t)
  /\ released' = released \cup {t}
  /\ DropTail(t)
  /\ pc' = [pc EXCEPT ![t] = "done"]
  /\ UNCHANGED <<prev, ahead>>

\* t goes to a place without touching the line.
Moves(t, place) ==
  /\ \/ pc[t] = "new" /\ place = "registered"
     \/ pc[t] = "registered" /\ place = "done"
     \/ (pc[t] \in Inside \/ Due(t)) /\ place \in Inside
  /\ pc' = [pc EXCEPT ![t] = place]
  /\ UNCHANGED lockVars

Arc ==
  \/ \E t \in Turns : Joins(t) \/ Leaves(t) \/ (\E place \in Places : Moves(t, place))
  \/ UNCHANGED <<pc, lockVars>>

\* Every step is one of the four.
LEMMA StepIsArc == ASSUME [Next]_vars PROVE Arc
<1>1. ASSUME NEW t \in Turns, Register(t) PROVE Moves(t, "registered")
  BY <1>1 DEF Register, Moves, Goto
<1>2. ASSUME NEW t \in Turns, Join(t) \/ StartStep(t) \/ StartMessage(t) PROVE Joins(t)
  BY <1>2 DEF Join, StartStep, StartMessage, Joins
<1>3. ASSUME NEW t \in Turns, GivesUp(t) PROVE Moves(t, "done")
  BY <1>3 DEF GivesUp, Moves, Goto
<1>4. ASSUME NEW t \in Turns, Attempt(t), pc[t] \in Inside \/ Due(t)
      PROVE Leaves(t) \/ \E place \in Places : Moves(t, place)
  <2>1. CASE Refused(t) /\ Leave(t)
    BY <1>4, <2>1 DEF Leave, Leaves, Goto
  <2>2. CASE ~Refused(t) /\ Kind[t] # "message"
    <3>1. (pc' = [pc EXCEPT ![t] = "preparing"] \/ pc' = [pc EXCEPT ![t] = "configuring"])
          /\ UNCHANGED lockVars
      BY <1>4, <2>2 DEF Attempt, Goto
    <3>2. Moves(t, "preparing") \/ Moves(t, "configuring")
      BY <1>4, <3>1 DEF Moves, Inside
    <3> QED BY <3>2 DEF Places, Inside
  <2>3. CASE Kind[t] = "message" /\ Goto(t, "running") /\ UNCHANGED lockVars
    BY <1>4, <2>3 DEF Moves, Goto, Places, Inside
  <2> QED BY <1>4, <2>1, <2>2, <2>3 DEF Attempt
<1>5. ASSUME NEW t \in Turns, Enter(t)
      PROVE Leaves(t) \/ \E place \in Places : Moves(t, place)
  BY <1>4, <1>5 DEF Enter
<1>6. ASSUME NEW t \in Turns, Retry(t)
      PROVE Leaves(t) \/ \E place \in Places : Moves(t, place)
  BY <1>4, <1>6 DEF Retry, Inside
<1>7. ASSUME NEW t \in Turns, Configure(t)
      PROVE Leaves(t) \/ Moves(t, "configuring")
  BY <1>7 DEF Configure, Leave, Leaves, Moves, Goto, Inside
<1>8. ASSUME NEW t \in Turns, Spawn(t) PROVE Moves(t, "running")
  BY <1>8 DEF Spawn, Moves, Goto, Inside
<1>9. ASSUME NEW t \in Turns, Fails(t) \/ Answers(t) \/ Killed(t) PROVE Leaves(t)
  BY <1>9 DEF Fails, Answers, Killed, Leave, Leaves, Goto, Inside
<1>10. ASSUME NEW t \in Turns, SessionLocked(t) PROVE Moves(t, "waiting")
  BY <1>10 DEF SessionLocked, Moves, Goto, Inside
<1>11. ASSUME NEW t \in Turns, SwitchModel(t)
       PROVE Moves(t, "preparing") \/ Moves(t, "configuring")
  BY <1>11 DEF SwitchModel, Moves, Goto, Inside
<1>12. ASSUME \/ \E t \in Turns : CancelTurn(t)
              \/ \E a \in Agents : \/ CancelTurnsForAgent(a) \/ BeginDeletion(a)
                                   \/ Quiesced(a) \/ DeletionFails(a) \/ RemoveAgent(a)
              \/ \E r \in Runs : StopRun(r)
              \/ UNCHANGED vars
       PROVE UNCHANGED <<pc, lockVars>>
  BY <1>12 DEF CancelTurn, CancelTurnsForAgent, BeginDeletion, Quiesced, DeletionFails,
               RemoveAgent, StopRun, vars
<1>13. {"registered", "done", "running", "waiting", "preparing", "configuring"}
         \subseteq Places
  BY DEF Places, Inside
<1>14. CASE \E t \in Turns :
              \/ Register(t) \/ Join(t) \/ GivesUp(t) \/ StartStep(t) \/ StartMessage(t)
              \/ Enter(t) \/ Configure(t) \/ Spawn(t) \/ Fails(t) \/ Answers(t)
              \/ SessionLocked(t) \/ Retry(t) \/ SwitchModel(t) \/ Killed(t)
  BY <1>1, <1>2, <1>3, <1>5, <1>6, <1>7, <1>8, <1>9, <1>10, <1>11, <1>13, <1>14 DEF Arc
<1>15. CASE ~\E t \in Turns :
              \/ Register(t) \/ Join(t) \/ GivesUp(t) \/ StartStep(t) \/ StartMessage(t)
              \/ Enter(t) \/ Configure(t) \/ Spawn(t) \/ Fails(t) \/ Answers(t)
              \/ SessionLocked(t) \/ Retry(t) \/ SwitchModel(t) \/ Killed(t)
  BY <1>12, <1>15 DEF Next, Arc
<1> QED BY <1>14, <1>15

-----------------------------------------------------------------------------
(* Types.                                                                  *)

\* Enqueue and Leave keep the types of the line.
LEMMA LineTypes ==
  ASSUME TypeOK, NEW t \in Turns, Enqueue(t) \/ Leave(t)
  PROVE  /\ pc' \in [Turns -> Places]
         /\ tail' \in [Agents -> Turns \cup {NoTurn}]
         /\ prev' \in [Turns -> Turns \cup {NoTurn}]
         /\ released' \in SUBSET Turns
         /\ ahead' \in [Turns -> SUBSET Turns]
<1>1. AgentOf[t] \in Agents
  BY TurnsAssumption
<1>2. "queued" \in Places /\ "done" \in Places
  BY DEF Places
<1>3. Present(AgentOf[t]) \in SUBSET Turns
  BY DEF Present, Waiting, Holding
<1>4. CASE Enqueue(t)
  <2>1. tail[AgentOf[t]] \in Turns \cup {NoTurn}
    BY <1>1 DEF TypeOK
  <2> QED BY <1>1, <1>2, <1>3, <1>4, <2>1 DEF Enqueue, Goto, TypeOK
<1>5. CASE Leave(t)
  BY <1>1, <1>2, <1>5 DEF Leave, DropTail, Goto, TypeOK
<1> QED BY <1>4, <1>5

LEMMA LeaveTypes == ASSUME TypeOK, NEW t \in Turns, Leave(t) PROVE TypeOK'
<1>1. /\ pc' \in [Turns -> Places]
      /\ tail' \in [Agents -> Turns \cup {NoTurn}]
      /\ prev' \in [Turns -> Turns \cup {NoTurn}]
      /\ released' \in SUBSET Turns
      /\ ahead' \in [Turns -> SUBSET Turns]
  BY LineTypes
<1>2. UNCHANGED <<reruns, aborted, cancelled, deletion, gone>>
      /\ registry' \in SUBSET Turns /\ stopping' \in SUBSET Turns
  BY DEF Leave, agentVars, TypeOK
<1> QED BY <1>1, <1>2 DEF TypeOK

LEMMA AttemptTypes == ASSUME TypeOK, NEW t \in Turns, Attempt(t) PROVE TypeOK'
<1>1. CASE Leave(t)
  BY <1>1, LeaveTypes
<1>2. CASE ~Leave(t)
  BY <1>2 DEF Attempt, TypeOK, Goto, Places, Inside, lockVars, agentVars
<1> QED BY <1>1, <1>2

LEMMA TypeStep == ASSUME TypeOK, [Next]_vars PROVE TypeOK'
<1> USE DEF lockVars, agentVars
<1>0. {"registered", "done", "running", "waiting", "preparing", "configuring"}
         \subseteq Places
  BY DEF Places, Inside
<1>1. ASSUME NEW t \in Turns, Register(t) PROVE TypeOK'
  BY <1>0, <1>1 DEF Register, Goto, TypeOK
<1>2. ASSUME NEW t \in Turns, Join(t) \/ StartStep(t) \/ StartMessage(t) PROVE TypeOK'
  <2>1. /\ pc' \in [Turns -> Places]
        /\ tail' \in [Agents -> Turns \cup {NoTurn}]
        /\ prev' \in [Turns -> Turns \cup {NoTurn}]
        /\ released' \in SUBSET Turns
        /\ ahead' \in [Turns -> SUBSET Turns]
    BY <1>2, LineTypes DEF Join, StartStep, StartMessage
  <2>2. UNCHANGED <<reruns, aborted, stopping, cancelled, deletion, gone>>
        /\ registry' \in SUBSET Turns
    BY <1>2 DEF Join, StartStep, StartMessage, TypeOK
  <2> QED BY <2>1, <2>2 DEF TypeOK
<1>3. ASSUME NEW t \in Turns, GivesUp(t) PROVE TypeOK'
  BY <1>0, <1>3 DEF GivesUp, Goto, TypeOK
<1>4. ASSUME NEW t \in Turns, Enter(t) \/ Retry(t) PROVE TypeOK'
  BY <1>4, AttemptTypes DEF Enter, Retry
<1>5. ASSUME NEW t \in Turns, Configure(t) PROVE TypeOK'
  <2>1. CASE Leave(t)
    BY <2>1, LeaveTypes
  <2>2. CASE ~Leave(t)
    BY <1>0, <1>5, <2>2 DEF Configure, Goto, TypeOK
  <2> QED BY <2>1, <2>2
<1>6. ASSUME NEW t \in Turns, Spawn(t) PROVE TypeOK'
  BY <1>0, <1>6 DEF Spawn, Goto, TypeOK
<1>7. ASSUME NEW t \in Turns, Fails(t) \/ Answers(t) \/ Killed(t) PROVE TypeOK'
  BY <1>7, LeaveTypes DEF Fails, Answers, Killed
<1>8. ASSUME NEW t \in Turns, SessionLocked(t) \/ SwitchModel(t) PROVE TypeOK'
  BY <1>0, <1>8 DEF SessionLocked, SwitchModel, Goto, TypeOK
<1>9. ASSUME NEW t \in Turns, CancelTurn(t) PROVE TypeOK'
  BY <1>9 DEF CancelTurn, Abort, TypeOK
<1>10. ASSUME NEW a \in Agents, CancelTurnsForAgent(a) \/ BeginDeletion(a) PROVE TypeOK'
  BY <1>10 DEF CancelTurnsForAgent, BeginDeletion, Abort, RegisteredTurns, TypeOK
<1>11. ASSUME NEW a \in Agents, Quiesced(a) \/ DeletionFails(a) \/ RemoveAgent(a)
       PROVE TypeOK'
  BY <1>11 DEF Quiesced, DeletionFails, RemoveAgent, TypeOK
<1>12. ASSUME NEW r \in Runs, StopRun(r) PROVE TypeOK'
  BY <1>12 DEF StopRun, TypeOK
<1>13. CASE UNCHANGED vars
  BY <1>13 DEF vars, TypeOK
<1> QED
  BY <1>1, <1>2, <1>3, <1>4, <1>5, <1>6, <1>7, <1>8, <1>9, <1>10, <1>11, <1>12, <1>13
  DEF Next

\* Every variable keeps its type.
THEOREM TypeCorrect == Spec => []TypeOK
<1>1. Init => TypeOK
  BY DEF Init, TypeOK, Places
<1>2. TypeOK /\ [Next]_vars => TypeOK'
  BY TypeStep
<1> QED BY <1>1, <1>2, PTL DEF Spec

-----------------------------------------------------------------------------
(* The promise chain.                                                      *)

\* Who is in line for t's agent, and who of them came before t.
Line(t)   == Present(AgentOf[t])
Before(t) == ahead[t] \cap Line(t)

\* The promise t awaits has been resolved.
Served(t) == prev[t] = NoTurn \/ prev[t] \in released

\* A turn that came before another one has asked for the agent.
AskedOnce ==
  \A t \in Turns : \A u \in ahead[t] : pc[u] \notin {"new", "registered"}

\* Only turns that are over have called release().
ReleasedAreDone == \A t \in released : pc[t] = "done"

\* A turn holds its agent only after its promise was resolved.
HoldersAreServed == \A t \in Holding : Served(t)

\* The promises form a chain: nobody is before a turn that is served; before any
\* other are the turn whose promise it awaits and those before that one.
Chain ==
  \A t \in Waiting \cup Holding :
    IF Served(t)
      THEN Before(t) = {}
      ELSE \E p \in Line(t) : prev[t] = p /\ Before(t) = {p} \cup Before(p)

\* The stored promise is the end of the chain.
EndOfChain ==
  \A a \in Agents :
    IF tail[a] = NoTurn
      THEN Present(a) = {}
      ELSE \E u \in Present(a) : tail[a] = u /\ Present(a) = {u} \cup Before(u)

\* Of two turns in line for an agent, one came before the other.
InOrder ==
  \A t \in Waiting \cup Holding : \A u \in Line(t) \ {t} : u \in ahead[t] \/ t \in ahead[u]

LockInv ==
  /\ TypeOK
  /\ AskedOnce
  /\ ReleasedAreDone
  /\ HoldersAreServed
  /\ Chain
  /\ EndOfChain
  /\ InOrder

-----------------------------------------------------------------------------
(* What the arcs do to the line.                                           *)

InLine == Waiting \cup Holding

LEMMA LineOfJoin ==
  ASSUME TypeOK, NEW t \in Turns, Joins(t)
  PROVE  /\ t \notin InLine
         /\ InLine' = InLine \cup {t}
         /\ Holding' = Holding
         /\ \A a : Present(a)' = IF a = AgentOf[t] THEN Present(a) \cup {t} ELSE Present(a)
<1>1. pc' = [pc EXCEPT ![t] = "queued"] /\ pc[t] \in {"new", "registered"}
  BY DEF Joins, Enqueue, Goto
<1>2. t \notin InLine /\ InLine' = InLine \cup {t} /\ Holding' = Holding
  BY <1>1 DEF TypeOK, InLine, Waiting, Holding, Inside
<1> QED BY <1>2 DEF Present, InLine

LEMMA LineOfLeave ==
  ASSUME LockInv, NEW t \in Turns, Leaves(t)
  PROVE  /\ t \in InLine
         /\ Served(t)
         /\ InLine' = InLine \ {t}
         /\ Holding' = Holding \ {t}
         /\ \A a : Present(a)' = Present(a) \ {t}
<1>1. pc' = [pc EXCEPT ![t] = "done"] /\ pc[t] \in Inside \cup {"queued"}
  BY DEF Leaves, Due
<1>2. t \in InLine /\ InLine' = InLine \ {t} /\ Holding' = Holding \ {t}
  BY <1>1 DEF LockInv, TypeOK, InLine, Waiting, Holding, Inside
<1>3. Served(t)
  BY DEF LockInv, HoldersAreServed, Served, Leaves, Holding, Due
<1> QED BY <1>2, <1>3 DEF Present, InLine

LEMMA LineOfMove ==
  ASSUME LockInv, NEW t \in Turns, NEW place \in Places, Moves(t, place)
  PROVE  /\ InLine' = InLine
         /\ \A u \in Holding' : Served(u)
         /\ \A a : Present(a)' = Present(a)
<1>1. pc' = [pc EXCEPT ![t] = place]
  BY DEF Moves
<1>2. CASE pc[t] \in {"new", "registered"}
  <2>1. place \in {"registered", "done"}
    BY <1>2 DEF Moves, Due, Inside
  <2>2. InLine' = InLine /\ Holding' = Holding
    BY <1>1, <1>2, <2>1 DEF LockInv, TypeOK, InLine, Waiting, Holding, Inside
  <2> QED BY <2>2 DEF LockInv, HoldersAreServed, Present, InLine
<1>3. CASE pc[t] \notin {"new", "registered"}
  <2>1. place \in Inside /\ (pc[t] \in Inside \/ Due(t))
    BY <1>3 DEF Moves
  <2>2. InLine' = InLine /\ Holding' = Holding \cup {t}
    BY <1>1, <2>1 DEF LockInv, TypeOK, InLine, Waiting, Holding, Inside, Due
  <2>3. Served(t)
    BY <2>1 DEF LockInv, HoldersAreServed, Served, Holding, Due
  <2> QED BY <2>2, <2>3 DEF LockInv, HoldersAreServed, Present, InLine
<1> QED BY <1>2, <1>3

-----------------------------------------------------------------------------
(* The chain is preserved.                                                 *)

LEMMA JoinKeepsChain ==
  ASSUME LockInv, TypeOK', NEW t \in Turns, Joins(t)
  PROVE  LockInv'
<1> DEFINE a == AgentOf[t]
<1>1. TypeOK /\ a \in Agents
  BY TurnsAssumption DEF LockInv
<1>2. /\ prev' = [prev EXCEPT ![t] = tail[a]]
      /\ tail' = [tail EXCEPT ![a] = t]
      /\ ahead' = [ahead EXCEPT ![t] = Present(a)]
      /\ pc' = [pc EXCEPT ![t] = "queued"]
      /\ released' = released
      /\ pc[t] \in {"new", "registered"}
  BY DEF Joins, Enqueue, Goto
<1>3. /\ t \notin InLine
      /\ InLine' = InLine \cup {t}
      /\ Holding' = Holding
      /\ \A x : Present(x)' = IF x = a THEN Present(x) \cup {t} ELSE Present(x)
  BY <1>1, LineOfJoin
<1>4. \A u \in Turns : t \notin ahead[u]
  BY <1>2 DEF LockInv, AskedOnce
<1>5. \A u \in Turns : Line(u) \subseteq InLine /\ Line(u) \subseteq Turns
  BY DEF Line, Present, InLine, Waiting, Holding
<1>6. \A u \in Turns \ {t} : /\ prev'[u] = prev[u] /\ ahead'[u] = ahead[u]
                            /\ Before(u)' = Before(u)
                            /\ Served(u)' = Served(u)
                            /\ Line(u) \subseteq Line(u)'
  <2> SUFFICES ASSUME NEW u \in Turns \ {t}
               PROVE  /\ prev'[u] = prev[u] /\ ahead'[u] = ahead[u]
                      /\ Before(u)' = Before(u)
                      /\ Served(u)' = Served(u)
                      /\ Line(u) \subseteq Line(u)'
    OBVIOUS
  <2>1. prev'[u] = prev[u] /\ ahead'[u] = ahead[u]
    BY <1>1, <1>2 DEF TypeOK
  <2>2. Line(u)' = Line(u) \/ Line(u)' = Line(u) \cup {t}
    BY <1>3 DEF Line
  <2>3. Before(u)' = Before(u)
    BY <1>4, <2>1, <2>2 DEF Before
  <2> QED BY <1>2, <2>1, <2>2, <2>3 DEF Served
<1>7. /\ prev'[t] = tail[a] /\ ahead'[t] = Present(a)
      /\ Line(t)' = Present(a) \cup {t} /\ Before(t)' = Present(a)
  BY <1>1, <1>2, <1>3 DEF TypeOK, Line, Before
<1>8. AskedOnce'
  <2>1. \A u \in InLine : pc[u] \notin {"new", "registered"}
    BY DEF InLine, Waiting, Holding, Inside
  <2>2. \A u \in ahead'[t] : u \in InLine
    BY <1>7 DEF Present, InLine
  <2>3. \A u \in Turns : pc[u] \notin {"new", "registered"} => pc'[u] \notin {"new", "registered"}
    BY <1>1, <1>2 DEF TypeOK
  <2>4. \A u \in Turns : ahead'[u] \subseteq Turns
    BY DEF TypeOK
  <2> QED BY <1>6, <2>1, <2>2, <2>3, <2>4 DEF AskedOnce, LockInv
<1>9. ReleasedAreDone'
  BY <1>1, <1>2 DEF ReleasedAreDone, LockInv, TypeOK
<1>10. \A u \in InLine : u \in Turns \ {t} /\ u \notin released
  BY <1>3 DEF LockInv, ReleasedAreDone, InLine, Waiting, Holding, Inside
<1>11. HoldersAreServed'
  BY <1>3, <1>6, <1>10 DEF HoldersAreServed, LockInv, InLine
<1>12. Chain'
  <2>1. ASSUME NEW u \in InLine
        PROVE  IF Served(u)' THEN Before(u)' = {}
               ELSE \E p \in Line(u)' : prev'[u] = p /\ Before(u)' = {p} \cup Before(p)'
    <3>1. u \in Turns \ {t}
      BY <1>10
    <3>2. CASE Served(u)
      BY <1>6, <3>1, <3>2 DEF LockInv, Chain, InLine
    <3>3. CASE ~Served(u)
      <4>1. PICK p \in Line(u) : prev[u] = p /\ Before(u) = {p} \cup Before(p)
        BY <3>3 DEF LockInv, Chain, InLine
      <4>2. p \in Turns \ {t}
        BY <1>5, <1>10, <3>1
      <4> QED BY <1>6, <3>1, <3>3, <4>1, <4>2
    <3> QED BY <3>2, <3>3
  <2>2. IF Served(t)' THEN Before(t)' = {}
        ELSE \E p \in Line(t)' : prev'[t] = p /\ Before(t)' = {p} \cup Before(p)'
    <3>1. CASE tail[a] = NoTurn
      BY <1>1, <1>7, <3>1 DEF Served, LockInv, EndOfChain
    <3>2. CASE tail[a] # NoTurn
      <4>1. PICK p \in Present(a) : tail[a] = p /\ Present(a) = {p} \cup Before(p)
        BY <1>1, <3>2 DEF LockInv, EndOfChain
      <4>2. p \in Turns \ {t} /\ p \notin released
        BY <1>10 DEF Present, InLine
      <4>3. ~Served(t)'
        BY <1>2, <1>7, <3>2, <4>1, <4>2 DEF Served
      <4> QED BY <1>6, <1>7, <4>1, <4>2, <4>3
    <3> QED BY <3>1, <3>2
  <2> QED BY <1>3, <2>1, <2>2 DEF Chain, InLine
<1>13. EndOfChain'
  <2>1. ASSUME NEW b \in Agents
        PROVE  IF tail'[b] = NoTurn THEN Present(b)' = {}
               ELSE \E u \in Present(b)' : tail'[b] = u /\ Present(b)' = {u} \cup Before(u)'
    <3>1. CASE b = a
      <4>1. tail'[b] = t /\ t # NoTurn
        BY <1>1, <1>2, <3>1, TurnsAssumption DEF TypeOK
      <4>2. t \in Present(b)' /\ Present(b)' = {t} \cup Before(t)'
        BY <1>3, <1>7, <3>1
      <4> QED BY <4>1, <4>2
    <3>2. CASE b # a
      <4>1. tail'[b] = tail[b] /\ Present(b)' = Present(b)
        BY <1>1, <1>2, <1>3, <3>2 DEF TypeOK
      <4>2. CASE tail[b] = NoTurn
        BY <4>1, <4>2 DEF LockInv, EndOfChain
      <4>3. CASE tail[b] # NoTurn
        <5>1. PICK u \in Present(b) : tail[b] = u /\ Present(b) = {u} \cup Before(u)
          BY <4>3 DEF LockInv, EndOfChain
        <5>2. u \in Turns \ {t}
          BY <1>10 DEF Present, InLine
        <5> QED BY <1>6, <4>1, <4>3, <5>1, <5>2
      <4> QED BY <4>2, <4>3
    <3> QED BY <3>1, <3>2
  <2> QED BY <2>1 DEF EndOfChain
<1>14. InOrder'
  <2>1. ASSUME NEW u \in InLine', NEW w \in Line(u)' \ {u}
        PROVE  w \in ahead'[u] \/ u \in ahead'[w]
    <3>1. u \in Turns /\ w \in Turns /\ w \in InLine' /\ AgentOf[u] = AgentOf[w]
      BY <2>1 DEF InLine, Line, Present, Waiting, Holding
    <3>2. CASE u = t
      BY <1>3, <1>7, <2>1, <3>2
    <3>3. CASE w = t
      BY <1>3, <1>7, <2>1, <3>1, <3>3 DEF Present, InLine
    <3>4. CASE u # t /\ w # t
      <4>1. u \in InLine /\ w \in Line(u) \ {u}
        BY <1>3, <2>1, <3>1, <3>4 DEF Line
      <4> QED BY <1>6, <3>1, <3>4, <4>1 DEF LockInv, InOrder, InLine
    <3> QED BY <3>2, <3>3, <3>4
  <2> QED BY <2>1 DEF InOrder, InLine
<1> QED BY <1>8, <1>9, <1>11, <1>12, <1>13, <1>14 DEF LockInv

LEMMA LeaveKeepsChain ==
  ASSUME LockInv, TypeOK', NEW t \in Turns, Leaves(t)
  PROVE  LockInv'
<1> DEFINE a == AgentOf[t]
<1>1. TypeOK /\ a \in Agents
  BY TurnsAssumption DEF LockInv
<1>2. /\ prev' = prev /\ ahead' = ahead
      /\ tail' = [tail EXCEPT ![a] = IF @ = t THEN NoTurn ELSE @]
      /\ pc' = [pc EXCEPT ![t] = "done"]
      /\ released' = released \cup {t}
  BY DEF Leaves, DropTail
<1>3. /\ t \in InLine /\ Served(t)
      /\ InLine' = InLine \ {t}
      /\ Holding' = Holding \ {t}
      /\ \A x : Present(x)' = Present(x) \ {t}
  BY LineOfLeave
<1>4. \A u \in Turns : /\ Line(u)' = Line(u) \ {t}
                       /\ Before(u)' = Before(u) \ {t}
                       /\ Served(u)' = (Served(u) \/ prev[u] = t)
  BY <1>2, <1>3 DEF Line, Before, Served
<1>5. Before(t) = {}
  BY <1>3 DEF LockInv, Chain, InLine
<1>6. \A u \in InLine : u \in Turns /\ Line(u) \subseteq Turns
  BY DEF Line, Present, InLine, Waiting, Holding
<1>7. AskedOnce'
  BY <1>1, <1>2 DEF LockInv, AskedOnce, TypeOK
<1>8. ReleasedAreDone'
  BY <1>1, <1>2 DEF LockInv, ReleasedAreDone, TypeOK
<1>9. HoldersAreServed'
  BY <1>3, <1>4, <1>6 DEF LockInv, HoldersAreServed, InLine
<1>10. Chain'
  <2>1. ASSUME NEW u \in InLine \ {t}
        PROVE  IF Served(u)' THEN Before(u)' = {}
               ELSE \E p \in Line(u)' : prev'[u] = p /\ Before(u)' = {p} \cup Before(p)'
    <3>1. u \in Turns
      BY <1>6
    <3>2. CASE Served(u)
      BY <1>4, <3>1, <3>2 DEF LockInv, Chain, InLine
    <3>3. CASE ~Served(u)
      <4>1. PICK p \in Line(u) : prev[u] = p /\ Before(u) = {p} \cup Before(p)
        BY <3>3 DEF LockInv, Chain, InLine
      <4>2. CASE p = t
        BY <1>4, <1>5, <3>1, <4>1, <4>2
      <4>3. CASE p # t
        <5>1. p \in Turns
          BY <1>6
        <5>2. ~Served(u)' /\ p \in Line(u)'
          BY <1>4, <3>1, <3>3, <4>1, <4>3
        <5>3. prev'[u] = p
          BY <1>2, <4>1
        <5>4. Before(u)' = {p} \cup Before(p)'
          BY <1>4, <3>1, <4>1, <4>3, <5>1
        <5> QED BY <5>2, <5>3, <5>4
      <4> QED BY <4>2, <4>3
    <3> QED BY <3>2, <3>3
  <2> QED BY <1>3, <2>1 DEF Chain, InLine
<1>11. EndOfChain'
  <2>1. ASSUME NEW b \in Agents
        PROVE  IF tail'[b] = NoTurn THEN Present(b)' = {}
               ELSE \E u \in Present(b)' : tail'[b] = u /\ Present(b)' = {u} \cup Before(u)'
    <3>1. CASE tail[b] = NoTurn
      BY <1>1, <1>2, <1>3, <3>1, TurnsAssumption DEF LockInv, EndOfChain, TypeOK
    <3>2. CASE tail[b] # NoTurn
      <4>1. PICK u \in Present(b) : tail[b] = u /\ Present(b) = {u} \cup Before(u)
        BY <3>2 DEF LockInv, EndOfChain
      <4>2. u \in Turns /\ AgentOf[u] = b
        BY DEF Present, Waiting, Holding
      <4>3. CASE u = t
        <5>1. tail'[b] = NoTurn /\ Present(b)' = {}
          BY <1>1, <1>2, <1>3, <1>5, <4>1, <4>2, <4>3 DEF TypeOK
        <5> QED BY <5>1
      <4>4. CASE u # t
        <5>1. tail'[b] = u
          BY <1>1, <1>2, <4>1, <4>4 DEF TypeOK
        <5>2. u \in Present(b)' /\ Present(b)' = {u} \cup Before(u)'
          BY <1>3, <1>4, <4>1, <4>2, <4>4
        <5>3. u # NoTurn
          BY <3>2, <4>1
        <5> QED BY <5>1, <5>2, <5>3
      <4> QED BY <4>3, <4>4
    <3> QED BY <3>1, <3>2
  <2> QED BY <2>1 DEF EndOfChain
<1>12. InOrder'
  BY <1>2, <1>3, <1>4, <1>6 DEF LockInv, InOrder, InLine
<1> QED BY <1>7, <1>8, <1>9, <1>10, <1>11, <1>12 DEF LockInv

LEMMA MoveKeepsChain ==
  ASSUME LockInv, TypeOK', NEW t \in Turns, NEW place \in Places, Moves(t, place)
  PROVE  LockInv'
<1>1. /\ pc' = [pc EXCEPT ![t] = place]
      /\ prev' = prev /\ ahead' = ahead /\ tail' = tail /\ released' = released
  BY DEF Moves, lockVars
<1>2. /\ InLine' = InLine
      /\ \A u \in Holding' : Served(u)
      /\ \A x : Present(x)' = Present(x)
  BY LineOfMove
<1>3. \A u : /\ Line(u)' = Line(u)
             /\ Before(u)' = Before(u)
             /\ Served(u)' = Served(u)
  BY <1>1, <1>2 DEF Line, Before, Served
<1>4. AskedOnce'
  <2>1. \A u \in Turns : pc[u] \notin {"new", "registered"} => pc'[u] \notin {"new", "registered"}
    BY <1>1 DEF Moves, LockInv, TypeOK, Inside, Due
  <2> QED BY <1>1, <2>1 DEF LockInv, AskedOnce, TypeOK
<1>5. ReleasedAreDone'
  <2>1. pc[t] # "done"
    BY DEF Moves, Inside, Due
  <2> QED BY <1>1, <2>1 DEF LockInv, ReleasedAreDone, TypeOK
<1>6. HoldersAreServed'
  BY <1>2, <1>3 DEF HoldersAreServed
<1>7. Chain'
  BY <1>1, <1>2, <1>3 DEF LockInv, Chain, InLine
<1>8. EndOfChain'
  BY <1>1, <1>2, <1>3 DEF LockInv, EndOfChain
<1>9. InOrder'
  BY <1>1, <1>2, <1>3 DEF LockInv, InOrder, InLine
<1> QED BY <1>4, <1>5, <1>6, <1>7, <1>8, <1>9 DEF LockInv

LEMMA LockInit == Init => LockInv
<1> SUFFICES ASSUME Init PROVE LockInv
  OBVIOUS
<1>1. InLine = {} /\ Holding = {} /\ \A a \in Agents : Present(a) = {}
  BY DEF Init, InLine, Present, Waiting, Holding, Inside
<1>2. TypeOK
  BY DEF Init, TypeOK, Places
<1> QED BY <1>1, <1>2 DEF Init, LockInv, AskedOnce, ReleasedAreDone, HoldersAreServed,
                          Chain, EndOfChain, InOrder, InLine

\* LockInv holds in every reachable state.
THEOREM ChainCorrect == Spec => []LockInv
<1>1. LockInv /\ [Next]_vars => LockInv'
  <2> SUFFICES ASSUME LockInv, [Next]_vars PROVE LockInv'
    OBVIOUS
  <2>1. Arc /\ TypeOK'
    BY StepIsArc, TypeStep DEF LockInv
  <2>2. CASE \E t \in Turns : Joins(t)
    BY <2>1, <2>2, JoinKeepsChain
  <2>3. CASE \E t \in Turns : Leaves(t)
    BY <2>1, <2>3, LeaveKeepsChain
  <2>4. CASE \E t \in Turns, place \in Places : Moves(t, place)
    BY <2>1, <2>4, MoveKeepsChain
  <2>5. CASE UNCHANGED <<pc, lockVars>>
    BY <2>1, <2>5 DEF LockInv, AskedOnce, ReleasedAreDone, HoldersAreServed, Chain,
                      EndOfChain, InOrder, Served, Before, Line, Present, Waiting, Holding,
                      lockVars
  <2> QED BY <2>1, <2>2, <2>3, <2>4, <2>5 DEF Arc
<1> QED BY <1>1, LockInit, PTL DEF Spec

\* An agent without turns has no entry in agentExecutionLocks.
THEOREM NoEntryLeft == Spec => []NoStaleEntry
<1>1. LockInv => NoStaleEntry
  BY DEF LockInv, EndOfChain, NoStaleEntry
<1> QED BY <1>1, ChainCorrect, PTL

\* One turn of an agent runs at a time: of two that hold it one came before the
\* other, and nobody is before a turn that is served.
THEOREM OneTurnAtATime ==
  Spec => [](\A t, u \in Holding : AgentOf[t] = AgentOf[u] => t = u)
<1>1. LockInv => \A t, u \in Holding : AgentOf[t] = AgentOf[u] => t = u
  <2> SUFFICES ASSUME LockInv, NEW t \in Holding, NEW u \in Holding, AgentOf[t] = AgentOf[u], t # u
               PROVE  FALSE
    OBVIOUS
  <2>1. t \in Line(u) /\ u \in Line(t)
    BY DEF Line, Present, Holding
  <2>2. Before(t) = {} /\ Before(u) = {}
    BY DEF LockInv, HoldersAreServed, Chain
  <2>3. u \in ahead[t] \/ t \in ahead[u]
    BY <2>1 DEF LockInv, InOrder
  <2> QED BY <2>1, <2>2, <2>3 DEF Before
<1> QED BY <1>1, ChainCorrect, PTL

-----------------------------------------------------------------------------
(* No wakeup is lost.  That somebody in line is always due cannot be had    *)
(* from the chain without an induction along it; it is had from the other   *)
(* end: whoever is in line hands over to the next one.                      *)

\* While turns are in line for an agent, one of them is served: the line of
\* runExclusiveAgentExecution never waits for nobody, whoever was refused,
\* aborted, retried or dropped from the map before.
NoLostWakeup ==
  \A a \in Agents : Present(a) # {} => \E t \in Present(a) : Served(t)

Relayed ==
  \A a \in Agents : \A u \in Present(a) : tail[a] = u \/ \E v \in Present(a) : prev[v] = u

WakeInv == LockInv /\ Relayed /\ NoLostWakeup

LEMMA WakeJoin ==
  ASSUME WakeInv, NEW t \in Turns, Joins(t)
  PROVE  Relayed' /\ NoLostWakeup'
<1> DEFINE a == AgentOf[t]
<1>1. /\ prev \in [Turns -> Turns \cup {NoTurn}] /\ tail \in [Agents -> Turns \cup {NoTurn}]
      /\ a \in Agents /\ TypeOK /\ LockInv
  BY TurnsAssumption DEF WakeInv, LockInv, TypeOK
<1>2. prev' = [prev EXCEPT ![t] = tail[a]] /\ tail' = [tail EXCEPT ![a] = t] /\ released' = released
  BY DEF Joins, Enqueue
<1>3. t \notin InLine /\ \A x : Present(x)' = IF x = a THEN Present(x) \cup {t} ELSE Present(x)
  BY <1>1, LineOfJoin
<1>4. \A x : \A u \in Present(x) : u \in Turns /\ u # t /\ prev'[u] = prev[u]
  BY <1>1, <1>2, <1>3 DEF Present, InLine, Waiting, Holding
<1>5. prev'[t] = tail[a] /\ tail'[a] = t /\ \A b \in Agents \ {a} : tail'[b] = tail[b]
  BY <1>1, <1>2
<1>6. Relayed'
  <2>1. ASSUME NEW b \in Agents, NEW u \in Present(b)' PROVE tail'[b] = u \/ \E v \in Present(b)' : prev'[v] = u
    <3>1. CASE u = t
      BY <1>3, <1>4, <1>5, <2>1, <3>1
    <3>2. CASE u # t
      <4>1. u \in Present(b)
        BY <1>3, <2>1, <3>2
      <4>2. tail[b] = u \/ \E v \in Present(b) : prev[v] = u
        BY <4>1 DEF WakeInv, Relayed
      <4>3. CASE tail[b] = u
        BY <1>3, <1>5, <4>3
      <4>4. CASE \E v \in Present(b) : prev[v] = u
        BY <1>3, <1>4, <4>4
      <4> QED BY <4>2, <4>3, <4>4
    <3> QED BY <3>1, <3>2
  <2> QED BY <2>1 DEF Relayed
<1>7. NoLostWakeup'
  <2>1. ASSUME NEW b \in Agents, Present(b) # {}
        PROVE  \E u \in Present(b)' : prev'[u] = NoTurn \/ prev'[u] \in released'
    BY <1>2, <1>3, <1>4, <2>1 DEF WakeInv, NoLostWakeup, Served
  <2>2. ASSUME Present(a) = {} PROVE \E u \in Present(a)' : prev'[u] = NoTurn \/ prev'[u] \in released'
    <3>1. tail[a] = NoTurn
      BY <1>1, <2>2 DEF LockInv, EndOfChain
    <3> QED BY <1>3, <1>5, <3>1
  <2>3. ASSUME NEW b \in Agents \ {a}, Present(b)' # {} PROVE Present(b) # {}
    BY <1>3, <2>3
  <2> QED BY <2>1, <2>2, <2>3 DEF NoLostWakeup, Served
<1> QED BY <1>6, <1>7

LEMMA WakeLeave ==
  ASSUME WakeInv, NEW t \in Turns, Leaves(t)
  PROVE  Relayed' /\ NoLostWakeup'
<1> DEFINE a == AgentOf[t]
<1>1. /\ tail \in [Agents -> Turns \cup {NoTurn}] /\ a \in Agents /\ LockInv
  BY TurnsAssumption DEF WakeInv, LockInv, TypeOK
<1>2. /\ prev' = prev /\ released' = released \cup {t}
      /\ tail' = [tail EXCEPT ![a] = IF @ = t THEN NoTurn ELSE @]
  BY DEF Leaves, DropTail
<1>3. /\ t \in InLine /\ Served(t) /\ \A x : Present(x)' = Present(x) \ {t}
  BY <1>1, LineOfLeave
<1>4. \A x : \A u \in Present(x) : u \in Turns /\ u \notin released /\ u # NoTurn
  BY <1>1, TurnsAssumption DEF LockInv, ReleasedAreDone, Present, Waiting, Holding, Inside
<1>5. ASSUME NEW b \in Agents, NEW u \in Present(b) \ {t}
      PROVE  tail'[b] = u \/ \E v \in Present(b)' : prev'[v] = u
  <2>1. tail[b] = u \/ \E v \in Present(b) : prev[v] = u
    BY <1>5 DEF WakeInv, Relayed
  <2>2. CASE tail[b] = u
    BY <1>1, <1>2, <1>5, <2>2
  <2>3. ASSUME NEW v \in Present(b), prev[v] = u PROVE v # t
    BY <1>3, <1>4, <1>5, <2>3 DEF Served
  <2> QED BY <1>2, <1>3, <2>1, <2>2, <2>3
<1>6. Relayed'
  BY <1>3, <1>5 DEF Relayed
<1>7. ASSUME NEW b \in Agents, Present(b)' # {}
      PROVE  \E u \in Present(b)' : prev'[u] = NoTurn \/ prev'[u] \in released'
  <2>1. CASE t \notin Present(b)
    <3>1. Present(b)' = Present(b)
      BY <1>3, <2>1
    <3> QED BY <1>2, <1>7, <3>1 DEF WakeInv, NoLostWakeup, Served
  <2>2. CASE t \in Present(b)
    <3>1. Before(t) = {}
      BY <1>1, <1>3 DEF LockInv, Chain, InLine
    <3>2. tail[b] # t
      <4>1. SUFFICES ASSUME tail[b] = t PROVE FALSE
        OBVIOUS
      <4>2. Present(b) = {t} \cup Before(t)
        BY <1>1, <1>4, <2>2, <4>1 DEF LockInv, EndOfChain
      <4> QED BY <1>3, <1>7, <3>1, <4>2
    <3>3. PICK v \in Present(b) : prev[v] = t
      BY <2>2, <3>2 DEF WakeInv, Relayed
    <3>4. v # t
      BY <1>3, <1>4, <2>2, <3>3 DEF Served
    <3> QED BY <1>2, <1>3, <3>3, <3>4
  <2> QED BY <2>1, <2>2
<1> QED BY <1>6, <1>7 DEF NoLostWakeup, Served

\* Whatever turns do, the line of an agent never waits for nobody.
THEOREM WakeupsAreKept == Spec => []NoLostWakeup
<1>1. Init => LockInv /\ Relayed /\ NoLostWakeup
  <2>1. Init => \A a \in Agents : Present(a) = {}
    BY DEF Init, Present, Waiting, Holding, Inside
  <2> QED BY <2>1, LockInit DEF Relayed, NoLostWakeup
<1>2. ASSUME LockInv, WakeInv, [Next]_vars PROVE Relayed' /\ NoLostWakeup'
  <2>1. Arc
    BY <1>2, StepIsArc
  <2>2. ASSUME NEW t \in Turns, NEW place \in Places, Moves(t, place) PROVE Relayed' /\ NoLostWakeup'
    <3>1. UNCHANGED lockVars /\ \A x : Present(x)' = Present(x)
      BY <1>2, <2>2, LineOfMove DEF Moves
    <3> QED BY <1>2, <3>1 DEF WakeInv, Relayed, NoLostWakeup, Served, lockVars
  <2>3. CASE UNCHANGED <<pc, lockVars>>
    BY <1>2, <2>3 DEF WakeInv, Relayed, NoLostWakeup, Served, lockVars, Present, Waiting, Holding
  <2> QED BY <1>2, <2>1, <2>2, <2>3, WakeJoin, WakeLeave DEF Arc
<1>3. LockInv /\ Relayed /\ NoLostWakeup /\ LockInv' /\ [Next]_vars => (LockInv /\ Relayed /\ NoLostWakeup)'
  BY <1>2 DEF WakeInv
<1> QED BY <1>1, <1>3, ChainCorrect, PTL DEF Spec

-----------------------------------------------------------------------------
(* The chain implements the lock.                                          *)

LEMMA LineIsLine == ASSUME NEW a PROVE Lock!Present(a) = Present(a)
BY DEF Lock!Present, Present

\* A turn that is served is the next one, and finds its agent free.
LEMMA ServedIsNext ==
  ASSUME LockInv, NEW t \in Turns, Due(t)
  PROVE  /\ Lock!IsNext(t)
         /\ \A u \in Holding : AgentOf[u] # AgentOf[t]
<1>1. t \in Waiting /\ Served(t)
  BY DEF Due, Waiting, Served
<1>2. Before(t) = {}
  BY <1>1 DEF LockInv, Chain
<1>3. Lock!IsNext(t)
  BY <1>1, <1>2, LineIsLine DEF Lock!IsNext, Before, Line
<1>4. ASSUME NEW u \in Holding, AgentOf[u] = AgentOf[t] PROVE FALSE
  <2>1. Before(u) = {}
    BY DEF LockInv, HoldersAreServed, Chain
  <2>2. u # t
    BY <1>1 DEF Waiting, Holding, Inside
  <2>3. t \in Line(u) /\ u \in Line(t)
    BY <1>1, <1>4 DEF Line, Present
  <2>4. u \in ahead[t] \/ t \in ahead[u]
    BY <1>1, <2>2, <2>3 DEF LockInv, InOrder
  <2> QED BY <1>2, <2>1, <2>3, <2>4 DEF Before
<1> QED BY <1>3, <1>4

LEMMA StepRefines ==
  ASSUME LockInv, Arc
  PROVE  [Lock!Next]_(Lock!vars)
<1>0. TypeOK
  BY DEF LockInv
<1>1. ASSUME NEW t \in Turns, Joins(t) PROVE Lock!Ask(t)
  <2>1. /\ ahead' = [ahead EXCEPT ![t] = Present(AgentOf[t])]
        /\ pc' = [pc EXCEPT ![t] = "queued"] /\ pc[t] \in {"new", "registered"}
    BY <1>1 DEF Joins, Enqueue, Goto
  <2>2. /\ t \notin Waiting \cup Holding
        /\ Waiting' = Waiting \cup {t}
        /\ Holding' = Holding
    BY <1>0, <2>1 DEF TypeOK, Waiting, Holding, Inside
  <2> QED BY <2>1, <2>2, LineIsLine DEF Lock!Ask
<1>2. ASSUME NEW t \in Turns, Leaves(t) PROVE Lock!Pass(t) \/ Lock!Leave(t)
  <2>1. pc' = [pc EXCEPT ![t] = "done"] /\ ahead' = ahead
    BY <1>2 DEF Leaves
  <2>2. CASE Due(t)
    <3>1. Waiting' = Waiting \ {t} /\ Holding' = Holding
      BY <1>0, <2>1, <2>2 DEF TypeOK, Waiting, Holding, Inside, Due
    <3> QED BY <2>1, <2>2, <3>1, ServedIsNext DEF Lock!Pass
  <2>3. CASE pc[t] \in Inside
    <3>1. t \in Holding /\ Holding' = Holding \ {t} /\ Waiting' = Waiting
      BY <1>0, <2>1, <2>3 DEF TypeOK, Waiting, Holding, Inside
    <3> QED BY <2>1, <3>1 DEF Lock!Leave
  <2> QED BY <1>2, <2>2, <2>3 DEF Leaves
<1>3. ASSUME NEW t \in Turns, NEW place \in Places, Moves(t, place)
      PROVE Lock!Enter(t) \/ UNCHANGED (Lock!vars)
  <2>1. pc' = [pc EXCEPT ![t] = place] /\ ahead' = ahead
    BY <1>3 DEF Moves, lockVars
  <2>2. CASE Due(t)
    <3>1. place \in Inside
      BY <1>3, <2>2 DEF Moves, Due
    <3>2. Waiting' = Waiting \ {t} /\ Holding' = Holding \cup {t}
      BY <1>0, <2>1, <2>2, <3>1 DEF TypeOK, Waiting, Holding, Inside, Due
    <3> QED BY <2>1, <2>2, <3>2, ServedIsNext DEF Lock!Enter
  <2>3. CASE ~Due(t)
    <3>1. Waiting' = Waiting /\ Holding' = Holding
      BY <1>0, <1>3, <2>1, <2>3 DEF TypeOK, Waiting, Holding, Inside, Moves
    <3> QED BY <2>1, <3>1 DEF Lock!vars
  <2> QED BY <2>2, <2>3
<1>4. CASE UNCHANGED <<pc, lockVars>>
  BY <1>4 DEF Lock!vars, Waiting, Holding, lockVars
<1> QED BY <1>1, <1>2, <1>3, <1>4 DEF Arc, Lock!Next

\* runExclusiveAgentExecution is a lock: the turns of an agent run one at a time,
\* in the order in which they asked.
THEOREM TurnsRunInOrder == Spec => Lock!Spec
<1>1. Init => Lock!Init
  BY DEF Init, Lock!Init, Waiting, Holding, Inside
<1>2. LockInv /\ [Next]_vars => [Lock!Next]_(Lock!vars)
  BY StepIsArc, StepRefines
<1> QED BY <1>1, <1>2, ChainCorrect, PTL DEF Spec, Lock!Spec

-----------------------------------------------------------------------------
(* Chats and the deletion of their agent.                                  *)

Chats(a) == {t \in Turns : Kind[t] = "chat" /\ AgentOf[t] = a}

\* A chat is in the registry from its arrival to its end.
ChatsAreRegistered ==
  \A t \in Turns : Kind[t] = "chat" /\ pc[t] \notin {"new", "done"} => t \in registry

\* While an agent is being removed, and ever after, the registry holds no chat of it.
RemovedIsQuiet ==
  \A a \in Agents :
    deletion[a] = "removing" \/ a \in gone => Chats(a) \cap registry = {}

ChatInv == TypeOK /\ ChatsAreRegistered /\ RemovedIsQuiet

LEMMA ChatStep == ASSUME ChatInv, [Next]_vars PROVE ChatInv'
<1> USE DEF lockVars, agentVars
<1>1. TypeOK /\ TypeOK'
  BY TypeStep DEF ChatInv
\* A turn moves within its place in the registry.
<1>2. ASSUME NEW t \in Turns, NEW place \in Places,
             pc' = [pc EXCEPT ![t] = place], pc[t] # "new" \/ Kind[t] # "chat",
             pc[t] # "done",
             registry' \subseteq registry \cup {t},
             registry \ {t} \subseteq registry',
             Kind[t] = "chat" /\ place # "done" => registry' = registry,
             deletion' = deletion, gone' = gone,
             Kind[t] = "chat" => registry' \subseteq registry
      PROVE  ChatInv'
  <2>1. ChatsAreRegistered'
    BY <1>1, <1>2 DEF ChatInv, ChatsAreRegistered, TypeOK
  <2>2. RemovedIsQuiet'
    BY <1>1, <1>2 DEF ChatInv, RemovedIsQuiet, Chats, TypeOK
  <2> QED BY <1>1, <2>1, <2>2 DEF ChatInv
<1>3. {"registered", "queued", "done", "running", "waiting", "preparing", "configuring"}
         \subseteq Places
  BY DEF Places, Inside
<1>4. ASSUME NEW t \in Turns, Register(t) PROVE ChatInv'
  <2>1. ChatsAreRegistered'
    BY <1>1, <1>4 DEF ChatInv, ChatsAreRegistered, TypeOK, Register, Goto
  <2>2. ASSUME NEW a \in Agents, deletion'[a] = "removing" \/ a \in gone'
        PROVE  (Chats(a) \cap registry = {})'
    <3>1. Chats(a) \cap registry = {}
      BY <1>4, <2>2 DEF Register, ChatInv, RemovedIsQuiet
    <3>2. t \notin Chats(a)
      BY <1>4, <2>2 DEF Register, Chats, AgentCurrent
    <3> QED BY <1>4, <3>1, <3>2 DEF Register, Chats
  <2> QED BY <1>1, <2>1, <2>2 DEF ChatInv, RemovedIsQuiet
<1>5. ASSUME NEW t \in Turns, Join(t) PROVE ChatInv'
  BY <1>2, <1>3, <1>5 DEF Join, Enqueue, Goto
<1>6. ASSUME NEW t \in Turns, StartStep(t) \/ StartMessage(t) PROVE ChatInv'
  BY <1>2, <1>3, <1>6 DEF StartStep, StartMessage, Enqueue, Goto
<1>7. ASSUME NEW t \in Turns, GivesUp(t) PROVE ChatInv'
  BY <1>2, <1>3, <1>7 DEF GivesUp, Goto
<1>8. ASSUME NEW t \in Turns, Leave(t), pc[t] \notin {"new", "done"} PROVE ChatInv'
  BY <1>2, <1>3, <1>8 DEF Leave, Goto
<1>9. ASSUME NEW t \in Turns, Attempt(t), pc[t] \notin {"new", "done"} PROVE ChatInv'
  <2>1. CASE Leave(t)
    BY <1>8, <1>9, <2>1
  <2>2. CASE ~Leave(t)
    <3>1. PICK place \in Places :
            /\ pc' = [pc EXCEPT ![t] = place]
            /\ registry' = registry \/ (Kind[t] = "message" /\ registry' = registry \cup {t})
            /\ deletion' = deletion /\ gone' = gone
      BY <1>3, <1>9, <2>2 DEF Attempt, Goto
    <3> QED BY <1>2, <1>9, <3>1
  <2> QED BY <2>1, <2>2
<1>10. ASSUME NEW t \in Turns, Enter(t) \/ Retry(t) PROVE ChatInv'
  BY <1>9, <1>10 DEF Enter, Retry, Due
<1>11. ASSUME NEW t \in Turns, Configure(t) PROVE ChatInv'
  <2>1. CASE Leave(t)
    BY <1>8, <1>11, <2>1 DEF Configure
  <2>2. CASE ~Leave(t)
    BY <1>2, <1>3, <1>11, <2>2 DEF Configure, Goto
  <2> QED BY <2>1, <2>2
<1>12. ASSUME NEW t \in Turns, Spawn(t) PROVE ChatInv'
  BY <1>2, <1>3, <1>12 DEF Spawn, Goto
<1>13. ASSUME NEW t \in Turns, Fails(t) \/ Answers(t) \/ Killed(t) PROVE ChatInv'
  BY <1>8, <1>13 DEF Fails, Answers, Killed
<1>14. ASSUME NEW t \in Turns, SessionLocked(t) PROVE ChatInv'
  BY <1>2, <1>3, <1>14 DEF SessionLocked, Goto
<1>15. ASSUME NEW t \in Turns, SwitchModel(t) PROVE ChatInv'
  BY <1>2, <1>3, <1>15 DEF SwitchModel, Goto
<1>16. ASSUME UNCHANGED <<pc, registry, gone>>,
              \A a \in Agents : deletion'[a] = "removing" =>
                                  deletion[a] = "removing" \/ RegisteredTurns(a) = {}
       PROVE  ChatInv'
  <2>1. ChatsAreRegistered'
    BY <1>16 DEF ChatInv, ChatsAreRegistered
  <2>2. RemovedIsQuiet'
    BY <1>16 DEF ChatInv, RemovedIsQuiet, RegisteredTurns, Chats
  <2> QED BY <1>1, <2>1, <2>2 DEF ChatInv
<1>17. ASSUME NEW t \in Turns, CancelTurn(t) PROVE ChatInv'
  BY <1>16, <1>17 DEF CancelTurn
<1>18. ASSUME NEW a \in Agents, CancelTurnsForAgent(a) PROVE ChatInv'
  BY <1>16, <1>18 DEF CancelTurnsForAgent
<1>19. ASSUME NEW a \in Agents, BeginDeletion(a) \/ Quiesced(a) \/ DeletionFails(a)
       PROVE ChatInv'
  <2>1. UNCHANGED <<pc, registry, gone>>
    BY <1>19 DEF BeginDeletion, Quiesced, DeletionFails
  <2>2. \A b \in Agents : deletion'[b] = "removing" =>
                            deletion[b] = "removing" \/ RegisteredTurns(b) = {}
    BY <1>1, <1>19 DEF BeginDeletion, Quiesced, DeletionFails, TypeOK
  <2> QED BY <1>16, <2>1, <2>2
<1>20. ASSUME NEW a \in Agents, RemoveAgent(a) PROVE ChatInv'
  <2>1. ChatsAreRegistered'
    BY <1>20 DEF RemoveAgent, ChatInv, ChatsAreRegistered
  <2>2. RemovedIsQuiet'
    BY <1>1, <1>20 DEF RemoveAgent, ChatInv, RemovedIsQuiet, Chats, TypeOK
  <2> QED BY <1>1, <2>1, <2>2 DEF ChatInv
<1>21. ASSUME NEW r \in Runs, StopRun(r) PROVE ChatInv'
  BY <1>16, <1>21 DEF StopRun
<1>22. CASE UNCHANGED vars
  BY <1>16, <1>22 DEF vars
<1> QED
  BY <1>4, <1>5, <1>6, <1>7, <1>10, <1>11, <1>12, <1>13, <1>14, <1>15, <1>17, <1>18, <1>19,
     <1>20, <1>21, <1>22 DEF Next

\* A chat never holds an agent that was removed.
THEOREM NoChatOnRemovedAgent == Spec => []ChatsEndBeforeRemoval
<1>1. Init => ChatInv
  BY DEF Init, ChatInv, TypeOK, Places, ChatsAreRegistered, RemovedIsQuiet
<1>2. ChatInv /\ [Next]_vars => ChatInv'
  BY ChatStep
<1>3. ChatInv => ChatsEndBeforeRemoval
  BY TurnsAssumption DEF ChatInv, ChatsAreRegistered, RemovedIsQuiet, Chats,
                         ChatsEndBeforeRemoval, Inside
<1> QED BY <1>1, <1>2, <1>3, PTL DEF Spec

=============================================================================
