----------------------------- MODULE AgentTurns -----------------------------
(***************************************************************************)
(* Agent turns of the dashboard server: the per-agent lock                 *)
(* (lib/agent-execution.ts), the registry of running turns                 *)
(* (lib/agent-turns.ts), the four kinds of callers - dashboard chats,      *)
(* channel replies, direct messages and workflow steps -, the three ways   *)
(* to stop a turn, and the deletion of an agent (routes/agents.ts).        *)
(*                                                                         *)
(* A promise continuation runs before any other callback: `Idle' says that *)
(* no turn is due at the head of its queue.                                *)
(***************************************************************************)
EXTENDS Naturals

CONSTANTS
  Agents,      \* agent ids
  Turns,       \* requests that run an agent, each of them once
  AgentOf,     \* AgentOf[t]: the agent of t
  Kind,        \* Kind[t]: who calls
  Runs,        \* workflow executions
  RunOf,       \* RunOf[t]: the execution a step belongs to
  MaxReruns,   \* MaxReruns[t]: how often the process of t may be run again
  NoTurn       \* no promise in agentExecutionLocks

Kinds == {"chat", "channel", "message", "step"}

ASSUME TurnsAssumption ==
  /\ AgentOf \in [Turns -> Agents]
  /\ Kind \in [Turns -> Kinds]
  /\ RunOf \in [Turns -> Runs]
  /\ MaxReruns \in [Turns -> Nat]
  /\ NoTurn \notin Turns

VARIABLES
  pc,         \* where the request is
  tail,       \* agentExecutionLocks: the turn whose promise is stored for a
  prev,       \* the turn whose promise t awaits
  released,   \* turns that have called release()
  reruns,     \* session-lock retries and backup-model runs so far
  registry,   \* activeTurns
  aborted,    \* turns whose AbortController has fired
  stopping,   \* turns whose process group is being killed
  cancelled,  \* cancelledExecutions
  deletion,   \* the deletion of a: "none", "stopping" its turns, "removing" it
  gone,       \* agents whose files and registration were removed
  ahead       \* history: turns of the same agent in line when t joined it

lockVars  == <<tail, prev, released, ahead>>
agentVars == <<deletion, gone>>
vars == <<pc, lockVars, reruns, registry, aborted, stopping, cancelled, agentVars>>

\* The places of a turn that has its agent: a step waits for the gateway, all
\* but messages wait for the agent's configuration, then the process runs; a
\* turn that met a locked session waits for its next attempt.
Inside  == {"preparing", "configuring", "running", "waiting"}
Places  == {"new", "registered", "queued", "done"} \cup Inside

Waiting    == {t \in Turns : pc[t] = "queued"}
Holding    == {t \in Turns : pc[t] \in Inside}
Present(a) == {t \in Waiting \cup Holding : AgentOf[t] = a}

TypeOK ==
  /\ pc \in [Turns -> Places]
  /\ tail \in [Agents -> Turns \cup {NoTurn}]
  /\ prev \in [Turns -> Turns \cup {NoTurn}]
  /\ released \in SUBSET Turns
  /\ reruns \in [Turns -> Nat]
  /\ registry \in SUBSET Turns
  /\ aborted \in SUBSET Turns
  /\ stopping \in SUBSET Turns
  /\ cancelled \in SUBSET Runs
  /\ deletion \in [Agents -> {"none", "stopping", "removing"}]
  /\ gone \in SUBSET Agents
  /\ ahead \in [Turns -> SUBSET Turns]

Init ==
  /\ pc = [t \in Turns |-> "new"]
  /\ tail = [a \in Agents |-> NoTurn]
  /\ prev = [t \in Turns |-> NoTurn]
  /\ released = {}
  /\ reruns = [t \in Turns |-> 0]
  /\ registry = {}
  /\ aborted = {}
  /\ stopping = {}
  /\ cancelled = {}
  /\ deletion = [a \in Agents |-> "none"]
  /\ gone = {}
  /\ ahead = [t \in Turns |-> {}]

\* `await previous' is over: the continuation is due.
Due(t) == pc[t] = "queued" /\ (prev[t] = NoTurn \/ prev[t] \in released)

Idle == \A t \in Turns : ~Due(t)

\* Variant: only the files tell whether an agent is there.
AgentExists(a) == a \notin gone

\* resolveCurrentChatAgentGeneration: chats and messages look at the deletion.
AgentCurrent(a) == deletion[a] = "none" /\ a \notin gone

Goto(t, place) == pc' = [pc EXCEPT ![t] = place]

-----------------------------------------------------------------------------
(* A request arrives, and joins the line of its agent.                     *)

\* The synchronous part of runExclusiveAgentExecution.
Enqueue(t) ==
  LET a == AgentOf[t] IN
  /\ prev' = [prev EXCEPT ![t] = tail[a]]
  /\ tail' = [tail EXCEPT ![a] = t]
  /\ ahead' = [ahead EXCEPT ![t] = Present(a)]
  /\ Goto(t, "queued")
  /\ UNCHANGED released

\* A chat or a channel reply registers its turn, then looks for the gateway.
Register(t) ==
  /\ Idle
  /\ pc[t] = "new"
  /\ Kind[t] \in {"chat", "channel"}
  /\ AgentOf[t] \notin gone
  /\ Kind[t] = "chat" => AgentCurrent(AgentOf[t])
  /\ registry' = registry \cup {t}
  /\ Goto(t, "registered")
  /\ UNCHANGED <<lockVars, reruns, aborted, stopping, cancelled, agentVars>>

Join(t) ==
  /\ Idle
  /\ pc[t] = "registered"
  /\ Enqueue(t)
  /\ UNCHANGED <<reruns, registry, aborted, stopping, cancelled, agentVars>>

\* No gateway, no provider: the turn ends before it asks for the agent.
GivesUp(t) ==
  /\ Idle
  /\ pc[t] = "registered"
  /\ registry' = registry \ {t}
  /\ Goto(t, "done")
  /\ UNCHANGED <<lockVars, reruns, aborted, stopping, cancelled, agentVars>>

\* A step registers its turn and joins the line at once.
StartStep(t) ==
  /\ Idle
  /\ pc[t] = "new"
  /\ Kind[t] = "step"
  /\ RunOf[t] \notin cancelled
  /\ AgentOf[t] \notin gone
  /\ registry' = registry \cup {t}
  /\ Enqueue(t)
  /\ UNCHANGED <<reruns, aborted, stopping, cancelled, agentVars>>

\* A message joins the line first and registers its turn when its time comes.
StartMessage(t) ==
  /\ Idle
  /\ pc[t] = "new"
  /\ Kind[t] = "message"
  /\ AgentCurrent(AgentOf[t])
  /\ Enqueue(t)
  /\ UNCHANGED <<reruns, registry, aborted, stopping, cancelled, agentVars>>

-----------------------------------------------------------------------------
(* A turn at the head of its line.                                         *)

\* Variant: the entry of the agent is dropped, whoever joined since.
ForgetTail(t) == tail' = [tail EXCEPT ![AgentOf[t]] = NoTurn]

\* Variant: the stored promise is never the one the turn compares with.
KeepTail(t) == UNCHANGED tail

\* The cleanup compares identities: a newer turn's entry stays.
DropTail(t) ==
  tail' = [tail EXCEPT ![AgentOf[t]] = IF @ = t THEN NoTurn ELSE @]

\* The two finally blocks: the lock is released, the turn leaves the registry.
Leave(t) ==
  /\ released' = released \cup {t}
  /\ DropTail(t)
  /\ registry' = registry \ {t}
  /\ stopping' = stopping \ {t}
  /\ Goto(t, "done")
  /\ UNCHANGED <<prev, ahead, reruns, aborted, cancelled, agentVars>>

\* assertAuthorized of a step, and the check a chat makes in its callback.
Refused(t) ==
  \/ Kind[t] = "step" /\ (RunOf[t] \in cancelled \/ t \in aborted)
  \/ Kind[t] = "chat" /\ ~AgentCurrent(AgentOf[t])

\* An attempt begins.
Attempt(t) ==
  \/ /\ Refused(t)
     /\ Leave(t)
  \/ /\ ~Refused(t)
     /\ Kind[t] # "message"
     /\ Goto(t, IF Kind[t] = "step" THEN "preparing" ELSE "configuring")
     /\ UNCHANGED <<lockVars, reruns, registry, aborted, stopping, cancelled, agentVars>>
  \/ /\ Kind[t] = "message"
     /\ registry' = registry \cup {t}
     /\ aborted' = aborted \ {t}
     /\ Goto(t, "running")
     /\ UNCHANGED <<lockVars, reruns, stopping, cancelled, agentVars>>

Enter(t) == Due(t) /\ Attempt(t)

\* Variant: a step does not look at the stops again.
ConfigureAnyway(t) ==
  /\ Idle
  /\ pc[t] = "preparing"
  /\ Goto(t, "configuring")
  /\ UNCHANGED <<lockVars, reruns, registry, aborted, stopping, cancelled, agentVars>>

\* The gateway answered; a step looks at the stops once more.
Configure(t) ==
  /\ Idle
  /\ pc[t] = "preparing"
  /\ \/ RunOf[t] \in cancelled /\ Leave(t)
     \/ /\ RunOf[t] \notin cancelled
        /\ Goto(t, "configuring")
        /\ UNCHANGED <<lockVars, reruns, registry, aborted, stopping, cancelled, agentVars>>

\* Variant: a signal that fired before the process was there is not seen.
SpawnUnaware(t) ==
  /\ Idle
  /\ pc[t] = "configuring"
  /\ Goto(t, "running")
  /\ UNCHANGED <<lockVars, reruns, registry, aborted, stopping, cancelled, agentVars>>

\* The process is spawned, and killed at once when the turn was aborted.
Spawn(t) ==
  /\ Idle
  /\ pc[t] = "configuring"
  /\ Goto(t, "running")
  /\ stopping' = IF t \in aborted THEN stopping \cup {t} ELSE stopping
  /\ UNCHANGED <<lockVars, reruns, registry, aborted, cancelled, agentVars>>

\* The configuration of the agent or its process fails before it runs.
Fails(t) ==
  /\ Idle
  /\ pc[t] \in {"preparing", "configuring"}
  /\ Leave(t)

\* The process closes with an answer or an error.
Answers(t) ==
  /\ Idle
  /\ pc[t] = "running"
  /\ Leave(t)

\* The process closes because the session file is locked: wait and retry.
SessionLocked(t) ==
  /\ Idle
  /\ pc[t] = "running"
  /\ reruns[t] < MaxReruns[t]
  /\ reruns' = [reruns EXCEPT ![t] = @ + 1]
  /\ stopping' = stopping \ {t}
  /\ registry' = IF Kind[t] = "message" THEN registry \ {t} ELSE registry
  /\ Goto(t, "waiting")
  /\ UNCHANGED <<lockVars, aborted, cancelled, agentVars>>

Retry(t) ==
  /\ Idle
  /\ pc[t] = "waiting"
  /\ Attempt(t)

\* The answer asks for the backup model: a chat and a step run it at once.
SwitchModel(t) ==
  /\ Idle
  /\ pc[t] = "running"
  /\ Kind[t] \in {"chat", "step"}
  /\ reruns[t] < MaxReruns[t]
  /\ reruns' = [reruns EXCEPT ![t] = @ + 1]
  /\ stopping' = stopping \ {t}
  /\ Goto(t, IF Kind[t] = "step" THEN "preparing" ELSE "configuring")
  /\ UNCHANGED <<lockVars, registry, aborted, cancelled, agentVars>>

\* SIGKILL was sent: the promise settles, whatever holds the streams open.
Killed(t) ==
  /\ Idle
  /\ pc[t] = "running"
  /\ t \in stopping
  /\ Leave(t)

-----------------------------------------------------------------------------
(* Stopping turns.                                                         *)

\* controller.abort() on the turns ts; one whose process runs is killed.
Abort(ts) ==
  /\ aborted' = aborted \cup ts
  /\ stopping' = stopping \cup {t \in ts : pc[t] = "running"}

\* POST /:id/chat/cancel with a turnId.
CancelTurn(t) ==
  /\ Idle
  /\ t \in registry
  /\ Abort({t})
  /\ UNCHANGED <<pc, lockVars, reruns, registry, cancelled, agentVars>>

RegisteredTurns(a) == {t \in registry : AgentOf[t] = a}

\* POST /:id/chat/cancel without one.
CancelTurnsForAgent(a) ==
  /\ Idle
  /\ RegisteredTurns(a) # {}
  /\ Abort(RegisteredTurns(a))
  /\ UNCHANGED <<pc, lockVars, reruns, registry, cancelled, agentVars>>

\* cancelExecution: the cancellers of r, which exist while a process runs.
StopRun(r) ==
  LET steps == {t \in Turns : Kind[t] = "step" /\ RunOf[t] = r} IN
  /\ Idle
  /\ \E t \in steps : pc[t] \notin {"new", "done"}
  /\ cancelled' = cancelled \cup {r}
  /\ stopping' = stopping \cup {t \in steps : pc[t] = "running"}
  /\ UNCHANGED <<pc, lockVars, reruns, registry, aborted, agentVars>>

-----------------------------------------------------------------------------
(* deleteAgentSafely.                                                      *)

BeginDeletion(a) ==
  /\ Idle
  /\ AgentCurrent(a)
  /\ deletion' = [deletion EXCEPT
                    ![a] = IF RegisteredTurns(a) = {} THEN "removing" ELSE "stopping"]
  /\ Abort(RegisteredTurns(a))
  /\ UNCHANGED <<pc, lockVars, reruns, registry, cancelled, gone>>

\* A poll of the registry finds no turn of a: its workspace state is cleared and
\* it is taken out of the gateway, two calls that are awaited.
Quiesced(a) ==
  /\ Idle
  /\ deletion[a] = "stopping"
  /\ RegisteredTurns(a) = {}
  /\ deletion' = [deletion EXCEPT ![a] = "removing"]
  /\ UNCHANGED <<pc, lockVars, reruns, registry, aborted, stopping, cancelled, gone>>

\* Four seconds were not enough, or one of the two calls failed.
DeletionFails(a) ==
  /\ Idle
  /\ deletion[a] # "none"
  /\ deletion' = [deletion EXCEPT ![a] = "none"]
  /\ UNCHANGED <<pc, lockVars, reruns, registry, aborted, stopping, cancelled, gone>>

RemoveAgent(a) ==
  /\ Idle
  /\ deletion[a] = "removing"
  /\ deletion' = [deletion EXCEPT ![a] = "none"]
  /\ gone' = gone \cup {a}
  /\ UNCHANGED <<pc, lockVars, reruns, registry, aborted, stopping, cancelled>>

-----------------------------------------------------------------------------
Next ==
  \/ \E t \in Turns :
       \/ Register(t)
       \/ Join(t)
       \/ GivesUp(t)
       \/ StartStep(t)
       \/ StartMessage(t)
       \/ Enter(t)
       \/ Configure(t)
       \/ Spawn(t)
       \/ Fails(t)
       \/ Answers(t)
       \/ SessionLocked(t)
       \/ Retry(t)
       \/ SwitchModel(t)
       \/ Killed(t)
       \/ CancelTurn(t)
  \/ \E a \in Agents :
       \/ CancelTurnsForAgent(a)
       \/ BeginDeletion(a)
       \/ Quiesced(a)
       \/ DeletionFails(a)
       \/ RemoveAgent(a)
  \/ \E r \in Runs : StopRun(r)

Spec == Init /\ [][Next]_vars

\* Continuations, bounded waits and the SIGKILL timer happen; an agent need
\* not answer and nobody need stop it.
Fairness ==
  \A t \in Turns :
    /\ WF_vars(Enter(t))
    /\ WF_vars(Configure(t))
    /\ WF_vars(Spawn(t))
    /\ WF_vars(Retry(t))
    /\ WF_vars(Killed(t))

FairSpec == Spec /\ Fairness

-----------------------------------------------------------------------------
(* What the turns of an agent promise.                                     *)

Lock == INSTANCE AgentLock WITH waiting <- Waiting, holding <- Holding

\* The promise chain is a lock: one turn of an agent at a time, first come
\* first served, and no wakeup is lost.
ImplementsLock == Lock!FairSpec

\* An agent without turns has no entry in agentExecutionLocks.
NoStaleEntry == \A a \in Agents : Present(a) = {} => tail[a] = NoTurn

\* A message that is run again gets a new turn, which nobody aborted.
KeepsItsTurn(t) ==
  Kind[t] = "message" => pc[t] = "running" /\ reruns[t] = MaxReruns[t]

\* An aborted turn ends, whatever its agent does, when every turn in line
\* before it was aborted too.
AbortedTurnEnds ==
  \A t \in Turns :
    (/\ t \in aborted \cap (Waiting \cup Holding)
     /\ \A u \in {t} \cup (ahead[t] \cap Present(AgentOf[t])) :
          u \in aborted /\ KeepsItsTurn(u))
      ~> pc[t] = "done"

\* A step ends after an operator's Stop that found its process, or found it
\* before its last look at cancelledExecutions.
StoppedStepEnds ==
  \A t \in {u \in Turns : Kind[u] = "step"} :
    (/\ RunOf[t] \in cancelled
     /\ t \in stopping \/ pc[t] \in {"preparing", "waiting"}) ~> pc[t] = "done"

\* No chat holds an agent that was removed: deleteAgentSafely stops the chats it
\* finds in the registry, and those that it cannot find look at the deletion.
ChatsEndBeforeRemoval ==
  \A t \in Turns : Kind[t] = "chat" /\ AgentOf[t] \in gone => pc[t] \notin Inside

-----------------------------------------------------------------------------
(* What does not hold, although one would expect it of the code: see the     *)
(* README.                                                                   *)

\* A step that has its agent ends after an operator's Stop.
StopReachesStep ==
  \A t \in Turns :
    (Kind[t] = "step" /\ RunOf[t] \in cancelled /\ pc[t] \in Inside) ~> pc[t] = "done"

\* An agent is removed only when none of its turns is running.
RemovedWhenQuiet ==
  [][\A a \in Agents : a \in gone' \ gone =>
       \A t \in Turns : AgentOf[t] = a => pc[t] \notin Inside]_vars
=============================================================================
