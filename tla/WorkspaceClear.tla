---------------------------- MODULE WorkspaceClear ----------------------------
(***************************************************************************)
(* "Clear Personal": the removal of everything in the default workspace    *)
(* (lib/workspace-clear.ts), the clean-up of what the Gateway holds for it *)
(* (lib/workspace-clear-runtime.ts), the gate that keeps other requests    *)
(* away (lib/workspace-clear-http.ts) and the fence that outlives a        *)
(* restart (lib/workspace-recovery-admission.ts).                          *)
(*                                                                         *)
(* The fence is asked where a handler takes the path of the workspace.  A  *)
(* handler that keeps the path over an await, and the child process that   *)
(* registers a new agent, go on behind it.                                 *)
(*                                                                         *)
(* An operation waits only for the Gateway; from the last call on it is    *)
(* synchronous, and then only a crash, an error of the file system or      *)
(* another process comes between two of its writes.  The Gateway's         *)
(* registrations and cron jobs and the child process are external.         *)
(***************************************************************************)
EXTENDS Integers, Sequences

CONSTANTS Names,       \* the names that may be in the workspace's root, sorted
          Scaffold,    \* those of an empty workspace, in the order they are made
          AgentsDir,   \* the name with the agents' directories
          FlowsDir,    \* the name with the workflows, which name their cron jobs
          Agents, Jobs,
          AgentOf,     \* AgentOf[j]: the agent the cron job j is for
          FlowJobs,    \* the jobs whose identifier a workflow records
          Tokens,      \* confirmations that may be pending
          Requests,    \* requests of the Dashboard that change the workspace, GETs too
          None,
          Torn,        \* a receipt that cannot be parsed
          Orphan,      \* in place of the request of a child that outlived its parent
          MaxWrites    \* bound: changes of the workspace by others

Entries == {Names[i] : i \in DOMAIN Names}

\* What the tree may hold, and what the receipt of an operation says.
Contents == [Entries -> 0..(MaxWrites + 2)]
Receipt == [state : {"running", "failed", "complete"}, plan : Contents]

ASSUME NamesAreEntries == Scaffold \in Seq(Entries) /\ {AgentsDir, FlowsDir} \subseteq Entries
ASSUME JobsHaveAgents == AgentOf \in [Jobs -> Agents] /\ FlowJobs \subseteq Jobs
ASSUME MarksAreNoReceipts == None \notin Receipt /\ Torn \notin Receipt
ASSUME ClearBounds == MaxWrites \in Nat

VARIABLES content,     \* content[e]: 0 absent, 1 the empty scaffold, else what was written
          dirs,        \* the agents with a directory
          receipt,     \* .clawmax-workspace-clear.json, None, or Torn
          registered,  \* the agents in the Gateway's configuration
          jobs,        \* the Gateway's cron jobs
          preview,     \* preview[t]: the plan behind the token t, or None
          pc,          \* where the operation is: running is pc # "idle"
          plan,        \* its plan
          agents,      \* fresh.agents, read when it began
          flows,       \* it has read the workflows with their cron jobs
          current,     \* the agent that it is removing from the Gateway, or None
          checked,     \* those it has been through
          locked,      \* agents whose deletion is begun
          admitted,    \* requests the gate counts
          handlers,    \* requests whose handler is under way
          kept,        \* handlers that keep the workspace's path over an await
          child,       \* child[a]: the request whose child process adds a, Orphan or None
          adding,      \* agents whose child has not registered them yet
          confirmed,   \* history: the plans confirmed for the unfinished operation
          late,        \* history: what was written behind its fence
          missed,      \* history: agents registered when this attempt was past them
          writes

tree == <<content, dirs>>
gateway == <<registered, jobs>>
operation == <<pc, plan, agents, flows, current, checked, locked>>
requests == <<admitted, handlers, kept>>
children == <<child, adding>>
history == <<confirmed, late, missed>>
vars == <<tree, receipt, gateway, preview, operation, requests, children, history, writes>>

Present == {e \in Entries : content[e] # 0}
Named(p) == {e \in Entries : p[e] # 0}

\* clearPending and assertWorkspaceRecovered: a torn record counts as pending.
Pending == receipt # None /\ (receipt = Torn \/ receipt.state # "complete")

\* After its last call the operation does not give the event loop back.
Yields == pc # "emptied"

\* inspect: a registration in the workspace must be that of a known agent.
Standard(known) == registered \subseteq known

Init ==
    /\ content \in [Entries -> {0, 2}] /\ receipt = None
    /\ dirs \in IF content[AgentsDir] = 0 THEN {{}} ELSE SUBSET Agents
    /\ registered = dirs
    /\ jobs \in SUBSET {j \in Jobs : AgentOf[j] \in registered}
    /\ preview = [t \in Tokens |-> None]
    /\ pc = "idle" /\ plan = None /\ agents = {} /\ flows = FALSE
    /\ current = None /\ checked = {} /\ locked = {}
    /\ admitted = {} /\ handlers = {} /\ kept = {}
    /\ child = [a \in Agents |-> None] /\ adding = {}
    /\ confirmed = {} /\ late = {} /\ missed = {} /\ writes = 0

-----------------------------------------------------------------------------
(* Other requests.                                                         *)

\* workspaceClearRequestGate: nothing is let in while clearing is pending, and
\* what is let in is counted, unless it is a GET: the redirection of a provider.
BeginRequest(w) ==
    /\ w \notin handlers /\ ~Pending
    /\ admitted' \in {admitted, admitted \cup {w}} /\ handlers' = handlers \cup {w}
    /\ UNCHANGED <<tree, receipt, gateway, preview, operation, kept, children, history, writes>>

\* The client goes away: the request is no longer counted, its handler runs on.
ClientLeaves(w) ==
    /\ w \in admitted /\ Yields
    /\ admitted' = admitted \ {w}
    /\ UNCHANGED <<tree, receipt, gateway, preview, operation, handlers, kept, children, history, writes>>

\* The handler ends, not before its child.
EndRequest(w) ==
    /\ w \in handlers /\ Yields /\ \A a \in Agents : child[a] # w
    /\ admitted' = admitted \ {w} /\ handlers' = handlers \ {w} /\ kept' = kept \ {w}
    /\ UNCHANGED <<tree, receipt, gateway, preview, operation, children, history, writes>>

\* Variant: only the gate keeps requests away from the workspace.
Admitted(w) == w \in handlers

\* getWorkspacePath: who takes the path asks the fence.
Recovered(w) == w \in handlers /\ ~Pending

\* A handler takes the path and writes before it waits for anything.
Write(w, e) ==
    /\ Recovered(w) /\ Yields /\ writes < MaxWrites
    /\ writes' = writes + 1
    /\ content' = [content EXCEPT ![e] = writes + 3]
    /\ UNCHANGED <<dirs, receipt, gateway, preview, operation, requests, children, history>>

\* A handler takes the path and waits: for the provider of a mail account, say.
KeepPath(w) ==
    /\ w \in handlers \ kept /\ ~Pending
    /\ kept' = kept \cup {w}
    /\ UNCHANGED <<tree, receipt, gateway, preview, operation, admitted, handlers, children, history, writes>>

\* It writes where it kept the path to, whatever the fence says by now.
LateWrite(w, e) ==
    /\ w \in kept /\ Pending /\ Yields /\ writes < MaxWrites
    /\ writes' = writes + 1 /\ late' = late \cup {writes + 3}
    /\ content' = [content EXCEPT ![e] = writes + 3]
    /\ UNCHANGED <<dirs, receipt, gateway, preview, operation, requests, children, confirmed, missed>>

\* POST /provision: the agent's directory is made and the child started.
Provision(w, a) ==
    /\ w \in handlers /\ ~Pending /\ writes < MaxWrites
    /\ a \notin registered /\ child[a] = None /\ \A b \in Agents : child[b] # w
    /\ writes' = writes + 1
    /\ content' = [content EXCEPT ![AgentsDir] = writes + 3] /\ dirs' = dirs \cup {a}
    /\ child' = [child EXCEPT ![a] = w] /\ adding' = adding \cup {a}
    /\ UNCHANGED <<receipt, gateway, preview, operation, requests, history>>

-----------------------------------------------------------------------------
(* Other processes.                                                        *)

\* The child puts its files into the agent's directory, making it if need be.
ChildWrites(a) ==
    /\ child[a] # None /\ writes < MaxWrites
    /\ writes' = writes + 1 /\ late' = IF Pending THEN late \cup {writes + 3} ELSE late
    /\ content' = [content EXCEPT ![AgentsDir] = writes + 3] /\ dirs' = dirs \cup {a}
    /\ UNCHANGED <<receipt, gateway, preview, operation, requests, children, confirmed, missed>>

\* The child registers the agent; an operation under way may be past it.
Register(a) ==
    /\ a \in adding
    /\ adding' = adding \ {a} /\ registered' = registered \cup {a}
    /\ missed' = IF pc # "idle" /\ a \notin agents \ checked THEN missed \cup {a} ELSE missed
    /\ UNCHANGED <<tree, receipt, jobs, preview, operation, requests, child, confirmed, late, writes>>

\* The child ends, with or without having registered its agent.
ChildEnds(a) ==
    /\ child[a] # None
    /\ child' = [child EXCEPT ![a] = None] /\ adding' = adding \ {a}
    /\ UNCHANGED <<tree, receipt, gateway, preview, operation, requests, history, writes>>

\* Another client of the Gateway adds a cron job for a registered agent.
AddJob(j) ==
    /\ j \notin jobs /\ AgentOf[j] \in registered
    /\ jobs' = jobs \cup {j}
    /\ UNCHANGED <<tree, receipt, registered, preview, operation, requests, children, history, writes>>

-----------------------------------------------------------------------------
(* Preview and confirmation.                                               *)

Retry == receipt # None /\ receipt.state # "complete"

\* preview: an unfinished operation is offered again with its own plan.
Preview(t) ==
    /\ pc = "idle" /\ receipt # Torn /\ Standard(dirs)
    /\ preview' = [preview EXCEPT ![t] = IF Retry THEN receipt.plan ELSE content]
    /\ UNCHANGED <<tree, receipt, gateway, operation, requests, children, history, writes>>

\* The ten minutes of a token pass.
Lapse(t) ==
    /\ preview[t] # None
    /\ preview' = [preview EXCEPT ![t] = None]
    /\ UNCHANGED <<tree, receipt, gateway, operation, requests, children, history, writes>>

\* What clear compares with the tree as it is now.
UnchangedSince(t) ==
    /\ Retry \/ content = preview[t]
    /\ Present \subseteq Named(preview[t])

\* clear, up to its first await: the receipt 'running' is the fence.
Clear(t) ==
    /\ admitted = {} /\ preview[t] # None /\ pc = "idle" /\ receipt # Torn
    /\ Standard(dirs) /\ UnchangedSince(t)
    /\ preview' = [preview EXCEPT ![t] = None]
    /\ receipt' = [state |-> "running", plan |-> preview[t]]
    /\ confirmed' = confirmed \cup {preview[t]}
    /\ plan' = preview[t] /\ agents' = dirs /\ locked' = dirs
    /\ flows' = (content[FlowsDir] > 1)
    /\ pc' = "jobs" /\ current' = None /\ checked' = {}
    /\ UNCHANGED <<tree, gateway, requests, children, late, missed, writes>>

-----------------------------------------------------------------------------
(* prepareRuntime.                                                         *)

\* The jobs it knows: named by a workflow, or for one of its agents.
Known == {j \in jobs : (flows /\ j \in FlowJobs) \/ AgentOf[j] \in agents}

\* A job that a workflow names, but for another's agent, is left to a person.
RemoveJob(j) ==
    /\ pc = "jobs" /\ j \in Known /\ AgentOf[j] \in agents
    /\ jobs' = jobs \ {j}
    /\ UNCHANGED <<tree, receipt, registered, preview, operation, requests, children, history, writes>>

JobsRemoved ==
    /\ pc = "jobs" /\ Known = {}
    /\ pc' = "agents"
    /\ UNCHANGED <<tree, receipt, gateway, preview, plan, agents, flows, current, checked, locked,
                   requests, children, history, writes>>

\* The roster is looked at again before each agent.
Inspect(a) ==
    /\ pc = "agents" /\ current = None /\ a \in agents \ checked /\ Standard(agents)
    /\ current' = a
    /\ UNCHANGED <<tree, receipt, gateway, preview, pc, plan, agents, flows, checked, locked,
                   requests, children, history, writes>>

\* deleteAgentNative, and the agent's directory in the Gateway's state.
Deregister(a) ==
    /\ pc = "agents" /\ a \in agents /\ current = a
    /\ registered' = registered \ {a} /\ checked' = checked \cup {a} /\ current' = None
    /\ UNCHANGED <<tree, receipt, jobs, preview, pc, plan, agents, flows, locked,
                   requests, children, history, writes>>

\* Variant: the schedules are not listed again.
Unverified == checked = agents

\* The second listing: a job that has appeared since fails the operation.
Verified == checked = agents /\ Known = {}

Prepared ==
    /\ pc = "agents" /\ Verified
    /\ pc' = "remove" /\ locked' = {}
    /\ UNCHANGED <<tree, receipt, gateway, preview, plan, agents, flows, current, checked,
                   requests, children, history, writes>>

-----------------------------------------------------------------------------
(* The removal.                                                            *)

\* The first k names of the scaffold, and nothing else.
Made(k) == [e \in Entries |-> IF \E i \in 1..k : Scaffold[i] = e THEN 1 ELSE 0]

\* The last look at the tree: its names, and the agents on disk.
Revalidated == Present \subseteq Named(plan) /\ Standard(dirs)

\* The first k names are gone, and the next one is in part.
PartlyRemoved(k) ==
    /\ content' = [e \in Entries |-> IF \E i \in 1..k : Names[i] = e THEN 0 ELSE content[e]]
    /\ dirs' \in IF content'[AgentsDir] = 0 THEN {{}}
                 ELSE IF Names[k + 1] = AgentsDir THEN SUBSET dirs ELSE {dirs}

\* What an operation leaves that ends here without having ended well.
CutShort ==
    \/ UNCHANGED tree
    \/ /\ pc = "remove" /\ Revalidated
       /\ \/ \E k \in 0..(Len(Names) - 1) : PartlyRemoved(k)
          \/ dirs' = {} /\ \E k \in 0..Len(Scaffold) : content' = Made(k)

\* Everything goes, and the scaffold comes.
Remove ==
    /\ pc = "remove" /\ Revalidated
    /\ content' = Made(Len(Scaffold)) /\ dirs' = {}
    /\ pc' = "emptied"
    /\ UNCHANGED <<receipt, gateway, preview, plan, agents, flows, current, checked, locked,
                   requests, children, history, writes>>

\* What the operation held in memory is forgotten.
Forgotten == /\ pc' = "idle" /\ plan' = None /\ agents' = {} /\ flows' = FALSE
             /\ current' = None /\ checked' = {} /\ missed' = {}

\* Variant: the deletions it began are not finished.
QuitLocked(state) ==
    /\ receipt' = [state |-> state, plan |-> plan]
    /\ Forgotten /\ UNCHANGED locked

\* The end of an operation, one way or the other.
Quit(state) ==
    /\ receipt' = [state |-> state, plan |-> plan]
    /\ Forgotten /\ locked' = {}

\* The receipt says complete.
Complete ==
    /\ pc = "emptied" /\ Quit("complete")
    /\ confirmed' = {} /\ late' = {}
    /\ UNCHANGED <<tree, gateway, preview, requests, children, writes>>

\* The catch clause: a call or a check has failed, or a file operation.
Fail ==
    /\ pc # "idle" /\ CutShort /\ Quit("failed")
    /\ UNCHANGED <<gateway, preview, requests, children, confirmed, late, writes>>

\* The process dies; tokens and locks are gone, and the receipt may be torn
\* if it was being written.  A child goes on without its parent.
Crash ==
    /\ CutShort /\ Forgotten /\ locked' = {}
    /\ receipt' \in {receipt} \cup (IF pc = "idle" THEN {} ELSE {Torn})
    /\ preview' = [t \in Tokens |-> None]
    /\ admitted' = {} /\ handlers' = {} /\ kept' = {}
    /\ child' = [a \in Agents |-> IF child[a] = None THEN None ELSE Orphan]
    /\ UNCHANGED <<gateway, adding, confirmed, late, writes>>

Next ==
    \/ \E w \in Requests : BeginRequest(w) \/ ClientLeaves(w) \/ EndRequest(w) \/ KeepPath(w)
    \/ \E w \in Requests, e \in Entries : Write(w, e) \/ LateWrite(w, e)
    \/ \E w \in Requests, a \in Agents : Provision(w, a)
    \/ \E a \in Agents : ChildWrites(a) \/ Register(a) \/ ChildEnds(a)
    \/ \E j \in Jobs : AddJob(j) \/ RemoveJob(j)
    \/ \E t \in Tokens : Preview(t) \/ Lapse(t) \/ Clear(t)
    \/ \E a \in Agents : Inspect(a) \/ Deregister(a)
    \/ JobsRemoved \/ Prepared \/ Remove \/ Complete \/ Fail \/ Crash

Spec == Init /\ [][Next]_vars

-----------------------------------------------------------------------------
(* Properties.                                                             *)

\* Every variable has its type: the tree, the receipt, the pending plans and
\* the place of the operation, whose locks are on its own agents.
TypeOK ==
    /\ content \in Contents /\ dirs \subseteq Agents
    /\ receipt \in Receipt \cup {None, Torn}
    /\ registered \subseteq Agents /\ jobs \subseteq Jobs
    /\ preview \in [Tokens -> Contents \cup {None}]
    /\ pc \in {"idle", "jobs", "agents", "remove", "emptied"} /\ plan \in Contents \cup {None}
    /\ agents \subseteq Agents /\ locked \subseteq agents /\ flows \in BOOLEAN
    /\ current \in agents \cup {None} /\ checked \subseteq agents
    /\ admitted \subseteq handlers /\ kept \subseteq handlers /\ handlers \subseteq Requests
    /\ child \in [Agents -> Requests \cup {Orphan, None}] /\ adding \subseteq Agents
    /\ confirmed \subseteq Contents /\ late \subseteq 0..(MaxWrites + 2) /\ missed \subseteq Agents
    /\ writes \in 0..MaxWrites

\* Nothing is removed that the owner has not seen, but for what slipped in
\* behind the fence: what disappears from a directory is what a confirmed plan
\* of this operation showed there, unless a handler that had kept its path, or
\* the child that adds an agent, has written there since the operation began;
\* and even so the directory itself was in a confirmed plan.
OnlyConfirmedIsRemoved ==
    [][\A e \in Entries :
          (content[e] > 1 /\ content'[e] \in {0, 1})
              => \E p \in confirmed : p[e] = content[e] \/ (p[e] # 0 /\ content[e] \in late)]_vars

\* A receipt says complete only when all is gone that could be known: at that
\* step the workspace is the empty scaffold, up to what a child has just put
\* into the agents' directory; the Gateway has no agent of it left but those that a child
\* registered when this operation was past them, and no job but theirs.  This
\* holds however often the operation was interrupted before.
CompleteIsClean ==
    [][(receipt' # receipt /\ receipt' \notin {None, Torn} /\ receipt'.state = "complete")
          => /\ \A e \in Entries : content'[e] \in {0, 1} \/ (e = AgentsDir /\ content'[e] \in late)
             /\ registered' \subseteq missed
             /\ \A j \in jobs' : AgentOf[j] \in registered']_vars

-----------------------------------------------------------------------------
(* What does not hold.                                                     *)

\* An operation that failed can be reviewed and retried: its plan covers
\* what is in the workspace.
RetryIsPossible ==
    (pc = "idle" /\ receipt # Torn /\ Retry) => Present \subseteq Named(receipt.plan)

\* The remaining tree is validated again before it goes: what is removed is
\* what was confirmed, whoever has written since.
RemainsAreValidated ==
    [][\A e \in Entries :
          (content[e] > 1 /\ content'[e] \in {0, 1}) => \E p \in confirmed : p[e] = content[e]]_vars

\* Success is never shown while registrations or jobs remain.
SuccessMeansCleared ==
    [][(receipt' # receipt /\ receipt' \notin {None, Torn} /\ receipt'.state = "complete")
          => registered' = {} /\ jobs' = {}]_vars
=============================================================================
