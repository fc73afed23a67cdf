--------------------------- MODULE WorkflowEngine ---------------------------
(***************************************************************************)
(* The workflow engine of the dashboard server (server/lib/workflows.ts):  *)
(* WORKFLOW.md files, execution records, the runners that execute a run's  *)
(* participants, operator Stop, pipeline pause, run limits, the automatic  *)
(* start of dependents, and what a restart of the process finds on disk.   *)
(*                                                                         *)
(* Node runs one callback to completion before the next.  `loop' names the *)
(* run whose synchronous section holds the event loop: every other         *)
(* operation needs loop = NoExec, while a crash can fall between any two   *)
(* file writes of that section.                                            *)
(***************************************************************************)
EXTENDS Naturals, FiniteSets

CONSTANTS
  Workflows,       \* workflow ids: the names of the files WORKFLOWS/<id>.md
  Agents,          \* agent ids
  Execs,           \* execution ids, numbered in the order of startedAt
  DependsOn,       \* DependsOn[w]: the dependsOn list of w
  Participants,    \* Participants[w]: the agents resolveParticipants finds
  MaxRuns,         \* MaxRuns[w]: maxRuns of w, 0 when there is no limit
  NoWorkflow,      \* the owner of an execution id that is not used yet
  UserOps,         \* which optional operator requests this instance makes
  BudgetOutcomes,  \* the answers checkBudgetBlock can give in this instance
  MaxTriggers,     \* bound: manual and scheduled triggers of a behaviour
  MaxCrashes       \* bound: crashes of the server process

NoExec == 0

ASSUME ExecsAssumption == Execs \subseteq Nat \ {NoExec}
ASSUME GraphAssumption ==
  /\ DependsOn \in [Workflows -> SUBSET Workflows]
  /\ Participants \in [Workflows -> SUBSET Agents]
  /\ MaxRuns \in [Workflows -> Nat]
  /\ NoWorkflow \notin Workflows
ASSUME BoundsAssumption ==
  /\ BudgetOutcomes \subseteq BOOLEAN
  /\ UserOps \subseteq {"pause", "edit", "delete", "purge", "report"}
  /\ MaxTriggers \in Nat
  /\ MaxCrashes \in Nat

VARIABLES
  exists,      \* WORKFLOW.md of w is on disk
  status,      \* its status field (a missing field is "idle")
  runCount,    \* its runCount field
  enabled,     \* its enabled field
  record,      \* status of executions/<workflow>/<e>.json, or "absent"
  recordPart,  \* the participants' statuses in that file
  active,      \* activeWorkflowExecutions
  stopped,     \* cancelledExecutions
  unreached,   \* running steps of a stopped run that its Stop did not reach
  timers,      \* pending 5 s timers that disable w after its last run
  owner,       \* the workflow an execution id belongs to
  phase,       \* where the runner closure of e is
  part,        \* the participants' statuses in the runner's memory
  todo,        \* workflows the runner's current loop has still to visit
  caller,      \* the runner that auto-started e, or NoExec
  loop,        \* the run whose synchronous section holds the event loop
  nextExec,    \* the next execution id
  paused,      \* the pipeline pause ledger
  up,          \* the server process runs
  triggers,    \* manual and scheduled triggers so far (bounded)
  crashes,     \* crashes so far (bounded)
  acked,       \* history: runs whose Stop was answered with success
  autoStarts   \* history: automatic starts of w since it was created

mdVars     == <<exists, status, runCount, enabled>>
recordVars == <<record, recordPart>>
runVars    == <<owner, phase, part, todo, caller>>
procVars   == <<active, stopped, unreached, timers>>
boundVars  == <<triggers, crashes>>
histVars   == <<acked, autoStarts>>
vars == <<mdVars, recordVars, runVars, procVars, loop, nextExec, paused, up,
          boundVars, histVars>>

WfStatus   == {"idle", "running", "completed", "blocked"}
Terminal   == {"completed", "failed", "cancelled", "interrupted"}
RecStatus  == {"absent", "running"} \cup Terminal
PartStatus == {"none", "running", "completed", "failed", "cancelled"}
Phase      == {"unused", "reset", "steps", "advance", "gone"}

FilesOK ==
  /\ exists \in [Workflows -> BOOLEAN]
  /\ status \in [Workflows -> WfStatus]
  /\ runCount \in [Workflows -> Nat]
  /\ enabled \in [Workflows -> BOOLEAN]

RecordsOK ==
  /\ record \in [Execs -> RecStatus]
  /\ recordPart \in [Execs -> [Agents -> PartStatus]]

ProcessOK ==
  /\ active \in [Workflows -> Execs \cup {NoExec}]
  /\ stopped \in SUBSET Execs
  /\ unreached \in [Execs -> SUBSET Agents]
  /\ timers \in [Workflows -> Nat]

RunsOK ==
  /\ owner \in [Execs -> Workflows \cup {NoWorkflow}]
  /\ phase \in [Execs -> Phase]
  /\ part \in [Execs -> [Agents -> PartStatus]]
  /\ todo \in [Execs -> SUBSET Workflows]
  /\ caller \in [Execs -> Execs \cup {NoExec}]

OthersOK ==
  /\ loop \in Execs \cup {NoExec}
  /\ nextExec \in Nat
  /\ paused \in BOOLEAN
  /\ up \in BOOLEAN
  /\ triggers \in Nat
  /\ crashes \in Nat
  /\ acked \in SUBSET Execs
  /\ autoStarts \in [Workflows -> Nat]

\* Every variable holds a value the program can give it.
TypeOK == FilesOK /\ RecordsOK /\ ProcessOK /\ RunsOK /\ OthersOK

-----------------------------------------------------------------------------
(* What a read of the files finds.                                         *)

Live(e) == phase[e] \in {"reset", "steps", "advance"}

\* getLatestExecution: the newest record of the same workflow.
IsLatest(e) ==
  /\ record[e] # "absent"
  /\ \A f \in Execs : (owner[f] = owner[e] /\ record[f] # "absent") => f <= e

\* Variant: a reconciliation that forgets the claims of this process.
StaleByRecord(e) ==
  record[e] = "running" /\ exists[owner[e]] /\ status[owner[e]] = "running" /\ IsLatest(e)

\* A record that says "running" and that no runner of this process owns.
Stale(e) ==
  /\ record[e] = "running"
  /\ exists[owner[e]]
  /\ status[owner[e]] = "running"
  /\ IsLatest(e)
  /\ active[owner[e]] # e

\* Variant: the newest record's own status is reported.
ViewOfRecord(w) ==
  LET newest == {e \in Execs : owner[e] = w /\ IsLatest(e)}
  IN  IF status[w] = "running" /\ newest # {} THEN record[CHOOSE e \in newest : TRUE]
      ELSE status[w]

\* reconcileWorkflowStateFromExecutions: the status getWorkflow reports.
View(w) ==
  LET Newest(S) == \E e \in Execs : owner[e] = w /\ IsLatest(e) /\ record[e] \in S
      Orphan    == \E e \in Execs : owner[e] = w /\ Stale(e)
  IN  IF status[w] # "running" THEN status[w]
      ELSE IF Newest({"completed"}) THEN "completed"
      ELSE IF Newest({"failed", "interrupted"}) \/ Orphan THEN "blocked"
      ELSE "running"

\* ... and the records after reading the workflows of ws: a stale one is
\* rewritten as interrupted, its running participants as failed.
ReadRecord(ws) ==
  [e \in Execs |-> IF owner[e] \in ws /\ Stale(e) THEN "interrupted" ELSE record[e]]
ReadPart(ws) ==
  [e \in Execs |->
     IF owner[e] \in ws /\ Stale(e)
     THEN [p \in Agents |-> IF recordPart[e][p] = "running" THEN "failed"
                            ELSE recordPart[e][p]]
     ELSE recordPart[e]]

Read(ws) == record' = ReadRecord(ws) /\ recordPart' = ReadPart(ws)

\* updateWorkflow(w, {status: s}): merges into what getWorkflow returned; a
\* workflow whose file is gone is left alone.
Update(w, s) == [status EXCEPT ![w] = IF exists[w] THEN s ELSE @]

\* getRecursiveDownstreamWorkflowIds: the least set that holds the dependents
\* of w and is closed under dependents.
Dependents(w) == {d \in Workflows : exists[d] /\ w \in DependsOn[d]}
Downstream(w) ==
  {d \in Workflows :
     \A S \in SUBSET Workflows :
       (Dependents(w) \subseteq S /\ \A x \in S : Dependents(x) \subseteq S) => d \in S}

\* Variant: one dependency is enough.
SomeDependencyMet(n, w) ==
  \E d \in DependsOn[n] : exists[d] /\ (d = w \/ View(d) = "completed")

\* areDependenciesMet(n), read when the run of w has just completed.
DependenciesMet(n, w) ==
  \A d \in DependsOn[n] : exists[d] /\ (d = w \/ View(d) = "completed")

\* completeWorkflow(w): the dependents it reports as ready to run.
ReadyToRun(w) ==
  {n \in Dependents(w) : (n = w \/ View(n) # "running") /\ DependenciesMet(n, w)}

-----------------------------------------------------------------------------
Init ==
  /\ exists = [w \in Workflows |-> TRUE]
  /\ status = [w \in Workflows |-> "idle"]
  /\ runCount = [w \in Workflows |-> 0]
  /\ enabled = [w \in Workflows |-> TRUE]
  /\ record = [e \in Execs |-> "absent"]
  /\ recordPart = [e \in Execs |-> [p \in Agents |-> "none"]]
  /\ active = [w \in Workflows |-> NoExec]
  /\ stopped = {}
  /\ unreached = [e \in Execs |-> {}]
  /\ timers = [w \in Workflows |-> 0]
  /\ owner = [e \in Execs |-> NoWorkflow]
  /\ phase = [e \in Execs |-> "unused"]
  /\ part = [e \in Execs |-> [p \in Agents |-> "none"]]
  /\ todo = [e \in Execs |-> {}]
  /\ caller = [e \in Execs |-> NoExec]
  /\ loop = NoExec
  /\ nextExec = 1
  /\ paused = FALSE
  /\ up = TRUE
  /\ triggers = 0
  /\ crashes = 0
  /\ acked = {}
  /\ autoStarts = [w \in Workflows |-> 0]

\* Variant: the run goes on with the first step that settles.
AnySettled(ps) == \E p \in Agents : ps[p] \notin {"none", "running"}

\* Promise.all over the participants.
AllSettled(ps) == \A p \in Agents : ps[p] # "running"

\* The last participant has settled: the continuation of Promise.all is due,
\* and runs before any other callback.
Ended(e) == phase[e] = "steps" /\ AllSettled(part[e])

\* The event loop is free to run a request, a timer or a process callback.
Idle == up /\ loop = NoExec /\ \A e \in Execs : ~Ended(e)

-----------------------------------------------------------------------------
(* triggerWorkflow: admission, claim, reset of the dependents, record.     *)

\* Variant: admission looks at the workflow's status only.
RefusesByStatus(w, overBudget) ==
  paused \/ overBudget \/ ~exists[w] \/ View(w) = "running"

Refuses(w, overBudget) ==
  \/ paused
  \/ overBudget
  \/ ~exists[w]
  \/ View(w) = "running"
  \/ active[w] # NoExec

\* Variant: one run too many.
PastLimit(w) == MaxRuns[w] > 0 /\ runCount[w] > MaxRuns[w]

OverLimit(w) == MaxRuns[w] > 0 /\ runCount[w] >= MaxRuns[w]

\* The claim and the first write: runCount, status and the reset still to do.
Begin(w, c, auto) ==
  LET e == nextExec IN
  /\ e \in Execs
  /\ auto => ~OverLimit(w)
  /\ active' = [active EXCEPT ![w] = e]
  /\ owner' = [owner EXCEPT ![e] = w]
  /\ caller' = [caller EXCEPT ![e] = c]
  /\ phase' = [phase EXCEPT ![e] = "reset"]
  /\ todo' = [todo EXCEPT ![e] = Downstream(w)]
  /\ status' = [status EXCEPT ![w] = "running"]
  /\ runCount' = [runCount EXCEPT ![w] = @ + 1]
  /\ timers' = [timers EXCEPT ![w] =
                  IF MaxRuns[w] > 0 /\ runCount[w] + 1 >= MaxRuns[w] THEN @ + 1 ELSE @]
  /\ autoStarts' = [autoStarts EXCEPT ![w] = IF auto THEN @ + 1 ELSE @]
  /\ Read({w})
  /\ loop' = e
  /\ nextExec' = nextExec + 1
  /\ UNCHANGED <<exists, enabled, stopped, unreached, part, paused, up, acked>>

\* A trigger over the limit disables the workflow and fails.
Disable(w) ==
  /\ enabled' = [enabled EXCEPT ![w] = IF exists[w] THEN FALSE ELSE @]
  /\ status' = Update(w, View(w))

\* POST /:id/trigger
TriggerManual(w) ==
  /\ Idle
  /\ triggers < MaxTriggers
  /\ \E overBudget \in BudgetOutcomes : ~Refuses(w, overBudget)
  /\ Begin(w, NoExec, FALSE)
  /\ triggers' = triggers + 1
  /\ UNCHANGED crashes

\* A tick of the workflow's cron job (triggerScheduledWorkflow).
TriggerScheduled(w) ==
  /\ Idle
  /\ enabled[w]
  /\ triggers < MaxTriggers
  /\ \E overBudget \in BudgetOutcomes : ~Refuses(w, overBudget)
  /\ triggers' = triggers + 1
  /\ \/ Begin(w, NoExec, TRUE)
     \/ /\ OverLimit(w)
        /\ Disable(w)
        /\ Read({w})
        /\ UNCHANGED <<exists, runCount, runVars, procVars, loop, nextExec, paused,
                       up, histVars>>
  /\ UNCHANGED crashes

\* The reset of one downstream workflow "for a clean rerun".
ResetDownstream(e, d) ==
  /\ up /\ loop = e
  /\ phase[e] = "reset"
  /\ d \in todo[e]
  /\ todo' = [todo EXCEPT ![e] = @ \ {d}]
  /\ status' = Update(d, "idle")
  /\ Read(Workflows)
  /\ UNCHANGED <<exists, runCount, enabled, owner, phase, part, caller, procVars, loop,
                 nextExec, paused, up, boundVars, histVars>>

\* The execution record is written, every participant starts at once, and an
\* auto-starting caller marks the dependent as running and goes on.
StartRun(e) ==
  LET w == owner[e]
      started == [p \in Agents |-> IF p \in Participants[w] THEN "running" ELSE "none"]
  IN
  /\ up /\ loop = e
  /\ phase[e] = "reset"
  /\ todo[e] = {}
  /\ phase' = [phase EXCEPT ![e] = "steps"]
  /\ part' = [part EXCEPT ![e] = started]
  /\ record' = [ReadRecord(Workflows) EXCEPT ![e] = "running"]
  /\ recordPart' = [ReadPart(Workflows) EXCEPT ![e] = started]
  /\ status' = IF caller[e] = NoExec THEN status ELSE Update(w, "running")
  /\ todo' = [f \in Execs |-> IF f = caller[e] THEN todo[f] \ {w} ELSE todo[f]]
  /\ loop' = caller[e]
  /\ UNCHANGED <<exists, runCount, enabled, owner, caller, procVars, nextExec, paused,
                 up, boundVars, histVars>>

-----------------------------------------------------------------------------
(* runParticipant: a step answers, fails, or is cut short by a Stop.       *)

\* persistExecution writes the runner's own copy, whose status is still
\* "running".
Settle(e, p, outcome) ==
  LET ps == [part[e] EXCEPT ![p] = outcome] IN
  /\ Idle
  /\ phase[e] = "steps"
  /\ part[e][p] = "running"
  /\ part' = [part EXCEPT ![e] = ps]
  /\ record' = [ReadRecord({owner[e]}) EXCEPT ![e] = "running"]
  /\ recordPart' = [ReadPart({owner[e]}) EXCEPT ![e] = ps]
  /\ UNCHANGED <<exists, runCount, enabled, owner, phase, todo, caller, procVars, loop,
                 nextExec, paused, up, boundVars, histVars>>

\* The agent answered; a reported failure counts as failed.
StepAnswers(e, p) ==
  /\ e \notin stopped
  /\ \E outcome \in {"completed", "failed"} : Settle(e, p, outcome)
  /\ status' = Update(owner[e], View(owner[e]))

\* The step threw: the workflow is blocked while other steps still run.
StepThrows(e, p) ==
  /\ e \notin stopped
  /\ Settle(e, p, "failed")
  /\ status' = Update(owner[e], "blocked")

\* The step settles after a Stop, whatever it answered.
StepStopped(e, p) ==
  /\ e \in stopped
  /\ Settle(e, p, "cancelled")
  /\ UNCHANGED status

\* The process of a step writes output: the new progress is written with the
\* reconciled status of the workflow.
StepOutputs(e) ==
  /\ Idle
  /\ phase[e] = "steps"
  /\ status' = Update(owner[e], View(owner[e]))
  /\ Read({owner[e]})
  /\ UNCHANGED <<exists, runCount, enabled, runVars, procVars, loop, nextExec, paused, up,
                 boundVars, histVars>>

-----------------------------------------------------------------------------
(* The end of executeAsync, its DAG advance and its finally block.         *)

Finishing(e) == up /\ loop = NoExec /\ Ended(e)

\* finally: the claim, the cancellers and the stop flag are released.
Release(e) ==
  /\ active' = [w \in Workflows |-> IF active[w] = e THEN NoExec ELSE active[w]]
  /\ stopped' = stopped \ {e}
  /\ unreached' = [unreached EXCEPT ![e] = {}]
  /\ phase' = [phase EXCEPT ![e] = "gone"]
  /\ loop' = NoExec

FinishAs(e, result, wfStatus) ==
  /\ record' = [ReadRecord({owner[e]}) EXCEPT ![e] = result]
  /\ recordPart' = [ReadPart({owner[e]}) EXCEPT ![e] = part[e]]
  /\ status' = Update(owner[e], wfStatus)

\* What the runner records once its steps have settled.
Outcome(e) ==
  IF e \in stopped THEN "cancelled"
  ELSE IF \E p \in Agents : part[e][p] = "failed" THEN "failed"
  ELSE "completed"

FinishStopped(e) ==
  /\ Finishing(e)
  /\ Outcome(e) = "cancelled"
  /\ FinishAs(e, "cancelled", "idle")
  /\ Release(e)
  /\ UNCHANGED <<exists, runCount, enabled, timers, owner, part, todo, caller, nextExec,
                 paused, up, boundVars, histVars>>

FinishFailed(e) ==
  /\ Finishing(e)
  /\ Outcome(e) = "failed"
  /\ FinishAs(e, "failed", "blocked")
  /\ Release(e)
  /\ UNCHANGED <<exists, runCount, enabled, timers, owner, part, todo, caller, nextExec,
                 paused, up, boundVars, histVars>>

FinishCompleted(e) ==
  /\ Finishing(e)
  /\ Outcome(e) = "completed"
  /\ record' = [ReadRecord(Workflows) EXCEPT ![e] = "completed"]
  /\ recordPart' = [ReadPart(Workflows) EXCEPT ![e] = part[e]]
  /\ status' = Update(owner[e], "completed")
  /\ phase' = [phase EXCEPT ![e] = "advance"]
  /\ todo' = [todo EXCEPT ![e] = ReadyToRun(owner[e])]
  /\ loop' = e
  /\ UNCHANGED <<exists, runCount, enabled, procVars, owner, part, caller, nextExec, paused,
                 up, boundVars, histVars>>

Advancing(e, n) ==
  /\ up /\ loop = e
  /\ phase[e] = "advance"
  /\ n \in todo[e]

\* triggerWorkflow(nextId) succeeds; StartRun returns to the caller.
AdvanceStarts(e, n) ==
  /\ Advancing(e, n)
  /\ exists[n] /\ enabled[n]
  /\ \E overBudget \in BudgetOutcomes : ~Refuses(n, overBudget)
  /\ Begin(n, e, TRUE)
  /\ UNCHANGED boundVars

\* triggerWorkflow(nextId) fails, its answer is not looked at, and the
\* dependent is marked as running all the same.
AdvanceRefused(e, n) ==
  /\ Advancing(e, n)
  /\ exists[n] /\ enabled[n]
  /\ \E overBudget \in BudgetOutcomes :
       \/ Refuses(n, overBudget) /\ UNCHANGED enabled
       \/ /\ ~Refuses(n, overBudget)
          /\ OverLimit(n)
          /\ enabled' = [enabled EXCEPT ![n] = FALSE]
  /\ status' = Update(n, "running")
  /\ todo' = [todo EXCEPT ![e] = @ \ {n}]
  /\ Read({n})
  /\ UNCHANGED <<exists, runCount, procVars, owner, phase, part, caller, loop, nextExec,
                 paused, up, boundVars, histVars>>

AdvanceSkips(e, n) ==
  /\ Advancing(e, n)
  /\ ~(exists[n] /\ enabled[n])
  /\ todo' = [todo EXCEPT ![e] = @ \ {n}]
  /\ Read({n})
  /\ UNCHANGED <<mdVars, procVars, owner, phase, part, caller, loop, nextExec, paused, up,
                 boundVars, histVars>>

AdvanceEnds(e) ==
  /\ up /\ loop = e
  /\ phase[e] = "advance"
  /\ todo[e] = {}
  /\ Release(e)
  /\ UNCHANGED <<mdVars, recordVars, timers, owner, part, todo, caller, nextExec, paused, up,
                 boundVars, histVars>>

-----------------------------------------------------------------------------
(* Operator requests and timers.                                           *)

\* POST /:id/executions/:executionId/cancel.  The record answers whether the
\* run can be stopped; getWorkflow has reconciled it first.
Stoppable(e) ==
  LET w == owner[e] IN
  /\ Idle
  /\ w # NoWorkflow /\ exists[w]
  /\ ReadRecord({w})[e] = "running"

WriteCancelled(e) ==
  /\ record' = [ReadRecord({owner[e]}) EXCEPT ![e] = "cancelled"]
  /\ recordPart' = [ReadPart({owner[e]}) EXCEPT ![e] =
       [p \in Agents |-> IF recordPart[e][p] = "running" THEN "cancelled"
                         ELSE recordPart[e][p]]]

\* Variant: only the record is marked.
SignalNothing(e) == UNCHANGED <<stopped, unreached>>

\* The run is marked as stopped and the cancellers of its steps are called.
\* Not reached are the steps that have none yet: those queued behind another
\* turn of their agent, and those past their last look at cancelledExecutions
\* whose process has not been spawned.
SignalSteps(e) ==
  LET unregistered == IF e \in stopped THEN unreached[e]
                      ELSE {p \in Agents : Live(e) /\ part[e][p] = "running"}
  IN  /\ stopped' = stopped \cup {e}
      /\ \E ps \in SUBSET unregistered : unreached' = [unreached EXCEPT ![e] = ps]

Stop(e) ==
  /\ Stoppable(e)
  /\ SignalSteps(e)
  /\ WriteCancelled(e)
  /\ status' = Update(owner[e], "idle")
  /\ acked' = acked \cup {e}
  /\ UNCHANGED <<exists, runCount, enabled, active, timers, runVars, loop, nextExec, paused,
                 up, boundVars, autoStarts>>

\* PUT /pipeline-state; ws are the workflows whose cron registration changes
\* and whose reconciled status is written back with it.
SetPaused(b, ws) ==
  /\ Idle
  /\ "pause" \in UserOps
  /\ paused # b
  /\ paused' = b
  /\ status' = [w \in Workflows |-> IF w \in ws /\ exists[w] THEN View(w) ELSE status[w]]
  /\ Read(Workflows)
  /\ UNCHANGED <<exists, runCount, enabled, runVars, procVars, loop, nextExec, up, boundVars,
                 histVars>>

\* The 5 s timer of the run that reached maxRuns.
DisableTimer(w) ==
  /\ Idle
  /\ timers[w] > 0
  /\ timers' = [timers EXCEPT ![w] = @ - 1]
  /\ Disable(w)
  /\ Read({w})
  /\ UNCHANGED <<exists, runCount, active, stopped, unreached, runVars, loop, nextExec,
                 paused, up, boundVars, histVars>>

\* GET / (polled by every open page), GET /:id and every request that is
\* refused: reading a workflow reconciles it.
ReadWorkflows(ws) ==
  /\ Idle
  /\ Read(ws)
  /\ UNCHANGED <<mdVars, runVars, procVars, loop, nextExec, paused, up, boundVars, histVars>>

\* PUT /:id with an enabled field; the reconciled status is written back and
\* the scheduler lists all workflows.
EditEnabled(w) ==
  /\ Idle
  /\ "edit" \in UserOps
  /\ exists[w]
  /\ enabled' = [enabled EXCEPT ![w] = ~@]
  /\ status' = Update(w, View(w))
  /\ Read(Workflows)
  /\ UNCHANGED <<exists, runCount, runVars, procVars, loop, nextExec, paused, up, boundVars,
                 histVars>>

\* POST /:id/progress and POST /:id/blocker: an agent reports a status.
ReportStatus(w, s) ==
  /\ Idle
  /\ "report" \in UserOps
  /\ exists[w]
  /\ status' = [status EXCEPT ![w] = s]
  /\ Read({w})
  /\ UNCHANGED <<exists, runCount, enabled, runVars, procVars, loop, nextExec, paused, up,
                 boundVars, histVars>>

\* DELETE /:id: the file and the execution history, active run or not.
DeleteWorkflow(w) ==
  /\ Idle
  /\ "delete" \in UserOps
  /\ exists[w]
  /\ exists' = [exists EXCEPT ![w] = FALSE]
  /\ record' = [e \in Execs |->
                  IF owner[e] = w THEN "absent" ELSE ReadRecord(Workflows)[e]]
  /\ recordPart' = ReadPart(Workflows)
  /\ UNCHANGED <<status, runCount, enabled, runVars, procVars, loop, nextExec,
                 paused, up, boundVars, histVars>>

\* POST /: a workflow is created under an id that is free.
CreateWorkflow(w) ==
  /\ Idle
  /\ "delete" \in UserOps
  /\ ~exists[w]
  /\ exists' = [exists EXCEPT ![w] = TRUE]
  /\ status' = [status EXCEPT ![w] = "idle"]
  /\ runCount' = [runCount EXCEPT ![w] = 0]
  /\ enabled' = [enabled EXCEPT ![w] = TRUE]
  /\ autoStarts' = [autoStarts EXCEPT ![w] = 0]
  /\ Read(Workflows)
  /\ UNCHANGED <<runVars, procVars, loop, nextExec, paused, up, boundVars, acked>>

\* DELETE /:id/executions/:executionId, active run or not.
DeleteExecution(e) ==
  LET w == owner[e] IN
  /\ Idle
  /\ "purge" \in UserOps
  /\ w # NoWorkflow /\ exists[w]
  /\ record[e] # "absent"
  /\ record' = [ReadRecord({w}) EXCEPT ![e] = "absent"]
  /\ recordPart' = ReadPart({w})
  /\ UNCHANGED <<mdVars, runVars, procVars, loop, nextExec, paused, up, boundVars, histVars>>

-----------------------------------------------------------------------------
(* The process dies, and starts again.                                     *)

Die ==
  /\ up
  /\ crashes < MaxCrashes
  /\ crashes' = crashes + 1
  /\ up' = FALSE
  /\ loop' = NoExec
  /\ active' = [w \in Workflows |-> NoExec]
  /\ stopped' = {}
  /\ unreached' = [e \in Execs |-> {}]
  /\ timers' = [w \in Workflows |-> 0]
  /\ phase' = [e \in Execs |-> IF Live(e) THEN "gone" ELSE phase[e]]
  /\ UNCHANGED <<runCount, enabled, owner, part, todo, caller, nextExec, paused, triggers,
                 histVars>>

Crash == Die /\ UNCHANGED <<exists, status, recordVars>>

\* The process dies inside cancelExecution: the record was written, the
\* workflow was not.
CrashInStop(e) == Stoppable(e) /\ WriteCancelled(e) /\ Die /\ UNCHANGED <<exists, status>>

\* It dies at the end of a run, between the same two writes.
CrashInFinish(e) ==
  /\ Finishing(e)
  /\ record' = [record EXCEPT ![e] = Outcome(e)]
  /\ recordPart' = [recordPart EXCEPT ![e] = part[e]]
  /\ Die
  /\ UNCHANGED <<exists, status>>

\* It dies when a step has thrown: the workflow was written, the record was not.
CrashInThrow(e) ==
  /\ Idle
  /\ phase[e] = "steps"
  /\ e \notin stopped
  /\ \E p \in Agents : part[e][p] = "running"
  /\ status' = Update(owner[e], "blocked")
  /\ Read({owner[e]})
  /\ Die
  /\ UNCHANGED exists

\* It dies inside deleteWorkflow: the file is gone, its history is not.
CrashInDelete(w) ==
  /\ Idle
  /\ "delete" \in UserOps
  /\ exists[w]
  /\ exists' = [exists EXCEPT ![w] = FALSE]
  /\ Read({w})
  /\ Die
  /\ UNCHANGED status

\* reconcileInterruptedWorkflowExecutions, then startScheduler.
Restart ==
  /\ ~up
  /\ up' = TRUE
  /\ Read(Workflows)
  /\ UNCHANGED <<mdVars, runVars, procVars, loop, nextExec, paused, boundVars, histVars>>

-----------------------------------------------------------------------------
Synchronous ==
  \E e \in Execs :
    \/ \E d \in Workflows : ResetDownstream(e, d)
    \/ StartRun(e)
    \/ FinishStopped(e)
    \/ FinishFailed(e)
    \/ FinishCompleted(e)
    \/ \E n \in Workflows : AdvanceStarts(e, n) \/ AdvanceRefused(e, n) \/ AdvanceSkips(e, n)
    \/ AdvanceEnds(e)

Steps ==
  \/ \E e \in Execs, p \in Agents : StepAnswers(e, p) \/ StepThrows(e, p) \/ StepStopped(e, p)
  \/ \E e \in Execs : StepOutputs(e)

Requests ==
  \/ \E w \in Workflows :
       \/ TriggerManual(w)
       \/ TriggerScheduled(w)
       \/ DisableTimer(w)
       \/ EditEnabled(w)
       \/ \E s \in {"running", "completed", "blocked"} : ReportStatus(w, s)
       \/ DeleteWorkflow(w)
       \/ CreateWorkflow(w)
  \/ \E e \in Execs : Stop(e) \/ DeleteExecution(e)
  \/ \E b \in BOOLEAN, ws \in SUBSET Workflows : SetPaused(b, ws)
  \/ ReadWorkflows(Workflows)
  \/ \E w \in Workflows : ReadWorkflows({w})

Crashes ==
  \/ Crash
  \/ \E e \in Execs : CrashInStop(e) \/ CrashInFinish(e) \/ CrashInThrow(e)
  \/ \E w \in Workflows : CrashInDelete(w)

Next == Synchronous \/ Steps \/ Requests \/ Crashes \/ Restart

Spec == Init /\ [][Next]_vars

\* A synchronous section runs to its end, and a step whose canceller a Stop
\* called settles: its process group gets SIGTERM, then SIGKILL, and the
\* promise is rejected even when the streams stay open; the callback waits for
\* its turn of the event loop, hence SF.  Agents, operators and crashes are
\* not fair.
Fairness ==
  /\ WF_vars(Synchronous)
  /\ \A e \in Execs, p \in Agents : SF_vars(p \notin unreached[e] /\ StepStopped(e, p))

FairSpec == Spec /\ Fairness
-----------------------------------------------------------------------------
(* What the engine promises.                                               *)

\* activeWorkflowExecutions and the runners agree: a runner lives exactly as
\* long as its claim, so no workflow ever has two runners.
ClaimIsRunner ==
  \A e \in Execs : Live(e) <=> owner[e] # NoWorkflow /\ active[owner[e]] = e

\* Once a Stop was answered with success, its run can neither be recorded as
\* completed or failed nor start dependents, however its steps settle.
StoppedNeverSucceeds ==
  \A e \in acked : record[e] \notin {"completed", "failed"} /\ phase[e] # "advance"

\* A record's status agrees with the steps recorded in it.
RecordsTellTheSteps ==
  \A e \in Execs :
    /\ record[e] = "completed" =>
         \A p \in Agents : recordPart[e][p] \in {"none", "completed"}
    /\ record[e] = "failed" => \E p \in Agents : recordPart[e][p] = "failed"
    /\ record[e] \in Terminal => \A p \in Agents : recordPart[e][p] # "running"

\* Scheduled and automatic starts of a workflow never exceed its maxRuns,
\* whatever manual runs, edits and restarts do in between.
RunLimit == \A w \in Workflows : MaxRuns[w] > 0 => autoStarts[w] <= MaxRuns[w]

\* A run that completed, failed or was found interrupted keeps that outcome:
\* no late step and no reconciliation changes it.
OutcomeIsFinal ==
  [][\A e \in Execs :
       record[e] \in {"completed", "failed", "interrupted"} =>
         record'[e] \in {record[e], "absent"}]_vars

\* When the engine itself starts a dependent, no workflow it depends on is
\* still being run by somebody else.
DependenciesSettled ==
  [][\A e \in Execs :
       (phase[e] = "unused" /\ phase'[e] = "reset" /\ caller'[e] # NoExec) =>
         \A d \in DependsOn[owner'[e]] : active[d] \in {NoExec, caller'[e]}]_vars

\* A stopped run lets go of its workflow, whatever its agents do, once the
\* steps that its Stop did not reach have settled.
StopReleases ==
  \A e \in Execs :
    (e \in acked /\ Live(e) /\ \A p \in unreached[e] : part[e][p] # "running") ~> ~Live(e)

-----------------------------------------------------------------------------
(* What does not hold, although one would expect it of the code: see the     *)
(* README.                                                                   *)

\* A record says "running" only while its runner lives in this process.
RunningRecordHasRunner ==
  up => \A e \in Execs : record[e] = "running" => Live(e)

\* A workflow that is reported as running has a run an operator can stop.
RunningWorkflowHasRun ==
  Idle => \A w \in Workflows : exists[w] /\ View(w) = "running" => active[w] # NoExec

\* The record of a stopped run stays cancelled.
StopIsRecorded ==
  [][\A e \in Execs : record[e] = "cancelled" => record'[e] \in {"cancelled", "absent"}]_vars
=============================================================================
