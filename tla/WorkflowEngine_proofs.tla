----------------------- MODULE WorkflowEngine_proofs ------------------------
(***************************************************************************)
(* What the workflow engine promises, for every dependency graph, every    *)
(* set of agents and every number of runs, triggers and crashes.           *)
(***************************************************************************)
EXTENDS WorkflowEngine, TLAPS

USE ExecsAssumption, GraphAssumption, BoundsAssumption DEF NoExec

-----------------------------------------------------------------------------
(* What a read of the files can do.                                        *)

\* The status a read reports is one a WORKFLOW.md can hold.
LEMMA ViewType ==
  ASSUME TypeOK, NEW w \in Workflows
  PROVE  View(w) \in WfStatus
  BY DEF TypeOK, FilesOK, View, WfStatus

\* updateWorkflow writes statuses a WORKFLOW.md can hold.
LEMMA UpdateType ==
  ASSUME TypeOK, NEW w, NEW s \in WfStatus
  PROVE  Update(w, s) \in [Workflows -> WfStatus]
  BY DEF TypeOK, FilesOK, Update

LEMMA UpdateViewType ==
  ASSUME TypeOK, NEW w
  PROVE  Update(w, View(w)) \in [Workflows -> WfStatus]
<1>1. CASE w \in Workflows
  BY <1>1, ViewType, UpdateType
<1>2. CASE w \notin Workflows
  BY <1>2 DEF TypeOK, FilesOK, Update
<1> QED  BY <1>1, <1>2

\* A read leaves a record alone, or turns a stale running one to interrupted.
LEMMA ReadIsMild ==
  ASSUME TypeOK, NEW ws, NEW e \in Execs
  PROVE  \/ ReadRecord(ws)[e] = record[e]
         \/ Stale(e) /\ ReadRecord(ws)[e] = "interrupted"
  BY DEF TypeOK, RecordsOK, ReadRecord

LEMMA ReadRecordType ==
  ASSUME TypeOK, NEW ws
  PROVE  ReadRecord(ws) \in [Execs -> RecStatus]
  BY DEF TypeOK, RecordsOK, ReadRecord, RecStatus, Terminal

LEMMA ReadPartType ==
  ASSUME TypeOK, NEW ws
  PROVE  ReadPart(ws) \in [Execs -> [Agents -> PartStatus]]
<1> DEFINE seen(e) == [p \in Agents |-> IF recordPart[e][p] = "running" THEN "failed"
                                        ELSE recordPart[e][p]]
<1>1. \A e \in Execs : recordPart[e] \in [Agents -> PartStatus]
  BY DEF TypeOK, RecordsOK
<1>2. \A e \in Execs : seen(e) \in [Agents -> PartStatus]
  BY <1>1 DEF PartStatus
<1> HIDE DEF seen
<1>3. ReadPart(ws) = [e \in Execs |-> IF owner[e] \in ws /\ Stale(e) THEN seen(e)
                                      ELSE recordPart[e]]
  BY DEF ReadPart, seen
<1> QED  BY <1>1, <1>2, <1>3

LEMMA ReadType ==
  ASSUME TypeOK, NEW ws, Read(ws)
  PROVE  RecordsOK'
  BY ReadRecordType, ReadPartType DEF Read, RecordsOK

-----------------------------------------------------------------------------
(* Type correctness.                                                       *)

LEMMA BeginType ==
  ASSUME TypeOK, NEW w \in Workflows, NEW c \in Execs \cup {NoExec}, NEW auto \in BOOLEAN,
         Begin(w, c, auto)
  PROVE  /\ FilesOK' /\ RecordsOK' /\ ProcessOK' /\ RunsOK'
         /\ triggers' \in Nat /\ crashes' \in Nat => OthersOK'
<1>1. RecordsOK'
  BY ReadType DEF Begin
<1>2. FilesOK'
  BY DEF TypeOK, FilesOK, Begin, WfStatus
<1>3. ProcessOK'
  BY DEF TypeOK, ProcessOK, Begin
<1>4. RunsOK'
  BY DEF TypeOK, RunsOK, Begin, Phase, Downstream
<1>5. triggers' \in Nat /\ crashes' \in Nat => OthersOK'
  BY DEF TypeOK, OthersOK, Begin
<1> QED
  BY <1>1, <1>2, <1>3, <1>4, <1>5

\* Writing an update leaves the other groups of variables to their own facts.
LEMMA SettleType ==
  ASSUME TypeOK, NEW e \in Execs, NEW p \in Agents,
         NEW outcome \in {"completed", "failed", "cancelled"}, Settle(e, p, outcome)
  PROVE  /\ RecordsOK' /\ ProcessOK' /\ RunsOK' /\ OthersOK'
         /\ UNCHANGED <<exists, runCount, enabled>>
<1> DEFINE ps == [part[e] EXCEPT ![p] = outcome]
<1>1. ps \in [Agents -> PartStatus]
  BY DEF TypeOK, RunsOK, PartStatus
<1>2. RecordsOK'
  <2>1. ReadRecord({owner[e]}) \in [Execs -> RecStatus]
    BY ReadRecordType
  <2>2. ReadPart({owner[e]}) \in [Execs -> [Agents -> PartStatus]]
    BY ReadPartType
  <2> QED  BY <1>1, <2>1, <2>2 DEF Settle, RecordsOK, RecStatus
<1>3. RunsOK'
  BY <1>1 DEF TypeOK, RunsOK, Settle
<1> QED
  BY <1>2, <1>3 DEF TypeOK, ProcessOK, OthersOK, Settle, procVars, boundVars, histVars

\* ... and so does writing the outcome of a run.
LEMMA FinishType ==
  ASSUME TypeOK, NEW e \in Execs, NEW result \in Terminal,
         NEW s \in WfStatus, FinishAs(e, result, s)
  PROVE  RecordsOK' /\ status' \in [Workflows -> WfStatus]
<1>1. ReadRecord({owner[e]}) \in [Execs -> RecStatus]
  BY ReadRecordType
<1>2. ReadPart({owner[e]}) \in [Execs -> [Agents -> PartStatus]]
  BY ReadPartType
<1>3. RecordsOK'
  BY <1>1, <1>2 DEF TypeOK, RunsOK, FinishAs, RecordsOK, RecStatus
<1> QED
  BY <1>3, UpdateType DEF FinishAs

LEMMA ReleaseType ==
  ASSUME TypeOK, NEW e \in Execs, Release(e), UNCHANGED timers,
         UNCHANGED <<owner, part, todo, caller>>
  PROVE  ProcessOK' /\ RunsOK' /\ loop' \in Execs \cup {NoExec}
  BY DEF TypeOK, ProcessOK, RunsOK, Release, Phase

LEMMA DisableType ==
  ASSUME TypeOK, NEW w \in Workflows, Disable(w)
  PROVE  /\ enabled' \in [Workflows -> BOOLEAN]
         /\ status' \in [Workflows -> WfStatus]
  BY UpdateViewType DEF Disable, TypeOK, FilesOK

LEMMA CancelledType ==
  ASSUME TypeOK, NEW e \in Execs, WriteCancelled(e)
  PROVE  RecordsOK'
<1> DEFINE ps == [p \in Agents |-> IF recordPart[e][p] = "running" THEN "cancelled"
                                   ELSE recordPart[e][p]]
<1>1. ps \in [Agents -> PartStatus]
  <2>1. recordPart[e] \in [Agents -> PartStatus]
    BY DEF TypeOK, RecordsOK
  <2> QED  BY <2>1 DEF PartStatus
<1>2. ReadRecord({owner[e]}) \in [Execs -> RecStatus]
  BY ReadRecordType
<1>3. ReadPart({owner[e]}) \in [Execs -> [Agents -> PartStatus]]
  BY ReadPartType
<1> HIDE DEF ps
<1>4. record' = [ReadRecord({owner[e]}) EXCEPT ![e] = "cancelled"]
      /\ recordPart' = [ReadPart({owner[e]}) EXCEPT ![e] = ps]
  BY DEF WriteCancelled, ps
<1> QED
  BY <1>1, <1>2, <1>3, <1>4 DEF RecordsOK, RecStatus, Terminal

\* Every synchronous step keeps the types.
LEMMA SynchronousType ==
  ASSUME TypeOK, Synchronous
  PROVE  TypeOK'
<1> USE DEF mdVars, recordVars, runVars, procVars, boundVars, histVars
<1>1. ASSUME NEW e \in Execs, NEW d \in Workflows, ResetDownstream(e, d)
      PROVE  TypeOK'
  <2>1. RecordsOK'
    BY <1>1, ReadType DEF ResetDownstream
  <2>2. Update(d, "idle") \in [Workflows -> WfStatus]
    BY UpdateType DEF WfStatus
  <2> QED
    BY <1>1, <2>1, <2>2 DEF TypeOK, FilesOK, ProcessOK, RunsOK, OthersOK, ResetDownstream
<1>2. ASSUME NEW e \in Execs, StartRun(e)
      PROVE  TypeOK'
  <2> DEFINE started == [p \in Agents |-> IF p \in Participants[owner[e]] THEN "running"
                                          ELSE "none"]
  <2>1. started \in [Agents -> PartStatus]
    BY DEF PartStatus
  <2>2. ReadRecord(Workflows) \in [Execs -> RecStatus]
        /\ ReadPart(Workflows) \in [Execs -> [Agents -> PartStatus]]
    BY ReadRecordType, ReadPartType
  <2>3. status' \in [Workflows -> WfStatus]
    BY <1>2, UpdateType DEF StartRun, WfStatus, TypeOK, FilesOK
  <2> HIDE DEF started
  <2>4. /\ part' = [part EXCEPT ![e] = started]
        /\ record' = [ReadRecord(Workflows) EXCEPT ![e] = "running"]
        /\ recordPart' = [ReadPart(Workflows) EXCEPT ![e] = started]
    BY <1>2 DEF StartRun, started
  <2>5. RecordsOK'
    BY <2>1, <2>2, <2>4 DEF RecordsOK, RecStatus
  <2>6. RunsOK'
    BY <1>2, <2>1, <2>4 DEF TypeOK, RunsOK, StartRun, Phase
  <2>7. ProcessOK' /\ OthersOK'
    BY <1>2 DEF TypeOK, RunsOK, ProcessOK, OthersOK, StartRun
  <2> QED
    BY <1>2, <2>3, <2>5, <2>6, <2>7 DEF TypeOK, FilesOK, StartRun
<1>3. ASSUME NEW e \in Execs, FinishStopped(e) \/ FinishFailed(e)
      PROVE  TypeOK'
  <2>1. RecordsOK' /\ status' \in [Workflows -> WfStatus]
    BY <1>3, FinishType DEF FinishStopped, FinishFailed, Terminal, WfStatus
  <2>2. ProcessOK' /\ RunsOK' /\ loop' \in Execs \cup {NoExec}
    BY <1>3, ReleaseType DEF FinishStopped, FinishFailed
  <2> QED
    BY <1>3, <2>1, <2>2 DEF TypeOK, FilesOK, OthersOK, FinishStopped, FinishFailed
<1>4. ASSUME NEW e \in Execs, FinishCompleted(e)
      PROVE  TypeOK'
  <2>1. ReadRecord(Workflows) \in [Execs -> RecStatus]
        /\ ReadPart(Workflows) \in [Execs -> [Agents -> PartStatus]]
    BY ReadRecordType, ReadPartType
  <2>2. RecordsOK'
    BY <1>4, <2>1 DEF TypeOK, RunsOK, RecordsOK, FinishCompleted, RecStatus, Terminal
  <2>3. status' \in [Workflows -> WfStatus]
    BY <1>4, UpdateType DEF FinishCompleted, WfStatus
  <2>4. RunsOK'
    BY <1>4 DEF TypeOK, RunsOK, FinishCompleted, Phase, ReadyToRun, Dependents
  <2> QED
    BY <1>4, <2>2, <2>3, <2>4 DEF TypeOK, FilesOK, ProcessOK, OthersOK, FinishCompleted
<1>5. ASSUME NEW e \in Execs, NEW n \in Workflows, AdvanceStarts(e, n)
      PROVE  TypeOK'
  BY <1>5, BeginType DEF AdvanceStarts, TypeOK, OthersOK
<1>6. ASSUME NEW e \in Execs, NEW n \in Workflows, AdvanceRefused(e, n)
      PROVE  TypeOK'
  <2>1. RecordsOK'
    BY <1>6, ReadType DEF AdvanceRefused
  <2>2. status' \in [Workflows -> WfStatus]
    BY <1>6, UpdateType DEF AdvanceRefused, WfStatus
  <2> QED
    BY <1>6, <2>1, <2>2 DEF TypeOK, FilesOK, ProcessOK, RunsOK, OthersOK, AdvanceRefused
<1>7. ASSUME NEW e \in Execs, NEW n \in Workflows, AdvanceSkips(e, n)
      PROVE  TypeOK'
  <2>1. RecordsOK'
    BY <1>7, ReadType DEF AdvanceSkips
  <2> QED
    BY <1>7, <2>1 DEF TypeOK, FilesOK, ProcessOK, RunsOK, OthersOK, AdvanceSkips
<1>8. ASSUME NEW e \in Execs, AdvanceEnds(e)
      PROVE  TypeOK'
  <2>1. ProcessOK' /\ RunsOK' /\ loop' \in Execs \cup {NoExec}
    BY <1>8, ReleaseType DEF AdvanceEnds
  <2> QED
    BY <1>8, <2>1 DEF TypeOK, FilesOK, RecordsOK, OthersOK, AdvanceEnds
<1> QED
  BY <1>1, <1>2, <1>3, <1>4, <1>5, <1>6, <1>7, <1>8 DEF Synchronous

\* The steps of the participants keep the types.
LEMMA StepsType ==
  ASSUME TypeOK, Steps
  PROVE  TypeOK'
<1>1. ASSUME NEW e \in Execs, NEW p \in Agents,
             StepAnswers(e, p) \/ StepThrows(e, p) \/ StepStopped(e, p)
      PROVE  TypeOK'
  <2>1. PICK outcome \in {"completed", "failed", "cancelled"} : Settle(e, p, outcome)
    BY <1>1 DEF StepAnswers, StepThrows, StepStopped
  <2>2. status' \in [Workflows -> WfStatus]
    BY <1>1, UpdateType, UpdateViewType DEF StepAnswers, StepThrows, StepStopped, TypeOK, FilesOK,
       WfStatus
  <2> QED
    BY <2>1, <2>2, SettleType DEF TypeOK, FilesOK
<1>2. ASSUME NEW e \in Execs, StepOutputs(e)
      PROVE  TypeOK'
  <2>1. RecordsOK'
    BY <1>2, ReadType DEF StepOutputs
  <2>2. status' \in [Workflows -> WfStatus]
    BY <1>2, UpdateViewType DEF StepOutputs, TypeOK, FilesOK
  <2> QED
    BY <1>2, <2>1, <2>2 DEF StepOutputs, TypeOK, FilesOK, ProcessOK, RunsOK, OthersOK, mdVars,
       runVars, procVars, boundVars, histVars
<1> QED
  BY <1>1, <1>2 DEF Steps

\* The requests and the timers keep the types.
LEMMA RequestsType ==
  ASSUME TypeOK, Requests
  PROVE  TypeOK'
<1> USE DEF mdVars, recordVars, runVars, procVars, boundVars, histVars
<1>1. ASSUME NEW w \in Workflows, TriggerManual(w)
      PROVE  TypeOK'
  <2>1. Begin(w, NoExec, FALSE)
    BY <1>1 DEF TriggerManual
  <2>2. triggers' \in Nat /\ crashes' \in Nat
    BY <1>1 DEF TriggerManual, TypeOK, OthersOK
  <2> QED  BY <2>1, <2>2, BeginType DEF TypeOK
<1>2. ASSUME NEW w \in Workflows, TriggerScheduled(w)
      PROVE  TypeOK'
  <2>0. triggers' \in Nat /\ crashes' \in Nat
    BY <1>2 DEF TriggerScheduled, TypeOK, OthersOK
  <2>1. CASE Begin(w, NoExec, TRUE)
    BY <2>0, <2>1, BeginType DEF TypeOK
  <2>2. CASE ~Begin(w, NoExec, TRUE)
    <3>1. RecordsOK'
      BY <1>2, <2>2, ReadType DEF TriggerScheduled
    <3>2. enabled' \in [Workflows -> BOOLEAN] /\ status' \in [Workflows -> WfStatus]
      BY <1>2, <2>2, DisableType DEF TriggerScheduled
    <3>3. UNCHANGED <<exists, runCount, runVars, procVars, loop, nextExec, paused, up, histVars>>
      BY <1>2, <2>2 DEF TriggerScheduled
    <3>4. FilesOK'
      BY <3>2, <3>3 DEF TypeOK, FilesOK
    <3>5. ProcessOK' /\ RunsOK'
      BY <3>3 DEF TypeOK, ProcessOK, RunsOK
    <3>6. OthersOK'
      BY <2>0, <3>3 DEF TypeOK, OthersOK
    <3> QED  BY <3>1, <3>4, <3>5, <3>6 DEF TypeOK
  <2> QED  BY <2>1, <2>2
<1>3. ASSUME NEW w \in Workflows, DisableTimer(w)
      PROVE  TypeOK'
  <2>1. RecordsOK'
    BY <1>3, ReadType DEF DisableTimer
  <2>2. enabled' \in [Workflows -> BOOLEAN] /\ status' \in [Workflows -> WfStatus]
    BY <1>3, DisableType DEF DisableTimer
  <2>3. ProcessOK'
    BY <1>3 DEF DisableTimer, TypeOK, ProcessOK
  <2> QED
    BY <1>3, <2>1, <2>2, <2>3 DEF DisableTimer, TypeOK, FilesOK, RunsOK, OthersOK
<1>4. ASSUME NEW w \in Workflows, EditEnabled(w)
      PROVE  TypeOK'
  <2>1. RecordsOK'
    BY <1>4, ReadType DEF EditEnabled
  <2>2. status' \in [Workflows -> WfStatus]
    BY <1>4, UpdateViewType DEF EditEnabled
  <2> QED
    BY <1>4, <2>1, <2>2 DEF EditEnabled, TypeOK, FilesOK, ProcessOK, RunsOK, OthersOK
<1>5. ASSUME NEW w \in Workflows, NEW s \in {"running", "completed", "blocked"},
             ReportStatus(w, s)
      PROVE  TypeOK'
  <2>1. RecordsOK'
    BY <1>5, ReadType DEF ReportStatus
  <2> QED
    BY <1>5, <2>1 DEF ReportStatus, TypeOK, FilesOK, ProcessOK, RunsOK, OthersOK, WfStatus
<1>6. ASSUME NEW w \in Workflows, DeleteWorkflow(w)
      PROVE  TypeOK'
  <2>1. RecordsOK'
    BY <1>6, ReadRecordType, ReadPartType DEF DeleteWorkflow, RecordsOK, RecStatus
  <2> QED
    BY <1>6, <2>1 DEF DeleteWorkflow, TypeOK, FilesOK, ProcessOK, RunsOK, OthersOK
<1>7. ASSUME NEW w \in Workflows, CreateWorkflow(w)
      PROVE  TypeOK'
  <2>1. RecordsOK'
    BY <1>7, ReadType DEF CreateWorkflow
  <2> QED
    BY <1>7, <2>1 DEF CreateWorkflow, TypeOK, FilesOK, ProcessOK, RunsOK, OthersOK, WfStatus
<1>8. ASSUME NEW e \in Execs, Stop(e)
      PROVE  TypeOK'
  <2>1. RecordsOK'
    BY <1>8, CancelledType DEF Stop
  <2>2. status' \in [Workflows -> WfStatus]
    BY <1>8, UpdateType DEF Stop, WfStatus
  <2> QED
    BY <1>8, <2>1, <2>2 DEF Stop, SignalSteps, TypeOK, FilesOK, ProcessOK, RunsOK, OthersOK
<1>9. ASSUME NEW e \in Execs, DeleteExecution(e)
      PROVE  TypeOK'
  <2>1. RecordsOK'
    BY <1>9, ReadRecordType, ReadPartType DEF DeleteExecution, RecordsOK, RecStatus
  <2> QED
    BY <1>9, <2>1 DEF DeleteExecution, TypeOK, FilesOK, ProcessOK, RunsOK, OthersOK
<1>10. ASSUME NEW b \in BOOLEAN, NEW ws \in SUBSET Workflows, SetPaused(b, ws)
       PROVE  TypeOK'
  <2>1. RecordsOK'
    BY <1>10, ReadType DEF SetPaused
  <2>2. status' \in [Workflows -> WfStatus]
    BY <1>10, ViewType DEF SetPaused, TypeOK, FilesOK
  <2> QED
    BY <1>10, <2>1, <2>2 DEF SetPaused, TypeOK, FilesOK, ProcessOK, RunsOK, OthersOK
<1>11. ASSUME NEW ws, ReadWorkflows(ws)
       PROVE  TypeOK'
  <2>1. RecordsOK'
    BY <1>11, ReadType DEF ReadWorkflows
  <2> QED
    BY <1>11, <2>1 DEF ReadWorkflows, TypeOK, FilesOK, ProcessOK, RunsOK, OthersOK
<1> QED
  BY <1>1, <1>2, <1>3, <1>4, <1>5, <1>6, <1>7, <1>8, <1>9, <1>10, <1>11 DEF Requests

\* Wherever a crash falls, the process dies.
LEMMA CrashDies ==
  ASSUME Crashes
  PROVE  Die
  BY DEF Crashes, Crash, CrashInStop, CrashInFinish, CrashInThrow, CrashInDelete

\* A crash and a restart keep the types.
LEMMA CrashType ==
  ASSUME TypeOK, Crashes \/ Restart
  PROVE  TypeOK'
<1> USE DEF mdVars, recordVars, runVars, procVars, boundVars, histVars
<1>1. CASE Crashes
  <2>1. RecordsOK'
    <3>1. CASE Crash \/ \E e \in Execs : CrashInStop(e)
      BY <3>1, CancelledType DEF Crash, CrashInStop, TypeOK, RecordsOK
    <3>2. ASSUME NEW e \in Execs, CrashInFinish(e)
          PROVE  RecordsOK'
      <4>1. part[e] \in [Agents -> PartStatus] /\ Outcome(e) \in RecStatus
        BY DEF TypeOK, RunsOK, Outcome, RecStatus, Terminal
      <4> QED  BY <3>2, <4>1 DEF CrashInFinish, TypeOK, RecordsOK
    <3>3. CASE (\E e \in Execs : CrashInThrow(e)) \/ \E w \in Workflows : CrashInDelete(w)
      BY <3>3, ReadType DEF CrashInThrow, CrashInDelete
    <3> QED  BY <1>1, <3>1, <3>2, <3>3 DEF Crashes
  <2>2. Die
    BY <1>1, CrashDies
  <2>3. ProcessOK'
    BY <2>2 DEF Die, TypeOK, ProcessOK
  <2>4. RunsOK'
    BY <2>2 DEF Die, TypeOK, RunsOK, Phase
  <2>5. OthersOK'
    <3>1. crashes' = crashes + 1 /\ up' = FALSE /\ loop' = NoExec
      BY <2>2 DEF Die
    <3>2. UNCHANGED <<nextExec, paused, triggers, acked, autoStarts>>
      BY <2>2 DEF Die
    <3>3. up' \in BOOLEAN
      BY <3>1
    <3>4. crashes' \in Nat /\ loop' \in Execs \cup {NoExec}
      BY <3>1 DEF TypeOK, OthersOK
    <3> QED  BY <3>2, <3>3, <3>4 DEF TypeOK, OthersOK
  <2>6. FilesOK'
    <3>1. exists' \in [Workflows -> BOOLEAN]
      BY <1>1 DEF Crashes, Crash, CrashInStop, CrashInFinish, CrashInThrow, CrashInDelete,
                  TypeOK, FilesOK
    <3>2. status' \in [Workflows -> WfStatus]
      <4>1. \A w : Update(w, "blocked") \in [Workflows -> WfStatus]
        BY DEF Update, TypeOK, FilesOK, WfStatus
      <4>2. status' = status \/ \E w : status' = Update(w, "blocked")
        BY <1>1 DEF Crashes, Crash, CrashInStop, CrashInFinish, CrashInThrow, CrashInDelete
      <4> QED  BY <4>1, <4>2 DEF TypeOK, FilesOK
    <3>3. UNCHANGED <<runCount, enabled>>
      BY <2>2 DEF Die
    <3> QED  BY <3>1, <3>2, <3>3 DEF TypeOK, FilesOK
  <2> QED
    BY <2>1, <2>3, <2>4, <2>5, <2>6 DEF TypeOK
<1>2. CASE Restart
  <2>1. RecordsOK'
    BY <1>2, ReadType DEF Restart
  <2> QED
    BY <1>2, <2>1 DEF Restart, TypeOK, FilesOK, ProcessOK, RunsOK, OthersOK
<1> QED  BY <1>1, <1>2

LEMMA TypeInit ==
  ASSUME Init
  PROVE  TypeOK
<1>1. FilesOK
  BY DEF Init, FilesOK, WfStatus
<1>2. RecordsOK
  BY DEF Init, RecordsOK, RecStatus, PartStatus
<1>3. ProcessOK
  BY DEF Init, ProcessOK
<1>4. RunsOK
  BY DEF Init, RunsOK, PartStatus, Phase
<1>5. OthersOK
  BY DEF Init, OthersOK
<1> QED  BY <1>1, <1>2, <1>3, <1>4, <1>5 DEF TypeOK

LEMMA TypeStep ==
  ASSUME TypeOK, [Next]_vars
  PROVE  TypeOK'
<1>1. CASE Next
  BY <1>1, SynchronousType, StepsType, RequestsType, CrashType DEF Next
<1>2. CASE UNCHANGED vars
  BY <1>2 DEF vars, mdVars, recordVars, runVars, procVars, boundVars, histVars,
     TypeOK, FilesOK, RecordsOK, ProcessOK, RunsOK, OthersOK
<1> QED  BY <1>1, <1>2

\* Every variable always holds a value the program can give it.
THEOREM TypeCorrect == Spec => []TypeOK
  BY TypeInit, TypeStep, PTL DEF Spec

-----------------------------------------------------------------------------
(* Claims and runners.  The claim is taken in triggerWorkflow and given    *)
(* back in the finally block of the runner; that they agree needs to know  *)
(* that execution ids are fresh and who may be inside a synchronous        *)
(* section: at most an auto-started run that has not started its steps     *)
(* yet, and the run that is advancing the graph below it.                  *)

Fresh == \A e \in Execs : e >= nextExec => phase[e] = "unused" /\ owner[e] = NoWorkflow

ClaimOwned ==
  \A w \in Workflows : active[w] # NoExec => owner[active[w]] = w

OwnedRuns == \A e \in Execs : Live(e) => owner[e] \in Workflows

CallStack ==
  /\ loop = NoExec => \A f \in Execs : phase[f] \notin {"reset", "advance"}
  /\ loop # NoExec =>
       /\ phase[loop] \in {"reset", "advance"}
       /\ \A f \in Execs : phase[f] = "reset" => f = loop
       /\ \A f \in Execs :
            phase[f] = "advance" => f = loop \/ (phase[loop] = "reset" /\ f = caller[loop])
       /\ phase[loop] = "reset" /\ caller[loop] # NoExec => phase[caller[loop]] = "advance"

RunInv == Fresh /\ ClaimOwned /\ OwnedRuns /\ ClaimIsRunner /\ CallStack

\* The steps that neither start nor end a run keep all of this.
LEMMA RunFrame ==
  ASSUME RunInv, UNCHANGED <<phase, owner, active, nextExec, loop, caller>>
  PROVE  RunInv'
  BY DEF RunInv, Fresh, ClaimOwned, OwnedRuns, ClaimIsRunner, CallStack, Live

\* A workflow that is claimed is not claimed again, and the id is new.
LEMMA BeginRuns ==
  ASSUME TypeOK, RunInv, NEW w \in Workflows, NEW c \in Execs \cup {NoExec}, NEW auto \in BOOLEAN,
         active[w] = NoExec, Begin(w, c, auto),
         loop = c, c # NoExec => phase[c] = "advance"
  PROVE  RunInv'
<1> DEFINE e == nextExec
<1>1. /\ e \in Execs /\ phase[e] = "unused" /\ owner[e] = NoWorkflow
      /\ active' = [active EXCEPT ![w] = e] /\ owner' = [owner EXCEPT ![e] = w]
      /\ phase' = [phase EXCEPT ![e] = "reset"] /\ caller' = [caller EXCEPT ![e] = c]
      /\ loop' = e /\ nextExec' = e + 1
  BY DEF Begin, RunInv, Fresh, TypeOK, OthersOK
<1>2. /\ active \in [Workflows -> Execs \cup {NoExec}]
      /\ owner \in [Execs -> Workflows \cup {NoWorkflow}]
      /\ phase \in [Execs -> Phase] /\ caller \in [Execs -> Execs \cup {NoExec}]
  BY DEF TypeOK, ProcessOK, RunsOK
<1> HIDE DEF e
<1>3. Fresh'
  BY <1>1, <1>2 DEF RunInv, Fresh, e, TypeOK, OthersOK
<1>4. ClaimOwned'
  <2> SUFFICES ASSUME NEW v \in Workflows, active'[v] # NoExec
               PROVE  owner'[active'[v]] = v
    BY DEF ClaimOwned
  <2>1. CASE v = w
    BY <1>1, <1>2, <2>1
  <2>2. CASE v # w
    BY <1>1, <1>2, <2>2 DEF RunInv, ClaimOwned
  <2> QED  BY <2>1, <2>2
<1>5. OwnedRuns' /\ ClaimIsRunner'
  <2> SUFFICES ASSUME NEW f \in Execs
               PROVE  /\ Live(f)' => owner'[f] \in Workflows
                      /\ Live(f)' <=> owner'[f] # NoWorkflow /\ active'[owner'[f]] = f
    BY DEF OwnedRuns, ClaimIsRunner
  <2>1. CASE f = e
    BY <1>1, <1>2, <2>1 DEF Live
  <2>2. CASE f # e
    <3>1. phase'[f] = phase[f] /\ owner'[f] = owner[f]
      BY <1>1, <1>2, <2>2
    <3>2. CASE owner[f] = w
      BY <1>1, <1>2, <2>2, <3>1, <3>2 DEF RunInv, OwnedRuns, ClaimIsRunner, Live
    <3>3. CASE owner[f] # w
      BY <1>1, <1>2, <2>2, <3>1, <3>3 DEF RunInv, OwnedRuns, ClaimIsRunner, Live
    <3> QED  BY <3>2, <3>3
  <2> QED  BY <2>1, <2>2
<1>6. CallStack'
  BY <1>1, <1>2 DEF RunInv, CallStack
<1> QED  BY <1>3, <1>4, <1>5, <1>6 DEF RunInv

\* A run that is over gives its claim back, and only its own.
LEMMA ReleaseRuns ==
  ASSUME TypeOK, RunInv, NEW e \in Execs, Release(e), UNCHANGED <<owner, nextExec, caller>>,
         Live(e), \A f \in Execs : phase[f] \in {"reset", "advance"} => f = e
  PROVE  RunInv'
<1>1. /\ active \in [Workflows -> Execs \cup {NoExec}] /\ phase \in [Execs -> Phase]
      /\ owner \in [Execs -> Workflows \cup {NoWorkflow}]
  BY DEF TypeOK, ProcessOK, RunsOK
<1>2. /\ active' = [w \in Workflows |-> IF active[w] = e THEN NoExec ELSE active[w]]
      /\ phase' = [phase EXCEPT ![e] = "gone"] /\ loop' = NoExec
  BY DEF Release
<1>3. Fresh'
  BY <1>1, <1>2 DEF RunInv, Fresh, Live
<1>4. ClaimOwned'
  BY <1>1, <1>2 DEF RunInv, ClaimOwned
<1>5. OwnedRuns' /\ ClaimIsRunner'
  BY <1>1, <1>2 DEF RunInv, OwnedRuns, ClaimIsRunner, Live
<1>6. CallStack'
  BY <1>1, <1>2 DEF CallStack
<1> QED  BY <1>3, <1>4, <1>5, <1>6 DEF RunInv

\* The runs on their way through the steps, and the runs of a dead process.
LEMMA PhaseRuns ==
  ASSUME TypeOK, RunInv, NEW e \in Execs, StartRun(e) \/ FinishCompleted(e)
  PROVE  RunInv'
<1>1. /\ active \in [Workflows -> Execs \cup {NoExec}] /\ phase \in [Execs -> Phase]
      /\ owner \in [Execs -> Workflows \cup {NoWorkflow}]
      /\ caller \in [Execs -> Execs \cup {NoExec}]
  BY DEF TypeOK, ProcessOK, RunsOK
<1>2. UNCHANGED <<active, owner, nextExec, caller>>
  BY DEF StartRun, FinishCompleted, procVars
<1>3. CASE StartRun(e)
  <2>1. loop = e /\ phase[e] = "reset" /\ phase' = [phase EXCEPT ![e] = "steps"]
        /\ loop' = caller[e]
    BY <1>3 DEF StartRun
  <2>2. Fresh' /\ ClaimOwned' /\ OwnedRuns' /\ ClaimIsRunner'
    BY <1>1, <1>2, <2>1 DEF RunInv, Fresh, ClaimOwned, OwnedRuns, ClaimIsRunner, Live
  <2>3. CallStack'
    BY <1>1, <1>2, <2>1 DEF RunInv, CallStack
  <2> QED  BY <2>2, <2>3 DEF RunInv
<1>4. CASE FinishCompleted(e)
  <2>1. loop = NoExec /\ phase[e] = "steps" /\ phase' = [phase EXCEPT ![e] = "advance"]
        /\ loop' = e
    BY <1>4 DEF FinishCompleted, Outcome, Finishing, Ended
  <2>2. Fresh' /\ ClaimOwned' /\ OwnedRuns' /\ ClaimIsRunner'
    BY <1>1, <1>2, <2>1 DEF RunInv, Fresh, ClaimOwned, OwnedRuns, ClaimIsRunner, Live
  <2>3. CallStack'
    BY <1>1, <1>2, <2>1 DEF RunInv, CallStack
  <2> QED  BY <2>2, <2>3 DEF RunInv
<1> QED  BY <1>3, <1>4

LEMMA DieRuns ==
  ASSUME TypeOK, RunInv, Die
  PROVE  RunInv'
<1>1. /\ active' = [w \in Workflows |-> NoExec] /\ loop' = NoExec
      /\ phase' = [e \in Execs |-> IF Live(e) THEN "gone" ELSE phase[e]]
      /\ UNCHANGED <<owner, nextExec, caller>>
  BY DEF Die
<1>2. \A e \in Execs : ~Live(e)'
  BY <1>1 DEF Live
<1>3. Fresh'
  BY <1>1 DEF RunInv, Fresh, Live
<1>4. ClaimOwned' /\ OwnedRuns'
  BY <1>1, <1>2 DEF ClaimOwned, OwnedRuns
<1>5. ClaimIsRunner'
  <2> SUFFICES ASSUME NEW e \in Execs, owner'[e] # NoWorkflow
               PROVE  active'[owner'[e]] # e
    BY <1>2 DEF ClaimIsRunner
  <2>1. owner'[e] \in Workflows
    BY <1>1 DEF TypeOK, RunsOK
  <2> QED  BY <1>1, <2>1
<1>6. CallStack'
  BY <1>1, <1>2 DEF CallStack, Live
<1> QED  BY <1>3, <1>4, <1>5, <1>6 DEF RunInv

LEMMA RunStep ==
  ASSUME TypeOK, RunInv, [Next]_vars
  PROVE  RunInv'
<1> USE DEF mdVars, recordVars, runVars, procVars, boundVars, histVars
<1>1. CASE UNCHANGED vars
  BY <1>1, RunFrame DEF vars
<1>2. CASE Synchronous
  <2>1. ASSUME NEW e \in Execs, NEW d \in Workflows, ResetDownstream(e, d)
        PROVE  RunInv'
    BY <2>1, RunFrame DEF ResetDownstream
  <2>2. ASSUME NEW e \in Execs, StartRun(e) \/ FinishCompleted(e)
        PROVE  RunInv'
    BY <2>2, PhaseRuns
  <2>3. ASSUME NEW e \in Execs, FinishStopped(e) \/ FinishFailed(e)
        PROVE  RunInv'
    <3>1. Release(e) /\ UNCHANGED <<owner, nextExec, caller>> /\ Live(e) /\ loop = NoExec
      BY <2>3 DEF FinishStopped, FinishFailed, Finishing, Ended, Live
    <3> QED  BY <3>1, ReleaseRuns DEF RunInv, CallStack
  <2>4. ASSUME NEW e \in Execs, NEW n \in Workflows, AdvanceStarts(e, n)
        PROVE  RunInv'
    <3>1. Begin(n, e, TRUE) /\ active[n] = NoExec /\ loop = e /\ phase[e] = "advance"
      BY <2>4 DEF AdvanceStarts, Advancing, Refuses
    <3> QED  BY <3>1, BeginRuns
  <2>5. ASSUME NEW e \in Execs, NEW n \in Workflows,
               AdvanceRefused(e, n) \/ AdvanceSkips(e, n)
        PROVE  RunInv'
    BY <2>5, RunFrame DEF AdvanceRefused, AdvanceSkips
  <2>6. ASSUME NEW e \in Execs, AdvanceEnds(e)
        PROVE  RunInv'
    <3>1. /\ Release(e) /\ UNCHANGED <<owner, nextExec, caller>>
          /\ loop = e /\ phase[e] = "advance" /\ e # NoExec
      BY <2>6 DEF AdvanceEnds
    <3>2. Live(e) /\ \A f \in Execs : phase[f] \in {"reset", "advance"} => f = e
      BY <3>1 DEF RunInv, CallStack, Live
    <3> QED  BY <3>1, <3>2, ReleaseRuns
  <2> QED
    BY <1>2, <2>1, <2>2, <2>3, <2>4, <2>5, <2>6 DEF Synchronous
<1>3. CASE Steps
  BY <1>3, RunFrame DEF Steps, StepAnswers, StepThrows, StepStopped, StepOutputs, Settle
<1>4. CASE Requests
  <2>1. ASSUME NEW w \in Workflows, TriggerManual(w) \/ TriggerScheduled(w)
        PROVE  RunInv'
    <3>1. active[w] = NoExec /\ loop = NoExec
      BY <2>1 DEF TriggerManual, TriggerScheduled, Refuses, Idle
    <3>2. CASE Begin(w, NoExec, FALSE) \/ Begin(w, NoExec, TRUE)
      BY <3>1, <3>2, BeginRuns
    <3>3. CASE UNCHANGED <<runVars, procVars, loop, nextExec>>
      BY <3>3, RunFrame
    <3> QED  BY <2>1, <3>2, <3>3 DEF TriggerManual, TriggerScheduled
  <2>2. ASSUME NEW w \in Workflows, DisableTimer(w) \/ EditEnabled(w) \/ DeleteWorkflow(w)
                                     \/ CreateWorkflow(w)
        PROVE  RunInv'
    BY <2>2, RunFrame DEF DisableTimer, EditEnabled, DeleteWorkflow, CreateWorkflow
  <2>3. ASSUME NEW w \in Workflows, NEW s, ReportStatus(w, s)
        PROVE  RunInv'
    BY <2>3, RunFrame DEF ReportStatus
  <2>4. ASSUME NEW e \in Execs, Stop(e) \/ DeleteExecution(e)
        PROVE  RunInv'
    BY <2>4, RunFrame DEF Stop, DeleteExecution
  <2>5. ASSUME NEW b, NEW ws, SetPaused(b, ws) \/ ReadWorkflows(ws)
        PROVE  RunInv'
    BY <2>5, RunFrame DEF SetPaused, ReadWorkflows
  <2> QED
    BY <1>4, <2>1, <2>2, <2>3, <2>4, <2>5 DEF Requests
<1>5. CASE Crashes
  BY <1>5, CrashDies, DieRuns
<1>6. CASE Restart
  BY <1>6, RunFrame DEF Restart
<1> QED  BY <1>1, <1>2, <1>3, <1>4, <1>5, <1>6 DEF Next

LEMMA RunInit == Init => RunInv
  BY DEF Init, RunInv, Fresh, ClaimOwned, OwnedRuns, ClaimIsRunner, CallStack, Live

\* No workflow ever has two runners, whatever triggers, cron ticks, stops,
\* edits, deletions and crashes do: each runner holds its workflow's claim.
THEOREM ClaimsAndRunnersAgree == Spec => []ClaimIsRunner
<1>1. Init => TypeOK /\ RunInv
  BY TypeInit, RunInit
<1>2. TypeOK /\ RunInv /\ [Next]_vars => (TypeOK /\ RunInv)'
  BY TypeStep, RunStep
<1>3. RunInv => ClaimIsRunner
  BY DEF RunInv
<1> QED  BY <1>1, <1>2, <1>3, PTL DEF Spec

-----------------------------------------------------------------------------
(* Outcomes and Stop.  Each variable moves along a few arcs only; the      *)
(* promises follow from the arcs.                                          *)

\* What one step can do to the record of e, and when.
RecordArc(e) ==
  \/ record'[e] \in {record[e], "absent"}
  \/ Stale(e) /\ record'[e] = "interrupted"
  \/ phase[e] \in {"reset", "steps"} /\ phase'[e] = "steps" /\ record'[e] = "running"
  \/ phase[e] = "steps" /\ phase'[e] \in {"advance", "gone"} /\ e \notin stopped
       /\ record'[e] \in {"completed", "failed"}
  \/ phase[e] = "steps" /\ phase'[e] = "gone" /\ record'[e] = "cancelled"
  \/ record[e] = "running" /\ record'[e] = "cancelled"

\* The records of a step that does nothing but read.
LEMMA ReadArc ==
  ASSUME TypeOK, NEW ws, record' = ReadRecord(ws)
  PROVE  \A e \in Execs : RecordArc(e)
  BY ReadIsMild DEF RecordArc

\* The records of a step that reads, and then writes the record of e.
LEMMA WriteArc ==
  ASSUME TypeOK, NEW ws, NEW e \in Execs, NEW r,
         record' = [ReadRecord(ws) EXCEPT ![e] = r],
         record'[e] = r => RecordArc(e)
  PROVE  \A f \in Execs : RecordArc(f)
<1> TAKE f \in Execs
<1>1. ReadRecord(ws) \in [Execs -> RecStatus]
  BY ReadRecordType
<1>2. CASE f = e
  BY <1>1, <1>2
<1>3. CASE f # e
  BY <1>1, <1>3, ReadIsMild DEF RecordArc
<1> QED  BY <1>2, <1>3

LEMMA CancelArc ==
  ASSUME TypeOK, NEW e \in Execs, Stoppable(e), WriteCancelled(e)
  PROVE  \A f \in Execs : RecordArc(f)
<1>1. record[e] = "running"
  BY ReadIsMild DEF Stoppable
<1> QED  BY <1>1, WriteArc DEF WriteCancelled, RecordArc

LEMMA RecordStep ==
  ASSUME TypeOK, [Next]_vars
  PROVE  \A e \in Execs : RecordArc(e)
<1> USE DEF mdVars, recordVars, runVars, procVars, boundVars, histVars
<1>0. phase \in [Execs -> Phase] /\ record \in [Execs -> RecStatus]
  BY DEF TypeOK, RunsOK, RecordsOK
<1>1. CASE UNCHANGED vars
  BY <1>1 DEF vars, RecordArc
<1>2. CASE Synchronous
  <2>1. ASSUME NEW e \in Execs, NEW d \in Workflows, ResetDownstream(e, d)
        PROVE  \A f \in Execs : RecordArc(f)
    BY <2>1, ReadArc DEF ResetDownstream, Read
  <2>2. ASSUME NEW e \in Execs, StartRun(e)
        PROVE  \A f \in Execs : RecordArc(f)
    <3>1. phase[e] = "reset" /\ phase'[e] = "steps"
          /\ record' = [ReadRecord(Workflows) EXCEPT ![e] = "running"]
      BY <1>0, <2>2 DEF StartRun
    <3> QED  BY <3>1, WriteArc DEF RecordArc
  <2>3. ASSUME NEW e \in Execs, FinishStopped(e)
        PROVE  \A f \in Execs : RecordArc(f)
    <3>1. phase[e] = "steps" /\ phase'[e] = "gone"
          /\ record' = [ReadRecord({owner[e]}) EXCEPT ![e] = "cancelled"]
      BY <1>0, <2>3 DEF FinishStopped, Finishing, Ended, Release, FinishAs
    <3> QED  BY <3>1, WriteArc DEF RecordArc
  <2>4. ASSUME NEW e \in Execs, FinishFailed(e)
        PROVE  \A f \in Execs : RecordArc(f)
    <3>1. phase[e] = "steps" /\ phase'[e] = "gone" /\ e \notin stopped
          /\ record' = [ReadRecord({owner[e]}) EXCEPT ![e] = "failed"]
      BY <1>0, <2>4 DEF FinishFailed, Outcome, Finishing, Ended, Release, FinishAs
    <3> QED  BY <3>1, WriteArc DEF RecordArc
  <2>5. ASSUME NEW e \in Execs, FinishCompleted(e)
        PROVE  \A f \in Execs : RecordArc(f)
    <3>1. phase[e] = "steps" /\ phase'[e] = "advance" /\ e \notin stopped
          /\ record' = [ReadRecord(Workflows) EXCEPT ![e] = "completed"]
      BY <1>0, <2>5 DEF FinishCompleted, Outcome, Finishing, Ended
    <3> QED  BY <3>1, WriteArc DEF RecordArc
  <2>6. ASSUME NEW e \in Execs, NEW n \in Workflows,
               AdvanceStarts(e, n) \/ AdvanceRefused(e, n) \/ AdvanceSkips(e, n)
        PROVE  \A f \in Execs : RecordArc(f)
    BY <2>6, ReadArc DEF AdvanceStarts, AdvanceRefused, AdvanceSkips, Begin, Read
  <2>7. ASSUME NEW e \in Execs, AdvanceEnds(e)
        PROVE  \A f \in Execs : RecordArc(f)
    BY <2>7 DEF AdvanceEnds, RecordArc
  <2> QED
    BY <1>2, <2>1, <2>2, <2>3, <2>4, <2>5, <2>6, <2>7 DEF Synchronous
<1>3. CASE Steps
  <2>1. ASSUME NEW e \in Execs, NEW p \in Agents, NEW outcome, Settle(e, p, outcome)
        PROVE  \A f \in Execs : RecordArc(f)
    <3>1. phase[e] = "steps" /\ phase'[e] = "steps"
          /\ record' = [ReadRecord({owner[e]}) EXCEPT ![e] = "running"]
      BY <2>1 DEF Settle
    <3> QED  BY <3>1, WriteArc DEF RecordArc
  <2>2. ASSUME NEW e \in Execs, StepOutputs(e)
        PROVE  \A f \in Execs : RecordArc(f)
    BY <2>2, ReadArc DEF StepOutputs, Read
  <2> QED  BY <1>3, <2>1, <2>2 DEF Steps, StepAnswers, StepThrows, StepStopped
<1>4. CASE Requests
  <2>1. ASSUME NEW w \in Workflows, NEW s,
               TriggerManual(w) \/ TriggerScheduled(w) \/ DisableTimer(w) \/ EditEnabled(w)
                 \/ ReportStatus(w, s) \/ CreateWorkflow(w)
        PROVE  \A f \in Execs : RecordArc(f)
    BY <2>1, ReadArc DEF TriggerManual, TriggerScheduled, DisableTimer, EditEnabled, ReportStatus,
       CreateWorkflow, Begin, Read
  <2>2. ASSUME NEW w \in Workflows, DeleteWorkflow(w)
        PROVE  \A f \in Execs : RecordArc(f)
    BY <2>2, ReadIsMild DEF DeleteWorkflow, RecordArc
  <2>3. ASSUME NEW e \in Execs, Stop(e)
        PROVE  \A f \in Execs : RecordArc(f)
    BY <2>3, CancelArc DEF Stop
  <2>4. ASSUME NEW e \in Execs, DeleteExecution(e)
        PROVE  \A f \in Execs : RecordArc(f)
    BY <2>4, WriteArc DEF DeleteExecution, RecordArc
  <2>5. ASSUME NEW b, NEW ws, SetPaused(b, ws) \/ ReadWorkflows(ws)
        PROVE  \A f \in Execs : RecordArc(f)
    BY <2>5, ReadArc DEF SetPaused, ReadWorkflows, Read
  <2> QED
    BY <1>4, <2>1, <2>2, <2>3, <2>4, <2>5 DEF Requests
<1>5. CASE Crashes
  <2>1. CASE Crash \/ \E e \in Execs : CrashInStop(e)
    BY <2>1, CancelArc DEF Crash, CrashInStop, RecordArc
  <2>2. ASSUME NEW e \in Execs, CrashInFinish(e)
        PROVE  \A f \in Execs : RecordArc(f)
    <3>1. /\ record' = [record EXCEPT ![e] = Outcome(e)]
          /\ phase[e] = "steps" /\ phase'[e] = "gone"
      BY <2>2 DEF CrashInFinish, Finishing, Ended, Die, Live
    <3>2. \/ Outcome(e) = "cancelled"
          \/ e \notin stopped /\ Outcome(e) \in {"completed", "failed"}
      BY DEF Outcome
    <3> QED  BY <1>0, <3>1, <3>2 DEF RecordArc
  <2>3. CASE (\E e \in Execs : CrashInThrow(e)) \/ \E w \in Workflows : CrashInDelete(w)
    BY <2>3, ReadArc DEF CrashInThrow, CrashInDelete, Read
  <2> QED  BY <1>5, <2>1, <2>2, <2>3 DEF Crashes
<1>6. CASE Restart
  BY <1>6, ReadArc DEF Restart, Read
<1> QED  BY <1>1, <1>2, <1>3, <1>4, <1>5, <1>6 DEF Next

\* The ways a run moves: only a run that is not stopped goes on to advance.
PhaseArc(e) ==
  \/ phase'[e] = phase[e]
  \/ phase[e] = "unused" /\ owner[e] = NoWorkflow /\ phase'[e] = "reset"
  \/ phase[e] = "reset" /\ phase'[e] = "steps"
  \/ phase[e] = "steps" /\ phase'[e] = "advance" /\ e \notin stopped
  \/ phase'[e] = "gone"

\* A Stop is accepted outside every synchronous section, and its flag stays
\* as long as the run does.
StopArc(e) ==
  /\ owner[e] # NoWorkflow => owner'[e] # NoWorkflow
  /\ e \in stopped => e \in stopped' \/ phase'[e] \notin {"reset", "steps", "advance"}
  /\ e \in acked' /\ e \notin acked =>
       /\ owner[e] # NoWorkflow /\ phase'[e] = phase[e]
       /\ phase[e] \notin {"reset", "advance"}
       /\ e \in stopped' /\ record'[e] = "cancelled"

LEMMA RunArcs ==
  ASSUME TypeOK, RunInv, [Next]_vars
  PROVE  \A e \in Execs : PhaseArc(e) /\ StopArc(e)
<1> USE DEF mdVars, recordVars, runVars, procVars, boundVars, histVars
<1>0. /\ phase \in [Execs -> Phase] /\ stopped \in SUBSET Execs
      /\ owner \in [Execs -> Workflows \cup {NoWorkflow}]
  BY DEF TypeOK, RunsOK, ProcessOK
<1> DEFINE Goal == \A e \in Execs : PhaseArc(e) /\ StopArc(e)
<1>1. ASSUME UNCHANGED <<phase, stopped, owner, acked>>
      PROVE  Goal
  BY <1>1 DEF PhaseArc, StopArc
<1>2. ASSUME NEW w \in Workflows, NEW c, NEW auto, Begin(w, c, auto)
      PROVE  Goal
  <2>1. /\ nextExec \in Execs /\ phase' = [phase EXCEPT ![nextExec] = "reset"]
        /\ owner' = [owner EXCEPT ![nextExec] = w] /\ UNCHANGED <<stopped, acked>>
    BY <1>2 DEF Begin
  <2>2. phase[nextExec] = "unused" /\ owner[nextExec] = NoWorkflow
    BY <2>1 DEF RunInv, Fresh
  <2> QED  BY <1>0, <2>1, <2>2 DEF PhaseArc, StopArc
<1>3. ASSUME NEW e \in Execs, Release(e), UNCHANGED <<owner, acked>>
      PROVE  Goal
  BY <1>0, <1>3 DEF Release, PhaseArc, StopArc
<1>4. CASE UNCHANGED vars
  BY <1>1, <1>4 DEF vars
<1>5. CASE Synchronous
  <2>1. ASSUME NEW e \in Execs, NEW n \in Workflows,
               ResetDownstream(e, n) \/ AdvanceRefused(e, n) \/ AdvanceSkips(e, n)
        PROVE  Goal
    BY <1>1, <2>1 DEF ResetDownstream, AdvanceRefused, AdvanceSkips
  <2>2. ASSUME NEW e \in Execs, StartRun(e) \/ FinishCompleted(e)
        PROVE  Goal
    BY <1>0, <2>2 DEF StartRun, FinishCompleted, Outcome, Finishing, Ended, PhaseArc,
                       StopArc
  <2>3. ASSUME NEW e \in Execs, FinishStopped(e) \/ FinishFailed(e) \/ AdvanceEnds(e)
        PROVE  Goal
    BY <1>3, <2>3 DEF FinishStopped, FinishFailed, AdvanceEnds
  <2>4. ASSUME NEW e \in Execs, NEW n \in Workflows, AdvanceStarts(e, n)
        PROVE  Goal
    BY <1>2, <2>4 DEF AdvanceStarts
  <2> QED  BY <1>5, <2>1, <2>2, <2>3, <2>4 DEF Synchronous
<1>6. CASE Steps
  BY <1>1, <1>6 DEF Steps, StepAnswers, StepThrows, StepStopped, StepOutputs, Settle
<1>7. CASE Requests
  <2>1. ASSUME NEW w \in Workflows, TriggerManual(w) \/ TriggerScheduled(w)
        PROVE  Goal
    BY <1>1, <1>2, <2>1 DEF TriggerManual, TriggerScheduled
  <2>2. ASSUME NEW w \in Workflows, NEW s,
               DisableTimer(w) \/ EditEnabled(w) \/ ReportStatus(w, s) \/ DeleteWorkflow(w)
                 \/ CreateWorkflow(w)
        PROVE  Goal
    BY <1>1, <2>2 DEF DisableTimer, EditEnabled, ReportStatus, DeleteWorkflow, CreateWorkflow
  <2>3. ASSUME NEW e \in Execs, DeleteExecution(e)
        PROVE  Goal
    BY <1>1, <2>3 DEF DeleteExecution
  <2>4. ASSUME NEW e \in Execs, Stop(e)
        PROVE  Goal
    <3>1. /\ stopped' = stopped \cup {e} /\ acked' = acked \cup {e}
          /\ UNCHANGED <<phase, owner>> /\ owner[e] # NoWorkflow /\ loop = NoExec
      BY <2>4 DEF Stop, SignalSteps, Stoppable, Idle
    <3>2. record'[e] = "cancelled"
      BY <2>4, ReadRecordType DEF Stop, WriteCancelled
    <3> QED  BY <1>0, <3>1, <3>2 DEF RunInv, CallStack, PhaseArc, StopArc
  <2>5. ASSUME NEW b, NEW ws, SetPaused(b, ws) \/ ReadWorkflows(ws)
        PROVE  Goal
    BY <1>1, <2>5 DEF SetPaused, ReadWorkflows
  <2> QED  BY <1>7, <2>1, <2>2, <2>3, <2>4, <2>5 DEF Requests
<1>8. CASE Crashes
  <2>1. Die
    BY <1>8, CrashDies
  <2>2. /\ phase' = [e \in Execs |-> IF Live(e) THEN "gone" ELSE phase[e]]
        /\ UNCHANGED <<owner, acked>>
    BY <2>1 DEF Die
  <2> QED  BY <2>2 DEF Live, PhaseArc, StopArc
<1>9. CASE Restart
  BY <1>1, <1>9 DEF Restart
<1> QED  BY <1>4, <1>5, <1>6, <1>7, <1>8, <1>9 DEF Next

StopHolds == \A e \in acked : Live(e) => phase[e] = "steps" /\ e \in stopped

StopOwned == \A e \in acked : owner[e] # NoWorkflow

OutcomeOpen ==
  \A e \in Execs :
    /\ phase[e] \in {"unused", "reset"} => record[e] = "absent"
    /\ phase[e] = "steps" => record[e] \in {"absent", "running", "cancelled"}

OutcomeInv == StopHolds /\ StopOwned /\ OutcomeOpen /\ StoppedNeverSucceeds

LEMMA OutcomeStep ==
  ASSUME TypeOK, RunInv, OutcomeInv, [Next]_vars
  PROVE  OutcomeInv'
<1>1. TypeOK'
  BY TypeStep
<1>2. \A e \in Execs : RecordArc(e) /\ PhaseArc(e) /\ StopArc(e)
  BY RecordStep, RunArcs
<1>3. acked \subseteq Execs /\ acked' \subseteq Execs
  BY <1>1 DEF TypeOK, OthersOK
<1>4. \A e \in Execs : phase[e] = "steps" => ~Stale(e)
  BY DEF RunInv, ClaimIsRunner, Live, Stale
<1>5. StopHolds'
  <2> SUFFICES ASSUME NEW e \in acked', Live(e)'
               PROVE  phase'[e] = "steps" /\ e \in stopped'
    BY DEF StopHolds
  <2>1. e \in Execs /\ PhaseArc(e) /\ StopArc(e)
    BY <1>2, <1>3
  <2>2. CASE e \in acked
    BY <2>1, <2>2 DEF OutcomeInv, StopHolds, StopOwned, PhaseArc, StopArc, Live
  <2>3. CASE e \notin acked
    BY <2>1, <2>3 DEF StopArc, Live
  <2> QED  BY <2>2, <2>3
<1>6. StopOwned'
  BY <1>2, <1>3 DEF OutcomeInv, StopOwned, StopArc
<1>7. OutcomeOpen'
  <2> SUFFICES ASSUME NEW e \in Execs
               PROVE  /\ phase'[e] \in {"unused", "reset"} => record'[e] = "absent"
                      /\ phase'[e] = "steps" => record'[e] \in {"absent", "running", "cancelled"}
    BY DEF OutcomeOpen
  <2>1. RecordArc(e) /\ PhaseArc(e) /\ (phase[e] = "steps" => ~Stale(e))
    BY <1>2, <1>4
  <2>2. Stale(e) => record[e] = "running"
    BY DEF Stale
  <2> QED  BY <2>1, <2>2 DEF OutcomeInv, OutcomeOpen, RecordArc, PhaseArc
<1>8. StoppedNeverSucceeds'
  <2> SUFFICES ASSUME NEW e \in acked'
               PROVE  record'[e] \notin {"completed", "failed"} /\ phase'[e] # "advance"
    BY DEF StoppedNeverSucceeds
  <2>1. e \in Execs /\ RecordArc(e) /\ StopArc(e)
    BY <1>2, <1>3
  <2>2. phase'[e] # "advance"
    BY <1>5 DEF StopHolds, Live
  <2>3. record'[e] \notin {"completed", "failed"}
    BY <2>1 DEF OutcomeInv, StopHolds, StoppedNeverSucceeds, RecordArc, StopArc, Live
  <2> QED  BY <2>2, <2>3
<1> QED  BY <1>5, <1>6, <1>7, <1>8 DEF OutcomeInv

LEMMA OutcomeInit == Init => OutcomeInv
  BY DEF Init, OutcomeInv, StopHolds, StopOwned, OutcomeOpen, StoppedNeverSucceeds

\* Once a Stop was answered with success its run is never recorded as
\* completed or failed and never starts its dependents.
THEOREM StopWins == Spec => []StoppedNeverSucceeds
<1>1. Init => TypeOK /\ RunInv /\ OutcomeInv
  BY TypeInit, RunInit, OutcomeInit
<1>2. TypeOK /\ RunInv /\ OutcomeInv /\ [Next]_vars => (TypeOK /\ RunInv /\ OutcomeInv)'
  BY TypeStep, RunStep, OutcomeStep
<1>3. OutcomeInv => StoppedNeverSucceeds
  BY DEF OutcomeInv
<1> QED  BY <1>1, <1>2, <1>3, PTL DEF Spec

\* A recorded outcome - completed, failed or interrupted - is never replaced
\* by another one: no late step and no reconciliation rewrites history.
THEOREM OutcomesAreFinal == Spec => OutcomeIsFinal
<1> DEFINE Kept ==
      \A e \in Execs :
        record[e] \in {"completed", "failed", "interrupted"} =>
          record'[e] \in {record[e], "absent"}
<1>1. Init => TypeOK /\ RunInv /\ OutcomeInv
  BY TypeInit, RunInit, OutcomeInit
<1>2. TypeOK /\ RunInv /\ OutcomeInv /\ [Next]_vars => (TypeOK /\ RunInv /\ OutcomeInv)'
  BY TypeStep, RunStep, OutcomeStep
<1>3. TypeOK /\ RunInv /\ OutcomeInv /\ [Next]_vars => [Kept]_vars
  <2> SUFFICES ASSUME TypeOK, OutcomeInv, [Next]_vars, NEW e \in Execs,
                      record[e] \in {"completed", "failed", "interrupted"}
               PROVE  record'[e] \in {record[e], "absent"}
    OBVIOUS
  <2>1. RecordArc(e)
    BY RecordStep
  <2>2. phase[e] \notin {"unused", "reset", "steps"}
    BY DEF OutcomeInv, OutcomeOpen
  <2> QED  BY <2>1, <2>2 DEF RecordArc, Stale
<1> QED  BY <1>1, <1>2, <1>3, PTL DEF Spec, OutcomeIsFinal

-----------------------------------------------------------------------------
(* The run limit.  runCount counts manual runs too, so it bounds the       *)
(* automatic ones from above.                                              *)

Counted == \A w \in Workflows : autoStarts[w] <= runCount[w]

LimitInv == Counted /\ RunLimit

LEMMA LimitFrame ==
  ASSUME LimitInv, UNCHANGED <<runCount, autoStarts>>
  PROVE  LimitInv'
  BY DEF LimitInv, Counted, RunLimit

LEMMA BeginLimit ==
  ASSUME TypeOK, LimitInv, NEW w \in Workflows, NEW c, NEW auto \in BOOLEAN, Begin(w, c, auto)
  PROVE  LimitInv'
<1>1. /\ runCount \in [Workflows -> Nat] /\ autoStarts \in [Workflows -> Nat]
  BY DEF TypeOK, FilesOK, OthersOK
<1>2. /\ runCount' = [runCount EXCEPT ![w] = @ + 1]
      /\ autoStarts' = [autoStarts EXCEPT ![w] = IF auto THEN @ + 1 ELSE @]
      /\ auto => ~OverLimit(w)
  BY DEF Begin
<1> SUFFICES ASSUME NEW v \in Workflows
             PROVE  /\ autoStarts'[v] <= runCount'[v]
                    /\ MaxRuns[v] > 0 => autoStarts'[v] <= MaxRuns[v]
  BY DEF LimitInv, Counted, RunLimit
<1>3. autoStarts[v] <= runCount[v] /\ (MaxRuns[v] > 0 => autoStarts[v] <= MaxRuns[v])
  BY DEF LimitInv, Counted, RunLimit
<1>4. CASE v = w /\ auto
  BY <1>1, <1>2, <1>3, <1>4 DEF OverLimit
<1>5. CASE v = w /\ ~auto
  BY <1>1, <1>2, <1>3, <1>5
<1>6. CASE v # w
  BY <1>1, <1>2, <1>3, <1>6
<1> QED  BY <1>4, <1>5, <1>6

LEMMA LimitStep ==
  ASSUME TypeOK, LimitInv, [Next]_vars
  PROVE  LimitInv'
<1> USE DEF mdVars, recordVars, runVars, procVars, boundVars, histVars
<1>1. CASE UNCHANGED vars
  BY <1>1, LimitFrame DEF vars
<1>2. CASE Synchronous
  <2>1. ASSUME NEW e \in Execs, NEW n \in Workflows, AdvanceStarts(e, n)
        PROVE  LimitInv'
    BY <2>1, BeginLimit DEF AdvanceStarts
  <2>2. ASSUME NEW e \in Execs, NEW n \in Workflows,
               ResetDownstream(e, n) \/ AdvanceRefused(e, n) \/ AdvanceSkips(e, n)
        PROVE  LimitInv'
    BY <2>2, LimitFrame DEF ResetDownstream, AdvanceRefused, AdvanceSkips
  <2>3. ASSUME NEW e \in Execs,
               StartRun(e) \/ FinishStopped(e) \/ FinishFailed(e) \/ FinishCompleted(e)
                 \/ AdvanceEnds(e)
        PROVE  LimitInv'
    BY <2>3, LimitFrame DEF StartRun, FinishStopped, FinishFailed, FinishCompleted, AdvanceEnds
  <2> QED  BY <1>2, <2>1, <2>2, <2>3 DEF Synchronous
<1>3. CASE Steps
  BY <1>3, LimitFrame DEF Steps, StepAnswers, StepThrows, StepStopped, StepOutputs, Settle
<1>4. CASE Requests
  <2>1. ASSUME NEW w \in Workflows, TriggerManual(w) \/ TriggerScheduled(w)
        PROVE  LimitInv'
    BY <2>1, BeginLimit, LimitFrame DEF TriggerManual, TriggerScheduled
  <2>2. ASSUME NEW w \in Workflows, CreateWorkflow(w)
        PROVE  LimitInv'
    BY <2>2 DEF CreateWorkflow, LimitInv, Counted, RunLimit, TypeOK, FilesOK, OthersOK
  <2>3. ASSUME NEW w \in Workflows, NEW s,
               DisableTimer(w) \/ EditEnabled(w) \/ ReportStatus(w, s) \/ DeleteWorkflow(w)
        PROVE  LimitInv'
    BY <2>3, LimitFrame DEF DisableTimer, EditEnabled, ReportStatus, DeleteWorkflow
  <2>4. ASSUME NEW e \in Execs, Stop(e) \/ DeleteExecution(e)
        PROVE  LimitInv'
    BY <2>4, LimitFrame DEF Stop, DeleteExecution
  <2>5. ASSUME NEW b, NEW ws, SetPaused(b, ws) \/ ReadWorkflows(ws)
        PROVE  LimitInv'
    BY <2>5, LimitFrame DEF SetPaused, ReadWorkflows
  <2> QED  BY <1>4, <2>1, <2>2, <2>3, <2>4, <2>5 DEF Requests
<1>5. CASE Crashes
  BY <1>5, CrashDies, LimitFrame DEF Die
<1>6. CASE Restart
  BY <1>6, LimitFrame DEF Restart
<1> QED  BY <1>1, <1>2, <1>3, <1>4, <1>5, <1>6 DEF Next

\* The engine itself never starts a workflow more often than maxRuns allows,
\* however manual runs, edits, stops, timers and crashes fall in between.
THEOREM RunLimitHolds == Spec => []RunLimit
<1>1. Init => TypeOK /\ LimitInv
  <2>1. Init => TypeOK
    BY TypeInit
  <2>2. Init => LimitInv
    BY DEF Init, LimitInv, Counted, RunLimit
  <2> QED  BY <2>1, <2>2
<1>2. TypeOK /\ LimitInv /\ [Next]_vars => (TypeOK /\ LimitInv)'
  BY TypeStep, LimitStep
<1>3. LimitInv => RunLimit
  BY DEF LimitInv
<1> QED  BY <1>1, <1>2, <1>3, PTL DEF Spec

-----------------------------------------------------------------------------
(* What a record says of its steps.  The runner writes the outcome it      *)
(* makes of the steps in its memory, so the invariant is about these too:  *)
(* only a Stop cuts a step short.                                          *)

StepsUncut ==
  \A e \in Execs : phase[e] = "steps" /\ e \notin stopped => \A p \in Agents : part[e][p] # "cancelled"

\* The status r agrees with the steps ps.
Tells(r, ps) ==
  /\ r = "completed" => \A p \in Agents : ps[p] \in {"none", "completed"}
  /\ r = "failed" => \E p \in Agents : ps[p] = "failed"
  /\ r \in Terminal => \A p \in Agents : ps[p] # "running"

\* A read keeps what the record tells.
LEMMA ReadTells ==
  ASSUME TypeOK, RecordsTellTheSteps, NEW ws, NEW e \in Execs
  PROVE  Tells(ReadRecord(ws)[e], ReadPart(ws)[e])
<1>1. recordPart[e] \in [Agents -> PartStatus] /\ Tells(record[e], recordPart[e])
  BY DEF TypeOK, RecordsOK, RecordsTellTheSteps, Tells
<1>2. CASE owner[e] \in ws /\ Stale(e)
  <2>1. /\ ReadRecord(ws)[e] = "interrupted"
        /\ ReadPart(ws)[e] = [p \in Agents |-> IF recordPart[e][p] = "running" THEN "failed"
                                               ELSE recordPart[e][p]]
    BY <1>2 DEF ReadRecord, ReadPart
  <2> QED  BY <2>1 DEF Tells
<1>3. CASE ~(owner[e] \in ws /\ Stale(e))
  <2>1. ReadRecord(ws)[e] = record[e] /\ ReadPart(ws)[e] = recordPart[e]
    BY <1>3 DEF ReadRecord, ReadPart
  <2> QED  BY <1>1, <2>1
<1> QED  BY <1>2, <1>3

\* The records of a step that does nothing but read.
LEMMA ReadKeepsTelling ==
  ASSUME TypeOK, RecordsTellTheSteps, NEW ws, Read(ws)
  PROVE  RecordsTellTheSteps'
<1>1. \A e \in Execs : Tells(record'[e], recordPart'[e])
  BY ReadTells DEF Read
<1> QED  BY <1>1 DEF Tells, RecordsTellTheSteps

\* The records of a step that reads, and then writes the record of e.
LEMMA WriteKeepsTelling ==
  ASSUME TypeOK, RecordsTellTheSteps, NEW ws, NEW e \in Execs, NEW r, NEW ps, Tells(r, ps),
         record' = [ReadRecord(ws) EXCEPT ![e] = r], recordPart' = [ReadPart(ws) EXCEPT ![e] = ps]
  PROVE  RecordsTellTheSteps'
<1>1. ReadRecord(ws) \in [Execs -> RecStatus] /\ ReadPart(ws) \in [Execs -> [Agents -> PartStatus]]
  BY ReadRecordType, ReadPartType
<1>2. ASSUME NEW f \in Execs PROVE Tells(record'[f], recordPart'[f])
  <2>1. CASE f = e
    <3>1. record'[f] = r /\ recordPart'[f] = ps
      BY <1>1, <2>1
    <3> QED  BY <3>1
  <2>2. CASE f # e
    <3>1. record'[f] = ReadRecord(ws)[f] /\ recordPart'[f] = ReadPart(ws)[f]
      BY <1>1, <2>2
    <3> QED  BY <3>1, ReadTells
  <2> QED  BY <2>1, <2>2
<1> QED  BY <1>2 DEF Tells, RecordsTellTheSteps

\* The outcome that the runner makes of its steps tells them.
LEMMA OutcomeTells ==
  ASSUME TypeOK, StepsUncut, NEW e \in Execs, Ended(e)
  PROVE  Tells(Outcome(e), part[e])
<1>1. part[e] \in [Agents -> PartStatus] /\ \A p \in Agents : part[e][p] # "running"
  BY DEF TypeOK, RunsOK, Ended, AllSettled
<1>2. CASE e \in stopped
  BY <1>1, <1>2 DEF Outcome, Tells
<1>3. CASE e \notin stopped
  <2>1. \A p \in Agents : part[e][p] \in PartStatus /\ part[e][p] # "cancelled"
    BY <1>1, <1>3 DEF StepsUncut, Ended
  <2>2. CASE \E p \in Agents : part[e][p] = "failed"
    BY <1>1, <1>3, <2>2 DEF Outcome, Tells
  <2>3. CASE ~\E p \in Agents : part[e][p] = "failed"
    BY <1>1, <1>3, <2>1, <2>3 DEF Outcome, Tells, PartStatus
  <2> QED  BY <2>2, <2>3
<1> QED  BY <1>2, <1>3

LEMMA CancelTells ==
  ASSUME TypeOK, RecordsTellTheSteps, NEW e \in Execs, WriteCancelled(e)
  PROVE  RecordsTellTheSteps'
<1> DEFINE ps == [p \in Agents |-> IF recordPart[e][p] = "running" THEN "cancelled" ELSE recordPart[e][p]]
<1>1. Tells("cancelled", ps)
  BY DEF Tells
<1> HIDE DEF ps
<1>2. record' = [ReadRecord({owner[e]}) EXCEPT ![e] = "cancelled"] /\ recordPart' = [ReadPart({owner[e]}) EXCEPT ![e] = ps]
  BY DEF WriteCancelled, ps
<1> QED  BY <1>1, <1>2, WriteKeepsTelling

LEMMA TellingStep ==
  ASSUME TypeOK, StepsUncut, RecordsTellTheSteps, [Next]_vars
  PROVE  RecordsTellTheSteps'
<1> USE DEF mdVars, recordVars, runVars, procVars, boundVars, histVars
<1>0. ASSUME UNCHANGED recordVars PROVE RecordsTellTheSteps'
  BY <1>0 DEF RecordsTellTheSteps
<1>1. ASSUME NEW ps PROVE Tells("running", ps)
  BY DEF Tells, Terminal
<1>2. CASE Synchronous
  <2>1. ASSUME NEW e \in Execs, StartRun(e) PROVE RecordsTellTheSteps'
    <3> DEFINE started == [p \in Agents |-> IF p \in Participants[owner[e]] THEN "running" ELSE "none"]
    <3> HIDE DEF started
    <3>1. /\ record' = [ReadRecord(Workflows) EXCEPT ![e] = "running"]
          /\ recordPart' = [ReadPart(Workflows) EXCEPT ![e] = started]
      BY <2>1 DEF StartRun, started
    <3> QED  BY <1>1, <3>1, WriteKeepsTelling
  <2>2. ASSUME NEW e \in Execs, FinishStopped(e) \/ FinishFailed(e) \/ FinishCompleted(e) PROVE RecordsTellTheSteps'
    <3>1. Tells(Outcome(e), part[e])
      BY <2>2, OutcomeTells DEF FinishStopped, FinishFailed, FinishCompleted, Finishing
    <3>2. CASE FinishStopped(e) \/ FinishFailed(e)
      <4>1. /\ record' = [ReadRecord({owner[e]}) EXCEPT ![e] = Outcome(e)]
            /\ recordPart' = [ReadPart({owner[e]}) EXCEPT ![e] = part[e]]
        BY <3>2 DEF FinishStopped, FinishFailed, FinishAs
      <4> QED  BY <3>1, <4>1, WriteKeepsTelling
    <3>3. CASE FinishCompleted(e)
      <4>1. /\ record' = [ReadRecord(Workflows) EXCEPT ![e] = Outcome(e)]
            /\ recordPart' = [ReadPart(Workflows) EXCEPT ![e] = part[e]]
        BY <3>3 DEF FinishCompleted
      <4> QED  BY <3>1, <4>1, WriteKeepsTelling
    <3> QED  BY <2>2, <3>2, <3>3
  <2>3. ASSUME NEW e \in Execs, NEW n \in Workflows,
               ResetDownstream(e, n) \/ AdvanceStarts(e, n) \/ AdvanceRefused(e, n) \/ AdvanceSkips(e, n)
        PROVE  RecordsTellTheSteps'
    BY <2>3, ReadKeepsTelling DEF ResetDownstream, AdvanceStarts, AdvanceRefused, AdvanceSkips, Begin
  <2>4. ASSUME NEW e \in Execs, AdvanceEnds(e) PROVE RecordsTellTheSteps'
    BY <1>0, <2>4 DEF AdvanceEnds
  <2> QED  BY <1>2, <2>1, <2>2, <2>3, <2>4 DEF Synchronous
<1>3. CASE Steps
  <2>1. ASSUME NEW e \in Execs, NEW p \in Agents, NEW outcome, Settle(e, p, outcome) PROVE RecordsTellTheSteps'
    <3> DEFINE ps == [part[e] EXCEPT ![p] = outcome]
    <3> HIDE DEF ps
    <3>1. record' = [ReadRecord({owner[e]}) EXCEPT ![e] = "running"] /\ recordPart' = [ReadPart({owner[e]}) EXCEPT ![e] = ps]
      BY <2>1 DEF Settle, ps
    <3> QED  BY <1>1, <3>1, WriteKeepsTelling
  <2>2. ASSUME NEW e \in Execs, StepOutputs(e) PROVE RecordsTellTheSteps'
    BY <2>2, ReadKeepsTelling DEF StepOutputs
  <2> QED  BY <1>3, <2>1, <2>2 DEF Steps, StepAnswers, StepThrows, StepStopped
<1>4. CASE Requests
  <2>1. ASSUME NEW w \in Workflows, NEW s,
               TriggerManual(w) \/ TriggerScheduled(w) \/ DisableTimer(w) \/ EditEnabled(w)
                 \/ ReportStatus(w, s) \/ CreateWorkflow(w)
        PROVE  RecordsTellTheSteps'
    BY <2>1, ReadKeepsTelling DEF TriggerManual, TriggerScheduled, DisableTimer, EditEnabled, ReportStatus,
       CreateWorkflow, Begin
  <2>2. ASSUME NEW w \in Workflows, DeleteWorkflow(w) PROVE RecordsTellTheSteps'
    <3>1. ASSUME NEW e \in Execs PROVE Tells(record'[e], recordPart'[e])
      <4>1. /\ recordPart'[e] = ReadPart(Workflows)[e]
            /\ record'[e] = "absent" \/ record'[e] = ReadRecord(Workflows)[e]
        BY <2>2 DEF DeleteWorkflow
      <4>2. CASE record'[e] = "absent"
        BY <4>2 DEF Tells, Terminal
      <4>3. CASE record'[e] = ReadRecord(Workflows)[e]
        <5>1. Tells(ReadRecord(Workflows)[e], ReadPart(Workflows)[e])
          BY ReadTells
        <5> QED  BY <4>1, <4>3, <5>1
      <4> QED  BY <4>1, <4>2, <4>3
    <3> QED  BY <3>1 DEF Tells, RecordsTellTheSteps
  <2>3. ASSUME NEW e \in Execs, Stop(e) PROVE RecordsTellTheSteps'
    BY <2>3, CancelTells DEF Stop
  <2>4. ASSUME NEW e \in Execs, DeleteExecution(e) PROVE RecordsTellTheSteps'
    <3>1. record' = [ReadRecord({owner[e]}) EXCEPT ![e] = "absent"] /\ recordPart' = ReadPart({owner[e]})
      BY <2>4 DEF DeleteExecution
    <3>2. ASSUME NEW f \in Execs PROVE Tells(record'[f], recordPart'[f])
      <4>0. ReadRecord({owner[e]}) \in [Execs -> RecStatus]
        BY ReadRecordType
      <4>1. record'[f] = "absent" \/ record'[f] = ReadRecord({owner[e]})[f]
        BY <3>1, <4>0
      <4>2. \A ps : Tells("absent", ps)
        BY DEF Tells, Terminal
      <4> QED  BY <3>1, <4>1, <4>2, ReadTells
    <3> QED  BY <3>2 DEF Tells, RecordsTellTheSteps
  <2>5. ASSUME NEW b, NEW ws, SetPaused(b, ws) \/ ReadWorkflows(ws) PROVE RecordsTellTheSteps'
    BY <2>5, ReadKeepsTelling DEF SetPaused, ReadWorkflows
  <2> QED  BY <1>4, <2>1, <2>2, <2>3, <2>4, <2>5 DEF Requests
<1>5. CASE Crashes
  <2>1. ASSUME NEW e \in Execs, CrashInStop(e) PROVE RecordsTellTheSteps'
    BY <2>1, CancelTells DEF CrashInStop
  <2>2. ASSUME NEW e \in Execs, CrashInFinish(e) PROVE RecordsTellTheSteps'
    <3>1. Tells(Outcome(e), part[e])
      BY <2>2, OutcomeTells DEF CrashInFinish, Finishing
    <3>2. record' = [record EXCEPT ![e] = Outcome(e)] /\ recordPart' = [recordPart EXCEPT ![e] = part[e]]
      BY <2>2 DEF CrashInFinish
    <3>3. record \in [Execs -> RecStatus] /\ recordPart \in [Execs -> [Agents -> PartStatus]]
      BY DEF TypeOK, RecordsOK
    <3>4. ASSUME NEW f \in Execs PROVE Tells(record'[f], recordPart'[f])
      <4>1. CASE f = e
        <5>1. record'[f] = Outcome(e) /\ recordPart'[f] = part[e]
          BY <3>2, <3>3, <4>1
        <5> QED  BY <3>1, <5>1
      <4>2. CASE f # e
        <5>1. record'[f] = record[f] /\ recordPart'[f] = recordPart[f]
          BY <3>2, <3>3, <4>2
        <5> QED  BY <5>1 DEF RecordsTellTheSteps, Tells
      <4> QED  BY <4>1, <4>2
    <3> QED  BY <3>4 DEF Tells, RecordsTellTheSteps
  <2>3. CASE (\E e \in Execs : CrashInThrow(e)) \/ \E w \in Workflows : CrashInDelete(w)
    BY <2>3, ReadKeepsTelling DEF CrashInThrow, CrashInDelete
  <2> QED  BY <1>0, <1>5, <2>1, <2>2, <2>3 DEF Crashes, Crash
<1>6. CASE Restart
  BY <1>6, ReadKeepsTelling DEF Restart
<1>7. CASE UNCHANGED vars
  BY <1>0, <1>7 DEF vars
<1> QED  BY <1>2, <1>3, <1>4, <1>5, <1>6, <1>7 DEF Next

\* The steps of a run begin when its record was written.
LEMMA StepsBegin ==
  ASSUME TypeOK, [Next]_vars, NEW e \in Execs, phase[e] = "reset", phase'[e] = "steps"
  PROVE  StartRun(e)
<1> USE DEF mdVars, recordVars, runVars, procVars, boundVars, histVars
<1>0. phase \in [Execs -> Phase]
  BY DEF TypeOK, RunsOK
<1>1. phase' # phase /\ ~Die
  BY DEF Die, Live
<1>2. ASSUME NEW w, NEW c, NEW auto, Begin(w, c, auto) PROVE FALSE
  BY <1>0, <1>2 DEF Begin
<1>3. ASSUME NEW f \in Execs, Release(f) \/ FinishCompleted(f) PROVE FALSE
  BY <1>0, <1>3 DEF Release, FinishCompleted
<1>4. ASSUME NEW f \in Execs, StartRun(f) PROVE f = e
  BY <1>0, <1>4 DEF StartRun
<1> QED
  BY <1>1, <1>2, <1>3, <1>4, CrashDies
     DEF Next, Synchronous, Steps, Requests, vars, Restart, ResetDownstream, FinishStopped, FinishFailed,
         AdvanceStarts, AdvanceRefused, AdvanceSkips, AdvanceEnds, StepAnswers, StepThrows, StepStopped,
         Settle, StepOutputs, TriggerManual, TriggerScheduled, DisableTimer, EditEnabled, ReportStatus,
         DeleteWorkflow, CreateWorkflow, Stop, DeleteExecution, SetPaused, ReadWorkflows

\* Only a Stop cuts a step short, and the run keeps its flag until it ends.
LEMMA UncutStep ==
  ASSUME TypeOK, RunInv, StepsUncut, [Next]_vars
  PROVE  StepsUncut'
<1> USE DEF mdVars, recordVars, runVars, procVars, boundVars, histVars
<1>0. /\ phase \in [Execs -> Phase] /\ part \in [Execs -> [Agents -> PartStatus]] /\ TypeOK'
      /\ \A e \in Execs : PhaseArc(e) /\ StopArc(e)
  BY RunArcs, TypeStep DEF TypeOK, RunsOK
<1>1. SUFFICES ASSUME NEW e \in Execs, phase'[e] = "steps", e \notin stopped', NEW p \in Agents PROVE part'[e][p] # "cancelled"
  BY DEF StepsUncut
<1>2. e \notin stopped
  BY <1>0, <1>1 DEF StopArc
<1>3. phase[e] = "steps" \/ phase[e] = "reset"
  BY <1>0, <1>1 DEF PhaseArc
<1>4. ASSUME phase[e] = "steps", part'[e] = part[e] PROVE part'[e][p] # "cancelled"
  BY <1>2, <1>4 DEF StepsUncut
<1>5. ASSUME NEW f \in Execs, StartRun(f) PROVE part'[e][p] # "cancelled"
  <2> DEFINE started == [a \in Agents |-> IF a \in Participants[owner[f]] THEN "running" ELSE "none"]
  <2>1. started[p] # "cancelled"
    OBVIOUS
  <2> HIDE DEF started
  <2>2. part' = [part EXCEPT ![f] = started] /\ phase' = [phase EXCEPT ![f] = "steps"] /\ phase[f] = "reset"
    BY <1>5 DEF StartRun, started
  <2> QED  BY <1>0, <1>1, <1>4, <2>1, <2>2
<1>6. ASSUME NEW f \in Execs, NEW q \in Agents, StepAnswers(f, q) \/ StepThrows(f, q) \/ StepStopped(f, q)
      PROVE  part'[e][p] # "cancelled"
  <2>1. PICK outcome \in {"completed", "failed", "cancelled"} :
          Settle(f, q, outcome) /\ (outcome = "cancelled" => f \in stopped)
    BY <1>6 DEF StepAnswers, StepThrows, StepStopped
  <2>2. part' = [part EXCEPT ![f] = [part[f] EXCEPT ![q] = outcome]] /\ phase' = phase
    BY <2>1 DEF Settle
  <2>3. part[e][p] # "cancelled"
    BY <1>1, <1>2, <2>2 DEF StepsUncut
  <2> QED  BY <1>0, <1>2, <2>1, <2>2, <2>3
<1>7. CASE UNCHANGED part
  <2>1. phase[e] = "steps" \/ \E f \in Execs : StartRun(f)
    <3>1. phase[e] = "reset" => \E f \in Execs : StartRun(f)
      BY <1>1, StepsBegin
    <3> QED  BY <1>3, <3>1
  <2> QED  BY <1>4, <1>5, <1>7, <2>1
<1> QED
  BY <1>5, <1>6, <1>7, CrashDies
     DEF Next, Synchronous, Steps, Requests, vars, Restart, Die, Begin, Release, ResetDownstream, FinishStopped,
         FinishFailed, FinishCompleted, AdvanceStarts, AdvanceRefused, AdvanceSkips, AdvanceEnds, StepOutputs,
         TriggerManual, TriggerScheduled, DisableTimer, EditEnabled, ReportStatus, DeleteWorkflow, CreateWorkflow,
         Stop, DeleteExecution, SetPaused, ReadWorkflows

\* A record's status agrees with the steps recorded in it, whatever Stops,
\* late answers, reconciliations, deletions and crashes wrote it.
THEOREM RecordsAgree == Spec => []RecordsTellTheSteps
<1>1. Init => TypeOK /\ RunInv /\ StepsUncut /\ RecordsTellTheSteps
  <2>1. Init => StepsUncut /\ RecordsTellTheSteps
    BY DEF Init, StepsUncut, RecordsTellTheSteps, Terminal
  <2> QED  BY <2>1, TypeInit, RunInit
<1>2. TypeOK /\ RunInv /\ StepsUncut /\ RecordsTellTheSteps /\ [Next]_vars
        => (TypeOK /\ RunInv /\ StepsUncut /\ RecordsTellTheSteps)'
  BY TypeStep, RunStep, UncutStep, TellingStep
<1> QED  BY <1>1, <1>2, PTL DEF Spec

-----------------------------------------------------------------------------
(* The automatic start of dependents.  What a workflow's view says of its  *)
(* dependencies is right as long as no agent reports a status and nobody   *)
(* deletes single executions; and it stays right while the dependents are  *)
(* started if none of them depends on another one.                         *)

NoDiamond ==
  \A w, n, m \in Workflows : w \in DependsOn[n] /\ w \in DependsOn[m] => n \notin DependsOn[m]

OperatorsLeaveRecords == "purge" \notin UserOps /\ "report" \notin UserOps

\* The run that lives is the newest of its workflow.
LiveIsNewest == \A e, f \in Execs : Live(e) /\ owner[f] = owner[e] => f <= e

\* Only the deletion of its workflow takes away the record of a run that lives,
\* and it takes all the older ones with it.
RecordIsKept ==
  \A e, f \in Execs : phase[e] = "steps" /\ record[e] = "absent" /\ owner[f] = owner[e] => record[f] = "absent"

NotYetDone == \A e \in Execs : phase[e] \in {"reset", "steps"} => status[owner[e]] # "completed"

\* What is still to be started waits for nobody else.
StillReady ==
  \A e \in Execs : phase[e] = "advance" =>
    \A n \in todo[e] : owner[e] \in DependsOn[n] /\ \A d \in DependsOn[n] \ {owner[e]} : active[d] = NoExec

SettledInv == LiveIsNewest /\ RecordIsKept /\ NotYetDone /\ StillReady

\* A run of w begins, for the request of an operator or for the run c.
Begun(w, c) ==
  /\ active[w] = NoExec /\ \E auto \in BOOLEAN : Begin(w, c, auto)
  /\ (c = NoExec /\ Idle) \/ (c \in Execs /\ Advancing(c, w))

\* Where runs begin, and who else touches claims and owners.
LEMMA WhoBegins ==
  ASSUME [Next]_vars, TypeOK
  PROVE  \/ \E w \in Workflows : \E c \in Execs \cup {NoExec} : Begun(w, c)
         \/ /\ owner' = owner
            /\ \A w \in Workflows : active'[w] \in {active[w], NoExec}
            /\ \A e \in Execs : phase'[e] = "reset" => phase[e] = "reset"
<1> USE DEF mdVars, recordVars, runVars, procVars, boundVars, histVars
<1>0. active \in [Workflows -> Execs \cup {NoExec}] /\ phase \in [Execs -> Phase]
  BY DEF TypeOK, ProcessOK, RunsOK
<1> DEFINE Goal == /\ owner' = owner
                   /\ \A w \in Workflows : active'[w] \in {active[w], NoExec}
                   /\ \A e \in Execs : phase'[e] = "reset" => phase[e] = "reset"
<1>1. ASSUME UNCHANGED <<owner, active, phase>> PROVE Goal
  BY <1>1
<1>2. ASSUME NEW e \in Execs, Release(e), owner' = owner PROVE Goal
  BY <1>0, <1>2 DEF Release
<1>3. ASSUME NEW e \in Execs, StartRun(e) \/ FinishCompleted(e) PROVE Goal
  BY <1>0, <1>3 DEF StartRun, FinishCompleted
<1>4. ASSUME NEW e \in Execs, NEW n \in Workflows, AdvanceStarts(e, n) PROVE Begun(n, e)
  BY <1>4 DEF AdvanceStarts, Begun, Refuses
<1>5. ASSUME NEW w \in Workflows, TriggerManual(w) PROVE Begun(w, NoExec)
  BY <1>5 DEF TriggerManual, Begun, Refuses
<1>6. ASSUME NEW w \in Workflows, TriggerScheduled(w) PROVE Begun(w, NoExec) \/ UNCHANGED <<owner, active, phase>>
  BY <1>6 DEF TriggerScheduled, Begun, Refuses
<1>7. Die => Goal
  BY DEF Die, Live
<1> HIDE DEF Goal
<1>8. CASE Synchronous
  <2>1. ASSUME NEW e \in Execs, NEW n \in Workflows,
               ResetDownstream(e, n) \/ AdvanceRefused(e, n) \/ AdvanceSkips(e, n)
        PROVE  Goal
    BY <1>1, <2>1 DEF ResetDownstream, AdvanceRefused, AdvanceSkips
  <2>2. ASSUME NEW e \in Execs, FinishStopped(e) \/ FinishFailed(e) \/ AdvanceEnds(e) PROVE Goal
    BY <1>2, <2>2 DEF FinishStopped, FinishFailed, AdvanceEnds
  <2> QED  BY <1>3, <1>4, <1>8, <2>1, <2>2 DEF Synchronous, Goal
<1>9. CASE Steps
  BY <1>1, <1>9 DEF Steps, StepAnswers, StepThrows, StepStopped, StepOutputs, Settle, Goal
<1>10. CASE Requests
  <2>1. ASSUME NEW w \in Workflows, NEW s,
               DisableTimer(w) \/ EditEnabled(w) \/ ReportStatus(w, s) \/ DeleteWorkflow(w) \/ CreateWorkflow(w)
        PROVE  Goal
    BY <1>1, <2>1 DEF DisableTimer, EditEnabled, ReportStatus, DeleteWorkflow, CreateWorkflow
  <2>2. ASSUME NEW e \in Execs, Stop(e) \/ DeleteExecution(e) PROVE Goal
    BY <1>1, <2>2 DEF Stop, DeleteExecution
  <2>3. ASSUME NEW b, NEW ws, SetPaused(b, ws) \/ ReadWorkflows(ws) PROVE Goal
    BY <1>1, <2>3 DEF SetPaused, ReadWorkflows
  <2> QED  BY <1>1, <1>5, <1>6, <1>10, <2>1, <2>2, <2>3 DEF Requests, Goal
<1>11. CASE Crashes \/ Restart \/ UNCHANGED vars
  BY <1>1, <1>7, <1>11, CrashDies DEF Restart, vars, Goal
<1> QED  BY <1>8, <1>9, <1>10, <1>11 DEF Next, Goal

LEMMA NewestStep ==
  ASSUME TypeOK, RunInv, LiveIsNewest, [Next]_vars
  PROVE  LiveIsNewest'
<1>0. /\ owner \in [Execs -> Workflows \cup {NoWorkflow}] /\ phase \in [Execs -> Phase] /\ nextExec \in Nat
      /\ \A e \in Execs : PhaseArc(e)
  BY RunArcs DEF TypeOK, RunsOK, OthersOK
<1>1. SUFFICES ASSUME NEW e \in Execs, NEW f \in Execs, Live(e)', owner'[f] = owner'[e] PROVE f <= e
  BY DEF LiveIsNewest
<1>2. ASSUME NEW w \in Workflows, NEW c, NEW auto, active[w] = NoExec, Begin(w, c, auto) PROVE f <= e
  <2>1. /\ nextExec \in Execs /\ owner' = [owner EXCEPT ![nextExec] = w] /\ phase' = [phase EXCEPT ![nextExec] = "reset"]
    BY <1>2 DEF Begin
  <2>2. CASE e = nextExec
    <3>1. f = nextExec \/ owner[f] = w
      BY <1>0, <1>1, <2>1, <2>2
    <3>2. owner[f] = w => ~(f >= nextExec)
      BY DEF RunInv, Fresh
    <3> QED  BY <1>0, <2>2, <3>1, <3>2
  <2>3. CASE e # nextExec
    <3>1. Live(e) /\ owner'[e] = owner[e]
      BY <1>0, <1>1, <2>1, <2>3 DEF Live
    <3>2. owner[e] # w
      BY <1>2, <3>1 DEF RunInv, ClaimIsRunner
    <3>3. owner[f] = owner[e]
      BY <1>0, <1>1, <2>1, <3>1, <3>2
    <3> QED  BY <3>1, <3>3 DEF LiveIsNewest
  <2> QED  BY <2>2, <2>3
<1>3. ASSUME owner' = owner, \A g \in Execs : phase'[g] = "reset" => phase[g] = "reset" PROVE f <= e
  <2>1. Live(e)
    BY <1>0, <1>1, <1>3 DEF Live, PhaseArc
  <2> QED  BY <1>1, <1>3, <2>1 DEF LiveIsNewest
<1> QED  BY <1>2, <1>3, WhoBegins DEF Begun

\* Nobody but DELETE of a workflow or of an execution erases a record.
LEMMA RecordsAreKept ==
  ASSUME OperatorsLeaveRecords, TypeOK, [Next]_vars, NEW e \in Execs, record'[e] = "absent",
         ~\E w \in Workflows : DeleteWorkflow(w)
  PROVE  record[e] = "absent"
<1> USE DEF mdVars, recordVars, runVars, procVars, boundVars, histVars
<1>0. record \in [Execs -> RecStatus] /\ \A ws : ReadRecord(ws) \in [Execs -> RecStatus]
  BY ReadRecordType DEF TypeOK, RecordsOK
<1>1. ASSUME NEW ws, record' = ReadRecord(ws) PROVE record[e] = "absent"
  BY <1>1, ReadIsMild
<1>2. ASSUME NEW ws, NEW f \in Execs, NEW r, r # "absent", record' = [ReadRecord(ws) EXCEPT ![f] = r] PROVE record[e] = "absent"
  BY <1>0, <1>2, ReadIsMild
<1>3. CASE Synchronous
  <2>1. ASSUME NEW f \in Execs, StartRun(f) PROVE record[e] = "absent"
    BY <1>2, <2>1 DEF StartRun
  <2>2. ASSUME NEW f \in Execs, FinishStopped(f) \/ FinishFailed(f) \/ FinishCompleted(f) PROVE record[e] = "absent"
    BY <1>2, <2>2 DEF FinishStopped, FinishFailed, FinishCompleted, FinishAs
  <2>3. ASSUME NEW f \in Execs, NEW n \in Workflows,
               ResetDownstream(f, n) \/ AdvanceStarts(f, n) \/ AdvanceRefused(f, n) \/ AdvanceSkips(f, n)
        PROVE  record[e] = "absent"
    BY <1>1, <2>3 DEF ResetDownstream, AdvanceStarts, AdvanceRefused, AdvanceSkips, Begin, Read
  <2>4. ASSUME NEW f \in Execs, AdvanceEnds(f) PROVE record[e] = "absent"
    BY <2>4 DEF AdvanceEnds
  <2> QED  BY <1>3, <2>1, <2>2, <2>3, <2>4 DEF Synchronous
<1>4. CASE Steps
  <2>1. ASSUME NEW f \in Execs, NEW p \in Agents, NEW outcome, Settle(f, p, outcome) PROVE record[e] = "absent"
    BY <1>2, <2>1 DEF Settle
  <2>2. ASSUME NEW f \in Execs, StepOutputs(f) PROVE record[e] = "absent"
    BY <1>1, <2>2 DEF StepOutputs, Read
  <2> QED  BY <1>4, <2>1, <2>2 DEF Steps, StepAnswers, StepThrows, StepStopped
<1>5. CASE Requests
  <2>1. ASSUME NEW w \in Workflows, NEW s,
               TriggerManual(w) \/ TriggerScheduled(w) \/ DisableTimer(w) \/ EditEnabled(w) \/ ReportStatus(w, s)
        PROVE  record[e] = "absent"
    BY <1>1, <2>1 DEF TriggerManual, TriggerScheduled, DisableTimer, EditEnabled, ReportStatus, Begin, Read
  <2>2. ASSUME NEW f \in Execs, Stop(f) PROVE record[e] = "absent"
    BY <1>2, <2>2 DEF Stop, WriteCancelled
  <2>3. ASSUME NEW b, NEW ws, SetPaused(b, ws) \/ ReadWorkflows(ws) PROVE record[e] = "absent"
    BY <1>1, <2>3 DEF SetPaused, ReadWorkflows, Read
  <2>4. ASSUME NEW w \in Workflows, CreateWorkflow(w) PROVE record[e] = "absent"
    BY <1>1, <2>4 DEF CreateWorkflow, Read
  <2>5. \A f : ~DeleteExecution(f)
    BY DEF OperatorsLeaveRecords, DeleteExecution
  <2> QED  BY <1>5, <2>1, <2>2, <2>3, <2>4, <2>5 DEF Requests
<1>6. CASE Crashes
  <2>1. ASSUME NEW f \in Execs, CrashInStop(f) PROVE record[e] = "absent"
    BY <1>2, <2>1 DEF CrashInStop, WriteCancelled
  <2>2. ASSUME NEW f \in Execs, CrashInFinish(f) PROVE record[e] = "absent"
    BY <1>0, <2>2 DEF CrashInFinish, Outcome
  <2>3. CASE (\E f \in Execs : CrashInThrow(f)) \/ \E w \in Workflows : CrashInDelete(w)
    BY <1>1, <2>3 DEF CrashInThrow, CrashInDelete, Read
  <2>4. CASE Crash
    BY <2>4 DEF Crash
  <2> QED  BY <1>6, <2>1, <2>2, <2>3, <2>4 DEF Crashes
<1>7. CASE Restart
  BY <1>1, <1>7 DEF Restart, Read
<1>8. CASE UNCHANGED vars
  BY <1>8 DEF vars
<1> QED  BY <1>3, <1>4, <1>5, <1>6, <1>7, <1>8 DEF Next

LEMMA KeptStep ==
  ASSUME OperatorsLeaveRecords, TypeOK, RunInv, RecordIsKept, [Next]_vars
  PROVE  RecordIsKept'
<1>0. /\ owner \in [Execs -> Workflows \cup {NoWorkflow}] /\ \A g \in Execs : PhaseArc(g) /\ RecordArc(g)
      /\ phase \in [Execs -> Phase]
  BY RunArcs, RecordStep DEF TypeOK, RunsOK
<1>1. SUFFICES ASSUME NEW e \in Execs, NEW f \in Execs,
                      phase'[e] = "steps", record'[e] = "absent", owner'[f] = owner'[e]
               PROVE  record'[f] = "absent"
  BY DEF RecordIsKept
<1>2. ASSUME phase[e] = "reset" PROVE FALSE
  <2>1. StartRun(e)
    BY <1>1, <1>2, StepsBegin
  <2>2. ReadRecord(Workflows) \in [Execs -> RecStatus]
    BY ReadRecordType
  <2> QED  BY <1>1, <2>1, <2>2 DEF StartRun
<1>3. phase[e] = "steps"
  BY <1>0, <1>1, <1>2 DEF PhaseArc
<1>4. owner[f] = owner[e]
  <2>1. owner[e] \in Workflows /\ active[owner[e]] = e
    BY <1>3 DEF RunInv, OwnedRuns, ClaimIsRunner, Live
  <2>2. ASSUME NEW w \in Workflows, NEW c, NEW auto, active[w] = NoExec, Begin(w, c, auto) PROVE owner[f] = owner[e]
    <3>1. /\ nextExec \in Execs /\ owner' = [owner EXCEPT ![nextExec] = w] /\ phase' = [phase EXCEPT ![nextExec] = "reset"]
      BY <2>2 DEF Begin
    <3>2. e # nextExec /\ owner'[e] = owner[e]
      BY <1>0, <1>1, <3>1
    <3>3. owner[e] # w
      BY <2>1, <2>2
    <3> QED  BY <1>0, <1>1, <3>1, <3>2, <3>3
  <2> QED  BY <1>1, <2>2, WhoBegins DEF Begun
<1>5. CASE \E w \in Workflows : DeleteWorkflow(w)
  <2>1. PICK w \in Workflows : DeleteWorkflow(w)
    BY <1>5
  <2>2. record' = [g \in Execs |-> IF owner[g] = w THEN "absent" ELSE ReadRecord(Workflows)[g]]
    BY <2>1 DEF DeleteWorkflow
  <2>3. CASE owner[e] = w
    BY <1>4, <2>2, <2>3
  <2>4. CASE owner[e] # w
    <3>1. record[e] = "absent"
      BY <1>1, <2>2, <2>4, ReadIsMild
    <3>2. record[f] = "absent"
      BY <1>3, <1>4, <3>1 DEF RecordIsKept
    <3> QED  BY <1>4, <2>2, <2>4, <3>2, ReadIsMild DEF Stale
  <2> QED  BY <2>3, <2>4
<1>6. CASE ~\E w \in Workflows : DeleteWorkflow(w)
  <2>1. record[e] = "absent"
    BY <1>1, <1>6, RecordsAreKept
  <2>2. record[f] = "absent"
    BY <1>3, <1>4, <2>1 DEF RecordIsKept
  <2>3. ASSUME phase[f] \in {"reset", "steps"} PROVE f = e
    BY <1>3, <1>4, <2>3 DEF RunInv, ClaimIsRunner, Live
  <2> QED  BY <1>0, <1>1, <2>2, <2>3 DEF RecordArc, Stale
<1> QED  BY <1>5, <1>6

\* A workflow whose steps run does not look completed.
LEMMA RunningLooksRunning ==
  ASSUME TypeOK, OutcomeInv, SettledInv, NEW e \in Execs, phase[e] = "steps"
  PROVE  View(owner[e]) # "completed"
<1>1. record[e] \in {"absent", "running", "cancelled"} /\ status[owner[e]] # "completed"
  BY DEF OutcomeInv, OutcomeOpen, SettledInv, NotYetDone
<1>2. ASSUME NEW f \in Execs, owner[f] = owner[e], IsLatest(f) PROVE f = e
  <2>1. f <= e
    BY <1>2 DEF SettledInv, LiveIsNewest, Live
  <2>2. record[e] # "absent"
    BY <1>2 DEF IsLatest, SettledInv, RecordIsKept
  <2>3. e <= f
    BY <1>2, <2>2 DEF IsLatest
  <2> QED  BY <2>1, <2>3
<1>3. ~\E f \in Execs : owner[f] = owner[e] /\ IsLatest(f) /\ record[f] \in {"completed"}
  BY <1>1, <1>2
<1> QED  BY <1>1, <1>3 DEF View

\* The event loop is free only while every run is in its steps.
LEMMA LiveRunsStep ==
  ASSUME TypeOK, RunInv, loop = NoExec, NEW w \in Workflows, active[w] # NoExec
  PROVE  active[w] \in Execs /\ phase[active[w]] = "steps" /\ owner[active[w]] = w
<1>1. active[w] \in Execs /\ owner[active[w]] = w
  BY DEF TypeOK, ProcessOK, RunInv, ClaimOwned
<1>2. Live(active[w])
  BY <1>1 DEF RunInv, ClaimIsRunner
<1> QED  BY <1>1, <1>2 DEF RunInv, CallStack, Live

\* How a workflow comes to be completed: its run has ended, or a request or
\* a timer writes back that it looks completed.
CompletedArc(w) ==
  status'[w] = "completed" =>
    \/ status[w] = "completed"
    \/ loop = NoExec /\ View(w) = "completed"
    \/ \E e \in Execs : FinishCompleted(e) /\ owner[e] = w

LEMMA CompletedArcs ==
  ASSUME OperatorsLeaveRecords, TypeOK, [Next]_vars
  PROVE  \A w \in Workflows : CompletedArc(w)
<1> USE DEF mdVars
<1>0. status \in [Workflows -> WfStatus]
  BY DEF TypeOK, FilesOK
<1>1. ASSUME status' = status PROVE \A w \in Workflows : CompletedArc(w)
  BY <1>1 DEF CompletedArc
<1>2. ASSUME NEW x, NEW s, s # "completed" \/ (loop = NoExec /\ s = View(x)), status' = Update(x, s)
      PROVE  \A w \in Workflows : CompletedArc(w)
  BY <1>0, <1>2 DEF CompletedArc, Update
<1>3. ASSUME NEW x, NEW c, NEW auto, Begin(x, c, auto) PROVE \A w \in Workflows : CompletedArc(w)
  BY <1>0, <1>3 DEF Begin, CompletedArc
<1>4. Idle => loop = NoExec
  BY DEF Idle
<1> HIDE DEF CompletedArc
<1>5. CASE Synchronous
  <2>1. ASSUME NEW e \in Execs, NEW n \in Workflows,
               ResetDownstream(e, n) \/ AdvanceStarts(e, n) \/ AdvanceRefused(e, n) \/ AdvanceSkips(e, n)
        PROVE  \A w \in Workflows : CompletedArc(w)
    BY <1>1, <1>2, <1>3, <2>1 DEF ResetDownstream, AdvanceStarts, AdvanceRefused, AdvanceSkips
  <2>2. ASSUME NEW e \in Execs, StartRun(e) \/ FinishStopped(e) \/ FinishFailed(e) \/ AdvanceEnds(e)
        PROVE  \A w \in Workflows : CompletedArc(w)
    BY <1>1, <1>2, <2>2 DEF StartRun, FinishStopped, FinishFailed, FinishAs, AdvanceEnds
  <2>3. ASSUME NEW e \in Execs, FinishCompleted(e) PROVE \A w \in Workflows : CompletedArc(w)
    <3>1. status' = Update(owner[e], "completed")
      BY <2>3 DEF FinishCompleted
    <3> QED  BY <1>0, <2>3, <3>1 DEF Update, CompletedArc
  <2> QED  BY <1>5, <2>1, <2>2, <2>3 DEF Synchronous
<1>6. CASE Steps
  <2>1. ASSUME NEW e \in Execs, NEW p \in Agents, StepAnswers(e, p) PROVE \A w \in Workflows : CompletedArc(w)
    BY <1>2, <1>4, <2>1 DEF StepAnswers, Settle
  <2>2. ASSUME NEW e \in Execs, NEW p \in Agents, StepThrows(e, p) \/ StepStopped(e, p)
        PROVE  \A w \in Workflows : CompletedArc(w)
    BY <1>1, <1>2, <2>2 DEF StepThrows, StepStopped
  <2>3. ASSUME NEW e \in Execs, StepOutputs(e) PROVE \A w \in Workflows : CompletedArc(w)
    BY <1>2, <1>4, <2>3 DEF StepOutputs
  <2> QED  BY <1>6, <2>1, <2>2, <2>3 DEF Steps
<1>7. CASE Requests
  <2>1. ASSUME NEW w \in Workflows, TriggerManual(w) PROVE \A v \in Workflows : CompletedArc(v)
    BY <1>3, <2>1 DEF TriggerManual
  <2>2. ASSUME NEW w \in Workflows, TriggerScheduled(w) \/ DisableTimer(w) \/ EditEnabled(w)
        PROVE  \A v \in Workflows : CompletedArc(v)
    <3>1. CASE Begin(w, NoExec, TRUE)
      BY <1>3, <3>1
    <3>2. CASE loop = NoExec /\ status' = Update(w, View(w))
      BY <1>2, <3>2
    <3> QED  BY <1>4, <2>2, <3>1, <3>2 DEF TriggerScheduled, DisableTimer, EditEnabled, Disable
  <2>3. \A w, s : ~ReportStatus(w, s)
    BY DEF OperatorsLeaveRecords, ReportStatus
  <2>4. ASSUME NEW e \in Execs, Stop(e) \/ DeleteExecution(e) PROVE \A v \in Workflows : CompletedArc(v)
    BY <1>1, <1>2, <2>4 DEF Stop, DeleteExecution
  <2>5. ASSUME NEW b, NEW ws, SetPaused(b, ws) PROVE \A v \in Workflows : CompletedArc(v)
    BY <1>4, <2>5 DEF SetPaused, CompletedArc
  <2>6. ASSUME NEW ws, ReadWorkflows(ws) PROVE \A v \in Workflows : CompletedArc(v)
    BY <1>1, <2>6 DEF ReadWorkflows
  <2>7. ASSUME NEW w \in Workflows, DeleteWorkflow(w) \/ CreateWorkflow(w) PROVE \A v \in Workflows : CompletedArc(v)
    BY <1>0, <1>1, <2>7 DEF DeleteWorkflow, CreateWorkflow, CompletedArc
  <2> QED  BY <1>7, <2>1, <2>2, <2>3, <2>4, <2>5, <2>6, <2>7 DEF Requests
<1>8. CASE Crashes
  BY <1>1, <1>2, <1>8 DEF Crashes, Crash, CrashInStop, CrashInFinish, CrashInThrow, CrashInDelete
<1>9. CASE Restart \/ UNCHANGED vars
  BY <1>1, <1>9 DEF Restart, vars
<1> QED  BY <1>5, <1>6, <1>7, <1>8, <1>9 DEF Next

LEMMA NotDoneStep ==
  ASSUME OperatorsLeaveRecords, TypeOK, RunInv, OutcomeInv, SettledInv, [Next]_vars
  PROVE  NotYetDone'
<1>0. /\ owner \in [Execs -> Workflows \cup {NoWorkflow}] /\ phase \in [Execs -> Phase]
      /\ status \in [Workflows -> WfStatus] /\ \A e \in Execs : PhaseArc(e)
  BY RunArcs DEF TypeOK, RunsOK, FilesOK
<1>1. SUFFICES ASSUME NEW e \in Execs, phase'[e] \in {"reset", "steps"} PROVE status'[owner'[e]] # "completed"
  BY DEF NotYetDone
<1>2. ASSUME phase[e] \in {"reset", "steps"}, owner'[e] = owner[e] PROVE status'[owner'[e]] # "completed"
  <2>1. owner[e] \in Workflows /\ status[owner[e]] # "completed" /\ active[owner[e]] = e
    BY <1>2 DEF RunInv, OwnedRuns, ClaimIsRunner, Live, SettledInv, NotYetDone
  <2>2. ~(loop = NoExec /\ View(owner[e]) = "completed")
    BY <1>2, RunningLooksRunning DEF RunInv, CallStack
  <2>3. ASSUME NEW f \in Execs, FinishCompleted(f), owner[f] = owner[e] PROVE FALSE
    <3>1. phase[f] = "steps" /\ phase' = [phase EXCEPT ![f] = "advance"]
      BY <2>3 DEF FinishCompleted, Finishing, Ended
    <3>2. f = e
      BY <2>1, <2>3, <3>1 DEF RunInv, ClaimIsRunner, Live
    <3> QED  BY <1>0, <1>1, <3>1, <3>2
  <2>4. CompletedArc(owner[e])
    BY <2>1, CompletedArcs
  <2> QED  BY <1>2, <2>1, <2>2, <2>3, <2>4 DEF CompletedArc
<1>3. ASSUME NEW w \in Workflows, NEW c, NEW auto, Begin(w, c, auto) PROVE status'[owner'[e]] # "completed"
  <2>1. /\ nextExec \in Execs /\ owner' = [owner EXCEPT ![nextExec] = w] /\ status' = [status EXCEPT ![w] = "running"]
        /\ phase' = [phase EXCEPT ![nextExec] = "reset"]
    BY <1>3 DEF Begin
  <2>2. CASE e = nextExec
    BY <1>0, <2>1, <2>2
  <2>3. CASE e # nextExec
    BY <1>0, <1>1, <1>2, <2>1, <2>3
  <2> QED  BY <2>2, <2>3
<1>4. ASSUME owner' = owner, \A g \in Execs : phase'[g] = "reset" => phase[g] = "reset"
      PROVE  status'[owner'[e]] # "completed"
  <2>1. phase[e] \in {"reset", "steps"}
    BY <1>0, <1>1, <1>4 DEF PhaseArc
  <2> QED  BY <1>2, <1>4, <2>1
<1> QED  BY <1>3, <1>4, WhoBegins DEF Begun

\* The run that starts dependents has just completed.
LEMMA AdvanceBegins ==
  ASSUME TypeOK, [Next]_vars, NEW e \in Execs, phase[e] = "steps", phase'[e] = "advance"
  PROVE  FinishCompleted(e)
<1> USE DEF mdVars, recordVars, runVars, procVars, boundVars, histVars
<1>0. phase \in [Execs -> Phase]
  BY DEF TypeOK, RunsOK
<1>1. phase' # phase /\ ~Die
  BY DEF Die, Live
<1>2. ASSUME NEW w, NEW c, NEW auto, Begin(w, c, auto) PROVE FALSE
  BY <1>0, <1>2 DEF Begin
<1>3. ASSUME NEW f \in Execs, Release(f) \/ StartRun(f) PROVE FALSE
  BY <1>0, <1>3 DEF Release, StartRun
<1>4. ASSUME NEW f \in Execs, FinishCompleted(f) PROVE f = e
  BY <1>0, <1>4 DEF FinishCompleted
<1> QED
  BY <1>1, <1>2, <1>3, <1>4, CrashDies
     DEF Next, Synchronous, Steps, Requests, vars, Restart, ResetDownstream, FinishStopped, FinishFailed,
         AdvanceStarts, AdvanceRefused, AdvanceSkips, AdvanceEnds, StepAnswers, StepThrows, StepStopped,
         Settle, StepOutputs, TriggerManual, TriggerScheduled, DisableTimer, EditEnabled, ReportStatus,
         DeleteWorkflow, CreateWorkflow, Stop, DeleteExecution, SetPaused, ReadWorkflows

\* Who adds to what a run has still to visit.
LEMMA TodoArc ==
  ASSUME TypeOK, [Next]_vars, NEW e \in Execs, phase[e] = "advance", phase'[e] = "advance"
  PROVE  todo'[e] \subseteq todo[e] \/ \E f \in Execs : FinishCompleted(f)
<1> USE DEF runVars
<1>0. todo \in [Execs -> SUBSET Workflows] /\ phase \in [Execs -> Phase]
  BY DEF TypeOK, RunsOK
<1>1. ASSUME NEW w, NEW c, NEW auto, Begin(w, c, auto) PROVE todo'[e] \subseteq todo[e]
  <2>1. phase' = [phase EXCEPT ![nextExec] = "reset"] /\ todo' = [todo EXCEPT ![nextExec] = Downstream(w)]
    BY <1>1 DEF Begin
  <2> QED  BY <1>0, <2>1
<1>2. ASSUME NEW f \in Execs, NEW d \in Workflows, ResetDownstream(f, d) \/ AdvanceRefused(f, d) \/ AdvanceSkips(f, d)
      PROVE  todo'[e] \subseteq todo[e]
  BY <1>0, <1>2 DEF ResetDownstream, AdvanceRefused, AdvanceSkips
<1>3. ASSUME NEW f \in Execs, StartRun(f) PROVE todo'[e] \subseteq todo[e]
  BY <1>0, <1>3 DEF StartRun
<1> QED
  BY <1>1, <1>2, <1>3, CrashDies
     DEF Next, Synchronous, Steps, Requests, vars, Restart, Die, FinishStopped, FinishFailed, AdvanceStarts,
         AdvanceEnds, StepAnswers, StepThrows, StepStopped, Settle, StepOutputs, TriggerManual, TriggerScheduled,
         DisableTimer, EditEnabled, ReportStatus, DeleteWorkflow, CreateWorkflow, Stop, DeleteExecution, SetPaused,
         ReadWorkflows

LEMMA ReadyStep ==
  ASSUME NoDiamond, TypeOK, RunInv, OutcomeInv, SettledInv, [Next]_vars
  PROVE  StillReady'
<1>0. /\ owner \in [Execs -> Workflows \cup {NoWorkflow}] /\ phase \in [Execs -> Phase] /\ todo \in [Execs -> SUBSET Workflows]
      /\ active \in [Workflows -> Execs \cup {NoExec}] /\ \A e \in Execs : PhaseArc(e)
  BY RunArcs DEF TypeOK, RunsOK, ProcessOK
<1> DEFINE Ready(e) ==
      \A n \in todo'[e] : owner'[e] \in DependsOn[n] /\ \A d \in DependsOn[n] \ {owner'[e]} : active'[d] = NoExec
<1>1. SUFFICES ASSUME NEW e \in Execs, phase'[e] = "advance" PROVE Ready(e)
  BY DEF StillReady
<1>2. ASSUME NEW f \in Execs, FinishCompleted(f) PROVE Ready(e)
  <2>1. /\ loop = NoExec /\ phase' = [phase EXCEPT ![f] = "advance"] /\ todo' = [todo EXCEPT ![f] = ReadyToRun(owner[f])]
        /\ UNCHANGED <<active, owner>>
    BY <1>2 DEF FinishCompleted, Finishing, procVars
  <2>2. e = f
    BY <1>0, <1>1, <2>1 DEF RunInv, CallStack
  <2>3. ASSUME NEW n \in ReadyToRun(owner[f]), NEW d \in DependsOn[n], d # owner[f] PROVE active[d] = NoExec
    <3>1. d \in Workflows /\ View(d) = "completed"
      BY <2>3 DEF ReadyToRun, Dependents, DependenciesMet
    <3>2. ASSUME active[d] # NoExec PROVE FALSE
      <4>1. active[d] \in Execs /\ phase[active[d]] = "steps" /\ owner[active[d]] = d
        BY <2>1, <3>1, <3>2, LiveRunsStep
      <4>2. View(owner[active[d]]) # "completed"
        BY <4>1, RunningLooksRunning
      <4> QED  BY <3>1, <4>1, <4>2
    <3> QED  BY <3>2
  <2>4. \A n \in ReadyToRun(owner[f]) : owner[f] \in DependsOn[n]
    BY DEF ReadyToRun, Dependents
  <2> QED  BY <1>0, <2>1, <2>2, <2>3, <2>4
<1>3. CASE ~\E f \in Execs : FinishCompleted(f)
  <2>1. phase[e] = "advance"
    BY <1>0, <1>1, <1>3, AdvanceBegins DEF PhaseArc
  <2>2. todo'[e] \subseteq todo[e] /\ todo[e] \subseteq Workflows
    BY <1>0, <1>1, <1>3, <2>1, TodoArc
  <2>3. \A n \in todo[e] : owner[e] \in DependsOn[n] /\ \A d \in DependsOn[n] \ {owner[e]} : active[d] = NoExec
    BY <2>1 DEF SettledInv, StillReady
  <2>4. ASSUME NEW w \in Workflows, NEW c \in Execs \cup {NoExec}, Begun(w, c) PROVE Ready(e)
    <3>1. active' = [active EXCEPT ![w] = nextExec] /\ owner' = [owner EXCEPT ![nextExec] = w] /\ nextExec # e
      BY <1>0, <1>1, <2>4 DEF Begun, Begin
    <3>2. c = e /\ w \in todo[e]
      BY <2>1, <2>4 DEF Begun, Idle, Advancing, RunInv, CallStack
    <3>3. owner[e] \in Workflows /\ owner'[e] = owner[e]
      BY <1>0, <2>1, <3>1 DEF RunInv, OwnedRuns, Live
    <3>4. ASSUME NEW n \in todo[e] PROVE w \notin DependsOn[n] /\ DependsOn[n] \subseteq Workflows
      BY <2>2, <2>3, <3>2, <3>3, <3>4 DEF NoDiamond
    <3> QED  BY <1>0, <2>2, <2>3, <3>1, <3>3, <3>4
  <2>5. ASSUME owner' = owner, \A w \in Workflows : active'[w] \in {active[w], NoExec} PROVE Ready(e)
    BY <2>2, <2>3, <2>5
  <2> QED  BY <2>4, <2>5, WhoBegins
<1> QED  BY <1>2, <1>3

LEMMA SettledStep ==
  ASSUME NoDiamond, OperatorsLeaveRecords, TypeOK, RunInv, OutcomeInv, SettledInv, [Next]_vars
  PROVE  SettledInv'
  BY NewestStep, KeptStep, NotDoneStep, ReadyStep DEF SettledInv

LEMMA SettledInit == Init => SettledInv
  BY DEF Init, SettledInv, LiveIsNewest, RecordIsKept, NotYetDone, StillReady, Live

\* When the engine itself starts a dependent, no other workflow it depends on
\* is being run, if no dependent of a workflow depends on another one, and
\* nobody deletes single executions or reports a status: these make an older
\* "completed" count again, or a status that no run has.
THEOREM DependentsWait ==
  ASSUME NoDiamond, OperatorsLeaveRecords
  PROVE  Spec => DependenciesSettled
<1>1. Init => TypeOK /\ RunInv /\ OutcomeInv /\ SettledInv
  BY TypeInit, RunInit, OutcomeInit, SettledInit
<1>2. TypeOK /\ RunInv /\ OutcomeInv /\ SettledInv /\ [Next]_vars => (TypeOK /\ RunInv /\ OutcomeInv /\ SettledInv)'
  BY TypeStep, RunStep, OutcomeStep, SettledStep
<1>3. ASSUME TypeOK, RunInv, SettledInv, [Next]_vars, NEW e \in Execs,
             phase[e] = "unused" /\ phase'[e] = "reset" /\ caller'[e] # NoExec,
             NEW d \in DependsOn[owner'[e]]
      PROVE  active[d] \in {NoExec, caller'[e]}
  <2>1. PICK w \in Workflows, c \in Execs \cup {NoExec} : Begun(w, c)
    BY <1>3, WhoBegins
  <2>2. /\ owner' = [owner EXCEPT ![nextExec] = w] /\ caller' = [caller EXCEPT ![nextExec] = c]
        /\ phase' = [phase EXCEPT ![nextExec] = "reset"] /\ nextExec \in Execs
    BY <2>1 DEF Begun, Begin
  <2>3. e = nextExec /\ owner'[e] = w /\ caller'[e] = c
    BY <1>3, <2>2 DEF TypeOK, RunsOK
  <2>4. c \in Execs /\ phase[c] = "advance" /\ w \in todo[c]
    BY <1>3, <2>1, <2>3 DEF Begun, Advancing
  <2>5. d = owner[c] \/ active[d] = NoExec
    BY <1>3, <2>3, <2>4 DEF SettledInv, StillReady
  <2>6. owner[c] \in Workflows /\ active[owner[c]] = c
    BY <1>3, <2>4 DEF RunInv, OwnedRuns, ClaimIsRunner, Live
  <2> QED  BY <2>3, <2>5, <2>6
<1>4. TypeOK /\ RunInv /\ SettledInv /\ [Next]_vars
        => [\A e \in Execs :
              (phase[e] = "unused" /\ phase'[e] = "reset" /\ caller'[e] # NoExec) =>
                \A d \in DependsOn[owner'[e]] : active[d] \in {NoExec, caller'[e]}]_vars
  BY <1>3
<1> QED  BY <1>1, <1>2, <1>4, PTL DEF Spec, DependenciesSettled
=============================================================================
