------------------------ MODULE TemplateApply_proofs ------------------------
(***************************************************************************)
(* Proofs about applying and cleaning Templates: readers see a revision    *)
(* appear and disappear in one step, whoever is let in finds every         *)
(* revision whole, and a revision is not cleaned under a running model.    *)
(***************************************************************************)
EXTENDS TemplateApply, TLAPS

-----------------------------------------------------------------------------
(* What holds where the coordinator is.                                    *)

Reconciling == {"await_snapshot", "await_removal", "await_removed", "settle", "forget"}
Applying == {"await_before", "await_patch", "await_after"}
Writing == {"write", "mark", "unlink"}
Running == {"await_staged", "dispatch", "await_reply"}
Proper == {"plan", "await_receipt", "commit"} \cup Applying \cup Writing \cup Running

\* The operation under way.
OpInPlace ==
    /\ pc # "idle" /\ op.kind # "recover" => op.plan \in Plans
    /\ pc \in Proper => op.kind # "recover"
    /\ pc \in Applying => op.kind = "apply"
    /\ pc = "await_receipt" => op.kind = "cleanup"
    /\ pc \notin {"idle"} \cup Running => op.kind \in {"apply", "cleanup", "recover"}
    /\ pc \in Running => op.key \in Keys
    /\ pc \notin Running => turn = 0
    /\ pc \in {"await_staged", "dispatch"} => turn < MaxTurns

\* The journal of the files.
FilesInPlace ==
    /\ pc \notin {"idle", "recover_files", "roll_back"} \cup Writing => fileJournal = None
    /\ pc \in {"roll_back", "write", "mark"} => fileJournal # None /\ fileJournal.state = "prepared"
    /\ pc \in Writing => fileJournal # None /\ fileJournal.plan = op.plan

\* The journal of the registrations; with the files it is always that of one plan.
GatewayInPlace ==
    /\ pc \in {"plan", "await_before", "await_receipt"} => gwJournal = None
    /\ pc \in {"await_patch", "await_after", "commit"} => gwJournal = op.plan
    /\ pc \in Reconciling => gwJournal \in Plans
    /\ fileJournal # None => gwJournal = fileJournal.plan

TypeInv == TypeOK /\ OpInPlace /\ FilesInPlace /\ GatewayInPlace

\* A process that died left nothing half done in memory.
DeadIsIdle == up \/ pc = "idle"

-----------------------------------------------------------------------------
(* Types.                                                                  *)

\* The two halves of the type invariant: what the coordinator holds, and the rest.
CoordinatorTypes ==
    /\ pc \in {"idle", "recover_files", "roll_back", "recover_gateway", "plan", "await_receipt", "commit"}
               \cup Reconciling \cup Applying \cup Writing \cup Running
    /\ op \in Operation /\ after \in BOOLEAN /\ failed \in BOOLEAN /\ committed \in BOOLEAN
    /\ turn \in 0..MaxTurns

DataTypes ==
    /\ text \in [Files -> SUBSET (Plans \cup {User})]
    /\ status \in [Plans -> {"absent", "applied", "cleaned"}]
    /\ fileJournal \in Journal \cup {None}
    /\ gwJournal \in Plans \cup {None} /\ receipts \subseteq Plans
    /\ runs \in [Plans -> [Keys -> {"none", "pending", "completed"}]]
    /\ gateway \in Gateway
    /\ live \subseteq Plans \X Keys /\ up \in BOOLEAN /\ quarantined \in BOOLEAN
    /\ crashes \in 0..MaxCrash /\ faults \in 0..MaxFault /\ outside \in 0..MaxOutside

LEMMA TypeHalves == /\ TypeOK <=> DataTypes /\ CoordinatorTypes
                    /\ TypeOK' <=> DataTypes' /\ CoordinatorTypes'
BY DEF TypeOK, DataTypes, CoordinatorTypes, Reconciling, Applying, Writing, Running

\* What the journal and the operation are made of.
LEMMA Shapes ==
    /\ NoOp \in Operation
    /\ \A kind \in {"none", "apply", "cleanup", "run", "recover"}, p \in Plans \cup {None}, k \in Keys \cup {None} :
          [kind |-> kind, plan |-> p, key |-> k] \in Operation
    /\ \A j \in Journal : j # None /\ j.plan \in Plans /\ j.kind \in {"apply", "cleanup"}
                          /\ j.state \in {"prepared", "committed"} /\ j.before \in [Files -> SUBSET (Plans \cup {User})]
BY NoneIsNew DEF NoOp, Operation, Journal

LEMMA Texts ==
    ASSUME NEW j \in Journal, NEW f \in Files
    PROVE  Before(j, f) \subseteq Plans \cup {User} /\ After(j, f) \subseteq Plans \cup {User}
BY DEF Journal, Before, After

\* The operation ends: it returns, throws or dies.
LEMMA ResetType ==
    ASSUME TypeInv, Reset PROVE CoordinatorTypes' /\ OpInPlace' /\ FilesInPlace' /\ pc' = "idle"
<1>1. pc' = "idle" /\ op' \in Operation /\ turn' = 0 /\ turn' \in 0..MaxTurns
  BY Shapes, BoundsAreNat DEF Reset
<1>2. CoordinatorTypes'
  BY <1>1 DEF Reset, CoordinatorTypes
<1>3. OpInPlace' /\ FilesInPlace'
  BY <1>1 DEF OpInPlace, FilesInPlace, Proper, Applying, Writing, Running
<1> QED BY <1>1, <1>2, <1>3

\* The catch clause reconciles.
LEMMA FailType ==
    ASSUME TypeInv, pc # "idle", pc \notin Running, Fail
    PROVE  CoordinatorTypes' /\ OpInPlace' /\ FilesInPlace' /\ pc' = "recover_files"
<1>1. CoordinatorTypes
  BY TypeHalves DEF TypeInv
<1>2. CoordinatorTypes'
  BY <1>1 DEF Fail, CoordinatorTypes
<1>3. OpInPlace' /\ FilesInPlace'
  BY DEF Fail, TypeInv, OpInPlace, FilesInPlace, Proper, Applying, Writing, Running
<1> QED BY <1>2, <1>3 DEF Fail

LEMMA ReconcileFailsType ==
    ASSUME TypeInv, pc # "idle", pc \notin Running, ReconcileFails
    PROVE  CoordinatorTypes' /\ OpInPlace' /\ FilesInPlace' /\ pc' \in {"idle", "recover_files"} /\ quarantined' = quarantined
BY ResetType, FailType DEF ReconcileFails, Stop

\* The coordinator goes on at l in the same operation.
LEMMA GotoType ==
    ASSUME TypeInv, NEW l, l # "idle", Goto(l),
           l \in {"roll_back", "recover_gateway", "commit"} \cup Reconciling \cup Applying \cup Writing \cup Running
    PROVE  CoordinatorTypes' /\ pc' = l /\ op' = op /\ turn' = turn
<1>1. CoordinatorTypes
  BY TypeHalves DEF TypeInv
<1> QED BY <1>1 DEF Goto, local, CoordinatorTypes

LEMMA ReconciledType ==
    ASSUME TypeInv, pc # "idle", pc \notin Running, fileJournal' = None, Reconciled
    PROVE  CoordinatorTypes' /\ OpInPlace' /\ FilesInPlace' /\ pc' \in {"idle", "plan"} /\ quarantined' \in BOOLEAN
<1>1. CoordinatorTypes /\ quarantined \in BOOLEAN
  BY TypeHalves DEF TypeInv, DataTypes
<1>2. CASE pc' = "plan" /\ op.kind # "recover" /\ UNCHANGED <<local, quarantined>>
  <2>1. CoordinatorTypes'
    BY <1>1, <1>2 DEF local, CoordinatorTypes
  <2>2. FilesInPlace'
    BY <1>2 DEF FilesInPlace, Writing
  <2>3. OpInPlace'
    BY <1>2 DEF local, TypeInv, OpInPlace, Proper, Applying, Writing, Running
  <2> QED BY <1>1, <1>2, <2>1, <2>2, <2>3
<1> QED BY <1>1, <1>2, ResetType DEF Reconciled, Stop

LEMMA RequestType ==
    ASSUME TypeInv, Request \/ Retry PROVE TypeInv'
<1> USE DEF Idle, Start, disk, budget
<1>1. DataTypes /\ CoordinatorTypes
  BY TypeHalves DEF TypeInv
<1>2. DataTypes' /\ gwJournal' = gwJournal /\ fileJournal' = fileJournal /\ pc = "idle" /\ turn' = 0
  BY <1>1 DEF Request, Retry, BeginApply, BeginCleanup, BeginRun, DataTypes, TypeInv, OpInPlace, Running
<1>3. \/ /\ pc' = "recover_files" /\ op'.kind \in {"apply", "cleanup", "recover"}
         /\ op'.kind # "recover" => op'.plan \in Plans
      \/ /\ pc' = "await_staged" /\ op'.kind = "run" /\ op'.plan \in Plans /\ op'.key \in Keys
         /\ fileJournal = None
  BY DEF Request, Retry, BeginApply, BeginCleanup, BeginRun, Staged
<1>4. op' \in Operation
  BY Shapes DEF Request, Retry, BeginApply, BeginCleanup, BeginRun
<1>5. CoordinatorTypes'
  BY <1>1, <1>2, <1>3, <1>4 DEF Request, Retry, BeginApply, BeginCleanup, BeginRun, CoordinatorTypes, Running
<1>6. OpInPlace'
  BY <1>2, <1>3, BoundsAreNat DEF OpInPlace, Proper, Applying, Writing, Running
<1>7. FilesInPlace' /\ GatewayInPlace'
  BY <1>2, <1>3 DEF TypeInv, FilesInPlace, GatewayInPlace, Writing, Reconciling
<1> QED BY <1>2, <1>5, <1>6, <1>7, TypeHalves DEF TypeInv

\* A file or the ledger is written back, and nothing else happens.
LEMMA RollBackType ==
    ASSUME TypeInv, RollBackLedger \/ (\E f \in Files : RollBack(f)) PROVE TypeInv'
<1> USE DEF budget
<1>1. DataTypes /\ CoordinatorTypes /\ fileJournal \in Journal
  BY TypeHalves DEF TypeInv, FilesInPlace, RollBackLedger, RollBack, DataTypes
<1>2. CASE RollBackLedger
  <2>1. StatusBefore(fileJournal) \in {"absent", "applied", "cleaned"}
    BY DEF StatusBefore
  <2>2. DataTypes'
    BY <1>1, <1>2, <2>1 DEF RollBackLedger, DataTypes
  <2>3. CoordinatorTypes' /\ OpInPlace' /\ FilesInPlace' /\ GatewayInPlace'
    BY <1>1, <1>2 DEF RollBackLedger, local, CoordinatorTypes, TypeInv, OpInPlace, FilesInPlace, GatewayInPlace
  <2> QED BY <2>2, <2>3, TypeHalves DEF TypeInv
<1>3. ASSUME NEW f \in Files, RollBack(f) PROVE TypeInv'
  <2>1. DataTypes'
    BY <1>1, <1>3, Texts DEF RollBack, DataTypes
  <2>2. CoordinatorTypes' /\ OpInPlace' /\ FilesInPlace' /\ GatewayInPlace'
    BY <1>1, <1>3 DEF RollBack, local, CoordinatorTypes, TypeInv, OpInPlace, FilesInPlace, GatewayInPlace
  <2> QED BY <2>1, <2>2, TypeHalves DEF TypeInv
<1> QED BY <1>2, <1>3

LEMMA RecoverFilesType ==
    ASSUME TypeInv, RecoverFiles \/ RolledBack PROVE TypeInv'
<1> USE DEF budget
<1>1. DataTypes /\ CoordinatorTypes /\ pc \in {"recover_files", "roll_back"}
  BY TypeHalves DEF TypeInv, RecoverFiles, RolledBack
<1>2. CASE fileJournal' = None /\ Goto("recover_gateway") /\ UNCHANGED quarantined
  <2>1. CoordinatorTypes' /\ pc' = "recover_gateway" /\ op' = op /\ turn' = turn
    BY <1>2, GotoType
  <2>2. OpInPlace' /\ FilesInPlace'
    BY <1>1, <1>2, <2>1 DEF TypeInv, OpInPlace, FilesInPlace, Proper, Applying, Writing, Running
  <2>3. DataTypes' /\ GatewayInPlace'
    BY <1>1, <1>2, <2>1 DEF RecoverFiles, RolledBack, DataTypes, GatewayInPlace, Reconciling
  <2> QED BY <2>1, <2>2, <2>3, TypeHalves DEF TypeInv
<1>3. CASE ReconcileFails /\ UNCHANGED fileJournal /\ RecoverFiles
  <2>1. CoordinatorTypes' /\ OpInPlace' /\ FilesInPlace' /\ pc' \in {"idle", "recover_files"}
        /\ quarantined' = quarantined
    BY <1>1, <1>3, ReconcileFailsType DEF Running
  <2>2. DataTypes' /\ GatewayInPlace'
    BY <1>1, <1>3, <2>1 DEF RecoverFiles, DataTypes, TypeInv, GatewayInPlace, Reconciling
  <2> QED BY <2>1, <2>2, TypeHalves DEF TypeInv
<1>4. CASE fileJournal # None /\ fileJournal.state = "prepared" /\ Goto("roll_back")
           /\ UNCHANGED <<fileJournal, quarantined>> /\ RecoverFiles
  <2>1. CoordinatorTypes' /\ pc' = "roll_back" /\ op' = op /\ turn' = turn
    BY <1>4, GotoType
  <2>2. OpInPlace' /\ FilesInPlace'
    BY <1>1, <1>4, <2>1 DEF TypeInv, OpInPlace, FilesInPlace, Proper, Applying, Writing, Running
  <2>3. DataTypes' /\ GatewayInPlace'
    BY <1>1, <1>4, <2>1 DEF RecoverFiles, DataTypes, TypeInv, GatewayInPlace, Reconciling
  <2> QED BY <2>1, <2>2, <2>3, TypeHalves DEF TypeInv
<1> QED BY <1>2, <1>3, <1>4 DEF RecoverFiles, RolledBack

\* A patch of the configuration, and the bound that every failing call counts against.
LEMMA GatewayShape ==
    ASSUME gateway \in Gateway
    PROVE  /\ gateway.entries \in [Plans -> {"absent", "present", "changed"}]
           /\ \A p \in Plans, e \in {"absent", "present", "changed"} :
                 Patched(p, e) => /\ gateway' \in Gateway /\ gateway'.entries[p] = e
                                  /\ \A q \in Plans \ {p} : gateway'.entries[q] = gateway.entries[q]
           /\ [gateway EXCEPT !.other = ~@] \in Gateway
           /\ [gateway EXCEPT !.other = ~@].entries = gateway.entries
<1>1. /\ gateway.entries \in [Plans -> {"absent", "present", "changed"}] /\ gateway.other \in BOOLEAN
      /\ gateway = [entries |-> gateway.entries, other |-> gateway.other]
  BY DEF Gateway
<1>2. \A es \in [Plans -> {"absent", "present", "changed"}], o \in BOOLEAN : [entries |-> es, other |-> o] \in Gateway
  BY DEF Gateway
<1>3. ASSUME NEW p \in Plans, NEW e \in {"absent", "present", "changed"}, Patched(p, e)
      PROVE  /\ gateway' \in Gateway /\ gateway'.entries[p] = e
             /\ \A q \in Plans \ {p} : gateway'.entries[q] = gateway.entries[q]
  <2>1. gateway' = [entries |-> [gateway.entries EXCEPT ![p] = e], other |-> gateway.other]
    BY <1>1, <1>3 DEF Patched
  <2>2. [gateway.entries EXCEPT ![p] = e] \in [Plans -> {"absent", "present", "changed"}]
    BY <1>1
  <2>3. gateway' \in Gateway /\ gateway'.entries = [gateway.entries EXCEPT ![p] = e]
    BY <1>1, <1>2, <2>1, <2>2
  <2> QED BY <1>1, <2>3
<1>4. [gateway EXCEPT !.other = ~@] = [entries |-> gateway.entries, other |-> ~gateway.other]
  BY <1>1
<1>5. (~gateway.other) \in BOOLEAN
  OBVIOUS
<1>6. [gateway EXCEPT !.other = ~@] \in Gateway /\ [gateway EXCEPT !.other = ~@].entries = gateway.entries
  BY <1>1, <1>2, <1>4, <1>5
<1> QED BY <1>1, <1>3, <1>6

LEMMA FaultCounted ==
    ASSUME DataTypes, Fault PROVE crashes' \in 0..MaxCrash /\ faults' \in 0..MaxFault /\ outside' \in 0..MaxOutside
BY BoundsAreNat DEF Fault, DataTypes

\* The coordinator reconciles the registrations.
LEMMA ReconcilingType ==
    ASSUME TypeInv, RecoverGateway \/ Snapshot \/ Removal \/ Removed \/ Settle \/ Forget \/ ReconcileFault
    PROVE  TypeInv'
<1> USE DEF disk, budget
<1>1. /\ DataTypes /\ CoordinatorTypes /\ fileJournal = None
      /\ pc \in {"recover_gateway"} \cup Reconciling
      /\ pc \in Reconciling => gwJournal \in Plans
  BY TypeHalves DEF TypeInv, FilesInPlace, GatewayInPlace, Writing, Reconciling,
         RecoverGateway, Snapshot, Removal, Removed, Settle, Forget, ReconcileFault
<1>2. pc # "idle" /\ pc \notin Running
  BY <1>1 DEF Running, Reconciling
<1>3. gateway' \in Gateway /\ receipts' \subseteq Plans
  <2>1. UNCHANGED gateway \/ (pc = "await_removal" /\ Patched(gwJournal, "absent"))
    BY DEF RecoverGateway, Snapshot, Removal, Removed, Settle, Forget, ReconcileFault
  <2>2. gateway' \in Gateway
    BY <1>1, <2>1, GatewayShape DEF DataTypes, Reconciling
  <2>3. receipts' \subseteq Plans
    <3>1. receipts' = receipts \/ (receipts' \subseteq receipts \cup {gwJournal} /\ gwJournal \in Plans)
      BY <1>1 DEF RecoverGateway, Snapshot, Removal, Removed, Settle, Forget, ReconcileFault, Reconciling
    <3> QED BY <1>1, <3>1 DEF DataTypes
  <2> QED BY <2>2, <2>3
<1>4. /\ text' = text /\ status' = status /\ fileJournal' = None /\ runs' = runs /\ live' = live /\ up' = up
      /\ crashes' \in 0..MaxCrash /\ faults' \in 0..MaxFault /\ outside' \in 0..MaxOutside
      /\ gwJournal' \in Plans \cup {None}
  BY <1>1, FaultCounted DEF RecoverGateway, Snapshot, Removal, Removed, Settle, Forget, ReconcileFault, DataTypes
<1>5. ASSUME quarantined' \in BOOLEAN PROVE DataTypes'
  BY <1>1, <1>3, <1>4, <1>5 DEF DataTypes
<1>6. CASE ReconcileFails \/ Reconciled
  <2>1. /\ CoordinatorTypes' /\ OpInPlace' /\ FilesInPlace' /\ quarantined' \in BOOLEAN
        /\ pc' \in {"idle", "recover_files"} \/ (pc' = "plan" /\ Reconciled)
    BY <1>1, <1>2, <1>4, <1>6, ReconcileFailsType, ReconciledType DEF DataTypes
  <2>2. pc' = "plan" => gwJournal' = None
    <3>1. pc' = "plan" => RecoverGateway \/ Forget
      BY DEF Snapshot, Removal, Removed, Settle, ReconcileFault, ReconcileFails, Fail, Stop, Reset, Goto
    <3> QED BY <3>1 DEF RecoverGateway, Forget
  <2>3. GatewayInPlace'
    BY <1>4, <2>1, <2>2 DEF GatewayInPlace, Reconciling
  <2> QED BY <1>5, <2>1, <2>3, TypeHalves DEF TypeInv
<1>7. ASSUME pc' \in Reconciling, op' = op, turn' = turn, after' = after, failed' = failed, committed' \in BOOLEAN,
             gwJournal' = gwJournal, gwJournal # None, quarantined' = quarantined
      PROVE  TypeInv'
  <2>1. CoordinatorTypes'
    BY <1>1, <1>7 DEF CoordinatorTypes
  <2>2. OpInPlace' /\ FilesInPlace'
    BY <1>1, <1>2, <1>4, <1>7 DEF TypeInv, OpInPlace, FilesInPlace, Proper, Applying, Writing, Running, Reconciling
  <2>3. GatewayInPlace'
    BY <1>1, <1>4, <1>7 DEF GatewayInPlace, Reconciling, DataTypes
  <2> QED BY <1>1, <1>5, <1>7, <2>1, <2>2, <2>3, TypeHalves DEF TypeInv, DataTypes
<1>8. ASSUME NEW l \in Reconciling, Goto(l), UNCHANGED <<gwJournal, quarantined>>, pc \in Reconciling PROVE TypeInv'
  BY <1>1, <1>7, <1>8, NoneIsNew DEF Goto, local, CoordinatorTypes
<1>9. CASE RecoverGateway
  BY <1>1, <1>6, <1>7, <1>9 DEF RecoverGateway, RevisionCommitted, Reconciling
<1>10. CASE Snapshot
  BY <1>1, <1>6, <1>7, <1>8, <1>10, NoneIsNew DEF Snapshot, Reconciling, CoordinatorTypes
<1>11. CASE Removal \/ Removed \/ Settle
  BY <1>1, <1>6, <1>8, <1>11 DEF Removal, Removed, Settle, Reconciling
<1>12. CASE Forget \/ ReconcileFault
  BY <1>6, <1>12 DEF Forget, ReconcileFault
<1> QED BY <1>9, <1>10, <1>11, <1>12

\* The coordinator gives up, with both journals as they are.
LEMMA RetreatType ==
    ASSUME TypeInv, DataTypes', UNCHANGED <<fileJournal, gwJournal>>,
           Reset \/ (pc # "idle" /\ pc \notin Running /\ Fail)
    PROVE  TypeInv'
<1>1. CoordinatorTypes' /\ OpInPlace' /\ FilesInPlace' /\ pc' \in {"idle", "recover_files"}
  BY ResetType, FailType
<1>2. GatewayInPlace'
  BY <1>1 DEF TypeInv, GatewayInPlace, Reconciling
<1> QED BY <1>1, <1>2, TypeHalves DEF TypeInv

\* The coordinator goes on at l, within the files' transaction or before it.
LEMMA AdvanceType ==
    ASSUME TypeInv, DataTypes',
           NEW l \in {"commit", "await_receipt"} \cup Applying \cup Writing, pc' = l,
           UNCHANGED <<op, after, failed, committed, turn>>, pc \notin {"idle"} \cup Running, op.kind # "recover",
           l \in Applying => op.kind = "apply", l = "await_receipt" => op.kind = "cleanup",
           FilesInPlace', GatewayInPlace'
    PROVE  TypeInv'
<1>1. CoordinatorTypes
  BY TypeHalves DEF TypeInv
<1>2. CoordinatorTypes'
  BY <1>1 DEF CoordinatorTypes
<1>3. OpInPlace'
  BY DEF TypeInv, OpInPlace, Proper, Applying, Writing, Running
<1> QED BY <1>2, <1>3, TypeHalves DEF TypeInv

LEMMA PlanType ==
    ASSUME TypeInv, PlanApply \/ PlanCleanup PROVE TypeInv'
<1> USE DEF disk, budget
<1>1. DataTypes'
  BY TypeHalves DEF TypeInv, DataTypes, PlanApply, PlanCleanup, Stop
<1>2. CASE Stop
  BY <1>1, <1>2, RetreatType DEF Stop, PlanApply, PlanCleanup
<1>3. CASE ~Stop
  <2>1. /\ \/ pc' = "await_before" /\ op.kind = "apply"
           \/ pc' = "await_receipt" /\ op.kind = "cleanup"
        /\ pc = "plan" /\ UNCHANGED <<op, after, failed, committed, turn, fileJournal, gwJournal>>
    BY <1>3 DEF PlanApply, PlanCleanup
  <2>2. fileJournal = None /\ gwJournal = None
    BY <2>1 DEF TypeInv, FilesInPlace, GatewayInPlace, Writing
  <2>3. FilesInPlace' /\ GatewayInPlace'
    BY <2>1, <2>2 DEF FilesInPlace, GatewayInPlace, Writing, Reconciling
  <2> QED BY <1>1, <2>1, <2>3, AdvanceType DEF Applying, Running
<1> QED BY <1>2, <1>3

\* Registering the plan's agents, and the check that they are still registered.
LEMMA RegisterType ==
    ASSUME TypeInv, Register \/ Patch \/ Registered \/ RegisterFault \/ PrepareCleanup PROVE TypeInv'
<1> USE DEF disk, budget
<1>1. /\ DataTypes /\ pc \in {"await_receipt"} \cup Applying /\ op.kind \in {"apply", "cleanup"}
      /\ pc \in Applying => op.kind = "apply"
      /\ op.plan \in Plans /\ fileJournal = None
  BY TypeHalves DEF TypeInv, OpInPlace, FilesInPlace, Proper, Applying, Writing, Running,
         Register, Patch, Registered, RegisterFault, PrepareCleanup
<1>2. gateway' \in Gateway
  <2>1. UNCHANGED gateway \/ Patched(op.plan, "present")
    BY DEF Register, Patch, Registered, RegisterFault, PrepareCleanup
  <2> QED BY <1>1, <2>1, GatewayShape DEF DataTypes
<1>3. gwJournal' = gwJournal \/ gwJournal' = op.plan
  BY DEF Register, Patch, Registered, RegisterFault, PrepareCleanup
<1>4. DataTypes'
  BY <1>1, <1>2, <1>3, FaultCounted DEF DataTypes, Register, Patch, Registered, RegisterFault, PrepareCleanup
<1>5. fileJournal' = fileJournal
  BY DEF Register, Patch, Registered, RegisterFault, PrepareCleanup
<1>6. CASE Fail
  <2>1. gwJournal' = gwJournal
    BY <1>6 DEF Fail, Register, Patch, Registered, RegisterFault, PrepareCleanup, Goto
  <2> QED BY <1>1, <1>4, <1>5, <1>6, <2>1, RetreatType DEF Applying, Running
<1>7. CASE ~Fail
  <2>1. /\ UNCHANGED <<op, after, failed, committed, turn>>
        /\ \/ pc = "await_before" /\ pc' = "await_patch" /\ gwJournal' = op.plan
           \/ pc = "await_receipt" /\ pc' = "commit" /\ gwJournal' = op.plan
           \/ pc = "await_patch" /\ pc' = "await_after" /\ gwJournal' = gwJournal
           \/ pc = "await_after" /\ pc' = "commit" /\ gwJournal' = gwJournal
    BY <1>7 DEF Register, Patch, Registered, RegisterFault, PrepareCleanup, Goto, local
  <2>2. gwJournal' = op.plan
    BY <2>1 DEF TypeInv, GatewayInPlace
  <2>3. FilesInPlace' /\ GatewayInPlace'
    BY <1>1, <1>5, <2>1, <2>2 DEF FilesInPlace, GatewayInPlace, Writing, Reconciling
  <2> QED BY <1>1, <1>4, <2>1, <2>3, AdvanceType DEF Applying, Running
<1> QED BY <1>6, <1>7

\* The journal of the files is written: the transaction begins.
LEMMA PreparedShape ==
    ASSUME TypeInv, NEW kind \in {"apply", "cleanup"}, op.plan \in Plans
    PROVE  /\ Prepared(kind, op.plan) \in Journal
           /\ Prepared(kind, op.plan).plan = op.plan /\ Prepared(kind, op.plan).kind = kind
           /\ Prepared(kind, op.plan).state = "prepared" /\ Prepared(kind, op.plan).before = text
BY DEF TypeInv, TypeOK, Prepared, Journal

LEMMA CommitType ==
    ASSUME TypeInv, CommitApply \/ CommitCleanup PROVE TypeInv'
<1> USE DEF disk, budget
<1>1. /\ DataTypes /\ pc = "commit" /\ op.plan \in Plans /\ op.kind \in {"apply", "cleanup"}
      /\ fileJournal = None /\ gwJournal = op.plan
  BY TypeHalves DEF TypeInv, OpInPlace, FilesInPlace, GatewayInPlace, Proper, Writing, Running, CommitApply, CommitCleanup
<1>2. CASE Fail /\ UNCHANGED fileJournal
  <2>1. DataTypes'
    BY <1>1, <1>2 DEF DataTypes, CommitApply, CommitCleanup
  <2>2. gwJournal' = gwJournal
    BY DEF CommitApply, CommitCleanup
  <2> QED BY <1>1, <1>2, <2>1, <2>2, RetreatType DEF Running
<1>3. CASE fileJournal' = Prepared(op.kind, op.plan) /\ Goto("write")
  <2>1. /\ fileJournal' \in Journal /\ fileJournal'.plan = op.plan /\ fileJournal'.state = "prepared"
        /\ fileJournal' # None
    BY <1>1, <1>3, PreparedShape, Shapes
  <2>2. DataTypes'
    BY <1>1, <2>1 DEF DataTypes, CommitApply, CommitCleanup
  <2>3. pc' = "write" /\ UNCHANGED <<op, after, failed, committed, turn, gwJournal>>
    BY <1>3 DEF Goto, local, CommitApply, CommitCleanup
  <2>4. FilesInPlace' /\ GatewayInPlace'
    BY <1>1, <2>1, <2>3 DEF FilesInPlace, GatewayInPlace, Writing, Reconciling
  <2> QED BY <1>1, <2>2, <2>3, <2>4, AdvanceType DEF Writing, Applying, Running
<1> QED BY <1>2, <1>3 DEF CommitApply, CommitCleanup

\* Between the journal and its removal.
LEMMA WritingType ==
    ASSUME TypeInv, (\E f \in Files : Write(f)) \/ WriteLedger \/ Mark \/ Unlink \/ WriteFault PROVE TypeInv'
<1> USE DEF disk, budget
<1>1. /\ DataTypes /\ pc \in Writing /\ op.plan \in Plans /\ op.kind # "recover"
      /\ fileJournal \in Journal /\ fileJournal.plan = op.plan /\ gwJournal = op.plan
      /\ pc # "unlink" => fileJournal.state = "prepared"
  BY TypeHalves DEF TypeInv, DataTypes, OpInPlace, FilesInPlace, GatewayInPlace, Proper, Writing, Running,
         Write, WriteLedger, Mark, Unlink, WriteFault
<1>2. pc \notin {"idle"} \cup Running
  BY <1>1 DEF Writing, Running
<1>3. ASSUME NEW f \in Files, Write(f) PROVE TypeInv'
  <2>1. DataTypes'
    BY <1>1, <1>3, Texts DEF Write, DataTypes
  <2>2. pc' = "write" /\ UNCHANGED <<op, after, failed, committed, turn, fileJournal, gwJournal>>
    BY <1>3 DEF Write, local
  <2>3. FilesInPlace' /\ GatewayInPlace'
    BY <1>1, <1>3, <2>2 DEF TypeInv, FilesInPlace, GatewayInPlace, Writing, Reconciling, Write
  <2> QED BY <1>1, <1>2, <2>1, <2>2, <2>3, AdvanceType DEF Writing, Applying
<1>4. CASE WriteLedger
  <2>1. StatusAfter(fileJournal) \in {"absent", "applied", "cleaned"}
    BY DEF StatusAfter
  <2>2. DataTypes'
    BY <1>1, <1>4, <2>1 DEF WriteLedger, DataTypes
  <2>3. pc' = "mark" /\ pc = "write" /\ UNCHANGED <<op, after, failed, committed, turn, fileJournal, gwJournal>>
    BY <1>4 DEF WriteLedger, Goto, local
  <2>4. FilesInPlace' /\ GatewayInPlace'
    BY <1>1, <2>3 DEF TypeInv, FilesInPlace, GatewayInPlace, Writing, Reconciling
  <2> QED BY <1>1, <1>2, <2>2, <2>3, <2>4, AdvanceType DEF Writing, Applying
<1>5. CASE Mark
  <2>1. fileJournal' \in Journal /\ fileJournal'.plan = op.plan
    BY <1>1, <1>5 DEF Mark, Journal
  <2>2. DataTypes'
    BY <1>1, <1>5, <2>1 DEF Mark, DataTypes
  <2>3. pc' = "unlink" /\ UNCHANGED <<op, after, failed, committed, turn, gwJournal>>
    BY <1>5 DEF Mark, Goto, local
  <2>4. FilesInPlace' /\ GatewayInPlace'
    BY <1>1, <2>1, <2>3, Shapes DEF FilesInPlace, GatewayInPlace, Writing, Reconciling
  <2> QED BY <1>1, <1>2, <2>2, <2>3, <2>4, AdvanceType DEF Writing, Applying
<1>6. CASE Unlink
  <2>1. DataTypes' /\ CoordinatorTypes'
    BY <1>1, <1>6, TypeHalves DEF Unlink, DataTypes, CoordinatorTypes, TypeInv
  <2>2. OpInPlace'
    BY <1>1, <1>2, <1>6 DEF Unlink, TypeInv, OpInPlace, Proper, Applying, Writing, Running
  <2>3. FilesInPlace' /\ GatewayInPlace'
    BY <1>6 DEF Unlink, FilesInPlace, GatewayInPlace, Writing, Reconciling
  <2> QED BY <2>1, <2>2, <2>3, TypeHalves DEF TypeInv
<1>7. CASE WriteFault
  <2>1. DataTypes'
    BY <1>1, <1>7, FaultCounted DEF WriteFault, DataTypes
  <2> QED BY <1>2, <1>7, <2>1, RetreatType DEF WriteFault
<1> QED BY <1>3, <1>4, <1>5, <1>6, <1>7

\* Executions: the claim, the dispatches and the replies.
LEMMA RunningType ==
    ASSUME TypeInv, Claim \/ Handoff \/ Dispatch \/ Reply \/ RunFault PROVE TypeInv'
<1> USE DEF disk, budget
<1>1. /\ DataTypes /\ pc \in Running /\ op.plan \in Plans /\ op.key \in Keys /\ fileJournal = None
      /\ turn \in 0..MaxTurns
      /\ pc # "await_reply" => turn < MaxTurns
  BY TypeHalves DEF TypeInv, CoordinatorTypes, OpInPlace, FilesInPlace, Proper, Running, Writing,
         Claim, Handoff, Dispatch, Reply, RunFault
<1>2. runs' \in [Plans -> [Keys -> {"none", "pending", "completed"}]]
  <2>1. ASSUME NEW e \in {"pending", "completed"}, runs' = [runs EXCEPT ![op.plan][op.key] = e]
        PROVE  runs' \in [Plans -> [Keys -> {"none", "pending", "completed"}]]
    BY <1>1, <2>1 DEF DataTypes
  <2>2. runs' = runs \/ \E e \in {"pending", "completed"} : runs' = [runs EXCEPT ![op.plan][op.key] = e]
    BY DEF Claim, Handoff, Dispatch, Reply, RunFault
  <2> QED BY <1>1, <2>1, <2>2 DEF DataTypes
<1>3. live' \subseteq Plans \X Keys
  BY <1>1 DEF Claim, Handoff, Dispatch, Reply, RunFault, DataTypes
<1>4. /\ UNCHANGED <<text, status, fileJournal, gwJournal, receipts, gateway, up, quarantined>>
      /\ crashes' \in 0..MaxCrash /\ faults' \in 0..MaxFault /\ outside' \in 0..MaxOutside
  BY <1>1, FaultCounted DEF Claim, Handoff, Dispatch, Reply, RunFault, Stop, DataTypes
<1>5. DataTypes'
  BY <1>1, <1>2, <1>3, <1>4 DEF DataTypes
<1>6. CASE Stop
  BY <1>4, <1>5, <1>6, RetreatType DEF Stop
<1>7. CASE ~Stop
  <2>1. /\ pc' \in Running /\ UNCHANGED <<op, after, failed, committed>>
        /\ turn' \in 0..MaxTurns
        /\ pc' # "await_reply" => turn' < MaxTurns
    <3>1. \/ pc' \in {"dispatch"} /\ turn' = turn /\ pc = "await_staged"
          \/ pc' = "await_reply" /\ turn' = turn + 1 /\ pc = "dispatch"
          \/ pc' = "await_staged" /\ turn' = turn /\ turn < MaxTurns
      BY <1>7 DEF Claim, Handoff, Dispatch, Reply, RunFault, Goto, local
    <3>2. UNCHANGED <<op, after, failed, committed>>
      BY <1>7 DEF Claim, Handoff, Dispatch, Reply, RunFault, Goto, local
    <3> QED BY <1>1, <3>1, <3>2, BoundsAreNat DEF Running
  <2>2. CoordinatorTypes'
    BY <2>1, TypeHalves DEF TypeInv, CoordinatorTypes
  <2>3. OpInPlace'
    BY <1>1, <2>1 DEF TypeInv, OpInPlace, Proper, Applying, Writing, Running
  <2>4. FilesInPlace' /\ GatewayInPlace'
    BY <1>1, <1>4, <2>1 DEF FilesInPlace, GatewayInPlace, Writing, Running, Reconciling
  <2> QED BY <1>5, <2>2, <2>3, <2>4, TypeHalves DEF TypeInv
<1> QED BY <1>6, <1>7

\* A step that leaves the coordinator and both journals alone.
LEMMA AsideType ==
    ASSUME TypeInv, DataTypes', UNCHANGED <<pc, local, fileJournal, gwJournal>> PROVE TypeInv'
<1>1. CoordinatorTypes' /\ OpInPlace' /\ FilesInPlace' /\ GatewayInPlace'
  BY TypeHalves DEF TypeInv, CoordinatorTypes, local, OpInPlace, FilesInPlace, GatewayInPlace
<1> QED BY <1>1, TypeHalves DEF TypeInv

LEMMA OutsideCounted ==
    ASSUME DataTypes, Outside PROVE crashes' \in 0..MaxCrash /\ faults' \in 0..MaxFault /\ outside' \in 0..MaxOutside
BY BoundsAreNat DEF Outside, DataTypes

LEMMA EnvironmentType ==
    ASSUME TypeInv, DeadIsIdle, Environment \/ UNCHANGED vars PROVE TypeInv'
<1> USE DEF disk, budget
<1>1. DataTypes
  BY TypeHalves DEF TypeInv
<1>2. CASE Crash
  <2>1. crashes' \in 0..MaxCrash
    BY <1>1, <1>2, BoundsAreNat DEF Crash, DataTypes
  <2>2. DataTypes'
    BY <1>1, <1>2, <2>1 DEF Crash, DataTypes
  <2> QED BY <1>2, <2>2, RetreatType DEF Crash
<1>3. CASE Restart
  <2>1. DataTypes'
    BY <1>1, <1>3 DEF Restart, DataTypes
  <2>2. op' \in Operation /\ pc' = "recover_files" /\ op'.kind = "recover" /\ op'.plan = None
    BY <1>3, Shapes DEF Restart, Start
  <2>3. CoordinatorTypes' /\ turn' = turn /\ UNCHANGED <<fileJournal, gwJournal>>
    BY <1>3, <2>2, TypeHalves DEF Restart, Start, TypeInv, CoordinatorTypes
  <2>4. pc = "idle"
    BY <1>3 DEF DeadIsIdle, Restart
  <2>5. OpInPlace' /\ FilesInPlace' /\ GatewayInPlace'
    BY <2>2, <2>3, <2>4 DEF TypeInv, OpInPlace, FilesInPlace, GatewayInPlace, Proper, Applying, Writing, Running, Reconciling
  <2> QED BY <2>1, <2>3, <2>5, TypeHalves DEF TypeInv
<1>4. CASE Reconfigure
  <2>1. gateway' \in Gateway
    <3>1. \/ gateway' = [gateway EXCEPT !.other = ~@]
          \/ \E p \in Plans, e \in {"absent", "present", "changed"} : Patched(p, e)
      BY <1>4 DEF Reconfigure
    <3> QED BY <1>1, <3>1, GatewayShape DEF DataTypes
  <2>2. DataTypes'
    BY <1>1, <1>4, <2>1, OutsideCounted DEF Reconfigure, DataTypes
  <2> QED BY <1>4, <2>2, AsideType DEF Reconfigure
<1>5. ASSUME NEW f \in Files, Edit(f) PROVE TypeInv'
  <2>1. text' \in [Files -> SUBSET (Plans \cup {User})]
    BY <1>1, <1>5 DEF Edit, DataTypes
  <2>2. DataTypes'
    BY <1>1, <1>5, <2>1, OutsideCounted DEF Edit, DataTypes
  <2> QED BY <1>5, <2>2, AsideType DEF Edit
<1>6. ASSUME NEW p \in Plans, NEW k \in Keys, ModelEnds(p, k) PROVE TypeInv'
  <2>1. DataTypes'
    BY <1>1, <1>6 DEF ModelEnds, DataTypes
  <2> QED BY <1>6, <2>1, AsideType DEF ModelEnds
<1>7. CASE UNCHANGED vars
  <2>1. DataTypes'
    BY <1>1, <1>7 DEF vars, DataTypes
  <2> QED BY <1>7, <2>1, AsideType DEF vars
<1> QED BY <1>2, <1>3, <1>4, <1>5, <1>6, <1>7 DEF Environment

LEMMA DeadStep == ASSUME TypeOK, DeadIsIdle, [Next]_vars PROVE DeadIsIdle'
<1> USE DEF DeadIsIdle
<1>0. up \in BOOLEAN
  BY DEF TypeOK
<1>1. CASE Request \/ Retry
  BY <1>1 DEF Request, Retry, BeginApply, BeginCleanup, BeginRun, Idle
<1>2. CASE Reconcile
  <2>1. up
    BY <1>2 DEF Reconcile, RecoverFiles, RollBackLedger, RollBack, RolledBack, RecoverGateway, Snapshot,
         Removal, Removed, Settle, Forget
  <2>2. up' = up
    BY <1>2 DEF Reconcile, RecoverFiles, RollBackLedger, RollBack, RolledBack, RecoverGateway, Snapshot,
         Removal, Removed, Settle, Forget
  <2> QED BY <1>0, <2>1, <2>2
<1>3. CASE Operate
  <2>1. up
    BY <1>3 DEF Operate, PlanApply, Register, Patch, Registered, CommitApply, Write, WriteLedger, Mark, Unlink,
         PlanCleanup, PrepareCleanup, CommitCleanup, Claim, Handoff, Dispatch, Reply
  <2>2. up' = up
    BY <1>3 DEF Operate, PlanApply, Register, Patch, Registered, CommitApply, Write, WriteLedger, Mark, Unlink,
         PlanCleanup, PrepareCleanup, CommitCleanup, Claim, Handoff, Dispatch, Reply
  <2> QED BY <1>0, <2>1, <2>2
<1>4. CASE Faults
  <2>1. up /\ up' = up
    BY <1>4 DEF Faults, ReconcileFault, RegisterFault, WriteFault, RunFault
  <2> QED BY <1>0, <2>1
<1>5. CASE Environment \/ UNCHANGED vars
  BY <1>5 DEF Environment, Crash, Reset, Restart, Reconfigure, Edit, ModelEnds, vars
<1> QED BY <1>1, <1>2, <1>3, <1>4, <1>5 DEF Next

LEMMA TypeStep == ASSUME TypeInv, DeadIsIdle, [Next]_vars PROVE TypeInv' /\ DeadIsIdle'
<1>1. Reconcile => TypeInv'
  BY RecoverFilesType, RollBackType, ReconcilingType DEF Reconcile
<1>2. Operate => TypeInv'
  BY PlanType, RegisterType, CommitType, WritingType, RunningType DEF Operate
<1>3. Faults => TypeInv'
  BY ReconcilingType, RegisterType, WritingType, RunningType DEF Faults
<1> QED BY <1>1, <1>2, <1>3, RequestType, EnvironmentType, DeadStep DEF Next, TypeInv

LEMMA TypeInit == Init => TypeInv /\ DeadIsIdle
<1> SUFFICES ASSUME Init PROVE TypeInv /\ DeadIsIdle
  OBVIOUS
<1> USE DEF Init
<1>1. text \in [Files -> SUBSET (Plans \cup {User})] /\ status \in [Plans -> {"absent", "applied", "cleaned"}]
  OBVIOUS
<1>2. gateway \in Gateway /\ runs \in [Plans -> [Keys -> {"none", "pending", "completed"}]]
  BY DEF Gateway
<1>3. 0 \in 0..MaxTurns /\ 0 \in 0..MaxCrash /\ 0 \in 0..MaxFault /\ 0 \in 0..MaxOutside
  BY BoundsAreNat
<1>4. TypeOK
  BY <1>1, <1>2, <1>3, Shapes DEF TypeOK
<1>5. OpInPlace /\ FilesInPlace /\ GatewayInPlace
  BY DEF OpInPlace, FilesInPlace, GatewayInPlace, Proper, Applying, Writing, Running, Reconciling
<1> QED BY <1>4, <1>5 DEF TypeInv, DeadIsIdle

\* Files, ledgers, journals, registrations and the coordinator have their types.
THEOREM TypeCorrect == Spec => []TypeOK
<1>1. TypeInv /\ DeadIsIdle /\ [Next]_vars => TypeInv' /\ DeadIsIdle'
  BY TypeStep
<1>2. TypeInv => TypeOK
  BY DEF TypeInv
<1> QED BY <1>1, <1>2, TypeInit, PTL DEF Spec

-----------------------------------------------------------------------------
(* What a reader sees.  Invariant: the journal tells the truth about the   *)
(* files and the ledger that its transaction has written or not.           *)

IsPrepared == fileJournal # None /\ fileJournal.state = "prepared"

JournalIsTrue ==
    /\ IsPrepared => status[fileJournal.plan] \in {StatusBefore(fileJournal), StatusAfter(fileJournal)}
    /\ pc = "roll_back" => \A f \in PlanFiles[fileJournal.plan] :
                              text[f] \in {Before(fileJournal, f), After(fileJournal, f)}
    /\ pc = "mark" => /\ status[fileJournal.plan] = StatusAfter(fileJournal)
                      /\ \A f \in PlanFiles[fileJournal.plan] : text[f] = After(fileJournal, f)
    /\ pc = "unlink" => fileJournal.state = "committed"

\* An apply that has passed its plan is the first one of its revision.
NotYetApplied == pc \in Applying \cup {"commit"} /\ op.kind = "apply" => status[op.plan] = "absent"

JournalInv == TypeInv /\ DeadIsIdle /\ JournalIsTrue /\ NotYetApplied

\* The steps that touch the files, the ledger or the journal of both.
Forgotten == RecoverFiles /\ fileJournal.state = "committed" /\ fileJournal' = None
Transacts == \/ Forgotten \/ RollBackLedger \/ (\E f \in Files : RollBack(f)) \/ RolledBack
             \/ (CommitApply /\ pc' = "write") \/ (CommitCleanup /\ pc' = "write")
             \/ (\E f \in Files : Write(f)) \/ WriteLedger \/ Mark \/ Unlink
Edits == \E f \in Files : Edit(f)

LEMMA WhoWrites ==
    ASSUME [Next]_vars, ~Transacts, ~Edits PROVE UNCHANGED <<text, status, fileJournal>>
<1> USE DEF Transacts, Forgotten, Edits
<1> USE DEF disk
<1>1. CASE Request \/ Retry
  BY <1>1 DEF Request, Retry, BeginApply, BeginCleanup, BeginRun
<1>2. CASE Reconcile
  <2>1. CASE RecoverFiles
    BY <2>1 DEF RecoverFiles
  <2>2. CASE RecoverGateway \/ Snapshot \/ Removal \/ Removed \/ Settle \/ Forget
    BY <2>2 DEF RecoverGateway, Snapshot, Removal, Removed, Settle, Forget
  <2> QED BY <1>2, <2>1, <2>2 DEF Reconcile
<1>3. CASE Operate
  <2>1. CASE PlanApply \/ Register \/ Patch \/ Registered \/ PlanCleanup \/ PrepareCleanup
    BY <2>1 DEF PlanApply, Register, Patch, Registered, PlanCleanup, PrepareCleanup
  <2>2. CASE Claim \/ Handoff \/ Dispatch \/ Reply
    BY <2>2 DEF Claim, Handoff, Dispatch, Reply
  <2>3. CASE CommitApply \/ CommitCleanup
    BY <2>3 DEF CommitApply, CommitCleanup, Goto
  <2> QED BY <1>3, <2>1, <2>2, <2>3 DEF Operate
<1>4. CASE Faults
  BY <1>4 DEF Faults, ReconcileFault, RegisterFault, WriteFault, RunFault
<1>5. CASE Environment \/ UNCHANGED vars
  BY <1>5 DEF Environment, Crash, Restart, Reconfigure, ModelEnds, vars
<1> QED BY <1>1, <1>2, <1>3, <1>4, <1>5 DEF Next

\* Where any other step may lead.
LEMMA WhoMoves ==
    ASSUME [Next]_vars, ~Transacts
    PROVE  /\ pc' \in {"mark", "unlink", "write"} => pc' = pc
           /\ pc' = "roll_back" => pc' = pc \/ (RecoverFiles /\ Intact)
           /\ pc' \in Applying \cup {"commit"} =>
                 /\ op' = op
                 /\ \/ pc \in Applying \cup {"commit"}
                    \/ pc = "plan" /\ op.kind = "apply" /\ status[op.plan] = "absent"
                    \/ pc = "await_receipt"
<1> USE DEF disk, Transacts, Forgotten
<1>1. CASE Request \/ Retry
  BY <1>1 DEF Request, Retry, BeginApply, BeginCleanup, BeginRun, Start, Applying
<1>2. CASE Reconcile
  <2>1. CASE RecoverFiles
    BY <2>1 DEF RecoverFiles, ReconcileFails, Fail, Stop, Reset, Goto, Applying
  <2>2. CASE RecoverGateway \/ Forget
    BY <2>2 DEF RecoverGateway, Forget, Reconciled, Stop, Reset, Applying
  <2>3. CASE Snapshot \/ Removal \/ Removed \/ Settle
    BY <2>3 DEF Snapshot, Removal, Removed, Settle, ReconcileFails, Fail, Stop, Reset, Goto, Applying
  <2> QED BY <1>2, <2>1, <2>2, <2>3 DEF Reconcile
<1>3. CASE Operate
  <2>1. CASE PlanApply \/ PlanCleanup
    BY <2>1 DEF PlanApply, PlanCleanup, Stop, Reset, Applying
  <2>2. CASE Register \/ Patch \/ Registered \/ PrepareCleanup
    BY <2>2 DEF Register, Patch, Registered, PrepareCleanup, Fail, Goto, local, Applying
  <2>3. CASE CommitApply \/ CommitCleanup
    BY <2>3 DEF CommitApply, CommitCleanup, Fail, Goto, Applying
  <2>4. CASE Claim \/ Handoff \/ Dispatch \/ Reply
    BY <2>4 DEF Claim, Handoff, Dispatch, Reply, Stop, Reset, Goto, Applying
  <2> QED BY <1>3, <2>1, <2>2, <2>3, <2>4 DEF Operate
<1>4. CASE Faults
  BY <1>4 DEF Faults, ReconcileFault, RegisterFault, WriteFault, RunFault, ReconcileFails, Fail, Stop, Reset, Applying
<1>5. CASE Environment \/ UNCHANGED vars
  BY <1>5 DEF Environment, Crash, Reset, Restart, Start, Reconfigure, Edit, ModelEnds, Applying, local, vars
<1> QED BY <1>1, <1>2, <1>3, <1>4, <1>5 DEF Next

LEMMA TransactionJournal ==
    ASSUME JournalInv, Transacts, [Next]_vars
    PROVE  JournalIsTrue' /\ pc' \notin {"idle", "commit"} \cup Applying \cup Reconciling \cup Running
<1> USE DEF IsPrepared, JournalIsTrue, Applying, Reconciling, Running
<1>1. /\ text \in [Files -> SUBSET (Plans \cup {User})] /\ status \in [Plans -> {"absent", "applied", "cleaned"}]
      /\ fileJournal \in Journal \cup {None} /\ PlanFiles \in [Plans -> SUBSET Files]
  BY FilesOfPlans DEF JournalInv, TypeInv, TypeOK
<1>2. CASE Forgotten \/ RolledBack \/ Unlink
  BY <1>2 DEF Forgotten, RecoverFiles, RolledBack, Unlink, Goto, ReconcileFails, Stop, Reset, Fail, Applying
<1>3. CASE RollBackLedger
  <2>1. fileJournal \in Journal /\ fileJournal.plan \in Plans
    BY <1>1, <1>3, Shapes DEF RollBackLedger, JournalInv, TypeInv, FilesInPlace
  <2> QED BY <1>1, <1>3, <2>1 DEF RollBackLedger, JournalInv, Applying
<1>4. ASSUME NEW f \in Files, RollBack(f) PROVE JournalIsTrue' /\ pc' = "roll_back"
  BY <1>1, <1>4 DEF RollBack, JournalInv, Applying
<1>5. CASE (CommitApply \/ CommitCleanup) /\ pc' = "write"
  <2>1. /\ op.plan \in Plans /\ op.kind \in {"apply", "cleanup"} /\ fileJournal' = Prepared(op.kind, op.plan)
        /\ UNCHANGED <<text, status>>
    BY <1>5 DEF CommitApply, CommitCleanup, Fail, JournalInv, TypeInv, OpInPlace, Proper
  <2>2. status[op.plan] = StatusBefore(fileJournal') /\ fileJournal'.plan = op.plan
    BY <1>5, <2>1, PreparedShape DEF StatusBefore, CommitApply, CommitCleanup, Fail, JournalInv, NotYetApplied
  <2>3. (StatusBefore(fileJournal))' = StatusBefore(fileJournal')
    BY DEF StatusBefore
  <2> QED BY <1>5, <2>1, <2>2, <2>3 DEF Applying
<1>6. CASE (\E f \in Files : Write(f)) \/ WriteLedger \/ Mark
  <2>1. fileJournal \in Journal /\ fileJournal.plan = op.plan /\ op.plan \in Plans /\ fileJournal.state = "prepared"
    BY <1>1, <1>6, Shapes DEF Write, WriteLedger, Mark, JournalInv, TypeInv, FilesInPlace, Writing
  <2>2. CASE (\E f \in Files : Write(f)) \/ WriteLedger
    BY <1>1, <2>1, <2>2 DEF Write, WriteLedger, Goto, JournalInv, Applying
  <2>3. CASE Mark
    <3>1. fileJournal'.state = "committed" /\ pc' = "unlink"
      BY <2>1, <2>3 DEF Mark, Goto, Journal
    <3> QED BY <3>1 DEF Applying
  <2> QED BY <1>6, <2>2, <2>3
<1> QED BY <1>2, <1>3, <1>4, <1>5, <1>6 DEF Transacts

LEMMA JournalStep == ASSUME JournalInv, [Next]_vars PROVE JournalInv'
<1>1. TypeInv' /\ DeadIsIdle'
  BY TypeStep DEF JournalInv
<1>2. CASE Transacts
  BY <1>1, <1>2, TransactionJournal DEF JournalInv, NotYetApplied
<1>3. CASE ~Transacts /\ ~Edits
  <2>1. UNCHANGED <<text, status, fileJournal>>
    BY <1>3, WhoWrites
  <2>2. JournalIsTrue'
    BY <1>3, <2>1, WhoMoves DEF JournalInv, JournalIsTrue, IsPrepared, Intact, StatusBefore, StatusAfter, Before, After
  <2>3. NotYetApplied'
    BY <1>3, <2>1, WhoMoves DEF JournalInv, NotYetApplied, TypeInv, OpInPlace, Applying
  <2> QED BY <1>1, <2>2, <2>3 DEF JournalInv
<1>4. ASSUME NEW f \in Files, Edit(f) PROVE JournalInv'
  <2>1. JournalIsTrue'
    BY <1>4 DEF Edit, Synchronous, JournalInv, JournalIsTrue, IsPrepared, StatusBefore, StatusAfter
  <2>2. NotYetApplied'
    BY <1>4 DEF Edit, JournalInv, NotYetApplied, local
  <2> QED BY <1>1, <2>1, <2>2 DEF JournalInv
<1> QED BY <1>2, <1>3, <1>4 DEF Edits

LEMMA JournalInit == Init => JournalInv
BY TypeInit DEF Init, JournalInv, JournalIsTrue, IsPrepared, NotYetApplied, Applying

-----------------------------------------------------------------------------
(* Reading.  Whatever the transaction has written, a reader sees the state *)
(* before it until the journal says committed, and the state after it from *)
(* then on.                                                                *)

\* Every revision is seen whole, or not at all.
Whole == \A p \in Plans : \A f \in PlanFiles[p] : p \in ReadText[f] <=> ReadStatus[p] = "applied"

\* Without a prepared journal a reader sees what is on disk.
LEMMA ReadUnprepared ==
    /\ TypeOK /\ ~IsPrepared => ReadText = text /\ ReadStatus = status
    /\ TypeOK' /\ ~IsPrepared' => ReadText' = text' /\ ReadStatus' = status'
BY DEF TypeOK, IsPrepared, ReadText, ReadStatus, InJournal

\* With one, it sees the files and the ledger as they were before.
LEMMA ReadPrepared ==
    ASSUME TypeOK, IsPrepared
    PROVE  /\ \A f \in Files : ReadText[f] = IF f \in PlanFiles[fileJournal.plan] THEN Before(fileJournal, f) ELSE text[f]
           /\ ReadText \in [Files -> SUBSET (Plans \cup {User})]
           /\ ReadStatus = [status EXCEPT ![fileJournal.plan] = StatusBefore(fileJournal)]
<1>1. fileJournal \in Journal /\ text \in [Files -> SUBSET (Plans \cup {User})]
  BY DEF TypeOK, IsPrepared
<1> QED BY <1>1, Texts DEF IsPrepared, ReadText, ReadStatus, InJournal

LEMMA ReadTypes ==
    ASSUME TypeOK
    PROVE  /\ ReadText \in [Files -> SUBSET (Plans \cup {User})]
           /\ ReadStatus \in [Plans -> {"absent", "applied", "cleaned"}]
<1>1. CASE ~IsPrepared
  BY <1>1, ReadUnprepared DEF TypeOK
<1>2. CASE IsPrepared
  BY <1>2, ReadPrepared DEF TypeOK, StatusBefore
<1> QED BY <1>1, <1>2

\* A transaction that has not committed is not seen.
LEMMA SameReading ==
    ASSUME JournalInv, JournalInv', Transacts, ~Mark PROVE ReadText' = ReadText /\ ReadStatus' = ReadStatus
<1>1. TypeOK /\ TypeOK' /\ PlanFiles \in [Plans -> SUBSET Files]
  BY FilesOfPlans DEF JournalInv, TypeInv
<1>2. CASE Forgotten \/ Unlink
  <2>1. ~IsPrepared /\ ~IsPrepared' /\ text' = text /\ status' = status
    BY <1>2 DEF Forgotten, RecoverFiles, Unlink, IsPrepared, JournalInv, JournalIsTrue
  <2> QED BY <1>1, <2>1, ReadUnprepared
<1>3. CASE RollBackLedger \/ (\E f \in Files : RollBack(f)) \/ (\E f \in Files : Write(f)) \/ WriteLedger
  <2>1. /\ IsPrepared /\ fileJournal' = fileJournal /\ fileJournal \in Journal /\ fileJournal.plan \in Plans
        /\ pc \in Writing => fileJournal.plan = op.plan
    BY <1>1, <1>3, Shapes DEF RollBackLedger, RollBack, Write, WriteLedger, JournalInv, TypeInv, TypeOK,
           FilesInPlace, Writing, IsPrepared
  <2>2. ReadText' = ReadText
    <3>1. \A f \in Files : f \notin PlanFiles[fileJournal.plan] => text'[f] = text[f]
      BY <1>1, <1>3, <2>1 DEF RollBackLedger, RollBack, Write, WriteLedger, TypeOK, Writing
    <3>2. \A f \in Files : (IF InJournal(f) THEN Before(fileJournal, f) ELSE text[f])'
                          = IF InJournal(f) THEN Before(fileJournal, f) ELSE text[f]
      BY <2>1, <3>1 DEF InJournal, IsPrepared, Before
    <3> QED BY <3>2 DEF ReadText
  <2>3. ReadStatus' = ReadStatus
    <3>1. \/ status' = status
          \/ \E s \in {"absent", "applied", "cleaned"} : status' = [status EXCEPT ![fileJournal.plan] = s]
      BY <1>3, <2>1 DEF RollBackLedger, RollBack, Write, WriteLedger, StatusBefore, StatusAfter, Writing
    <3> QED BY <1>1, <2>1, <3>1 DEF ReadStatus, IsPrepared, StatusBefore, TypeOK
  <2> QED BY <2>2, <2>3
<1>4. CASE RolledBack
  <2>1. /\ IsPrepared /\ ~IsPrepared' /\ text' = text /\ status' = status /\ fileJournal.plan \in Plans
        /\ status[fileJournal.plan] = StatusBefore(fileJournal)
        /\ \A f \in PlanFiles[fileJournal.plan] : text[f] = Before(fileJournal, f)
    BY <1>1, <1>4, Shapes DEF RolledBack, JournalInv, TypeInv, TypeOK, FilesInPlace, IsPrepared
  <2>2. ReadText' = text /\ ReadStatus' = status
    BY <1>1, <2>1, ReadUnprepared
  <2>3. ReadText = text /\ ReadStatus = status
    BY <1>1, <2>1, ReadPrepared DEF TypeOK
  <2> QED BY <2>2, <2>3
<1>5. CASE (CommitApply \/ CommitCleanup) /\ pc' = "write"
  <2>1. /\ op.plan \in Plans /\ op.kind \in {"apply", "cleanup"} /\ fileJournal' = Prepared(op.kind, op.plan)
        /\ UNCHANGED <<text, status>> /\ fileJournal = None
    BY <1>5 DEF CommitApply, CommitCleanup, Fail, JournalInv, TypeInv, OpInPlace, FilesInPlace, Proper, Writing
  <2>2. /\ fileJournal' # None /\ fileJournal'.state = "prepared" /\ fileJournal'.plan = op.plan
        /\ fileJournal'.before = text /\ status[op.plan] = StatusBefore(fileJournal')
    BY <1>5, <2>1, PreparedShape, Shapes DEF StatusBefore, CommitApply, CommitCleanup, Fail, JournalInv, NotYetApplied
  <2>3. ReadText' = text /\ ReadStatus' = status
    BY <1>1, <2>1, <2>2 DEF ReadText, ReadStatus, InJournal, Before, StatusBefore, TypeOK
  <2>4. ReadText = text /\ ReadStatus = status
    BY <1>1, <2>1, ReadUnprepared DEF IsPrepared
  <2> QED BY <2>3, <2>4
<1> QED BY <1>2, <1>3, <1>4, <1>5 DEF Transacts

\* The write that marks the journal as committed shows the whole revision, or takes it away.
LEMMA MarkReading ==
    ASSUME JournalInv, JournalInv', Mark
    PROVE  /\ fileJournal.plan \in Plans /\ fileJournal.plan = gwJournal /\ fileJournal.plan = gwJournal'
           /\ \/ Readable!Apply(fileJournal.plan)
              \/ Readable!Cleanup(fileJournal.plan)
<1> DEFINE p == fileJournal.plan
<1>1. /\ TypeOK /\ TypeOK' /\ PlanFiles \in [Plans -> SUBSET Files]
      /\ IsPrepared /\ fileJournal \in Journal /\ p \in Plans /\ p = gwJournal
  BY FilesOfPlans, Shapes DEF Mark, JournalInv, TypeInv, TypeOK, FilesInPlace, GatewayInPlace, IsPrepared
<1>2. ~IsPrepared' /\ text' = text /\ status' = status /\ gwJournal' = gwJournal
  BY <1>1 DEF Mark, IsPrepared, Journal
<1>3. ReadText' = text /\ ReadStatus' = status
  BY <1>1, <1>2, ReadUnprepared
<1>4. /\ status[p] = StatusAfter(fileJournal)
      /\ \A f \in PlanFiles[p] : text[f] = After(fileJournal, f)
  BY DEF Mark, JournalInv, JournalIsTrue
<1>5. /\ ReadStatus = [status EXCEPT ![p] = StatusBefore(fileJournal)]
      /\ \A f \in Files : ReadText[f] = IF f \in PlanFiles[p] THEN Before(fileJournal, f) ELSE text[f]
  BY <1>1, ReadPrepared
<1>6. status \in [Plans -> {"absent", "applied", "cleaned"}] /\ text \in [Files -> SUBSET (Plans \cup {User})]
  BY <1>1 DEF TypeOK
<1>7. ReadStatus[p] = StatusBefore(fileJournal) /\ ReadStatus' = [ReadStatus EXCEPT ![p] = StatusAfter(fileJournal)]
  BY <1>1, <1>3, <1>4, <1>5, <1>6
<1>8. CASE fileJournal.kind = "apply"
  <2>1. \A f \in Files : text[f] = IF f \in PlanFiles[p] THEN ReadText[f] \cup {p} ELSE ReadText[f]
    BY <1>1, <1>4, <1>5, <1>8 DEF After, Before
  <2>2. ReadText' = [f \in Files |-> IF f \in PlanFiles[p] THEN ReadText[f] \cup {p} ELSE ReadText[f]]
    BY <1>3, <1>6, <2>1
  <2>3. Readable!Apply(p)
    BY <1>7, <1>8, <2>2 DEF Readable!Apply, StatusBefore, StatusAfter
  <2> QED BY <1>1, <1>2, <2>3
<1>9. CASE fileJournal.kind = "cleanup"
  <2>1. \A f \in Files : text[f] = IF f \in PlanFiles[p] THEN ReadText[f] \ {p} ELSE ReadText[f]
    BY <1>1, <1>4, <1>5, <1>9 DEF After, Before
  <2>2. ReadText' = [f \in Files |-> IF f \in PlanFiles[p] THEN ReadText[f] \ {p} ELSE ReadText[f]]
    BY <1>3, <1>6, <2>1
  <2>3. Readable!Cleanup(p)
    BY <1>7, <1>9, <2>2 DEF Readable!Cleanup, StatusBefore, StatusAfter
  <2> QED BY <1>1, <1>2, <2>3
<1> QED BY <1>1, <1>8, <1>9, Shapes

\* An edit is seen at once, or when the transaction that it came under is rolled back.
LEMMA EditReading ==
    ASSUME JournalInv, JournalInv', NEW f \in Files, Edit(f)
    PROVE  Readable!Edit(f) \/ (ReadText' = ReadText /\ ReadStatus' = ReadStatus)
<1>1. TypeOK /\ TypeOK' /\ text \in [Files -> SUBSET (Plans \cup {User})]
  BY DEF JournalInv, TypeInv, TypeOK
<1>2. fileJournal' = fileJournal /\ status' = status /\ ReadStatus' = ReadStatus
  BY DEF Edit, ReadStatus, StatusBefore
<1>3. PICK t \in {text[f] \cup {User}, text[f] \ {User}} : text' = [text EXCEPT ![f] = t]
  BY DEF Edit
<1>4. ReadText' = [g \in Files |-> IF InJournal(g) THEN Before(fileJournal, g) ELSE text'[g]]
  BY <1>2 DEF ReadText, InJournal, Before
<1>5. CASE InJournal(f)
  BY <1>1, <1>2, <1>3, <1>4, <1>5 DEF ReadText
<1>6. CASE ~InJournal(f)
  <2>1. ReadText[f] = text[f] /\ ReadText' = [ReadText EXCEPT ![f] = t]
    BY <1>1, <1>3, <1>4, <1>6 DEF ReadText
  <2> QED BY <1>2, <1>3, <2>1 DEF Readable!Edit
<1> QED BY <1>5, <1>6

LEMMA ReadStep ==
    ASSUME JournalInv, [Next]_vars
    PROVE  \/ ReadText' = ReadText /\ ReadStatus' = ReadStatus
           \/ /\ Mark /\ fileJournal.plan \in Plans /\ fileJournal.plan = gwJournal /\ gwJournal' = gwJournal
              /\ \/ Readable!Apply(fileJournal.plan)
                 \/ Readable!Cleanup(fileJournal.plan)
           \/ \E f \in Files : Readable!Edit(f)
<1>1. JournalInv'
  BY JournalStep
<1>2. CASE Transacts
  BY <1>1, <1>2, SameReading, MarkReading
<1>3. CASE Edits
  BY <1>1, <1>3, EditReading DEF Edits
<1>4. CASE ~Transacts /\ ~Edits
  BY <1>4, WhoWrites DEF ReadText, ReadStatus, InJournal, Before, StatusBefore
<1> QED BY <1>2, <1>3, <1>4

LEMMA ReadInit ==
    ASSUME Init
    PROVE  ReadText = text /\ ReadStatus = status /\ Readable!Init /\ Whole
<1>1. TypeOK /\ ~IsPrepared
  BY TypeInit DEF Init, TypeInv, IsPrepared
<1>2. ReadText = text /\ ReadStatus = status
  BY <1>1, ReadUnprepared
<1>3. text \in [Files -> SUBSET {User}] /\ status = [p \in Plans |-> "absent"]
  BY DEF Init
<1>4. Readable!Init
  BY <1>2, <1>3 DEF Readable!Init
<1>5. Whole
  BY <1>2, <1>3, NoneIsNew, FilesOfPlans DEF Whole
<1> QED BY <1>2, <1>4, <1>5

LEMMA WholeStep == ASSUME JournalInv, Whole, [Next]_vars PROVE Whole'
<1>1. /\ ReadText \in [Files -> SUBSET (Plans \cup {User})]
      /\ ReadStatus \in [Plans -> {"absent", "applied", "cleaned"}]
      /\ PlanFiles \in [Plans -> SUBSET Files]
  BY ReadTypes, FilesOfPlans DEF JournalInv, TypeInv
<1>2. CASE ReadText' = ReadText /\ ReadStatus' = ReadStatus
  BY <1>2 DEF Whole
<1>3. ASSUME NEW p \in Plans, Readable!Apply(p) \/ Readable!Cleanup(p) PROVE Whole'
  BY <1>1, <1>3 DEF Whole, Readable!Apply, Readable!Cleanup
<1>4. ASSUME NEW f \in Files, Readable!Edit(f) PROVE Whole'
  BY <1>1, <1>4, NoneIsNew DEF Whole, Readable!Edit
<1> QED BY <1>2, <1>3, <1>4, ReadStep

\* Readers see a revision appear and disappear in one step: what they read is a
\* behaviour of AtomicApply.
THEOREM ReadersSeeRevisionsWhole == Spec => ReadersSeeAtomicApply
<1>1. JournalInv /\ [Next]_vars => JournalInv'
  BY JournalStep
<1>2. JournalInv /\ [Next]_vars => [Readable!Next]_(Readable!avars)
  BY ReadStep DEF Readable!Next, Readable!avars
<1>3. Init => Readable!Init
  BY ReadInit
<1> QED BY <1>1, <1>2, <1>3, JournalInit, PTL DEF Spec, ReadersSeeAtomicApply, Readable!Spec

\* A rollback replaces what the transaction wrote, and never an edit.
THEOREM EditsAreKept == Spec => RollBackKeepsEdits
<1>1. JournalInv /\ [Next]_vars => JournalInv'
  BY JournalStep
<1>2. ASSUME JournalInv, [Next]_vars
      PROVE  [pc = "roll_back" => \A f \in Files : text'[f] # text[f] => text[f] = After(fileJournal, f)]_vars
  <2> SUFFICES ASSUME pc = "roll_back", NEW f \in Files, text'[f] # text[f] PROVE text[f] = After(fileJournal, f)
    OBVIOUS
  <2>1. ~Edits
    BY DEF Edits, Edit, Synchronous
  <2>2. Transacts
    BY <1>2, <2>1, WhoWrites
  <2>3. PICK g \in Files : RollBack(g)
    BY <2>2 DEF Transacts, Forgotten, RecoverFiles, RollBackLedger, RolledBack, CommitApply, CommitCleanup,
           Write, WriteLedger, Mark, Unlink
  <2>4. f = g
    BY <1>2, <2>3 DEF RollBack, JournalInv, TypeInv, TypeOK
  <2> QED BY <1>2, <2>3, <2>4 DEF RollBack, JournalInv, JournalIsTrue
<1> QED BY <1>1, <1>2, JournalInit, PTL DEF Spec, RollBackKeepsEdits

-----------------------------------------------------------------------------
(* The registrations.  Invariant: the plan of the Gateway's journal apart, *)
(* the receipts and the registrations agree with the ledger; and the       *)
(* recovery acts on what the ledger says of that one plan.                 *)

RecoveryIsRight ==
    /\ pc \in Reconciling => (committed <=> status[gwJournal] = "applied")
    /\ pc \in {"await_removal", "await_removed"} => ~committed
    /\ pc \in {"settle", "forget"} /\ ~committed => gateway.entries[gwJournal] = "absent"
    /\ pc = "forget" => (gwJournal \in receipts <=> committed)

GatewayAgrees ==
    \A p \in Plans \ {gwJournal} :
        /\ p \in receipts <=> ReadStatus[p] = "applied"
        /\ gateway.entries[p] # "absent" => ReadStatus[p] = "applied"

SafeInv == JournalInv /\ Whole /\ RecoveryIsRight /\ GatewayAgrees

\* Who takes a registration from one state to another.
LEMMA WhoPatches ==
    ASSUME TypeInv, [Next]_vars
    PROVE  \/ gateway'.entries = gateway.entries
           \/ /\ Removal \/ ReconcileFault
              /\ pc = "await_removal" /\ gwJournal' = gwJournal /\ Patched(gwJournal, "absent") /\ gwJournal \in Plans
           \/ /\ Patch \/ RegisterFault
              /\ pc = "await_patch" /\ gwJournal' = gwJournal /\ Patched(gwJournal, "present") /\ gwJournal \in Plans
           \/ /\ Reconfigure
              /\ \E p \in Plans, e \in {"absent", "present", "changed"} :
                     Patched(p, e) /\ gateway.entries[p] # "absent"
<1> USE DEF disk
<1>1. gateway \in Gateway
  BY DEF TypeInv, TypeOK
<1>2. CASE Request \/ Retry
  BY <1>2 DEF Request, Retry, BeginApply, BeginCleanup, BeginRun
<1>3. CASE Reconcile
  <2>1. CASE Removal
    BY <2>1 DEF Removal, TypeInv, GatewayInPlace, Reconciling
  <2>2. CASE ~Removal
    BY <1>3, <2>2 DEF Reconcile, RecoverFiles, RollBackLedger, RollBack, RolledBack, RecoverGateway, Snapshot,
           Removed, Settle, Forget
  <2> QED BY <2>1, <2>2
<1>4. CASE Operate
  <2>1. CASE Patch
    BY <2>1 DEF Patch, TypeInv, GatewayInPlace, OpInPlace, Applying, Proper
  <2>2. CASE PlanApply \/ Register \/ Registered \/ PlanCleanup \/ PrepareCleanup \/ CommitApply \/ CommitCleanup
    BY <2>2 DEF PlanApply, Register, Registered, PlanCleanup, PrepareCleanup, CommitApply, CommitCleanup
  <2>3. CASE (\E f \in Files : Write(f)) \/ WriteLedger \/ Mark \/ Unlink \/ Claim \/ Handoff \/ Dispatch \/ Reply
    BY <2>3 DEF Write, WriteLedger, Mark, Unlink, Claim, Handoff, Dispatch, Reply
  <2> QED BY <1>4, <2>1, <2>2, <2>3 DEF Operate
<1>5. CASE Faults
  <2>1. CASE ReconcileFault
    BY <2>1 DEF ReconcileFault, TypeInv, GatewayInPlace, Reconciling
  <2>2. CASE RegisterFault
    BY <2>2 DEF RegisterFault, TypeInv, GatewayInPlace, OpInPlace, Applying, Proper
  <2> QED BY <1>5, <2>1, <2>2 DEF Faults, WriteFault, RunFault
<1>6. CASE Reconfigure
  BY <1>1, <1>6, GatewayShape DEF Reconfigure
<1>7. CASE (Environment /\ ~Reconfigure) \/ UNCHANGED vars
  BY <1>7 DEF Environment, Crash, Restart, Edit, ModelEnds, vars
<1> QED BY <1>2, <1>3, <1>4, <1>5, <1>6, <1>7 DEF Next

\* Who writes a receipt, and who the Gateway's journal.
LEMMA WhoKeepsAccounts ==
    ASSUME TypeInv, [Next]_vars
    PROVE  /\ Settle \/ receipts' = receipts
           /\ Forget \/ gwJournal' = gwJournal \/ (gwJournal = None /\ gateway' = gateway /\ (Register \/ PrepareCleanup))
<1> USE DEF disk
<1>1. CASE Request \/ Retry
  BY <1>1 DEF Request, Retry, BeginApply, BeginCleanup, BeginRun
<1>2. CASE Reconcile
  <2>1. CASE RecoverFiles \/ RollBackLedger \/ (\E f \in Files : RollBack(f)) \/ RolledBack \/ RecoverGateway
    BY <2>1 DEF RecoverFiles, RollBackLedger, RollBack, RolledBack, RecoverGateway
  <2>2. CASE Snapshot \/ Removal \/ Removed
    BY <2>2 DEF Snapshot, Removal, Removed
  <2>3. CASE Settle \/ Forget
    BY <2>3 DEF Settle, Forget
  <2> QED BY <1>2, <2>1, <2>2, <2>3 DEF Reconcile
<1>3. CASE Operate
  <2>1. CASE Register \/ PrepareCleanup
    BY <2>1 DEF Register, PrepareCleanup, TypeInv, GatewayInPlace
  <2>2. CASE PlanApply \/ Patch \/ Registered \/ PlanCleanup \/ CommitApply \/ CommitCleanup
    BY <2>2 DEF PlanApply, Patch, Registered, PlanCleanup, CommitApply, CommitCleanup
  <2>3. CASE (\E f \in Files : Write(f)) \/ WriteLedger \/ Mark \/ Unlink \/ Claim \/ Handoff \/ Dispatch \/ Reply
    BY <2>3 DEF Write, WriteLedger, Mark, Unlink, Claim, Handoff, Dispatch, Reply
  <2> QED BY <1>3, <2>1, <2>2, <2>3 DEF Operate
<1>4. CASE Faults
  BY <1>4 DEF Faults, ReconcileFault, RegisterFault, WriteFault, RunFault
<1>5. CASE Environment \/ UNCHANGED vars
  BY <1>5 DEF Environment, Crash, Restart, Reconfigure, Edit, ModelEnds, vars
<1> QED BY <1>1, <1>2, <1>3, <1>4, <1>5 DEF Next

LEMMA AgreesStep == ASSUME SafeInv, [Next]_vars PROVE GatewayAgrees'
<1>1. /\ TypeInv /\ TypeInv' /\ gateway \in Gateway /\ gwJournal \in Plans \cup {None}
      /\ ReadStatus \in [Plans -> {"absent", "applied", "cleaned"}]
  BY ReadTypes, TypeStep DEF SafeInv, JournalInv, TypeInv, TypeOK
<1>2. ASSUME NEW p \in Plans, p # gwJournal' PROVE ReadStatus'[p] = ReadStatus[p]
  BY <1>1, <1>2, ReadStep DEF SafeInv, Readable!Apply, Readable!Cleanup, Readable!Edit
<1>3. ASSUME NEW p \in Plans, p # gwJournal' PROVE p \in receipts' <=> p \in receipts
  <2>1. CASE Settle
    BY <1>3, <2>1 DEF Settle
  <2> QED BY <1>1, <2>1, WhoKeepsAccounts
<1>4. ASSUME NEW p \in Plans, p # gwJournal', gateway'.entries[p] # "absent" PROVE gateway.entries[p] # "absent"
  BY <1>1, <1>4, WhoPatches, GatewayShape
<1>5. ASSUME NEW p \in Plans, p # gwJournal', p # gwJournal
      PROVE  (p \in receipts' <=> ReadStatus'[p] = "applied") /\ (gateway'.entries[p] # "absent" => ReadStatus'[p] = "applied")
  BY <1>2, <1>3, <1>4, <1>5 DEF SafeInv, GatewayAgrees
<1>6. ASSUME NEW p \in Plans, p # gwJournal', p = gwJournal
      PROVE  (p \in receipts' <=> ReadStatus'[p] = "applied") /\ (gateway'.entries[p] # "absent" => ReadStatus'[p] = "applied")
  <2>1. Forget
    BY <1>1, <1>6, WhoKeepsAccounts, NoneIsNew
  <2>2. ~IsPrepared /\ pc = "forget"
    BY <1>1, <2>1 DEF Forget, TypeInv, FilesInPlace, IsPrepared, Writing
  <2>3. ReadStatus = status
    BY <1>1, <2>2, ReadUnprepared DEF TypeInv
  <2>4. (p \in receipts <=> status[p] = "applied") /\ (gateway.entries[p] # "absent" => status[p] = "applied")
    BY <1>6, <2>2 DEF SafeInv, RecoveryIsRight, Reconciling
  <2> QED BY <1>2, <1>3, <1>4, <1>6, <2>3, <2>4
<1> QED BY <1>5, <1>6 DEF GatewayAgrees

\* Where the recovery of the registrations may be after a step.
LEMMA WhoRecovers ==
    ASSUME [Next]_vars, ~Transacts, pc' \in Reconciling
    PROVE  \/ RecoverGateway \/ Snapshot \/ Removal \/ Removed \/ Settle
           \/ UNCHANGED <<pc, gwJournal, committed, receipts>>
<1> USE DEF disk, Transacts, Reconciling
<1>1. CASE Request \/ Retry
  BY <1>1 DEF Request, Retry, BeginApply, BeginCleanup, BeginRun, Start
<1>2. CASE Reconcile
  BY <1>2 DEF Reconcile, RecoverFiles, Goto, ReconcileFails, Fail, Stop, Reset, Forget, Reconciled
<1>3. CASE Operate
  <2>1. CASE PlanApply \/ Register \/ Patch \/ Registered \/ PlanCleanup \/ PrepareCleanup
    BY <2>1 DEF PlanApply, Register, Patch, Registered, PlanCleanup, PrepareCleanup, Stop, Reset, Fail, Goto
  <2>2. CASE CommitApply \/ CommitCleanup \/ Claim \/ Handoff \/ Dispatch \/ Reply
    BY <2>2 DEF CommitApply, CommitCleanup, Claim, Handoff, Dispatch, Reply, Stop, Reset, Fail, Goto
  <2> QED BY <1>3, <2>1, <2>2 DEF Operate
<1>4. CASE Faults
  BY <1>4 DEF Faults, ReconcileFault, RegisterFault, WriteFault, RunFault, ReconcileFails, Fail, Stop, Reset
<1>5. CASE Environment \/ UNCHANGED vars
  BY <1>5 DEF Environment, Crash, Reset, Restart, Start, Reconfigure, Edit, ModelEnds, local, vars
<1> QED BY <1>1, <1>2, <1>3, <1>4, <1>5 DEF Next

LEMMA RecoveryStep == ASSUME SafeInv, [Next]_vars PROVE RecoveryIsRight'
<1>1. TypeInv /\ gateway \in Gateway /\ committed \in BOOLEAN /\ receipts \subseteq Plans
  BY DEF SafeInv, JournalInv, TypeInv, TypeOK
<1>2. CASE pc' \notin Reconciling
  BY <1>2 DEF RecoveryIsRight, Reconciling
<1>3. CASE pc' \in Reconciling
  <2>1. ~Transacts
    BY <1>3, TransactionJournal DEF SafeInv
  <2>2. status' = status
    BY <2>1, WhoWrites DEF Edits, Edit
  <2>3. CASE RecoverGateway
    BY <1>3, <2>2, <2>3 DEF RecoverGateway, RecoveryIsRight, Reconciling, RevisionCommitted, Reconciled, Stop, Reset, disk
  <2>4. CASE Snapshot
    <3>1. /\ gwJournal' = gwJournal /\ gateway' = gateway /\ committed' = committed /\ pc = "await_snapshot"
          /\ \/ pc' = "await_removal" /\ ~committed
             \/ pc' = "settle" /\ gateway.entries[gwJournal] = IF committed THEN "present" ELSE "absent"
      BY <1>3, <2>4 DEF Snapshot, ReconcileFails, Stop, Reset, Fail, Goto, local, Reconciling, disk
    <3> QED BY <1>1, <2>2, <3>1 DEF SafeInv, RecoveryIsRight, Reconciling
  <2>5. CASE Removal \/ Removed
    <3>1. /\ gwJournal' = gwJournal /\ committed' = committed /\ pc \in {"await_removal", "await_removed"}
          /\ \/ pc' = "await_removed"
             \/ pc' = "settle" /\ gateway.entries[gwJournal] = "absent" /\ gateway' = gateway
      BY <1>3, <2>5 DEF Removal, Removed, ReconcileFails, Stop, Reset, Fail, Goto, local, Reconciling, disk
    <3> QED BY <1>1, <2>2, <3>1 DEF SafeInv, RecoveryIsRight, Reconciling
  <2>6. CASE Settle
    <3>1. /\ UNCHANGED <<gwJournal, committed, gateway>> /\ pc = "settle" /\ pc' = "forget"
          /\ receipts' = IF committed THEN receipts \cup {gwJournal} ELSE receipts \ {gwJournal}
      BY <2>6 DEF Settle, Goto, local
    <3> QED BY <1>1, <2>2, <3>1 DEF SafeInv, RecoveryIsRight, Reconciling
  <2>7. CASE UNCHANGED <<pc, gwJournal, committed, receipts>>
    <3>1. gwJournal \in Plans
      BY <1>1, <1>3, <2>7 DEF TypeInv, GatewayInPlace
    <3>2. pc \in {"settle", "forget"} /\ gateway.entries[gwJournal] = "absent" => gateway'.entries[gwJournal] = "absent"
      BY <1>1, <3>1, WhoPatches, GatewayShape
    <3> QED BY <1>1, <1>3, <2>2, <2>7, <3>2 DEF SafeInv, RecoveryIsRight
  <2> QED BY <1>3, <2>1, <2>3, <2>4, <2>5, <2>6, <2>7, WhoRecovers
<1> QED BY <1>2, <1>3

LEMMA SafeStep == ASSUME SafeInv, [Next]_vars PROVE SafeInv'
BY JournalStep, WholeStep, RecoveryStep, AgreesStep DEF SafeInv

LEMMA SafeInit == Init => SafeInv
<1> SUFFICES ASSUME Init PROVE SafeInv
  OBVIOUS
<1>1. RecoveryIsRight /\ GatewayAgrees
  BY ReadInit DEF Init, RecoveryIsRight, GatewayAgrees, Reconciling
<1> QED BY <1>1, JournalInit, ReadInit DEF SafeInv

\* Whoever is let in finds every revision whole in the files, the ledger and the
\* receipts, and no registration of a revision that is not applied.
THEOREM AdmittedFindsRevisionsWhole == Spec => []AdmittedIsSettled
<1>1. SafeInv /\ [Next]_vars => SafeInv'
  BY SafeStep
<1>2. SafeInv => AdmittedIsSettled
  <2> SUFFICES ASSUME SafeInv, Admitted, NEW p \in Plans
               PROVE  /\ \A f \in PlanFiles[p] : p \in text[f] <=> status[p] = "applied"
                      /\ p \in receipts <=> status[p] = "applied"
                      /\ gateway.entries[p] # "absent" => status[p] = "applied"
    BY DEF AdmittedIsSettled
  <2>1. TypeOK /\ ~IsPrepared /\ gwJournal = None /\ p # None
    BY NoneIsNew DEF Admitted, IsPrepared, SafeInv, JournalInv, TypeInv
  <2>2. ReadText = text /\ ReadStatus = status
    BY <2>1, ReadUnprepared
  <2> QED BY <2>1, <2>2 DEF SafeInv, Whole, GatewayAgrees
<1> QED BY <1>1, <1>2, SafeInit, PTL DEF Spec

\* The coordinator itself never takes an applied revision's registration away.
THEOREM RegistrationsOfAppliedStay == Spec => AppliedStaysRegistered
<1>1. SafeInv /\ [Next]_vars => SafeInv'
  BY SafeStep
<1>2. ASSUME SafeInv, [Next]_vars
      PROVE  [\A p \in Plans : status[p] = "applied" /\ gateway.entries[p] = "present"
                                 /\ gateway'.entries[p] # "present" => outside' > outside]_vars
  <2> SUFFICES ASSUME NEW p \in Plans, status[p] = "applied", gateway.entries[p] = "present",
                      gateway'.entries[p] # "present"
               PROVE  outside' > outside
    OBVIOUS
  <2>1. TypeInv /\ gateway \in Gateway /\ outside \in Nat
    BY <1>2, BoundsAreNat DEF SafeInv, JournalInv, TypeInv, TypeOK
  <2>2. pc # "await_removal" \/ p # gwJournal
    BY <1>2 DEF SafeInv, RecoveryIsRight, Reconciling
  <2>3. Reconfigure
    BY <1>2, <2>1, <2>2, WhoPatches, GatewayShape
  <2> QED BY <2>1, <2>3 DEF Reconfigure, Outside
<1> QED BY <1>1, <1>2, SafeInit, PTL DEF Spec, AppliedStaysRegistered

-----------------------------------------------------------------------------
(* Executions.  Invariant: while the journal of a revision's transaction   *)
(* is prepared, none of the revision's model calls is under way.           *)

RunsAreClaimed ==
    /\ pc \in {"dispatch", "await_reply"} => runs[op.plan][op.key] = "pending" /\ status[op.plan] = "applied"
    /\ pc = "await_staged" /\ turn > 0 => runs[op.plan][op.key] = "pending"
    /\ IsPrepared => \A k \in Keys : <<fileJournal.plan, k>> \notin live

RunInv == JournalInv /\ RunsAreClaimed /\ CleanupWaitsForRuns

Runs == Claim \/ Handoff \/ Dispatch \/ Reply \/ RunFault

\* What the steps outside an execution do to the executions.
LEMMA WhoRuns ==
    ASSUME [Next]_vars, ~Runs, ~Transacts
    PROVE  /\ live' \subseteq live /\ runs' = runs
           /\ pc' \in Running => (UNCHANGED <<pc, op, turn>> \/ (pc = "idle" /\ pc' = "await_staged" /\ turn' = turn))
<1> USE DEF disk, Transacts, Runs, Running
<1>1. CASE Request \/ Retry
  BY <1>1 DEF Request, Retry, BeginApply, BeginCleanup, BeginRun, Start, Idle
<1>2. CASE Reconcile
  <2>1. CASE RecoverFiles \/ RecoverGateway \/ Forget
    BY <2>1 DEF RecoverFiles, RecoverGateway, Forget, Goto, ReconcileFails, Reconciled, Fail, Stop, Reset
  <2>2. CASE Snapshot \/ Removal \/ Removed \/ Settle
    BY <2>2 DEF Snapshot, Removal, Removed, Settle, Goto, ReconcileFails, Fail, Stop, Reset
  <2> QED BY <1>2, <2>1, <2>2 DEF Reconcile
<1>3. CASE Operate
  <2>1. CASE PlanApply \/ Register \/ Patch \/ Registered
    BY <2>1 DEF PlanApply, Register, Patch, Registered, Stop, Reset, Fail, Goto
  <2>2. CASE PlanCleanup \/ PrepareCleanup \/ CommitApply \/ CommitCleanup
    BY <2>2 DEF PlanCleanup, PrepareCleanup, CommitApply, CommitCleanup, Stop, Reset, Fail, Goto
  <2> QED BY <1>3, <2>1, <2>2 DEF Operate
<1>4. CASE Faults
  BY <1>4 DEF Faults, ReconcileFault, RegisterFault, WriteFault, ReconcileFails, Fail, Stop, Reset
<1>5. CASE Environment \/ UNCHANGED vars
  BY <1>5 DEF Environment, Crash, Reset, Restart, Start, Reconfigure, Edit, ModelEnds, local, vars
<1> QED BY <1>1, <1>2, <1>3, <1>4, <1>5 DEF Next

\* A transaction is prepared when none of its revision's executions is pending,
\* and only the revision of a prepared one changes its status.
LEMMA TransactionRuns ==
    ASSUME RunInv, Transacts, [Next]_vars PROVE RunsAreClaimed' /\ CleanupWaitsForRuns'
<1>1. pc' \notin Running /\ TypeOK /\ status \in [Plans -> {"absent", "applied", "cleaned"}]
  BY TransactionJournal DEF RunInv, JournalInv, TypeInv, TypeOK
<1>2. UNCHANGED <<live, runs>>
  BY DEF Transacts, Forgotten, RecoverFiles, RollBackLedger, RollBack, RolledBack, CommitApply, CommitCleanup,
         Write, WriteLedger, Mark, Unlink
<1>3. ASSUME IsPrepared' PROVE \A k \in Keys : <<fileJournal'.plan, k>> \notin live
  <2>1. CASE (CommitApply \/ CommitCleanup) /\ pc' = "write"
    <3>1. /\ op.plan \in Plans /\ op.kind \in {"apply", "cleanup"} /\ fileJournal' = Prepared(op.kind, op.plan)
          /\ \/ status[op.plan] # "applied"
             \/ RunsSettled(op.plan)
      BY <2>1 DEF CommitApply, CommitCleanup, Fail, RunInv, JournalInv, NotYetApplied, TypeInv, OpInPlace, Proper
    <3>2. fileJournal'.plan = op.plan
      BY <3>1, PreparedShape DEF RunInv, JournalInv
    <3> QED BY <3>1, <3>2 DEF RunInv, CleanupWaitsForRuns, RunsSettled
  <2>2. CASE RollBackLedger \/ (\E f \in Files : RollBack(f)) \/ (\E f \in Files : Write(f)) \/ WriteLedger
    BY <1>3, <2>2 DEF RollBackLedger, RollBack, Write, WriteLedger, RunInv, RunsAreClaimed, IsPrepared
  <2>3. CASE Forgotten \/ RolledBack \/ Unlink \/ Mark
    <3>1. Mark => fileJournal'.state = "committed"
      BY Shapes DEF Mark, RunInv, JournalInv, TypeInv, FilesInPlace, TypeOK, Writing, Journal
    <3> QED BY <1>3, <2>3, <3>1 DEF Forgotten, RolledBack, Unlink, IsPrepared
  <2> QED BY <2>1, <2>2, <2>3 DEF Transacts
<1>4. CleanupWaitsForRuns'
  <2> SUFFICES ASSUME NEW p \in Plans, NEW k \in Keys, <<p, k>> \in live PROVE runs[p][k] = "pending" /\ status'[p] = "applied"
    BY <1>2 DEF CleanupWaitsForRuns
  <2>1. runs[p][k] = "pending" /\ status[p] = "applied"
    BY DEF RunInv, CleanupWaitsForRuns
  <2>2. CASE RollBackLedger \/ WriteLedger
    <3>1. IsPrepared /\ (WriteLedger => fileJournal.plan = op.plan)
      BY <2>2 DEF RollBackLedger, WriteLedger, RunInv, JournalInv, TypeInv, FilesInPlace, Writing, IsPrepared
    <3>2. p # fileJournal.plan
      BY <3>1 DEF RunInv, RunsAreClaimed
    <3> QED BY <1>1, <2>1, <2>2, <3>1, <3>2 DEF RollBackLedger, WriteLedger
  <2>3. CASE ~RollBackLedger /\ ~WriteLedger
    BY <2>1, <2>3 DEF Transacts, Forgotten, RecoverFiles, RollBack, RolledBack, CommitApply, CommitCleanup, Write, Mark, Unlink
  <2> QED BY <2>2, <2>3
<1> QED BY <1>1, <1>2, <1>3, <1>4 DEF RunsAreClaimed, Running

\* The steps of an execution.
LEMMA ExecutionRuns ==
    ASSUME RunInv, Runs PROVE RunsAreClaimed' /\ CleanupWaitsForRuns'
<1> USE DEF disk
<1>1. /\ TypeOK /\ runs \in [Plans -> [Keys -> {"none", "pending", "completed"}]]
      /\ pc \in Running /\ op.plan \in Plans /\ op.key \in Keys /\ ~IsPrepared
  BY DEF Runs, Claim, Handoff, Dispatch, Reply, RunFault, RunInv, JournalInv, TypeInv, TypeOK, OpInPlace, FilesInPlace,
         Proper, Running, Writing, IsPrepared
<1>2. UNCHANGED <<status, fileJournal>> /\ ~IsPrepared'
  BY <1>1 DEF Runs, Claim, Handoff, Dispatch, Reply, RunFault, IsPrepared
<1>3. CASE Claim
  <2>1. CASE pc' = "dispatch"
    <3>1. /\ runs' = [runs EXCEPT ![op.plan][op.key] = "pending"] /\ op' = op /\ live' = live
          /\ status[op.plan] = "applied" /\ runs[op.plan][op.key] = "none"
      BY <1>3, <2>1 DEF Claim, Staged, Goto, local, Stop, Reset
    <3>2. runs'[op.plan][op.key] = "pending"
      BY <1>1, <3>1
    <3>3. \A p \in Plans, k \in Keys : runs[p][k] = "pending" => runs'[p][k] = "pending"
      BY <1>1, <3>1
    <3> QED BY <1>2, <2>1, <3>1, <3>2, <3>3 DEF RunInv, RunsAreClaimed, CleanupWaitsForRuns
  <2>2. CASE pc' # "dispatch"
    BY <1>2, <1>3, <2>2 DEF Claim, Goto, Stop, Reset, RunInv, RunsAreClaimed, CleanupWaitsForRuns
  <2> QED BY <2>1, <2>2
<1>4. CASE Handoff
  BY <1>2, <1>4 DEF Handoff, Staged, Goto, local, Stop, Reset, RunInv, RunsAreClaimed, CleanupWaitsForRuns
<1>5. CASE Dispatch
  BY <1>1, <1>2, <1>5 DEF Dispatch, RunInv, RunsAreClaimed, CleanupWaitsForRuns
<1>6. CASE Reply
  <2>1. CASE runs' = [runs EXCEPT ![op.plan][op.key] = "completed"] /\ Stop
    <3>1. \A p \in Plans, k \in Keys : <<p, k>> # <<op.plan, op.key>> => runs'[p][k] = runs[p][k]
      BY <1>1, <2>1
    <3>2. live' = live \ {<<op.plan, op.key>>} /\ pc' = "idle"
      BY <1>6, <2>1 DEF Reply, Stop, Reset
    <3> QED BY <1>2, <3>1, <3>2 DEF RunInv, RunsAreClaimed, CleanupWaitsForRuns
  <2>2. CASE runs' = runs
    BY <1>2, <1>6, <2>2 DEF Reply, Goto, local, Stop, Reset, RunInv, RunsAreClaimed, CleanupWaitsForRuns
  <2> QED BY <1>6, <2>1, <2>2 DEF Reply
<1>7. CASE RunFault
  BY <1>2, <1>7 DEF RunFault, Stop, Reset, RunInv, RunsAreClaimed, CleanupWaitsForRuns
<1> QED BY <1>3, <1>4, <1>5, <1>6, <1>7 DEF Runs

LEMMA RunStep == ASSUME RunInv, [Next]_vars PROVE RunInv'
<1>1. JournalInv'
  BY JournalStep DEF RunInv
<1>2. CASE ~Runs /\ ~Transacts
  <2>1. UNCHANGED <<status, fileJournal>>
    BY <1>2, WhoWrites DEF Edits, Edit
  <2>2. /\ live' \subseteq live /\ runs' = runs
        /\ pc' \in Running => (UNCHANGED <<pc, op, turn>> \/ (pc = "idle" /\ pc' = "await_staged" /\ turn' = turn))
    BY <1>2, WhoRuns
  <2>3. pc = "idle" => turn = 0
    BY DEF RunInv, JournalInv, TypeInv, OpInPlace, Running
  <2>4. RunsAreClaimed'
    BY <2>1, <2>2, <2>3 DEF RunInv, RunsAreClaimed, Running, IsPrepared
  <2>5. CleanupWaitsForRuns'
    BY <2>1, <2>2 DEF RunInv, CleanupWaitsForRuns
  <2> QED BY <1>1, <2>4, <2>5 DEF RunInv
<1> QED BY <1>1, <1>2, TransactionRuns, ExecutionRuns DEF RunInv

\* A model call of a Template execution is never left without its claim, and its
\* revision is not cleaned under it, whoever waits for the reply.
THEOREM CleanupWaits == Spec => []CleanupWaitsForRuns
<1>1. Init => RunInv
  BY JournalInit DEF Init, RunInv, RunsAreClaimed, CleanupWaitsForRuns, IsPrepared
<1>2. RunInv /\ [Next]_vars => RunInv'
  BY RunStep
<1>3. RunInv => CleanupWaitsForRuns
  BY DEF RunInv
<1> QED BY <1>1, <1>2, <1>3, PTL DEF Spec
=============================================================================
