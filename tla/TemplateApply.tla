---------------------------- MODULE TemplateApply ----------------------------
(***************************************************************************)
(* The Template coordinator of one workspace                               *)
(* (lib/template-apply-coordinator.ts) with what it drives: the file       *)
(* transaction and its journal (workspace-file-transaction.ts), the        *)
(* revision ledger (template-revisions.ts), the Gateway registrations with *)
(* a journal and receipts of their own (template-gateway-transaction.ts),  *)
(* the execution receipts (template-execution-receipts.ts) and the         *)
(* recovery at startup (template-startup-recovery.ts and                   *)
(* template-recovery-worker.ts).                                           *)
(*                                                                         *)
(* The coordinator runs one operation at a time, so one program counter    *)
(* stands for it.  A step lasts from one await, or from one durable write, *)
(* to the next: the process may die between any two.                       *)
(***************************************************************************)
EXTENDS Integers, FiniteSets

CONSTANTS Plans,        \* the apply requests, each with its idempotency key
          Keys,         \* the idempotency keys of Template executions
          Files,        \* the resource files
          PlanFiles,    \* PlanFiles[p]: the files that the plan p mutates
          Shared,       \* the index files several plans append a section to
          User,         \* text that the user wrote
          None,         \* no plan, no key, no journal
          MaxCrash,     \* bound: times the process dies
          MaxFault,     \* bound: Gateway calls and file writes that fail
          MaxOutside,   \* bound: edits by the user, changes by other Gateway clients
          MaxTurns      \* bound: model calls of one execution

\* The operation of the coordinator, the file journal, and the Gateway's configuration.
Operation == [kind : {"none", "apply", "cleanup", "run", "recover"}, plan : Plans \cup {None},
              key : Keys \cup {None}]
Journal == [kind : {"apply", "cleanup"}, plan : Plans, state : {"prepared", "committed"},
            before : [Files -> SUBSET (Plans \cup {User})]]
Gateway == [entries : [Plans -> {"absent", "present", "changed"}], other : BOOLEAN]

ASSUME NoneIsNew == None \notin Plans \cup Keys \cup Journal /\ User \notin Plans
ASSUME FilesOfPlans == PlanFiles \in [Plans -> SUBSET Files] /\ Shared \subseteq Files
ASSUME OwnFilesAreOwn == \A p, q \in Plans : p # q => PlanFiles[p] \cap PlanFiles[q] \subseteq Shared
ASSUME BoundsAreNat == {MaxCrash, MaxFault, MaxOutside, MaxTurns} \subseteq Nat /\ MaxTurns > 0

VARIABLES text,          \* text[f]: whose text the file f carries
          status,        \* the revision ledger, the last file of every transaction
          fileJournal,   \* .clawmax/template-transaction.json, or None
          gwJournal,     \* the plan of .clawmax/template-gateway-transaction.json, or None
          receipts,      \* the plans with a file in .clawmax/template-gateway-revisions
          runs,          \* runs[p][k]: the entry of the key k in p's execution ledger
          gateway,       \* the Gateway's configuration: p's entries, and everything else
          live,          \* <<p, k>>: a model call for that execution is under way
          up,            \* the Dashboard process runs
          quarantined,   \* recoveringOrFailed has the workspace
          pc, op,        \* where the coordinator is, and in which operation
          after,         \* the reconciliation that ends the operation, not the one before it
          failed,        \* the catch clause runs: the operation will throw
          committed,     \* what revisionCommitted answered before the snapshot
          seen,          \* the configuration whose hash the next patch carries
          base,          \* the files the plan was computed from
          turn,          \* model calls of the current execution
          crashes, faults, outside

disk == <<text, status, fileJournal, gwJournal, receipts, runs>>
local == <<op, after, failed, committed, seen, base, turn>>
budget == <<crashes, faults, outside>>
vars == <<disk, gateway, live, up, quarantined, pc, local, budget>>

NoOp == [kind |-> "none", plan |-> None, key |-> None]
OwnFiles(p) == PlanFiles[p] \ Shared

----------------------------------------------------------------------------
(* The journal of the file transaction *)

\* What the entry of the file f replaces, and what it puts there.
Before(j, f) == j.before[f]
After(j, f) == IF j.kind = "apply" THEN j.before[f] \cup {j.plan} ELSE j.before[f] \ {j.plan}
StatusBefore(j) == IF j.kind = "apply" THEN "absent" ELSE "applied"
StatusAfter(j) == IF j.kind = "apply" THEN "applied" ELSE "cleaned"

Prepared(kind, p) == [kind |-> kind, plan |-> p, state |-> "prepared", before |-> text]

\* Variant: the journal is rolled back whatever its files carry now.
IntactUnchecked == TRUE

\* Variant: a file that still carries its old text counts as somebody's edit.
IntactOnlyWritten == \A f \in PlanFiles[fileJournal.plan] : text[f] = After(fileJournal, f)

\* Nobody but the transaction has written the files of the journal.
Intact == \A f \in PlanFiles[fileJournal.plan] :
             \/ text[f] = After(fileJournal, f)
             \/ fileJournal.state = "prepared" /\ text[f] = Before(fileJournal, f)

----------------------------------------------------------------------------
(* How an operation starts, fails and ends *)

\* exclusive(): a second operation on the workspace is refused as busy.
Idle == up /\ pc = "idle"

Goto(l) == pc' = l /\ UNCHANGED local

Start(kind, p, k, l) ==
    /\ op' = [kind |-> kind, plan |-> p, key |-> k] /\ pc' = l
    /\ UNCHANGED <<after, failed, committed, seen, base, turn>>

\* Variant: the outcome of a turn outlives its operation.
ResetButTurn == /\ pc' = "idle" /\ op' = NoOp /\ after' = FALSE /\ failed' = FALSE /\ committed' = FALSE
                /\ seen' = None /\ base' = None /\ UNCHANGED turn

\* The operation returns or throws; what it held in memory is forgotten.
Reset == /\ pc' = "idle" /\ op' = NoOp /\ after' = FALSE /\ failed' = FALSE /\ committed' = FALSE
         /\ seen' = None /\ base' = None /\ turn' = 0
Stop == Reset /\ UNCHANGED quarantined

\* The catch clause of apply and of cleanup: reconcile, then rethrow.
Fail == /\ after' = TRUE /\ failed' = TRUE /\ pc' = "recover_files"
        /\ UNCHANGED <<op, committed, seen, base, turn>>

\* Variant: a failed reconciliation is tried again at once.
ReconcileForEver == Fail /\ UNCHANGED quarantined

\* Reconciling failed.  Inside the try block the catch clause reconciles once
\* more; before it, and in the catch clause, the operation throws.
ReconcileFails == IF after /\ ~failed THEN Fail /\ UNCHANGED quarantined ELSE Stop

\* Reconciled: the operation proper begins, or the operation ends.
Reconciled == \/ /\ op.kind = "recover"
                 /\ quarantined' = FALSE
                 /\ Reset
              \/ op.kind # "recover" /\ after /\ Stop
              \/ /\ op.kind # "recover" /\ ~after
                 /\ pc' = "plan" /\ UNCHANGED <<local, quarantined>>

Fault == faults < MaxFault /\ faults' = faults + 1 /\ UNCHANGED <<crashes, outside>>


----------------------------------------------------------------------------
(* The state at the start *)

Init == /\ text \in {t \in [Files -> SUBSET {User}] : \A f \in Files \ Shared : t[f] = {}}
        /\ status = [p \in Plans |-> "absent"]
        /\ fileJournal = None /\ gwJournal = None /\ receipts = {}
        /\ runs = [p \in Plans |-> [k \in Keys |-> "none"]]
        /\ gateway = [entries |-> [p \in Plans |-> "absent"], other |-> FALSE]
        /\ live = {} /\ up = TRUE /\ quarantined = FALSE
        /\ pc = "idle" /\ op = NoOp /\ after = FALSE /\ failed = FALSE /\ committed = FALSE
        /\ seen = None /\ base = None /\ turn = 0
        /\ crashes = 0 /\ faults = 0 /\ outside = 0

----------------------------------------------------------------------------
(* Requests *)

\* A request is admitted when no recovery of the workspace is pending.
BeginApply(p) == /\ Idle /\ ~quarantined /\ Start("apply", p, None, "recover_files")
                 /\ UNCHANGED <<disk, gateway, live, up, quarantined, budget>>

\* cleanup() first looks the revision up, and the ledger cannot be read while
\* a file journal is there.
BeginCleanup(p) == /\ Idle /\ ~quarantined /\ fileJournal = None /\ status[p] # "absent"
                   /\ Start("cleanup", p, None, "recover_files")
                   /\ UNCHANGED <<disk, gateway, live, up, quarantined, budget>>

\* What verifyStaged finds on disk: the revision, its files, its receipt, no journal.
Staged(p) == /\ fileJournal = None /\ gwJournal = None /\ p \in receipts
             /\ status[p] = "applied" /\ \A f \in OwnFiles(p) : text[f] = {p}

BeginRun(p, k) == /\ Idle /\ ~quarantined /\ Staged(p)
                  /\ Start("run", p, k, "await_staged")
                  /\ UNCHANGED <<disk, gateway, live, up, quarantined, budget>>

\* A quarantined workspace is recovered again after 30 seconds, then less and less often.
Retry == /\ Idle /\ quarantined /\ Start("recover", None, None, "recover_files")
         /\ UNCHANGED <<disk, gateway, live, up, quarantined, budget>>

----------------------------------------------------------------------------
(* reconcile(): first the files, then the Gateway *)

RecoverFiles ==
    /\ up /\ pc = "recover_files"
    /\ \/ fileJournal = None /\ Goto("recover_gateway") /\ UNCHANGED <<fileJournal, quarantined>>
       \/ fileJournal # None /\ ~Intact /\ ReconcileFails /\ UNCHANGED fileJournal
       \/ /\ fileJournal # None /\ Intact /\ fileJournal.state = "prepared"
          /\ Goto("roll_back") /\ UNCHANGED <<fileJournal, quarantined>>
       \/ /\ fileJournal # None /\ Intact /\ fileJournal.state = "committed"
          /\ fileJournal' = None /\ Goto("recover_gateway") /\ UNCHANGED quarantined
    /\ UNCHANGED <<text, status, gwJournal, receipts, runs, gateway, live, up, budget>>

\* The ledger is written back first, as the last entry of the journal.
RollBackLedger ==
    /\ up /\ pc = "roll_back"
    /\ status[fileJournal.plan] = StatusAfter(fileJournal)
    /\ status' = [status EXCEPT ![fileJournal.plan] = StatusBefore(fileJournal)]
    /\ UNCHANGED <<text, fileJournal, gwJournal, receipts, runs, gateway, live, up, quarantined,
                   pc, local, budget>>

RollBack(f) ==
    /\ up /\ pc = "roll_back"
    /\ status[fileJournal.plan] = StatusBefore(fileJournal)
    /\ f \in PlanFiles[fileJournal.plan] /\ text[f] # Before(fileJournal, f)
    /\ text' = [text EXCEPT ![f] = Before(fileJournal, f)]
    /\ UNCHANGED <<status, fileJournal, gwJournal, receipts, runs, gateway, live, up, quarantined,
                   pc, local, budget>>

\* Variant: the files are left as they are.
RolledBackLedgerOnly ==
    /\ up /\ pc = "roll_back"
    /\ status[fileJournal.plan] = StatusBefore(fileJournal)
    /\ fileJournal' = None /\ Goto("recover_gateway")
    /\ UNCHANGED <<text, status, gwJournal, receipts, runs, gateway, live, up, quarantined, budget>>

RolledBack ==
    /\ up /\ pc = "roll_back"
    /\ status[fileJournal.plan] = StatusBefore(fileJournal)
    /\ \A f \in PlanFiles[fileJournal.plan] : text[f] = Before(fileJournal, f)
    /\ fileJournal' = None /\ Goto("recover_gateway")
    /\ UNCHANGED <<text, status, gwJournal, receipts, runs, gateway, live, up, quarantined, budget>>

\* Variant: a cleaned revision counts as well.
CommittedEvenIfCleaned(p) == status[p] # "absent"

\* Variant: the Gateway's receipt decides.
CommittedByReceipt(p) == p \in receipts

\* The revision of the plan is in the ledger and was not cleaned.
RevisionCommitted(p) == status[p] = "applied"

\* The ledger is asked before the snapshot is awaited.
RecoverGateway ==
    /\ up /\ pc = "recover_gateway"
    /\ \/ gwJournal = None /\ Reconciled
       \/ /\ gwJournal # None
          /\ committed' = RevisionCommitted(gwJournal) /\ pc' = "await_snapshot"
          /\ UNCHANGED <<op, after, failed, seen, base, turn, quarantined>>
    /\ UNCHANGED <<disk, gateway, live, up, budget>>

Snapshot ==
    /\ up /\ pc = "await_snapshot"
    /\ LET entry == gateway.entries[gwJournal] IN
       \/ /\ entry = "changed" \/ (entry = "absent" /\ committed)
          /\ ReconcileFails
       \/ /\ entry = "present" /\ ~committed
          /\ seen' = gateway /\ pc' = "await_removal"
          /\ UNCHANGED <<op, after, failed, committed, base, turn, quarantined>>
       \/ /\ entry = IF committed THEN "present" ELSE "absent"
          /\ Goto("settle") /\ UNCHANGED quarantined
    /\ UNCHANGED <<disk, gateway, live, up, budget>>

\* The Gateway patches its configuration only if its hash is the one it was sent.
Patched(p, entry) == gateway' = [gateway EXCEPT !.entries[p] = entry]

Removal ==
    /\ up /\ pc = "await_removal"
    /\ \/ gateway = seen /\ Patched(gwJournal, "absent") /\ Goto("await_removed") /\ UNCHANGED quarantined
       \/ gateway # seen /\ ReconcileFails /\ UNCHANGED gateway
    /\ UNCHANGED <<disk, live, up, budget>>

Removed ==
    /\ up /\ pc = "await_removed"
    /\ \/ gateway.entries[gwJournal] = "absent" /\ Goto("settle") /\ UNCHANGED quarantined
       \/ gateway.entries[gwJournal] # "absent" /\ ReconcileFails
    /\ UNCHANGED <<disk, gateway, live, up, budget>>

Settle == /\ up /\ pc = "settle"
          /\ receipts' = IF committed THEN receipts \cup {gwJournal} ELSE receipts \ {gwJournal}
          /\ Goto("forget")
          /\ UNCHANGED <<text, status, fileJournal, gwJournal, runs, gateway, live, up, quarantined, budget>>

Forget == /\ up /\ pc = "forget"
          /\ gwJournal' = None /\ Reconciled
          /\ UNCHANGED <<text, status, fileJournal, receipts, runs, gateway, live, up, budget>>

\* A call to the Gateway fails, and the patch it carried was applied or not.
ReconcileFault ==
    /\ up /\ pc \in {"await_snapshot", "await_removal", "await_removed"} /\ Fault /\ ReconcileFails
    /\ \/ UNCHANGED gateway
       \/ pc = "await_removal" /\ gateway = seen /\ Patched(gwJournal, "absent")
    /\ UNCHANGED <<disk, live, up>>

----------------------------------------------------------------------------
(* apply *)

\* An earlier revision of this key is answered from the ledger; a plan that is
\* stale, unauthorised or in conflict with a file is refused.
PlanApply ==
    /\ up /\ pc = "plan" /\ op.kind = "apply"
    /\ \/ /\ status[op.plan] = "absent" /\ \A f \in OwnFiles(op.plan) : text[f] = {}
          /\ base' = text /\ pc' = "await_before"
          /\ UNCHANGED <<op, after, failed, committed, seen, turn, quarantined>>
       \/ Stop
    /\ UNCHANGED <<disk, gateway, live, up, budget>>

\* register(): the journal is written before the patch is sent.
Register ==
    /\ up /\ pc = "await_before"
    /\ \/ /\ gateway.entries[op.plan] = "absent"
          /\ gwJournal' = op.plan /\ seen' = gateway /\ pc' = "await_patch"
          /\ UNCHANGED <<op, after, failed, committed, base, turn>>
       \/ Fail /\ UNCHANGED gwJournal
    /\ UNCHANGED <<text, status, fileJournal, receipts, runs, gateway, live, up, quarantined, budget>>

Patch ==
    /\ up /\ pc = "await_patch"
    /\ \/ gateway = seen /\ Patched(op.plan, "present") /\ Goto("await_after")
       \/ gateway # seen /\ Fail /\ UNCHANGED gateway
    /\ UNCHANGED <<disk, live, up, quarantined, budget>>

Registered ==
    /\ up /\ pc = "await_after"
    /\ \/ gateway.entries[op.plan] = "present" /\ Goto("commit")
       \/ gateway.entries[op.plan] # "present" /\ Fail
    /\ UNCHANGED <<disk, gateway, live, up, quarantined, budget>>

RegisterFault ==
    /\ up /\ pc \in {"await_before", "await_patch", "await_after", "await_receipt"} /\ Fault /\ Fail
    /\ \/ UNCHANGED gateway
       \/ pc = "await_patch" /\ gateway = seen /\ Patched(op.plan, "present")
    /\ UNCHANGED <<disk, live, up, quarantined>>

\* The files are those the plan was made from.
Fresh(p) == \A f \in PlanFiles[p] : text[f] = base[f]

\* The plan is computed again, and refused when it changed or when the actor
\* lost the authority; then the file journal is written.
CommitApply ==
    /\ up /\ pc = "commit" /\ op.kind = "apply"
    /\ \/ /\ Fresh(op.plan) /\ fileJournal' = Prepared("apply", op.plan) /\ Goto("write")
       \/ Fail /\ UNCHANGED fileJournal
    /\ UNCHANGED <<text, status, gwJournal, receipts, runs, gateway, live, up, quarantined, budget>>

----------------------------------------------------------------------------
(* commitWorkspaceFiles *)

Write(f) ==
    /\ up /\ pc = "write"
    /\ f \in PlanFiles[op.plan] /\ text[f] # After(fileJournal, f)
    /\ text' = [text EXCEPT ![f] = After(fileJournal, f)]
    /\ UNCHANGED <<status, fileJournal, gwJournal, receipts, runs, gateway, live, up, quarantined,
                   pc, local, budget>>

WriteLedger ==
    /\ up /\ pc = "write"
    /\ \A f \in PlanFiles[op.plan] : text[f] = After(fileJournal, f)
    /\ status' = [status EXCEPT ![op.plan] = StatusAfter(fileJournal)] /\ Goto("mark")
    /\ UNCHANGED <<text, fileJournal, gwJournal, receipts, runs, gateway, live, up, quarantined, budget>>

Mark ==
    /\ up /\ pc = "mark"
    /\ fileJournal' = [fileJournal EXCEPT !.state = "committed"] /\ Goto("unlink")
    /\ UNCHANGED <<text, status, gwJournal, receipts, runs, gateway, live, up, quarantined, budget>>

\* Committed: the coordinator reconciles the Gateway with the ledger.
Unlink ==
    /\ up /\ pc = "unlink"
    /\ fileJournal' = None /\ after' = TRUE /\ pc' = "recover_files"
    /\ UNCHANGED <<op, failed, committed, seen, base, turn, text, status, gwJournal, receipts, runs,
                   gateway, live, up, quarantined, budget>>

\* A write throws: the transaction is recovered, and the coordinator reconciles.
WriteFault ==
    /\ up /\ pc \in {"write", "mark", "unlink"} /\ Fault /\ Fail
    /\ UNCHANGED <<disk, gateway, live, up, quarantined>>

----------------------------------------------------------------------------
(* cleanup *)

\* Variant: an execution without an outcome does not keep its agents.
RunsNotChecked(p) == TRUE

\* assertTemplateExecutionsSettled.
RunsSettled(p) == \A k \in Keys : runs[p][k] # "pending"

\* The revision's own files are as it wrote them; an index still has its section.
Cleanable(p) == \A f \in PlanFiles[p] : IF f \in Shared THEN p \in text[f] ELSE text[f] = {p}

PlanCleanup ==
    /\ up /\ pc = "plan" /\ op.kind = "cleanup"
    /\ \/ /\ status[op.plan] = "applied" /\ RunsSettled(op.plan) /\ Cleanable(op.plan)
          /\ base' = text /\ pc' = "await_receipt"
          /\ UNCHANGED <<op, after, failed, committed, seen, turn, quarantined>>
       \/ Stop
    /\ UNCHANGED <<disk, gateway, live, up, budget>>

\* prepareCleanup(): the receipt becomes the journal.
PrepareCleanup ==
    /\ up /\ pc = "await_receipt"
    /\ \/ /\ op.plan \in receipts /\ gateway.entries[op.plan] = "present"
          /\ gwJournal' = op.plan /\ Goto("commit")
       \/ Fail /\ UNCHANGED gwJournal
    /\ UNCHANGED <<text, status, fileJournal, receipts, runs, gateway, live, up, quarantined, budget>>

CommitCleanup ==
    /\ up /\ pc = "commit" /\ op.kind = "cleanup"
    /\ \/ /\ status[op.plan] = "applied" /\ RunsSettled(op.plan) /\ Fresh(op.plan)
          /\ fileJournal' = Prepared("cleanup", op.plan) /\ Goto("write")
       \/ Fail /\ UNCHANGED fileJournal
    /\ UNCHANGED <<text, status, gwJournal, receipts, runs, gateway, live, up, quarantined, budget>>

----------------------------------------------------------------------------
(* executeNoToolsAgent and executeNoToolsGroup *)

\* The registrations are verified; the claim is written before the model is called.
Claim ==
    /\ up /\ pc = "await_staged" /\ turn = 0
    /\ \/ /\ Staged(op.plan) /\ gateway.entries[op.plan] = "present"
          /\ runs[op.plan][op.key] = "none" /\ RunsSettled(op.plan)
          /\ runs' = [runs EXCEPT ![op.plan][op.key] = "pending"] /\ Goto("dispatch")
       \/ Stop /\ UNCHANGED runs
    /\ UNCHANGED <<text, status, fileJournal, gwJournal, receipts, gateway, live, up, quarantined, budget>>

\* The next member of a Group: everything is verified again at every handoff.
Handoff ==
    /\ up /\ pc = "await_staged" /\ turn > 0
    /\ \/ Staged(op.plan) /\ gateway.entries[op.plan] = "present" /\ Goto("dispatch")
       \/ Stop
    /\ UNCHANGED <<disk, gateway, live, up, quarantined, budget>>

Dispatch ==
    /\ up /\ pc = "dispatch"
    /\ live' = live \cup {<<op.plan, op.key>>} /\ turn' = turn + 1 /\ pc' = "await_reply"
    /\ UNCHANGED <<disk, gateway, up, quarantined, op, after, failed, committed, seen, base, budget>>

\* A reply: the execution is completed, or a Group hands on to its next member.
Reply ==
    /\ up /\ pc = "await_reply" /\ <<op.plan, op.key>> \in live
    /\ live' = live \ {<<op.plan, op.key>>}
    /\ \/ runs' = [runs EXCEPT ![op.plan][op.key] = "completed"] /\ Stop
       \/ turn < MaxTurns /\ Goto("await_staged") /\ UNCHANGED <<runs, quarantined>>
    /\ UNCHANGED <<text, status, fileJournal, gwJournal, receipts, gateway, up, budget>>

\* The reply is lost or not valid, or the handoff is refused: the claim stays
\* pending, and the model may still be working.
RunFault ==
    /\ up /\ pc \in {"await_staged", "await_reply"} /\ Fault /\ Stop
    /\ UNCHANGED <<disk, gateway, live, up>>

----------------------------------------------------------------------------
(* The process, the Gateway and the user *)

Crash ==
    /\ up /\ crashes < MaxCrash /\ crashes' = crashes + 1
    /\ up' = FALSE /\ Reset
    /\ UNCHANGED <<disk, gateway, live, quarantined, faults, outside>>

\* recoverTemplatesBeforeStartup: before anything is served.
Restart ==
    /\ ~up /\ up' = TRUE /\ quarantined' = TRUE
    /\ Start("recover", None, None, "recover_files")
    /\ UNCHANGED <<disk, gateway, live, budget>>

\* A model call that nobody waits for comes to its end.
ModelEnds(p, k) ==
    /\ <<p, k>> \in live /\ ~(pc = "await_reply" /\ op.plan = p /\ op.key = k)
    /\ live' = live \ {<<p, k>>}
    /\ UNCHANGED <<disk, gateway, up, quarantined, pc, local, budget>>

Outside == outside < MaxOutside /\ outside' = outside + 1 /\ UNCHANGED <<crashes, faults>>

\* The process does nothing else between these steps: no await is among them.
Synchronous == pc \in {"roll_back", "write", "mark", "unlink"}

\* The user edits a file, or takes the edit back.
Edit(f) ==
    /\ ~Synchronous /\ Outside
    /\ \E t \in {text[f] \cup {User}, text[f] \ {User}} : t # text[f] /\ text' = [text EXCEPT ![f] = t]
    /\ UNCHANGED <<status, fileJournal, gwJournal, receipts, runs, gateway, live, up, quarantined, pc, local>>

\* Another client patches the configuration: elsewhere, or the plan's entries.
Reconfigure ==
    /\ Outside
    /\ \/ gateway' = [gateway EXCEPT !.other = ~@]
       \/ \E p \in Plans : \/ gateway.entries[p] = "present" /\ \E e \in {"changed", "absent"} : Patched(p, e)
                           \/ gateway.entries[p] = "changed" /\ \E e \in {"present", "absent"} : Patched(p, e)
    /\ UNCHANGED <<disk, live, up, quarantined, pc, local>>

----------------------------------------------------------------------------
Request == \E p \in Plans : BeginApply(p) \/ BeginCleanup(p) \/ \E k \in Keys : BeginRun(p, k)

Reconcile == \/ RecoverFiles \/ RollBackLedger \/ (\E f \in Files : RollBack(f)) \/ RolledBack
             \/ RecoverGateway \/ Snapshot \/ Removal \/ Removed \/ Settle \/ Forget

Operate == \/ PlanApply \/ Register \/ Patch \/ Registered \/ CommitApply
           \/ (\E f \in Files : Write(f)) \/ WriteLedger \/ Mark \/ Unlink
           \/ PlanCleanup \/ PrepareCleanup \/ CommitCleanup
           \/ Claim \/ Handoff \/ Dispatch \/ Reply

Faults == ReconcileFault \/ RegisterFault \/ WriteFault \/ RunFault

Environment == \/ Crash \/ Restart \/ Reconfigure \/ (\E f \in Files : Edit(f))
               \/ \E p \in Plans, k \in Keys : ModelEnds(p, k)

Next == Request \/ Retry \/ Reconcile \/ Operate \/ Faults \/ Environment

Spec == Init /\ [][Next]_vars

\* The program goes on when it can, every call to the Gateway ends (its RPCs
\* have a timeout), and the recovery worker's timer fires.  Nobody owes the
\* system a request, a fault, a crash, a restart or an edit.
FairSpec == Spec /\ WF_vars(Reconcile) /\ WF_vars(Operate) /\ WF_vars(Retry)

----------------------------------------------------------------------------
(* What a reader of the workspace sees: the state before a transaction until
   its journal says committed. *)

InJournal(f) == fileJournal # None /\ fileJournal.state = "prepared" /\ f \in PlanFiles[fileJournal.plan]

ReadText == [f \in Files |-> IF InJournal(f) THEN Before(fileJournal, f) ELSE text[f]]
ReadStatus == IF fileJournal # None /\ fileJournal.state = "prepared"
              THEN [status EXCEPT ![fileJournal.plan] = StatusBefore(fileJournal)] ELSE status

Readable == INSTANCE AtomicApply WITH text <- ReadText, status <- ReadStatus

\* assertWorkspaceRecovered: what every handler asks before it reads the workspace.
Admitted == up /\ ~quarantined /\ fileJournal = None /\ gwJournal = None

----------------------------------------------------------------------------
(* Properties *)

\* The type invariant.
TypeOK ==
    /\ text \in [Files -> SUBSET (Plans \cup {User})]
    /\ status \in [Plans -> {"absent", "applied", "cleaned"}]
    /\ fileJournal \in Journal \cup {None}
    /\ gwJournal \in Plans \cup {None} /\ receipts \subseteq Plans
    /\ runs \in [Plans -> [Keys -> {"none", "pending", "completed"}]]
    /\ gateway \in Gateway
    /\ live \subseteq Plans \X Keys /\ up \in BOOLEAN /\ quarantined \in BOOLEAN
    /\ pc \in {"idle", "recover_files", "roll_back", "recover_gateway", "await_snapshot", "await_removal",
               "await_removed", "settle", "forget", "plan", "await_before", "await_patch", "await_after",
               "commit", "write", "mark", "unlink", "await_receipt", "await_staged", "dispatch", "await_reply"}
    /\ op \in Operation
    /\ after \in BOOLEAN /\ failed \in BOOLEAN /\ committed \in BOOLEAN
    /\ turn \in 0..MaxTurns
    /\ crashes \in 0..MaxCrash /\ faults \in 0..MaxFault /\ outside \in 0..MaxOutside

\* A handler that is let in finds every revision whole: in the ledger, in all of
\* its files, and with a receipt, or in none of them; and the Gateway holds no
\* registration of a revision that is not applied.  Crashes between any two
\* writes, lost answers and failing rollbacks included.
AdmittedIsSettled ==
    Admitted => \A p \in Plans :
        /\ \A f \in PlanFiles[p] : p \in text[f] <=> status[p] = "applied"
        /\ p \in receipts <=> status[p] = "applied"
        /\ gateway.entries[p] # "absent" => status[p] = "applied"

\* As long as a model call of a Template execution is under way, even one whose
\* Dashboard process died, its claim is pending and its revision is not cleaned.
CleanupWaitsForRuns ==
    \A p \in Plans, k \in Keys :
        <<p, k>> \in live => runs[p][k] = "pending" /\ status[p] = "applied"

\* No step of the coordinator takes the registration of an applied revision out
\* of the Gateway: neither the recovery that follows a lost answer, nor the one
\* that follows an interrupted cleanup.
AppliedStaysRegistered ==
    [][\A p \in Plans : status[p] = "applied" /\ gateway.entries[p] = "present"
                          /\ gateway'.entries[p] # "present" => outside' > outside]_vars

\* Rolling an interrupted transaction back replaces only what the transaction
\* wrote itself: what the user wrote meanwhile is never overwritten.
RollBackKeepsEdits ==
    [][pc = "roll_back" => \A f \in Files : text'[f] # text[f] => text[f] = After(fileJournal, f)]_vars

\* A reader sees a revision appear and disappear in one step.
ReadersSeeAtomicApply == Readable!Spec

\* The workspace lock is always given back: no failure of the Gateway, no failed
\* rollback and no lost reply keeps the coordinator busy for ever.
LockIsFreed == (pc # "idle") ~> (pc = "idle")

\* A quarantined workspace is eventually served again, unless the process dies
\* first or somebody else has changed anything by then, what the recovery
\* compares or not.
QuarantineEnds == (up /\ quarantined) ~> (~quarantined \/ ~up \/ outside > 0)

=============================================================================
