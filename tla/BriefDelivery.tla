---------------------------- MODULE BriefDelivery ----------------------------
(***************************************************************************)
(* The e-mail delivery of workflow briefs (lib/brief-delivery.ts), the     *)
(* worker that ticks it (lib/dev-brief-delivery-worker.ts) and the runs    *)
(* that produce the briefs (routes/dev-template-workflow.ts), for the      *)
(* Dashboard processes that share one workspace directory.                 *)
(*                                                                         *)
(* Each process does its file operations one after the other; those of two *)
(* processes interleave, and a process may die between any two.  The mail  *)
(* provider is external: it accepts a message, or not, and the sender may  *)
(* or may not learn which.                                                 *)
(***************************************************************************)
EXTENDS Integers, FiniteSets

CONSTANTS Processes,      \* Dashboard processes on the workspace
          Runs,           \* the runs that are ever started
          WorkflowOf,     \* WorkflowOf[r]: the workflow of the run r
          Configs,        \* the delivery configurations
          Covers,         \* Covers[c]: the runs of c's workflows, created since c was enabled
          Off,            \* no configuration, not enabled, or a Reporter without the Skill
          None,
          MaxDeliveries,  \* bound: claims ever persisted
          MaxEdits,       \* bound: changes of the configuration
          MaxCrashes      \* bound: processes that die

Deliveries == 1..MaxDeliveries

\* The record of a delivery: the runs it claims and what became of it.
Receipt == [runs : SUBSET Runs, status : {"torn", "sending", "sent", "uncertain"}]

\* What a process keeps in memory about the delivery it is busy with.
Job == [pc : {"selected", "locked", "sending", "answered", "closing"}, runs : SUBSET Runs,
        config : Configs, id : Deliveries \cup {None}, answer : {"sent", "uncertain", None}]

ASSUME ConfigsCoverRuns == Covers \in [Configs -> SUBSET Runs]
ASSUME OffIsNoConfig == Off \notin Configs /\ None \notin Processes \cup {Off}
ASSUME NoneIsNoRecord == None \notin Receipt \cup Job
ASSUME DeliveryBounds == {MaxDeliveries, MaxEdits, MaxCrashes} \subseteq Nat

VARIABLES run,       \* run[r]: the status in the run's record
          active,    \* active[p]: the runs under way in the process p
          quiet,     \* runs that ended at least 60 s ago
          config,    \* SYSTEM/brief-delivery.json
          receipt,   \* receipt[d]: the record of the delivery d, or None
          lock,      \* dispatch.lock: the process that made it, or None
          job,       \* job[p]: the delivery p is busy with, or None
          mailed,    \* the deliveries whose mail the provider accepted
          edits, crashes

workspace == <<run, quiet, config, receipt, lock>>
vars == <<workspace, active, job, mailed, edits, crashes>>

Init ==
    /\ run = [r \in Runs |-> "new"] /\ active = [p \in Processes |-> {}] /\ quiet = {}
    /\ config \in Configs
    /\ receipt = [d \in Deliveries |-> None] /\ lock = None
    /\ job = [p \in Processes |-> None] /\ mailed = {}
    /\ edits = 0 /\ crashes = 0

-----------------------------------------------------------------------------
(* Runs of the dev workflows.                                              *)

Busy(p, w) == \E r \in active[p] : WorkflowOf[r] = w

\* startDevTemplateWorkflow: one run per workflow and process.
StartRun(p, r) ==
    /\ run[r] = "new" /\ ~Busy(p, WorkflowOf[r])
    /\ run' = [run EXCEPT ![r] = "running"]
    /\ active' = [active EXCEPT ![p] = @ \cup {r}]
    /\ UNCHANGED <<quiet, config, receipt, lock, job, mailed, edits, crashes>>

\* The next stage is saved: over what another process has made of the record.
NextStage(p, r) ==
    /\ r \in active[p] /\ run[r] # "running"
    /\ run' = [run EXCEPT ![r] = "running"]
    /\ UNCHANGED <<quiet, config, receipt, lock, active, job, mailed, edits, crashes>>

\* Its finally clause: the brief is saved, or a stage has failed; the record
\* stays as it is when this last write throws.
EndRun(p, r) ==
    /\ r \in active[p]
    /\ \E outcome \in {"completed", "failed", run[r]} : run' = [run EXCEPT ![r] = outcome]
    /\ active' = [active EXCEPT ![p] = @ \ {r}]
    /\ UNCHANGED <<quiet, config, receipt, lock, job, mailed, edits, crashes>>

\* Variant: the record gets a status that its readers do not know.
SettleAsInterrupted(p, r) ==
    /\ run[r] = "running" /\ ~Busy(p, WorkflowOf[r])
    /\ run' = [run EXCEPT ![r] = "interrupted"]
    /\ UNCHANGED <<quiet, config, receipt, lock, active, job, mailed, edits, crashes>>

\* settleInterruptedDevRun, when a process is asked for a run that it does
\* not have under way.
SettleInterrupted(p, r) ==
    /\ run[r] = "running" /\ ~Busy(p, WorkflowOf[r])
    /\ run' = [run EXCEPT ![r] = "failed"]
    /\ UNCHANGED <<quiet, config, receipt, lock, active, job, mailed, edits, crashes>>

\* A minute passes after the end of a run.
Minute(r) ==
    /\ run[r] = "completed" /\ r \notin quiet
    /\ quiet' = quiet \cup {r}
    /\ UNCHANGED <<run, config, receipt, lock, active, job, mailed, edits, crashes>>

\* The user edits the configuration, opts out, or changes the Reporter.
Configure(c) ==
    /\ c # config /\ edits < MaxEdits
    /\ config' = c /\ edits' = edits + 1
    /\ UNCHANGED <<run, quiet, receipt, lock, active, job, mailed, crashes>>

-----------------------------------------------------------------------------
(* deliverAvailableBriefs.                                                 *)

Written == {d \in Deliveries : receipt[d] # None}
Readable == \A d \in Written : receipt[d].status # "torn"
Claimed == UNION {receipt[d].runs : d \in Written}
Pending(c) == {r \in Covers[c] : run[r] = "completed" /\ r \notin Claimed}

\* The tick of an idle process: the briefs that nobody has claimed, once the
\* newest is a minute old and none of the workflows is under way here.
Select(p) ==
    /\ job[p] = None /\ config # Off /\ Readable
    /\ Pending(config) # {} /\ Pending(config) \subseteq quiet
    /\ \A r \in Covers[config] : ~Busy(p, WorkflowOf[r])
    /\ job' = [job EXCEPT ![p] = [pc |-> "selected", runs |-> Pending(config),
                                  config |-> config, id |-> None, answer |-> None]]
    /\ UNCHANGED <<workspace, active, mailed, edits, crashes>>

\* The exclusive creation of the lock file.
TakeLock(p) ==
    /\ job[p] # None /\ job[p].pc = "selected" /\ lock = None
    /\ lock' = p
    /\ job' = [job EXCEPT ![p].pc = "locked"]
    /\ UNCHANGED <<run, quiet, config, receipt, active, mailed, edits, crashes>>

\* The lock is there: "Delivery lock needs review".
LockRefused(p) ==
    /\ job[p] # None /\ job[p].pc = "selected" /\ lock # None
    /\ job' = [job EXCEPT ![p] = None]
    /\ UNCHANGED <<workspace, active, mailed, edits, crashes>>

\* Variant: the claims are not read again under the lock.
ConfigHolds(p) == config = job[p].config

\* The claims, the opt-in and the Reporter, read again under the lock.
StillHolds(p) ==
    /\ Readable /\ Claimed \cap job[p].runs = {}
    /\ config = job[p].config

\* Variant: the claim is kept in memory until the provider has answered.
ClaimUnwritten(p) ==
    /\ job[p] # None /\ job[p].pc = "locked" /\ StillHolds(p)
    /\ \E d \in Deliveries \ Written :
         job' = [job EXCEPT ![p].pc = "sending", ![p].id = d]
    /\ UNCHANGED <<workspace, active, mailed, edits, crashes>>

\* The receipt 'sending' is created before anything is sent.
Claim(p) ==
    /\ job[p] # None /\ job[p].pc = "locked" /\ StillHolds(p)
    /\ \E d \in Deliveries \ Written :
         /\ \A e \in Deliveries \ Written : d <= e
         /\ receipt' = [receipt EXCEPT ![d] = [runs |-> job[p].runs, status |-> "sending"]]
         /\ job' = [job EXCEPT ![p].pc = "sending", ![p].id = d]
    /\ UNCHANGED <<run, quiet, config, lock, active, mailed, edits, crashes>>

\* Something has changed: nothing is claimed.
ClaimRefused(p) ==
    /\ job[p] # None /\ job[p].pc = "locked" /\ ~StillHolds(p)
    /\ job' = [job EXCEPT ![p].pc = "closing"]
    /\ UNCHANGED <<workspace, active, mailed, edits, crashes>>

\* The provider accepts the mail; nobody knows it yet.
ProviderAccepts(p) ==
    /\ job[p] # None /\ job[p].pc = "sending" /\ job[p].id \notin mailed
    /\ mailed' = mailed \cup {job[p].id}
    /\ UNCHANGED <<workspace, active, job, edits, crashes>>

\* The call returns: 'sent' if it was accepted, 'uncertain' if it threw,
\* which it may do in either case.
SendReturns(p) ==
    /\ job[p] # None /\ job[p].pc = "sending"
    /\ \/ /\ job[p].id \in mailed
          /\ job' = [job EXCEPT ![p].pc = "answered", ![p].answer = "sent"]
       \/ job' = [job EXCEPT ![p].pc = "answered", ![p].answer = "uncertain"]
    /\ UNCHANGED <<workspace, active, mailed, edits, crashes>>

\* The outcome replaces the receipt; the write may fail and leave 'sending'.
Record(p) ==
    /\ job[p] # None /\ job[p].pc = "answered"
    /\ \/ receipt' = [receipt EXCEPT ![job[p].id] =
                         [runs |-> job[p].runs, status |-> job[p].answer]]
       \/ UNCHANGED receipt
    /\ job' = [job EXCEPT ![p].pc = "closing"]
    /\ UNCHANGED <<run, quiet, config, lock, active, mailed, edits, crashes>>

\* Variant: the lock is removed only when nothing has thrown before.
CloseUnlessThrown(p) ==
    /\ job[p] # None /\ job[p].pc = "closing"
    /\ lock' \in {None, lock}
    /\ job' = [job EXCEPT ![p] = None]
    /\ UNCHANGED <<run, quiet, config, receipt, active, mailed, edits, crashes>>

\* The finally clause, whether or not the notification threw.
Close(p) ==
    /\ job[p] # None /\ job[p].pc = "closing"
    /\ lock' = None
    /\ job' = [job EXCEPT ![p] = None]
    /\ UNCHANGED <<run, quiet, config, receipt, active, mailed, edits, crashes>>

\* The process dies.  The records and the lock stay as they are; the creation
\* of a receipt may be cut in the middle.
Crash(p) ==
    /\ crashes < MaxCrashes
    /\ crashes' = crashes + 1
    /\ active' = [active EXCEPT ![p] = {}] /\ job' = [job EXCEPT ![p] = None]
    /\ \/ UNCHANGED receipt
       \/ /\ job[p] # None /\ job[p].pc = "locked" /\ StillHolds(p)
          /\ \E d \in Deliveries \ Written :
               receipt' = [receipt EXCEPT ![d] = [runs |-> {}, status |-> "torn"]]
    /\ UNCHANGED <<run, quiet, config, lock, mailed, edits>>

-----------------------------------------------------------------------------
Deliver(p) ==
    \/ Select(p) \/ TakeLock(p) \/ LockRefused(p) \/ Claim(p) \/ ClaimRefused(p)
    \/ SendReturns(p) \/ Record(p) \/ Close(p)

Next ==
    \/ \E p \in Processes : Deliver(p) \/ ProviderAccepts(p) \/ Crash(p)
    \/ \E p \in Processes, r \in Runs : StartRun(p, r) \/ NextStage(p, r) \/ EndRun(p, r) \/ SettleInterrupted(p, r)
    \/ \E r \in Runs : Minute(r)
    \/ \E c \in Configs \cup {Off} : Configure(c)

Spec == Init /\ [][Next]_vars

\* Every process ticks each 15 s, its calls return, time passes and an agent
\* turn of a run ends.  The provider and the user owe nothing.
FairSpec ==
    /\ Spec
    /\ \A p \in Processes : WF_vars(Deliver(p)) /\ WF_vars(\E r \in Runs : EndRun(p, r))
    /\ \A r \in Runs : WF_vars(Minute(r))

-----------------------------------------------------------------------------
(* Properties.                                                             *)

\* Every variable has its type: the records of runs and deliveries, the lock
\* and what a process is busy with.
TypeOK ==
    /\ run \in [Runs -> {"new", "running", "completed", "failed"}]
    /\ active \in [Processes -> SUBSET Runs] /\ quiet \subseteq Runs
    /\ config \in Configs \cup {Off}
    /\ receipt \in [Deliveries -> Receipt \cup {None}]
    /\ lock \in Processes \cup {None}
    /\ job \in [Processes -> Job \cup {None}]
    /\ mailed \subseteq Deliveries
    /\ edits \in 0..MaxEdits /\ crashes \in 0..MaxCrashes

\* No brief is mailed twice, whatever crashed, whichever answer was lost, and
\* with two processes delivering: no two accepted mails have a run in common.
MailedOnce ==
    \A d, e \in mailed : d # e => receipt[d].runs \cap receipt[e].runs = {}

\* The receipts can be relied on when somebody reviews them: a mail that was
\* accepted has one that names its runs, and 'sent' says that it was accepted.
ReceiptsTellTheTruth ==
    /\ \A d \in mailed : receipt[d] # None /\ receipt[d].status # "torn"
    /\ \A d \in Written : receipt[d].status = "sent" => d \in mailed

\* What a crash has left for a person to look at before the next delivery: a
\* receipt cut in the middle, or the lock of a process that is not at work.
NeedsReview ==
    /\ crashes > 0
    /\ ~Readable \/ (lock # None /\ (job[lock] = None \/ job[lock].pc = "selected"))

\* The brief of a completed run is claimed in the end, unless the delivery
\* is turned off or waits for a review: no failed, interrupted or unrelated
\* run holds it up.
BriefIsClaimed ==
    \A r \in Runs :
        []<>(\/ run[r] # "completed" \/ r \in Claimed
             \/ config = Off \/ NeedsReview \/ Written = Deliveries
             \/ config # Off /\ r \notin Covers[config])
=============================================================================
