------------------------- MODULE BriefDelivery_proofs -------------------------
(***************************************************************************)
(* Proofs about the delivery of briefs: no brief is mailed twice, and the  *)
(* receipts tell the truth.                                                *)
(***************************************************************************)
EXTENDS BriefDelivery, TLAPS

-----------------------------------------------------------------------------
(* The inductive invariant.                                                *)

\* Between the creation of the lock and its removal.
Dispatching(p) == job[p] # None /\ job[p].pc # "selected"

\* Who dispatches holds the lock: there is one at a time.
DispatcherHoldsLock == \A p \in Processes : Dispatching(p) => lock = p

\* Once the claim is written, the process knows its delivery; the receipt says
\* 'sending' and names the runs; 'sent' is believed only of an accepted mail.
ClaimsAreWritten ==
    \A p \in Processes :
        job[p] # None /\ job[p].pc \in {"sending", "answered"} =>
            /\ job[p].id \in Deliveries
            /\ receipt[job[p].id] = [runs |-> job[p].runs, status |-> "sending"]

AnswersAreTrue ==
    \A p \in Processes :
        job[p] # None /\ job[p].pc = "answered" =>
            \/ job[p].answer = "uncertain"
            \/ job[p].answer = "sent" /\ job[p].id \in mailed

\* No run is claimed by two deliveries.
ClaimedOnce ==
    \A d, e \in Written : d # e => receipt[d].runs \cap receipt[e].runs = {}

BriefInv ==
    /\ TypeOK /\ DispatcherHoldsLock /\ ClaimsAreWritten /\ AnswersAreTrue
    /\ ClaimedOnce /\ ReceiptsTellTheTruth

-----------------------------------------------------------------------------
LEMMA BriefInit == Init => BriefInv
BY DeliveryBounds DEF Init, BriefInv, TypeOK, DispatcherHoldsLock, Dispatching, ClaimsAreWritten,
   AnswersAreTrue, ClaimedOnce, ReceiptsTellTheTruth, Written

\* Runs, time and the user leave deliveries alone.
LEMMA RunsStep ==
    ASSUME BriefInv,
           \/ \E p \in Processes, r \in Runs :
                  StartRun(p, r) \/ NextStage(p, r) \/ EndRun(p, r) \/ SettleInterrupted(p, r)
           \/ \E r \in Runs : Minute(r)
           \/ \E c \in Configs \cup {Off} : Configure(c)
           \/ UNCHANGED vars
    PROVE  BriefInv'
<1>1. UNCHANGED <<receipt, lock, job, mailed>>
  BY DEF StartRun, NextStage, EndRun, SettleInterrupted, Minute, Configure, vars, workspace
<1>2. TypeOK'
  BY <1>1, DeliveryBounds
     DEF BriefInv, TypeOK, StartRun, NextStage, EndRun, SettleInterrupted, Minute, Configure, vars, workspace
<1> QED BY <1>1, <1>2 DEF BriefInv, DispatcherHoldsLock, Dispatching, ClaimsAreWritten,
           AnswersAreTrue, ClaimedOnce, ReceiptsTellTheTruth, Written

\* What a claim and what an answer make of the records.
LEMMA ClaimShape ==
    ASSUME TypeOK, NEW p \in Processes, Claim(p)
    PROVE  /\ job[p] \in Job
           /\ \E d \in Deliveries \ Written :
                /\ receipt' = [receipt EXCEPT ![d] = [runs |-> job[p].runs, status |-> "sending"]]
                /\ job' = [job EXCEPT ![p] = [job[p] EXCEPT !.pc = "sending", !.id = d]]
<1>1. job[p] \in Job
  BY DEF TypeOK, Claim
<1>2. PICK d \in Deliveries \ Written :
         /\ receipt' = [receipt EXCEPT ![d] = [runs |-> job[p].runs, status |-> "sending"]]
         /\ job' = [job EXCEPT ![p].pc = "sending", ![p].id = d]
  BY DEF Claim
<1>3. job' = [job EXCEPT ![p] = [job[p] EXCEPT !.pc = "sending", !.id = d]]
  BY <1>1, <1>2 DEF TypeOK, Job
<1> QED BY <1>1, <1>2, <1>3

\* Every step of a delivery keeps the types.
LEMMA JobTypes ==
    ASSUME BriefInv, NEW p \in Processes,
           \/ Select(p) \/ TakeLock(p) \/ LockRefused(p) \/ Claim(p) \/ ClaimRefused(p)
           \/ SendReturns(p) \/ Record(p) \/ Close(p) \/ ProviderAccepts(p) \/ Crash(p)
    PROVE  TypeOK'
<1> USE DEF BriefInv
<1>1. CASE Select(p)
  <2>1. config \in Configs /\ Pending(config) \in SUBSET Runs
    BY <1>1, ConfigsCoverRuns DEF Select, TypeOK, Pending
  <2> QED BY <1>1, <2>1 DEF Select, TypeOK, workspace, Job
<1>2. CASE TakeLock(p)
  BY <1>2 DEF TakeLock, TypeOK, Job
<1>3. CASE LockRefused(p) \/ ClaimRefused(p)
  BY <1>3 DEF LockRefused, ClaimRefused, TypeOK, workspace, Job
<1>4. CASE Claim(p)
  <2>1. PICK d \in Deliveries \ Written :
           /\ receipt' = [receipt EXCEPT ![d] = [runs |-> job[p].runs, status |-> "sending"]]
           /\ job' = [job EXCEPT ![p] = [job[p] EXCEPT !.pc = "sending", !.id = d]]
    BY <1>4, ClaimShape
  <2>2. [runs |-> job[p].runs, status |-> "sending"] \in Receipt
    BY <1>4, ClaimShape DEF Receipt, Job
  <2>3. [job[p] EXCEPT !.pc = "sending", !.id = d] \in Job
    BY <1>4, ClaimShape DEF Job
  <2> QED BY <1>4, <2>1, <2>2, <2>3 DEF Claim, TypeOK
<1>5. CASE SendReturns(p)
  BY <1>5 DEF SendReturns, TypeOK, workspace, Job
<1>6. CASE Record(p)
  BY <1>6 DEF Record, TypeOK, Job, Receipt, ClaimsAreWritten, AnswersAreTrue
<1>7. CASE Close(p)
  BY <1>7 DEF Close, TypeOK
<1>8. CASE ProviderAccepts(p)
  BY <1>8 DEF ProviderAccepts, TypeOK, workspace, ClaimsAreWritten
<1>9. CASE Crash(p)
  BY <1>9, DeliveryBounds DEF Crash, TypeOK, Receipt, Written
<1> QED BY <1>1, <1>2, <1>3, <1>4, <1>5, <1>6, <1>7, <1>8, <1>9


-----------------------------------------------------------------------------
\* The lock is taken when it is free, and given back by its holder only.
LEMMA LockStep ==
    ASSUME BriefInv, NEW p \in Processes, Deliver(p) \/ ProviderAccepts(p) \/ Crash(p)
    PROVE  DispatcherHoldsLock'
<1> USE DEF BriefInv, DispatcherHoldsLock, Dispatching
<1>1. CASE Select(p)
  BY <1>1 DEF Select, TypeOK, workspace
<1>2. CASE TakeLock(p)
  BY <1>2, OffIsNoConfig DEF TakeLock, TypeOK, Job
<1>3. CASE LockRefused(p)
  BY <1>3 DEF LockRefused, TypeOK, workspace
<1>4. CASE Claim(p)
  BY <1>4, ClaimShape DEF Claim, TypeOK
<1>5. CASE ClaimRefused(p)
  BY <1>5 DEF ClaimRefused, TypeOK, workspace
<1>6. CASE SendReturns(p)
  BY <1>6 DEF SendReturns, TypeOK, workspace
<1>7. CASE Record(p)
  BY <1>7 DEF Record, TypeOK
<1>8. CASE Close(p)
  BY <1>8 DEF Close, TypeOK
<1>9. CASE ProviderAccepts(p)
  BY <1>9 DEF ProviderAccepts, workspace
<1>10. CASE Crash(p)
  BY <1>10 DEF Crash, TypeOK
<1> QED BY <1>1, <1>2, <1>3, <1>4, <1>5, <1>6, <1>7, <1>8, <1>9, <1>10 DEF Deliver


\* A step that writes no receipt and mails nothing, and after which p is not
\* between its claim and the record of its outcome.
LEMMA QuietStep ==
    ASSUME BriefInv, NEW p \in Processes, UNCHANGED <<receipt, mailed>>,
           \A q \in Processes \ {p} : job'[q] = job[q],
           job'[p] # None => job'[p].pc \notin {"sending", "answered"}
    PROVE  ClaimsAreWritten' /\ AnswersAreTrue' /\ ClaimedOnce' /\ ReceiptsTellTheTruth'
BY DEF BriefInv, ClaimsAreWritten, AnswersAreTrue, ClaimedOnce, ReceiptsTellTheTruth, Written

\* The claim names runs that no other receipt names.
LEMMA ClaimStep ==
    ASSUME BriefInv, NEW p \in Processes, Claim(p)
    PROVE  ClaimsAreWritten' /\ AnswersAreTrue' /\ ClaimedOnce' /\ ReceiptsTellTheTruth'
<1> USE DEF BriefInv
<1>1. PICK d \in Deliveries \ Written :
         /\ receipt' = [receipt EXCEPT ![d] = [runs |-> job[p].runs, status |-> "sending"]]
         /\ job' = [job EXCEPT ![p] = [job[p] EXCEPT !.pc = "sending", !.id = d]]
  BY ClaimShape
<1>2. receipt[d] = None /\ UNCHANGED mailed /\ Claimed \cap job[p].runs = {} /\ job[p] \in Job
  BY ClaimShape DEF Claim, StillHolds, Written
<1>3. /\ receipt'[d] = [runs |-> job[p].runs, status |-> "sending"]
      /\ \A e \in Deliveries \ {d} : receipt'[e] = receipt[e]
      /\ job'[p] = [job[p] EXCEPT !.pc = "sending", !.id = d]
      /\ \A q \in Processes \ {p} : job'[q] = job[q]
  BY <1>1 DEF TypeOK
<1>4. Written' \subseteq Written \cup {d}
  BY <1>3 DEF Written
<1>5. \A e \in Written : receipt[e].runs \cap job[p].runs = {}
  BY <1>2 DEF Claimed
<1>6. ClaimsAreWritten'
  <2>1. ASSUME NEW q \in Processes \ {p}, job'[q] # None, job'[q].pc \in {"sending", "answered"}
        PROVE  job'[q].id \in Deliveries
               /\ receipt'[job'[q].id] = [runs |-> job'[q].runs, status |-> "sending"]
    <3>1. job[q].id \in Deliveries
          /\ receipt[job[q].id] = [runs |-> job[q].runs, status |-> "sending"]
      BY <1>3, <2>1 DEF ClaimsAreWritten
    <3>2. [runs |-> job[q].runs, status |-> "sending"] \in Receipt
      BY <1>3, <2>1 DEF Receipt, TypeOK, Job
    <3>3. job[q].id # d
      BY <1>2, <3>1, <3>2, NoneIsNoRecord
    <3> QED BY <1>3, <2>1, <3>1, <3>3
  <2>2. job'[p].id = d /\ job'[p].runs = job[p].runs
    BY <1>2, <1>3 DEF Job
  <2> QED BY <1>3, <2>1, <2>2 DEF ClaimsAreWritten
<1>7. AnswersAreTrue'
  <2>1. job'[p].pc = "sending"
    BY <1>2, <1>3 DEF Job
  <2> QED BY <1>2, <1>3, <2>1 DEF AnswersAreTrue
<1>8. ClaimedOnce'
  BY <1>3, <1>4, <1>5 DEF ClaimedOnce, Written
<1>9. ReceiptsTellTheTruth'
  <2>1. d \notin mailed
    BY <1>2 DEF ReceiptsTellTheTruth
  <2> QED BY <1>2, <1>3, <1>4, <2>1 DEF ReceiptsTellTheTruth, Written, TypeOK
<1> QED BY <1>6, <1>7, <1>8, <1>9

\* The outcome is written over the process's own claim and names the same runs.
LEMMA RecordStep ==
    ASSUME BriefInv, NEW p \in Processes, Record(p)
    PROVE  ClaimsAreWritten' /\ AnswersAreTrue' /\ ClaimedOnce' /\ ReceiptsTellTheTruth'
<1> USE DEF BriefInv
<1> DEFINE d == job[p].id
<1>1. /\ d \in Deliveries /\ receipt[d] = [runs |-> job[p].runs, status |-> "sending"]
      /\ job[p].answer = "uncertain" \/ (job[p].answer = "sent" /\ d \in mailed)
      /\ UNCHANGED mailed /\ job[p] \in Job /\ lock = p
  BY DEF Record, ClaimsAreWritten, AnswersAreTrue, TypeOK, DispatcherHoldsLock, Dispatching
<1>2. /\ job'[p].pc = "closing" /\ \A q \in Processes \ {p} : job'[q] = job[q]
  BY <1>1 DEF Record, TypeOK, Job
<1>3. CASE UNCHANGED receipt
  BY <1>1, <1>2, <1>3, QuietStep
<1>4. CASE receipt' = [receipt EXCEPT ![d] = [runs |-> job[p].runs, status |-> job[p].answer]]
  <2>1. /\ receipt'[d] = [runs |-> job[p].runs, status |-> job[p].answer]
        /\ \A e \in Deliveries \ {d} : receipt'[e] = receipt[e]
    BY <1>1, <1>4 DEF TypeOK
  <2>2. d \in Written /\ Written' \subseteq Written
    <3>1. [runs |-> job[p].runs, status |-> "sending"] \in Receipt
      BY <1>1 DEF Receipt, Job
    <3> QED BY <1>1, <2>1, <3>1, NoneIsNoRecord DEF Written
  <2>3. \A q \in Processes \ {p} : job[q] # None => job[q].pc \notin {"sending", "answered"}
    BY <1>1 DEF DispatcherHoldsLock, Dispatching
  <2>4. ClaimsAreWritten' /\ AnswersAreTrue'
    BY <1>2, <2>3 DEF ClaimsAreWritten, AnswersAreTrue
  <2>5. receipt'[d].runs = receipt[d].runs
    BY <1>1, <2>1
  <2>6. ClaimedOnce'
    BY <2>1, <2>2, <2>5 DEF ClaimedOnce, Written
  <2>7. [runs |-> job[p].runs, status |-> job[p].answer] \in Receipt
    BY <1>1 DEF Receipt, Job
  <2>8. receipt'[d] # None /\ receipt'[d].status = job[p].answer
    BY <2>1, <2>7, NoneIsNoRecord
  <2>9. ReceiptsTellTheTruth'
    BY <1>1, <2>1, <2>2, <2>8 DEF ReceiptsTellTheTruth, Written, TypeOK
  <2> QED BY <2>4, <2>6, <2>9
<1> QED BY <1>3, <1>4 DEF Record

\* A mail is accepted for a written claim; the answer says what happened, or
\* that it is not known.
LEMMA SendStep ==
    ASSUME BriefInv, NEW p \in Processes, ProviderAccepts(p) \/ SendReturns(p)
    PROVE  ClaimsAreWritten' /\ AnswersAreTrue' /\ ClaimedOnce' /\ ReceiptsTellTheTruth'
<1> USE DEF BriefInv
<1>1. /\ job[p].id \in Deliveries /\ receipt[job[p].id] = [runs |-> job[p].runs, status |-> "sending"]
      /\ UNCHANGED receipt /\ job[p] \in Job /\ mailed \subseteq mailed'
  BY DEF ProviderAccepts, SendReturns, ClaimsAreWritten, TypeOK, workspace
<1>2. CASE ProviderAccepts(p)
  <2>1. [runs |-> job[p].runs, status |-> "sending"] \in Receipt
    BY <1>1 DEF Receipt, Job
  <2>2. receipt[job[p].id] # None /\ receipt[job[p].id].status # "torn"
    BY <1>1, <2>1, NoneIsNoRecord
  <2> QED BY <1>1, <1>2, <2>2
      DEF ProviderAccepts, ClaimsAreWritten, AnswersAreTrue, ClaimedOnce, ReceiptsTellTheTruth, Written
<1>3. CASE SendReturns(p)
  <2>1. /\ job'[p].runs = job[p].runs /\ job'[p].id = job[p].id
        /\ job'[p].answer = "uncertain" \/ (job'[p].answer = "sent" /\ job[p].id \in mailed)
        /\ \A q \in Processes \ {p} : job'[q] = job[q]
    BY <1>1, <1>3 DEF SendReturns, TypeOK, Job
  <2> QED BY <1>1, <1>3, <2>1
      DEF SendReturns, ClaimsAreWritten, AnswersAreTrue, ClaimedOnce, ReceiptsTellTheTruth, Written
<1> QED BY <1>2, <1>3

\* A process that dies leaves its records, or a torn one that names no runs.
LEMMA CrashStep ==
    ASSUME BriefInv, NEW p \in Processes, Crash(p)
    PROVE  ClaimsAreWritten' /\ AnswersAreTrue' /\ ClaimedOnce' /\ ReceiptsTellTheTruth'
<1> USE DEF BriefInv
<1>1. /\ job'[p] = None /\ UNCHANGED mailed /\ \A q \in Processes \ {p} : job'[q] = job[q]
  BY DEF Crash, TypeOK
<1>2. CASE UNCHANGED receipt
  BY <1>1, <1>2, QuietStep
<1>3. CASE /\ job[p] # None /\ job[p].pc = "locked"
           /\ \E d \in Deliveries \ Written : receipt' = [receipt EXCEPT ![d] = [runs |-> {}, status |-> "torn"]]
  <2>1. PICK d \in Deliveries \ Written : receipt' = [receipt EXCEPT ![d] = [runs |-> {}, status |-> "torn"]]
    BY <1>3
  <2>2. /\ receipt'[d].runs = {} /\ receipt'[d].status = "torn"
        /\ \A e \in Deliveries \ {d} : receipt'[e] = receipt[e]
    BY <2>1 DEF TypeOK
  <2>3. d \notin mailed /\ Written' \subseteq Written \cup {d}
    BY <2>2 DEF ReceiptsTellTheTruth, Written
  <2>4. \A q \in Processes \ {p} : job[q] # None => job[q].pc \notin {"sending", "answered"}
    BY <1>3 DEF DispatcherHoldsLock, Dispatching
  <2>5. ClaimsAreWritten' /\ AnswersAreTrue'
    BY <1>1, <2>4 DEF ClaimsAreWritten, AnswersAreTrue
  <2>6. ClaimedOnce'
    BY <2>2, <2>3 DEF ClaimedOnce, Written
  <2>7. ReceiptsTellTheTruth'
    BY <1>1, <2>2, <2>3 DEF ReceiptsTellTheTruth, Written, TypeOK
  <2> QED BY <2>5, <2>6, <2>7
<1> QED BY <1>2, <1>3 DEF Crash

LEMMA BriefStep == ASSUME BriefInv, [Next]_vars PROVE BriefInv'
<1>1. ASSUME NEW p \in Processes, Deliver(p) \/ ProviderAccepts(p) \/ Crash(p) PROVE BriefInv'
  <2>1. TypeOK' /\ DispatcherHoldsLock'
    BY <1>1, JobTypes, LockStep DEF Deliver
  <2>2. CASE Select(p) \/ TakeLock(p) \/ LockRefused(p) \/ ClaimRefused(p) \/ Close(p)
    <3>1. /\ UNCHANGED <<receipt, mailed>> /\ \A q \in Processes \ {p} : job'[q] = job[q]
          /\ job'[p] # None => job'[p].pc \notin {"sending", "answered"}
      BY <2>2 DEF Select, TakeLock, LockRefused, ClaimRefused, Close, workspace, BriefInv, TypeOK, Job
    <3> QED BY <2>1, <3>1, QuietStep DEF BriefInv
  <2>3. CASE Claim(p)
    BY <2>1, <2>3, ClaimStep DEF BriefInv
  <2>4. CASE Record(p)
    BY <2>1, <2>4, RecordStep DEF BriefInv
  <2>5. CASE SendReturns(p) \/ ProviderAccepts(p)
    BY <2>1, <2>5, SendStep DEF BriefInv
  <2>6. CASE Crash(p)
    BY <2>1, <2>6, CrashStep DEF BriefInv
  <2> QED BY <1>1, <2>2, <2>3, <2>4, <2>5, <2>6 DEF Deliver
<1> QED BY <1>1, RunsStep DEF Next

LEMMA BriefInvariant == Spec => []BriefInv
<1>1. BriefInv /\ [Next]_vars => BriefInv'
  BY BriefStep
<1> QED BY <1>1, BriefInit, PTL DEF Spec

\* The records of runs and deliveries, the lock and the jobs have their types.
THEOREM TypeCorrect == Spec => []TypeOK
<1>1. BriefInv => TypeOK
  BY DEF BriefInv
<1> QED BY <1>1, BriefInvariant, PTL

\* An accepted mail has a receipt that names its runs, and 'sent' is only said
\* of an accepted mail.
THEOREM ReceiptsAreTrue == Spec => []ReceiptsTellTheTruth
<1>1. BriefInv => ReceiptsTellTheTruth
  BY DEF BriefInv
<1> QED BY <1>1, BriefInvariant, PTL

\* No brief is in two accepted mails, for any number of processes and crashes.
THEOREM BriefsAreMailedOnce == Spec => []MailedOnce
<1>1. BriefInv => MailedOnce
  <2>1. BriefInv => mailed \subseteq Written
    BY DEF BriefInv, TypeOK, ReceiptsTellTheTruth, Written
  <2> QED BY <2>1 DEF BriefInv, ClaimedOnce, MailedOnce
<1> QED BY <1>1, BriefInvariant, PTL

\* Two processes are never between the lock and its removal at the same time:
\* what one of them reads under the lock still holds when it writes its claim.
THEOREM OneDispatcher ==
    Spec => [](\A p, q \in Processes : Dispatching(p) /\ Dispatching(q) => p = q)
<1>1. BriefInv => \A p, q \in Processes : Dispatching(p) /\ Dispatching(q) => p = q
  BY DEF BriefInv, DispatcherHoldsLock
<1> QED BY <1>1, BriefInvariant, PTL
=============================================================================
