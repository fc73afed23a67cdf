------------------------ MODULE ActivityExport_proofs ------------------------
(***************************************************************************)
(* Proofs about the Activity Export: what the user took back stays taken   *)
(* back, events reach no receiver but their own, a purge that is reported  *)
(* complete is, and nothing leaves the outbox undelivered.                 *)
(***************************************************************************)
EXTENDS ActivityExport, TLAPS

-----------------------------------------------------------------------------
(* Types.                                                                  *)

\* Whatever is queued is queued under a receipt in force.
QueueInForce == \A x \in outbox : consent[x[2]] # None /\ consent[x[2]].active

TypeInv == TypeOK /\ QueueInForce

LEMMA Shapes ==
    /\ \A c \in Receipt : c # None /\ c.dest \in Destinations /\ c.receiver \in Bindings \cup {None} /\ c.active \in BOOLEAN
    /\ \A e \in Enrollment : e # None /\ e.id \in 1..MaxEnrollments /\ e.receiver \in Bindings
    /\ \A c \in Request : /\ c # None /\ c.kind \in {"enrollment", "consent"} /\ c.receipt \in Receipts \cup {None}
                          /\ c.enrollment \in 1..MaxEnrollments \cup {None} /\ c.fence \in Nat
                          /\ c.receiver \in Bindings /\ c.accepted \in BOOLEAN
    /\ \A f \in Flight : f # None /\ f.batch \subseteq Entries /\ f.to \in Direct \cup Bindings /\ f.accepted \in BOOLEAN
    /\ \A x \in Entries : x[1] \in 1..MaxActivities /\ x[2] \in Receipts /\ x = <<x[1], x[2]>>
BY NoneIsNothing DEF Receipt, Enrollment, Request, Flight, Entries

LEMMA WorkerShape ==
    /\ Resting \in Worker /\ Resting.pc = "idle" /\ Resting.todo = {} /\ Resting.current = None
    /\ \A w \in Worker : /\ w.pc \in {"idle", "flush", "purge"} /\ w.dests \subseteq Destinations
                         /\ w.config \in Bindings \cup {None} /\ w.todo \subseteq Receipts /\ w.current \in Receipts \cup {None}
BY DEF Resting, Worker

\* The constants that stand apart from each other.
LEMMA Apart ==
    /\ AgentForge \notin Direct /\ Home \in Direct /\ None \notin Destinations /\ None \notin Bindings /\ None \notin Receipts
    /\ AgentForge \in Destinations /\ Direct \subseteq Destinations /\ Destinations \subseteq Grants
    /\ "enrollment" \in Grants /\ "enrollment" \notin Destinations
BY HomeIsDirect, NoneIsNobody DEF Destinations, Grants

LEMMA CurrentType == ASSUME TypeOK PROVE Current \in Bindings \cup {None}
BY DEF TypeOK, Current

LEMMA TypeInit == Init => TypeInv
<1> SUFFICES ASSUME Init PROVE TypeInv
  OBVIOUS
<1> QED BY WorkerShape, ConfiguredIsBinding DEF Init, TypeInv, TypeOK, QueueInForce, Grants, Destinations

LEMMA ShareType ==
    ASSUME TypeOK,
           \/ \E d \in Direct : Consent(d)
           \/ \E q \in Requests : Enroll(q) \/ Register(q) \/ Accept(q) \/ Return(q) \/ RequestFails(q)
           \/ Capture
    PROVE  TypeOK'
<1> USE DEF file, setting, receivers, budget, counts
<1>0. issued \in Nat /\ activities \in Nat /\ enrollments \in Nat /\ faults \in Nat
  BY DEF TypeOK
<1>1. ASSUME NEW d \in Direct, Consent(d) PROVE TypeOK'
  <2>1. issued' \in Receipts /\ issued' \in Nat
    BY <1>0, <1>1, BoundsAreNat DEF Consent, Receipts
  <2>2. [dest |-> d, receiver |-> None, active |-> TRUE] \in Receipt
    BY Apart DEF Receipt
  <2> QED BY <1>1, <2>1, <2>2 DEF Consent, TypeOK
<1>2. ASSUME NEW q \in Requests, Enroll(q) PROVE TypeOK'
  <2>1. [kind |-> "enrollment", receipt |-> None, enrollment |-> None,
         fence |-> fence[AgentForge], receiver |-> Current, accepted |-> FALSE] \in Request
    BY <1>2, Apart, CurrentType DEF Enroll, Request, TypeOK
  <2> QED BY <1>2, <2>1 DEF Enroll, TypeOK
<1>3. ASSUME NEW q \in Requests, Register(q) PROVE TypeOK'
  <2>1. issued' \in Receipts /\ issued' \in Nat /\ enrollment.id \in 1..MaxEnrollments
    BY <1>0, <1>3, BoundsAreNat, Shapes DEF Register, Receipts, Enrolled, TypeOK
  <2>2. [kind |-> "consent", receipt |-> issued', enrollment |-> enrollment.id,
         fence |-> fence[AgentForge], receiver |-> Current, accepted |-> FALSE] \in Request
    BY <1>3, <2>1, Apart, CurrentType DEF Register, Request, TypeOK
  <2> QED BY <1>3, <2>1, <2>2 DEF Register, TypeOK
<1>4. ASSUME NEW q \in Requests, Accept(q) PROVE TypeOK'
  <2>1. request[q] \in Request /\ [request[q] EXCEPT !.accepted = TRUE] \in Request
    BY <1>4 DEF Accept, TypeOK, Request
  <2> QED BY <1>4, <2>1, Shapes DEF Accept, TypeOK
<1>5. ASSUME NEW q \in Requests, Return(q) PROVE TypeOK'
  <2>1. request[q] \in Request
    BY <1>5 DEF Return, TypeOK
  <2>2. request' \in [Requests -> Request \cup {None}]
    BY <1>5 DEF Return, TypeOK
  <2>3. CASE UNCHANGED <<consent, enrollment, enrollments>>
    BY <1>5, <2>2, <2>3 DEF Return, TypeOK
  <2>4. CASE enrollments < MaxEnrollments /\ enrollments' = enrollments + 1
             /\ enrollment' = [id |-> enrollments', receiver |-> request[q].receiver] /\ UNCHANGED consent
    <3>1. enrollment' \in Enrollment /\ enrollments' \in Nat
      BY <1>0, <2>1, <2>4, BoundsAreNat, Shapes DEF Enrollment
    <3> QED BY <1>5, <2>2, <2>4, <3>1 DEF Return, TypeOK
  <2>5. CASE /\ consent' = [consent EXCEPT ![request[q].receipt] =
                   [dest |-> AgentForge, receiver |-> request[q].receiver, active |-> TRUE]]
             /\ UNCHANGED <<enrollment, enrollments>>
    <3>1. [dest |-> AgentForge, receiver |-> request[q].receiver, active |-> TRUE] \in Receipt
      BY <2>1, Shapes, Apart DEF Receipt
    <3> QED BY <1>5, <2>2, <2>5, <3>1 DEF Return, TypeOK
  <2> QED BY <1>5, <2>3, <2>4, <2>5 DEF Return
<1>6. ASSUME NEW q \in Requests, RequestFails(q) PROVE TypeOK'
  BY <1>0, <1>6 DEF RequestFails, TypeOK
<1>7. CASE Capture
  <2>1. activities' \in 1..MaxActivities /\ activities' \in Nat
    BY <1>0, <1>7, BoundsAreNat DEF Capture
  <2>2. outbox' \subseteq Entries
    BY <1>7, <2>1 DEF Capture, Entries, TypeOK
  <2> QED BY <1>7, <2>1, <2>2 DEF Capture, TypeOK
<1> QED BY <1>1, <1>2, <1>3, <1>4, <1>5, <1>6, <1>7

\* One write of the file takes the receipts of D back.
LEMMA RevokedType ==
    ASSUME TypeOK, NEW D \in SUBSET Destinations, Revoked(D)
    PROVE  /\ fence' \in [Destinations -> Nat] /\ consent' \in [Receipts -> Receipt \cup {None}]
           /\ purge' \in [Receipts -> {"none", "pending", "done"}] /\ outbox' \subseteq Entries
<1>1. fence' \in [Destinations -> Nat]
  BY DEF Revoked, Fenced, TypeOK
<1>2. \A r \in InForce(D) : r \in Receipts /\ consent[r] \in Receipt /\ [consent[r] EXCEPT !.active = FALSE] \in Receipt
  BY DEF InForce, TypeOK, Receipt
<1>3. consent' \in [Receipts -> Receipt \cup {None}]
  BY <1>2 DEF Revoked, TypeOK
<1>4. purge' \in [Receipts -> {"none", "pending", "done"}] /\ outbox' \subseteq Entries
  BY DEF Revoked, TypeOK
<1> QED BY <1>1, <1>3, <1>4

LEMMA TakeBackType ==
    ASSUME TypeOK,
           \/ \E D \in {{d} : d \in Destinations} \cup {Destinations} : Revoke(D)
           \/ Disconnect
           \/ \E b \in Bindings \cup {None} : EditReceiver(b)
           \/ SwitchWorkspace
           \/ Crash
           \/ \E r \in Receipts : Expire(r)
    PROVE  TypeOK'
<1> USE DEF file, setting, receivers, budget, counts
<1>0. revocations \in Nat /\ changes \in Nat /\ faults \in Nat
  BY DEF TypeOK
<1>1. ASSUME NEW D \in {{d} : d \in Destinations} \cup {Destinations}, Revoke(D) PROVE TypeOK'
  BY <1>0, <1>1, RevokedType, Apart DEF Revoke, TypeOK
<1>2. ASSUME Disconnected(TRUE) \/ Disconnected(FALSE)
      PROVE  /\ fence' \in [Destinations -> Nat] /\ consent' \in [Receipts -> Receipt \cup {None}]
             /\ purge' \in [Receipts -> {"none", "pending", "done"}] /\ outbox' \subseteq Entries
             /\ enrollment' \in Enrollment \cup {None} /\ stopped' \subseteq Grants
  BY <1>2, RevokedType, Apart DEF Disconnected, TypeOK
<1>3. CASE Disconnect
  BY <1>0, <1>2, <1>3 DEF Disconnect, TypeOK
<1>4. ASSUME NEW b \in Bindings \cup {None}, EditReceiver(b) PROVE TypeOK'
  <2>1. CASE Disconnected(TRUE)
    BY <1>0, <1>2, <1>4, <2>1 DEF EditReceiver, TypeOK
  <2>2. CASE UNCHANGED <<file, stopped>>
    BY <1>0, <1>4, <2>2 DEF EditReceiver, TypeOK
  <2> QED BY <1>4, <2>1, <2>2 DEF EditReceiver
<1>5. CASE SwitchWorkspace
  BY <1>0, <1>5 DEF SwitchWorkspace, TypeOK
<1>6. CASE Crash
  <2>1. CASE Disconnected(FALSE) /\ revocations' = revocations + 1
    BY <1>0, <1>2, <1>6, <2>1, WorkerShape DEF Crash, TypeOK
  <2>2. CASE UNCHANGED <<file, stopped, revocations>>
    BY <1>0, <1>6, <2>2, WorkerShape DEF Crash, TypeOK
  <2> QED BY <1>6, <2>1, <2>2 DEF Crash
<1>7. ASSUME NEW r \in Receipts, Expire(r) PROVE TypeOK'
  BY <1>0, <1>7 DEF Expire, TypeOK
<1> QED BY <1>1, <1>3, <1>4, <1>5, <1>6, <1>7

LEMMA DeliverableType ==
    ASSUME TypeOK, NEW D
    PROVE  /\ Deliverable(D) \subseteq outbox /\ Deliverable(D) \in SUBSET Entries
           /\ \A x \in Deliverable(D) : /\ x \in Entries /\ Authorised(x[2]) /\ consent[x[2]].dest \in D
BY DEF Deliverable, TypeOK

LEMMA DeliveryType ==
    ASSUME TypeOK,
           \/ \E s \in Senders : Deliver(s) \/ Settle(s) \/ DeliveryFails(s)
           \/ FlushRoute
           \/ \E d \in Destinations : Flush(d)
    PROVE  TypeOK'
<1> USE DEF file, setting, receivers, budget, counts
<1>0. faults \in Nat
  BY DEF TypeOK
<1>1. ASSUME NEW s \in Senders, Deliver(s) PROVE TypeOK'
  <2>1. flight[s] \in Flight
    BY <1>1 DEF Deliver, TypeOK
  <2>2. [flight[s] EXCEPT !.accepted = TRUE] \in Flight
    BY <2>1 DEF Flight
  <2>3. held' \subseteq (Direct \cup Bindings) \X Entries
    BY <1>1, <2>1, Shapes DEF Deliver, TypeOK
  <2> QED BY <1>1, <2>2, <2>3 DEF Deliver, TypeOK
<1>2. ASSUME NEW s \in Senders, Settle(s) PROVE TypeOK'
  BY <1>2 DEF Settle, TypeOK
<1>3. ASSUME NEW s \in Senders, DeliveryFails(s) PROVE TypeOK'
  BY <1>0, <1>3 DEF DeliveryFails, TypeOK
<1>4. ASSUME NEW s \in Senders, NEW batch \in SUBSET Entries, NEW to \in Direct \cup Bindings, Sent(s, batch, to)
      PROVE  flight' \in [Senders -> Flight \cup {None}]
  <2>1. [batch |-> batch, to |-> to, accepted |-> FALSE] \in Flight
    BY DEF Flight
  <2> QED BY <1>4, <2>1 DEF Sent, TypeOK
<1>5. CASE FlushRoute
  <2>1. flight' \in [Senders -> Flight \cup {None}]
    BY <1>4, <1>5, DeliverableType, Apart DEF FlushRoute, RouteCandidates, Senders
  <2> QED BY <1>5, <2>1 DEF FlushRoute, TypeOK
<1>6. ASSUME NEW d \in Destinations, Flush(d) PROVE TypeOK'
  <2>1. flight' \in [Senders -> Flight \cup {None}]
    <3>1. Receiver(d) # None => Receiver(d) \in Direct \cup Bindings
      BY CurrentType DEF Receiver, Destinations
    <3>2. CASE Sent("worker", Deliverable({d}), Receiver(d)) /\ Receiver(d) # None
      BY <1>4, <3>1, <3>2, DeliverableType DEF Senders
    <3>3. CASE UNCHANGED flight
      BY <3>3 DEF TypeOK
    <3> QED BY <1>6, <3>2, <3>3 DEF Flush
  <2>2. worker' \in Worker
    BY <1>6 DEF Flush, TypeOK, Worker
  <2> QED BY <1>6, <2>1, <2>2 DEF Flush, TypeOK
<1> QED BY <1>1, <1>2, <1>3, <1>5, <1>6

LEMMA WorkerType ==
    ASSUME TypeOK, QueueInForce,
           Wake \/ BeginPurges \/ (\E r \in Receipts : Purge(r)) \/ Purged \/ PurgeFails \/ Rest \/ WriteThrows
    PROVE  TypeOK'
<1> USE DEF file, setting, receivers, budget, counts
<1>0. faults \in Nat /\ worker \in Worker
  BY DEF TypeOK
<1>1. CASE Wake
  <2>1. QueuedFor \subseteq Destinations
    <3>1. ASSUME NEW x \in outbox PROVE consent[x[2]] \in Receipt
      BY Shapes DEF TypeOK, QueueInForce
    <3> QED BY <1>1, <3>1, Shapes DEF QueuedFor
  <2>2. worker' \in Worker
    BY <1>1, <2>1 DEF Wake, Resting, Worker
  <2> QED BY <1>1, <2>2 DEF Wake, TypeOK
<1>2. CASE BeginPurges
  <2>1. worker' \in Worker
    <3>1. PendingPurges \subseteq Receipts /\ Current \in Bindings \cup {None}
      BY CurrentType DEF PendingPurges
    <3>2. [Resting EXCEPT !.pc = "purge", !.config = Current, !.todo = PendingPurges] \in Worker
      BY <3>1, WorkerShape DEF Worker
    <3> QED BY <1>2, <3>2, WorkerShape DEF BeginPurges
  <2> QED BY <1>2, <2>1 DEF BeginPurges, TypeOK
<1>3. ASSUME NEW r \in Receipts, Purge(r) PROVE TypeOK'
  <2>1. worker' \in Worker
    BY <1>0, <1>3 DEF Purge, Worker
  <2> QED BY <1>3, <2>1 DEF Purge, TypeOK
<1>4. CASE Purged
  <2>1. worker' \in Worker /\ worker.current \in Receipts
    BY <1>0, <1>4 DEF Purged, Worker
  <2> QED BY <1>4, <2>1 DEF Purged, TypeOK
<1>5. CASE PurgeFails
  <2>1. worker' \in Worker
    BY <1>0, <1>5 DEF PurgeFails, Worker
  <2> QED BY <1>0, <1>5, <2>1 DEF PurgeFails, TypeOK
<1>6. CASE Rest
  BY <1>6, WorkerShape DEF Rest, TypeOK
<1>7. CASE WriteThrows
  BY <1>0, <1>7, WorkerShape DEF WriteThrows, Released, TypeOK, Senders
<1> QED BY <1>1, <1>2, <1>3, <1>4, <1>5, <1>6, <1>7

LEMMA QueueStep == ASSUME TypeOK, QueueInForce, [Next]_vars PROVE QueueInForce'
<1> USE DEF file
<1>0. ASSUME NEW r, NEW c \in Receipt, c.active, consent' = [consent EXCEPT ![r] = c], outbox' = outbox
      PROVE  QueueInForce'
  BY <1>0, Shapes DEF QueueInForce, TypeOK
<1>1. ASSUME NEW D, Revoked(D) PROVE QueueInForce'
  BY <1>1, Shapes DEF Revoked, QueueInForce, TypeOK
<1>2. ASSUME outbox' = outbox, consent' = consent PROVE QueueInForce'
  BY <1>2 DEF QueueInForce
<1>3. ASSUME NEW d \in Direct, Consent(d) PROVE QueueInForce'
  <2>1. [dest |-> d, receiver |-> None, active |-> TRUE] \in Receipt
    BY Apart DEF Receipt
  <2> QED BY <1>0, <1>3, <2>1 DEF Consent
<1>4. ASSUME NEW q \in Requests, Return(q) PROVE QueueInForce'
  <2>1. [dest |-> AgentForge, receiver |-> request[q].receiver, active |-> TRUE] \in Receipt
    BY <1>4, Apart, Shapes DEF Return, TypeOK, Receipt
  <2> QED BY <1>0, <1>2, <1>4, <2>1 DEF Return
<1>5. CASE Capture
  BY <1>5 DEF Capture, QueueInForce, Authorised
<1>6. ASSUME NEW s \in Senders, Settle(s) PROVE QueueInForce'
  BY <1>6 DEF Settle, QueueInForce
<1> QED BY <1>1, <1>2, <1>3, <1>4, <1>5, <1>6
        DEF Next, User, Answers, Work, Faults, vars, Enroll, Register, Revoke, Disconnected, Disconnect, EditReceiver,
            SwitchWorkspace, FlushRoute, Accept, Deliver, Wake, Flush, BeginPurges, Purge, Purged, Rest,
            RequestFails, DeliveryFails, PurgeFails, WriteThrows, Crash, Expire

LEMMA TypeStep == ASSUME TypeInv, [Next]_vars PROVE TypeInv'
<1> USE DEF TypeInv
<1>1. CASE UNCHANGED vars
  BY <1>1, QueueStep DEF vars, file, setting, receivers, budget, counts, TypeOK
<1> QED BY <1>1, ShareType, TakeBackType, DeliveryType, WorkerType, QueueStep DEF Next, User, Answers, Work, Faults

\* Receipts, requests, batches and the worker are what the code can hold.
THEOREM TypeCorrect == Spec => []TypeOK
<1>1. TypeInv => TypeOK
  BY DEF TypeInv
<1> QED BY <1>1, TypeInit, TypeStep, PTL DEF Spec

-----------------------------------------------------------------------------
(* Receipts.  Invariant: a number is given to one receipt, and a request   *)
(* that waits for AgentForge is the only one to hold its number.  So a     *)
(* receipt keeps its destination and its receiver, and never comes back.   *)

Asks(q) == request[q] # None /\ request[q].kind = "consent"

IssuedOnce ==
    /\ \A r \in Receipts : consent[r] # None => r <= issued
    /\ \A q \in Requests : Asks(q) => /\ request[q].receipt \in Receipts /\ request[q].receipt <= issued
                                      /\ consent[request[q].receipt] = None
    /\ \A p, q \in Requests : Asks(p) /\ Asks(q) /\ p # q => request[p].receipt # request[q].receipt

\* The call of q returned and its receipt is saved.
Saved(q) ==
    /\ Return(q) /\ StillAuthorised(request[q]) /\ request[q].kind = "consent"
    /\ consent' = [consent EXCEPT ![request[q].receipt] =
           [dest |-> AgentForge, receiver |-> request[q].receiver, active |-> TRUE]]

\* Who changes the receipts, and the number of the next one.
LEMMA WhoConsents ==
    ASSUME [Next]_vars
    PROVE  \/ consent' = consent /\ (issued' = issued \/ \E q \in Requests : Register(q))
           \/ \E d \in Direct : Consent(d)
           \/ issued' = issued /\ \E q \in Requests : Saved(q)
           \/ issued' = issued /\ \E D \in SUBSET Destinations : Revoked(D)
<1> USE DEF file, counts
<1>1. CASE User
  <2>1. CASE \E D \in {{d} : d \in Destinations} \cup {Destinations} : Revoke(D)
    BY <2>1 DEF Revoke
  <2>2. CASE Disconnect \/ \E b \in Bindings \cup {None} : EditReceiver(b)
    BY <2>2, Apart DEF Disconnect, EditReceiver, Disconnected
  <2> QED BY <1>1, <2>1, <2>2 DEF User, Enroll, Register, Capture, SwitchWorkspace, FlushRoute
<1>2. CASE Answers
  BY <1>2 DEF Answers, Accept, Return, Saved, Deliver, Settle
<1>3. CASE Wake \/ Work
  BY <1>3 DEF Wake, Work, Flush, BeginPurges, Purge, Purged, Rest
<1>4. CASE Faults
  BY <1>4, Apart DEF Faults, RequestFails, DeliveryFails, PurgeFails, WriteThrows, Crash, Disconnected, Expire
<1>5. CASE UNCHANGED vars
  BY <1>5 DEF vars
<1> QED BY <1>1, <1>2, <1>3, <1>4, <1>5 DEF Next

\* A request stays what it was when it began to wait.
LEMMA WhoAsks ==
    ASSUME TypeInv, [Next]_vars, NEW q \in Requests, request'[q] # None
    PROVE  \/ Enroll(q) \/ Register(q)
           \/ /\ request[q] # None /\ \A p \in Requests : ~Enroll(p) /\ ~Register(p)
              /\ request'[q].kind = request[q].kind /\ request'[q].receipt = request[q].receipt
              /\ request'[q].fence = request[q].fence
           \/ \E p \in Requests \ {q} : (Enroll(p) \/ Register(p)) /\ request'[q] = request[q]
<1> USE DEF file, counts
<1>0. request \in [Requests -> Request \cup {None}]
  BY DEF TypeInv, TypeOK
<1>1. ASSUME NEW p \in Requests, Enroll(p) \/ Register(p) PROVE p = q \/ request'[q] = request[q]
  BY <1>0, <1>1 DEF Enroll, Register
<1>2. ASSUME NEW p \in Requests, Accept(p)
      PROVE  /\ request[q] # None
             /\ request'[q].kind = request[q].kind /\ request'[q].receipt = request[q].receipt
             /\ request'[q].fence = request[q].fence
  BY <1>0, <1>2 DEF Accept, Request
<1>3. ASSUME NEW p \in Requests, Return(p) \/ RequestFails(p) PROVE request'[q] = request[q]
  BY <1>0, <1>3 DEF Return, RequestFails
<1>4. ~Crash
  BY DEF Crash
<1>5. CASE (\E p \in Requests : Enroll(p) \/ Register(p))
  BY <1>1, <1>5
<1>6. CASE ~(\E p \in Requests : Enroll(p) \/ Register(p))
  <2>1. \/ request' = request
        \/ \E p \in Requests : Accept(p) \/ Return(p) \/ RequestFails(p)
    BY <1>4, <1>6 DEF Next, User, Answers, Work, Faults, vars, Consent, Capture, Revoke, Disconnect, EditReceiver,
           SwitchWorkspace, FlushRoute, Deliver, Settle, Wake, Flush, BeginPurges, Purge, Purged, Rest,
           DeliveryFails, PurgeFails, WriteThrows, Expire
  <2> QED BY <1>2, <1>3, <1>6, <2>1
<1> QED BY <1>5, <1>6

LEMMA IssuedStep == ASSUME TypeInv, IssuedOnce, [Next]_vars PROVE IssuedOnce'
<1>1. /\ issued \in Nat /\ consent \in [Receipts -> Receipt \cup {None}] /\ request \in [Requests -> Request \cup {None}]
      /\ Receipts \subseteq Nat
  BY BoundsAreNat DEF TypeInv, TypeOK, Receipts
<1>2. issued' = issued \/ issued' = issued + 1
  BY WhoConsents DEF Register, Consent
<1>3. \A q \in Requests : Asks(q) => /\ request[q].receipt \in Receipts /\ request[q].receipt <= issued'
                                     /\ request[q].receipt # issued + 1 /\ consent[request[q].receipt] = None
  <2> SUFFICES ASSUME NEW q \in Requests, Asks(q)
               PROVE  /\ request[q].receipt \in Receipts /\ request[q].receipt <= issued'
                      /\ request[q].receipt # issued + 1 /\ consent[request[q].receipt] = None
    OBVIOUS
  <2>1. request[q].receipt \in Receipts /\ request[q].receipt <= issued /\ consent[request[q].receipt] = None
    BY DEF IssuedOnce
  <2> HIDE DEF Asks, IssuedOnce
  <2>2. \A n \in Nat : n <= issued => n <= issued' /\ n # issued + 1
    BY <1>1, <1>2
  <2> QED BY <1>1, <2>1, <2>2
<1>4. ASSUME NEW r \in Receipts, consent'[r] # None, consent[r] = None PROVE r <= issued'
  <2>1. ASSUME NEW d \in Direct, Consent(d) PROVE r = issued'
    BY <1>1, <1>4, <2>1 DEF Consent
  <2>2. ASSUME NEW q \in Requests, Saved(q) PROVE r = request[q].receipt /\ Asks(q)
    BY <1>1, <1>4, <2>2 DEF Saved, Return, Asks
  <2>3. ASSUME NEW D, Revoked(D) PROVE FALSE
    BY <1>1, <1>4, <2>3 DEF Revoked, InForce
  <2> QED BY <1>1, <1>2, <1>3, <1>4, <2>1, <2>2, <2>3, WhoConsents
<1>5. ASSUME NEW r \in Receipts, consent'[r] # None PROVE r <= issued'
  <2>1. CASE consent[r] # None
    BY <1>1, <1>2, <2>1 DEF IssuedOnce
  <2> QED BY <1>4, <1>5, <2>1
<1>6. ASSUME NEW q \in Requests, Asks(q)'
      PROVE  \/ Register(q) /\ request'[q].receipt = issued' /\ issued' = issued + 1 /\ issued' \in Receipts
             \/ Asks(q) /\ request'[q].receipt = request[q].receipt
  <2>1. ASSUME Enroll(q) PROVE FALSE
    BY <1>1, <1>6, <2>1 DEF Enroll, Asks
  <2>2. CASE Register(q)
    BY <1>1, <1>6, <2>2, BoundsAreNat DEF Register, Receipts
  <2> QED BY <1>6, <2>1, <2>2, WhoAsks DEF Asks
<1>7. ASSUME NEW q \in Requests, Asks(q)'
      PROVE  request'[q].receipt \in Receipts /\ request'[q].receipt <= issued' /\ consent'[request'[q].receipt] = None
  <2>1. CASE Register(q) /\ request'[q].receipt = issued' /\ issued' = issued + 1 /\ issued' \in Receipts
    BY <1>1, <2>1 DEF Register, IssuedOnce, file
  <2>2. CASE Asks(q) /\ request'[q].receipt = request[q].receipt
    <3> DEFINE r == request[q].receipt
    <3>1. r \in Receipts /\ r <= issued' /\ r # issued + 1 /\ consent[r] = None
      BY <1>3, <2>2
    <3>2. ASSUME NEW d \in Direct, Consent(d) PROVE consent'[r] = None
      BY <1>1, <3>1, <3>2 DEF Consent
    <3>3. ASSUME NEW p \in Requests, Saved(p) PROVE consent'[r] = None
      <4>1. Asks(p) /\ p # q
        BY <1>1, <1>7, <3>3 DEF Saved, Return, Asks
      <4>2. request[p].receipt # r
        BY <2>2, <4>1 DEF IssuedOnce
      <4> QED BY <1>1, <3>1, <3>3, <4>2 DEF Saved
    <3>4. ASSUME NEW D, Revoked(D) PROVE consent'[r] = None
      BY <1>1, <3>1, <3>4 DEF Revoked, InForce
    <3>5. consent'[r] = None
      BY <3>1, <3>2, <3>3, <3>4, WhoConsents
    <3> QED BY <2>2, <3>1, <3>5
  <2> QED BY <1>6, <1>7, <2>1, <2>2
<1>8. ASSUME NEW p \in Requests, NEW q \in Requests, Asks(p)', Asks(q)', p # q
      PROVE  request'[p].receipt # request'[q].receipt
  <2>1. ASSUME NEW a \in Requests, NEW b \in Requests, a # b, Asks(b)', Register(a), request'[a].receipt = issued',
               issued' = issued + 1
        PROVE  request'[a].receipt # request'[b].receipt
    <3>1. ~Register(b)
      BY <1>1, <2>1, Shapes DEF Register, Asks
    <3>2. Asks(b) /\ request'[b].receipt = request[b].receipt
      BY <1>6, <2>1, <3>1
    <3> QED BY <1>3, <2>1, <3>2
  <2>2. CASE Asks(p) /\ Asks(q) /\ request'[p].receipt = request[p].receipt /\ request'[q].receipt = request[q].receipt
    BY <1>8, <2>2 DEF IssuedOnce
  <2>3. CASE Register(p) /\ request'[p].receipt = issued' /\ issued' = issued + 1
    BY <1>8, <2>1, <2>3
  <2>4. CASE Register(q) /\ request'[q].receipt = issued' /\ issued' = issued + 1
    BY <1>8, <2>1, <2>4
  <2> QED BY <1>6, <1>8, <2>2, <2>3, <2>4
<1> QED BY <1>5, <1>7, <1>8 DEF IssuedOnce, Asks

\* What is on record of r, and is not given for anything else later.
Lasts(r) ==
    /\ consent'[r] # None /\ consent'[r].dest = consent[r].dest /\ consent'[r].receiver = consent[r].receiver
    /\ consent'[r].active => consent[r].active

\* A receipt is about what it was given for, and what was taken back stays back.
LEMMA ReceiptsLast ==
    ASSUME TypeInv, IssuedOnce, [Next]_vars, NEW r \in Receipts, consent[r] # None
    PROVE  Lasts(r)
<1>1. issued \in Nat /\ consent \in [Receipts -> Receipt \cup {None}] /\ r <= issued /\ r \in Nat
  BY BoundsAreNat DEF TypeInv, TypeOK, Receipts, IssuedOnce
<1>2. ASSUME NEW d \in Direct, Consent(d) PROVE consent'[r] = consent[r]
  BY <1>1, <1>2 DEF Consent
<1>3. ASSUME NEW q \in Requests, Saved(q) PROVE consent'[r] = consent[r]
  BY <1>1, <1>3 DEF Saved, Return, IssuedOnce, Asks
<1>4. ASSUME NEW D, Revoked(D) PROVE Lasts(r)
  <2>1. consent[r] \in Receipt
    BY <1>1
  <2>2. [consent[r] EXCEPT !.active = FALSE] \in Receipt
    BY <2>1 DEF Receipt
  <2>3. /\ [consent[r] EXCEPT !.active = FALSE].dest = consent[r].dest
        /\ [consent[r] EXCEPT !.active = FALSE].receiver = consent[r].receiver
        /\ ~[consent[r] EXCEPT !.active = FALSE].active
    BY <2>1 DEF Receipt
  <2>4. consent'[r] = consent[r] \/ consent'[r] = [consent[r] EXCEPT !.active = FALSE]
    BY <1>4 DEF Revoked
  <2> QED BY <2>2, <2>3, <2>4, Shapes DEF Lasts
<1>5. consent'[r] = consent[r] => Lasts(r)
  BY DEF Lasts
<1> QED BY <1>2, <1>3, <1>4, <1>5, WhoConsents

-----------------------------------------------------------------------------
(* What is taken back.  Invariant: a request that waits for AgentForge saw *)
(* the fence of today only if the user has not taken back since what it    *)
(* asks for.                                                               *)

Wanted(q) == IF request[q].kind = "consent" THEN AgentForge ELSE "enrollment"

RequestsAreFenced ==
    \A q \in Requests : request[q] # None =>
        /\ request[q].fence <= fence[AgentForge]
        /\ request[q].fence = fence[AgentForge] => Wanted(q) \notin stopped

NothingStopped == \A r \in Receipts : consent[r] # None /\ consent[r].active => consent[r].dest \notin stopped

NotEnrolled == "enrollment" \in stopped => enrollment = None

\* One write takes the receipts of D back; the enrollment goes with AgentForge's.
TakenBack(D) ==
    /\ Revoked(D) /\ stopped' \subseteq stopped \cup D \cup {"enrollment"}
    /\ \/ enrollment' = enrollment /\ ("enrollment" \in stopped' => "enrollment" \in stopped)
       \/ enrollment' = None /\ AgentForge \in D

\* The call of q returned and its enrollment is saved.
EnrolledBy(q) == Return(q) /\ StillAuthorised(request[q]) /\ request[q].kind = "enrollment"

\* Only what takes consents back adds to what is stopped.
LEMMA WhoStops ==
    ASSUME TypeInv, [Next]_vars
    PROVE  \/ /\ fence' = fence /\ stopped' \subseteq stopped
              /\ enrollment' = enrollment \/ \E q \in Requests : EnrolledBy(q)
           \/ \E D \in SUBSET Destinations : TakenBack(D)
<1> USE DEF file, counts
<1>1. CASE User
  <2>1. ASSUME NEW D \in {{d} : d \in Destinations} \cup {Destinations}, Revoke(D)
        PROVE  D \in SUBSET Destinations /\ TakenBack(D)
    BY <2>1, Apart DEF Revoke, TakenBack
  <2>2. ASSUME Disconnected(TRUE) PROVE TakenBack({AgentForge})
    BY <2>2 DEF Disconnected, TakenBack
  <2>3. CASE Disconnect
    BY <2>2, <2>3, Apart DEF Disconnect
  <2>4. ASSUME NEW b \in Bindings \cup {None}, EditReceiver(b), ~Disconnected(TRUE) PROVE UNCHANGED <<file, stopped>>
    BY <2>4 DEF EditReceiver
  <2>5. CASE \E b \in Bindings \cup {None} : EditReceiver(b)
    BY <2>2, <2>4, <2>5, Apart
  <2> QED BY <1>1, <2>1, <2>3, <2>5 DEF User, Consent, Enroll, Register, Capture, SwitchWorkspace, FlushRoute
<1>2. CASE Answers
  <2>1. ASSUME NEW q \in Requests, Return(q)
        PROVE  fence' = fence /\ stopped' = stopped /\ (enrollment' = enrollment \/ EnrolledBy(q))
    BY <2>1 DEF Return, EnrolledBy
  <2> QED BY <1>2, <2>1 DEF Answers, Accept, Deliver, Settle
<1>3. CASE Wake \/ Work
  BY <1>3 DEF Wake, Work, Flush, BeginPurges, Purge, Purged, Rest
<1>4. CASE Faults
  <2>1. CASE Crash
    <3>1. Disconnected(FALSE) => TakenBack({AgentForge})
      BY Apart DEF Disconnected, TakenBack
    <3> QED BY <2>1, <3>1, Apart DEF Crash
  <2> QED BY <1>4, <2>1 DEF Faults, RequestFails, DeliveryFails, PurgeFails, WriteThrows, Expire
<1>5. CASE UNCHANGED vars
  BY <1>5 DEF vars
<1> QED BY <1>1, <1>2, <1>3, <1>4, <1>5 DEF Next

LEMMA FencedStep == ASSUME TypeInv, RequestsAreFenced, [Next]_vars PROVE RequestsAreFenced'
<1>0. /\ fence \in [Destinations -> Nat] /\ request \in [Requests -> Request \cup {None}]
      /\ "enrollment" \notin Destinations /\ AgentForge \in Destinations
  BY Apart DEF TypeInv, TypeOK
<1> DEFINE Fine(q) == /\ request'[q].fence <= fence'[AgentForge]
                      /\ request'[q].fence = fence'[AgentForge] => Wanted(q)' \notin stopped'
<1>1. SUFFICES ASSUME NEW q \in Requests, request'[q] # None PROVE Fine(q)
  BY DEF RequestsAreFenced
<1>2. CASE Enroll(q)
  BY <1>0, <1>2 DEF Enroll, Wanted, file
<1>3. CASE Register(q)
  BY <1>0, <1>3 DEF Register, Wanted, file
<1>4. CASE request[q] # None /\ request'[q].kind = request[q].kind /\ request'[q].fence = request[q].fence
  <2>1. /\ request[q].fence \in Nat /\ request[q].fence <= fence[AgentForge] /\ Wanted(q)' = Wanted(q)
        /\ request[q].fence = fence[AgentForge] => Wanted(q) \notin stopped
    BY <1>0, <1>4, Shapes DEF RequestsAreFenced, Wanted
  <2>2. CASE fence' = fence /\ stopped' \subseteq stopped
    BY <1>4, <2>1, <2>2
  <2>3. ASSUME NEW D \in SUBSET Destinations, TakenBack(D) PROVE Fine(q)
    <3>1. fence'[AgentForge] = IF AgentForge \in D THEN fence[AgentForge] + 1 ELSE fence[AgentForge]
      BY <1>0, <2>3 DEF TakenBack, Revoked, Fenced
    <3>2. CASE AgentForge \in D
      BY <1>0, <1>4, <2>1, <3>1, <3>2
    <3>3. CASE AgentForge \notin D
      <4>1. Wanted(q) \notin stopped => Wanted(q) \notin stopped'
        BY <1>0, <2>3, <3>3 DEF Wanted, TakenBack
      <4> QED BY <1>4, <2>1, <3>1, <3>3, <4>1
    <3> QED BY <3>2, <3>3
  <2> QED BY <2>2, <2>3, WhoStops
<1> QED BY <1>1, <1>2, <1>3, <1>4, WhoAsks

LEMMA NothingStoppedStep ==
    ASSUME TypeInv, IssuedOnce, RequestsAreFenced, NothingStopped, [Next]_vars
    PROVE  NothingStopped'
<1>0. consent \in [Receipts -> Receipt \cup {None}] /\ request \in [Requests -> Request \cup {None}]
  BY DEF TypeInv, TypeOK
<1>1. SUFFICES ASSUME NEW r \in Receipts, consent'[r] # None, consent'[r].active PROVE consent'[r].dest \notin stopped'
  BY DEF NothingStopped
<1>2. ASSUME NEW D \in SUBSET Destinations, Revoked(D)
      PROVE  consent'[r] = consent[r] /\ consent[r].dest \notin D
  <2>1. r \notin InForce(D)
    BY <1>0, <1>1, <1>2, Shapes DEF Revoked, InForce, Receipt
  <2> QED BY <1>1, <1>2, <2>1 DEF Revoked, InForce
<1>3. ASSUME NEW D \in SUBSET Destinations, TakenBack(D) PROVE consent'[r].dest \notin stopped'
  <2>1. consent'[r] = consent[r] /\ consent[r].dest \notin D /\ consent[r].dest \in Destinations
    BY <1>0, <1>1, <1>2, <1>3, Shapes DEF TakenBack
  <2> QED BY <1>1, <1>3, <2>1, Apart DEF TakenBack, NothingStopped
<1>4. CASE fence' = fence /\ stopped' \subseteq stopped
  <2>1. CASE consent'[r] = consent[r]
    BY <1>1, <1>4, <2>1 DEF NothingStopped
  <2>2. ASSUME NEW d \in Direct, Consent(d) PROVE consent'[r] = consent[r] \/ consent'[r].dest \notin stopped'
    BY <1>0, <2>2 DEF Consent
  <2>3. ASSUME NEW q \in Requests, Saved(q) PROVE consent'[r] = consent[r] \/ consent'[r].dest \notin stopped'
    <3>1. AgentForge \notin stopped
      BY <2>3 DEF Saved, Return, StillAuthorised, RequestsAreFenced, Wanted
    <3> QED BY <1>0, <1>4, <2>3, <3>1 DEF Saved
  <2> QED BY <1>2, <2>1, <2>2, <2>3, WhoConsents
<1> QED BY <1>3, <1>4, WhoStops

LEMMA NotEnrolledStep == ASSUME TypeInv, RequestsAreFenced, NotEnrolled, [Next]_vars PROVE NotEnrolled'
<1>1. ASSUME NEW q \in Requests, EnrolledBy(q) PROVE "enrollment" \notin stopped
  BY <1>1 DEF EnrolledBy, Return, StillAuthorised, RequestsAreFenced, Wanted
<1>2. ASSUME NEW D, TakenBack(D) PROVE NotEnrolled'
  BY <1>2 DEF TakenBack, NotEnrolled
<1> QED BY <1>1, <1>2, WhoStops DEF NotEnrolled

StopInv == TypeInv /\ IssuedOnce /\ RequestsAreFenced /\ NothingStopped /\ NotEnrolled

LEMMA StopInitially == Init => StopInv
<1> SUFFICES ASSUME Init PROVE StopInv
  OBVIOUS
<1>1. IssuedOnce /\ RequestsAreFenced /\ NothingStopped /\ NotEnrolled
  BY DEF Init, IssuedOnce, Asks, RequestsAreFenced, NothingStopped, NotEnrolled
<1> QED BY <1>1, TypeInit DEF StopInv

LEMMA StopStep == StopInv /\ [Next]_vars => StopInv'
BY TypeStep, IssuedStep, FencedStep, NothingStoppedStep, NotEnrolledStep DEF StopInv

\* What the user took back stays taken back, whatever was under way.
THEOREM TakenBackForGood == Spec => []StopIsFinal
<1>1. StopInv => StopIsFinal
  <2> SUFFICES ASSUME StopInv PROVE StopIsFinal
    OBVIOUS
  <2>1. InForce(stopped \cap Destinations) = {}
    BY DEF StopInv, NothingStopped, InForce
  <2>2. ASSUME NEW x \in outbox PROVE consent[x[2]].dest \notin stopped
    BY Shapes DEF StopInv, NothingStopped, TypeInv, TypeOK, QueueInForce
  <2> QED BY <2>1, <2>2 DEF StopInv, NotEnrolled, StopIsFinal
<1> QED BY <1>1, StopInitially, StopStep, PTL DEF Spec

-----------------------------------------------------------------------------
(* Deliveries and purges.  Invariant: a batch under way, and what a        *)
(* receiver keeps, was sent under a receipt for it; a purge concerns a     *)
(* receipt AgentForge had and that was taken back; the worker purges with  *)
(* no batch of its own under way; and nothing under way concerns a receipt *)
(* whose purge is complete.                                                *)

\* Where an event of the receipt r may be: the route sends what is for
\* another direct destination to the endpoint of the environment as well.
SentTo(to, r) ==
    /\ consent[r] # None
    /\ IF consent[r].dest = AgentForge THEN to = consent[r].receiver ELSE to \in {consent[r].dest, Home}

BatchesAreSent ==
    \A s \in Senders : flight[s] # None => \A x \in flight[s].batch :
        /\ SentTo(flight[s].to, x[2])
        /\ s = "route" => consent[x[2]].dest # AgentForge
        /\ flight[s].accepted => ~consent[x[2]].active \/ \E h \in held : h[2] = x

HeldWasSent == \A h \in held : SentTo(h[1], h[2][2])

PurgesFollow ==
    \A r \in Receipts : purge[r] # "none" => consent[r] # None /\ ~consent[r].active /\ consent[r].dest = AgentForge

WorkerInOrder ==
    /\ worker.pc = "purge" => flight["worker"] = None
    /\ \A r \in worker.todo \cup ({worker.current} \ {None}) : purge[r] # "none"

NothingArrives ==
    \A s \in Senders : flight[s] # None => \A x \in flight[s].batch : purge[x[2]] # "done"

\* AgentForge deletes what it keeps of the receipt under purge.
Deletes ==
    /\ worker.pc = "purge" /\ worker.current # None
    /\ held' = {h \in held : h[2][2] # worker.current}

\* The worker sends the batch of d.
SentFor(d) == Flush(d) /\ Receiver(d) # None /\ Sent("worker", Deliverable({d}), Receiver(d))

\* What a sender has under way, and what the receivers keep.
LEMMA WhoFlies ==
    ASSUME TypeInv, [Next]_vars, NEW s \in Senders, flight'[s] # None
    PROVE  flight'[s] = flight[s] \/ Deliver(s) \/ (s = "route" /\ FlushRoute) \/ (s = "worker" /\ \E d \in Destinations : SentFor(d))
<1>0. flight \in [Senders -> Flight \cup {None}]
  BY DEF TypeInv, TypeOK
<1>1. ASSUME NEW p \in Senders, Deliver(p), p # s PROVE flight'[s] = flight[s]
  BY <1>0, <1>1 DEF Deliver
<1>2. ASSUME NEW p \in Senders, Settle(p) \/ DeliveryFails(p) PROVE flight'[s] = flight[s]
  BY <1>0, <1>2 DEF Settle, DeliveryFails
<1>3. FlushRoute => s = "route" \/ flight'[s] = flight[s]
  BY <1>0 DEF FlushRoute, Sent
<1>4. ASSUME NEW d \in Destinations, Flush(d) PROVE flight'[s] = flight[s] \/ (s = "worker" /\ SentFor(d))
  <2>1. CASE UNCHANGED flight
    BY <2>1
  <2>2. CASE Receiver(d) # None /\ Sent("worker", Deliverable({d}), Receiver(d))
    BY <1>0, <1>4, <2>2 DEF Sent, SentFor
  <2> QED BY <1>4, <2>1, <2>2 DEF Flush
<1>5. ~Crash /\ (WriteThrows => flight'[s] = flight[s])
  BY <1>0 DEF Crash, WriteThrows
<1>6. \/ flight' = flight \/ FlushRoute \/ WriteThrows \/ Crash
      \/ \E p \in Senders : Deliver(p) \/ Settle(p) \/ DeliveryFails(p)
      \/ \E d \in Destinations : Flush(d)
  BY DEF Next, User, Answers, Work, Faults, vars, Consent, Enroll, Register, Capture, Revoke, Disconnect, EditReceiver,
         SwitchWorkspace, Accept, Return, Wake, BeginPurges, Purge, Purged, Rest, RequestFails, PurgeFails, Expire
<1> QED BY <1>1, <1>2, <1>3, <1>4, <1>5, <1>6

LEMMA WhoHolds ==
    ASSUME [Next]_vars
    PROVE  held' = held \/ (\E s \in Senders : Deliver(s)) \/ Deletes
<1> USE DEF receivers
<1>1. Purged => Deletes
  BY DEF Purged, Deletes
<1>2. PurgeFails => held' = held \/ Deletes
  BY DEF PurgeFails, Deletes
<1> QED BY <1>1, <1>2
        DEF Next, User, Answers, Work, Faults, vars, Consent, Enroll, Register, Capture, Revoke, Disconnect, EditReceiver,
            SwitchWorkspace, FlushRoute, Accept, Return, Settle, Wake, Flush, BeginPurges, Purge, Rest, RequestFails,
            DeliveryFails, WriteThrows, Crash, Expire

LEMMA WhoPurges ==
    ASSUME [Next]_vars
    PROVE  purge' = purge \/ (\E D \in SUBSET Destinations : Revoked(D)) \/ Purged
<1>1. ASSUME NEW D \in {{d} : d \in Destinations} \cup {Destinations}, Revoke(D)
      PROVE  D \in SUBSET Destinations /\ Revoked(D)
  BY <1>1 DEF Revoke
<1>2. Disconnect => Revoked({AgentForge})
  BY DEF Disconnect, Disconnected
<1>3. ASSUME NEW b \in Bindings \cup {None}, EditReceiver(b) PROVE purge' = purge \/ Revoked({AgentForge})
  BY <1>3 DEF EditReceiver, Disconnected, file
<1>4. Crash => purge' = purge \/ Revoked({AgentForge})
  BY DEF Crash, Disconnected, file
<1>5. {AgentForge} \in SUBSET Destinations
  BY Apart
<1>6. \/ purge' = purge \/ Purged \/ Disconnect \/ Crash
      \/ \E D \in {{d} : d \in Destinations} \cup {Destinations} : Revoke(D)
      \/ \E b \in Bindings \cup {None} : EditReceiver(b)
  BY DEF Next, User, Answers, Work, Faults, vars, file, Consent, Enroll, Register, Capture, SwitchWorkspace, FlushRoute,
         Accept, Return, Deliver, Settle, Wake, Flush, BeginPurges, Purge, Rest, RequestFails, DeliveryFails,
         PurgeFails, WriteThrows, Expire
<1> QED BY <1>1, <1>2, <1>3, <1>4, <1>5, <1>6

LEMMA PurgesLast ==
    ASSUME TypeInv, [Next]_vars, NEW r \in Receipts, purge[r] # "none" PROVE purge'[r] # "none"
<1>0. purge \in [Receipts -> {"none", "pending", "done"}]
  BY DEF TypeInv, TypeOK
<1> QED BY <1>0, WhoPurges DEF Revoked, Purged

LEMMA PurgesFollowStep ==
    ASSUME TypeInv, IssuedOnce, WorkerInOrder, PurgesFollow, [Next]_vars PROVE PurgesFollow'
<1>0. /\ purge \in [Receipts -> {"none", "pending", "done"}] /\ consent \in [Receipts -> Receipt \cup {None}]
      /\ worker \in Worker
  BY DEF TypeInv, TypeOK
<1>1. SUFFICES ASSUME NEW r \in Receipts, purge'[r] # "none"
               PROVE  consent'[r] # None /\ ~consent'[r].active /\ consent'[r].dest = AgentForge
  BY DEF PurgesFollow
<1>2. CASE purge[r] # "none"
  BY <1>1, <1>2, ReceiptsLast DEF PurgesFollow, Lasts
<1>3. CASE purge[r] = "none"
  <2>1. ~Purged
    <3>1. Purged => purge[worker.current] # "none" /\ purge'[r] = IF r = worker.current THEN "done" ELSE purge[r]
      BY <1>0 DEF Purged, WorkerInOrder
    <3> QED BY <1>1, <1>3, <3>1
  <2>2. ASSUME NEW D \in SUBSET Destinations, Revoked(D)
        PROVE  consent[r] \in Receipt /\ consent[r].dest = AgentForge /\ consent'[r] = [consent[r] EXCEPT !.active = FALSE]
    BY <1>0, <1>1, <1>3, <2>2 DEF Revoked, InForce
  <2>3. \A c \in Receipt : LET e == [c EXCEPT !.active = FALSE] IN e # None /\ ~e.active /\ e.dest = c.dest
    <3> SUFFICES ASSUME NEW c \in Receipt
                 PROVE  LET e == [c EXCEPT !.active = FALSE] IN e # None /\ ~e.active /\ e.dest = c.dest
      OBVIOUS
    <3>1. [c EXCEPT !.active = FALSE] \in Receipt
      BY DEF Receipt
    <3> QED BY <3>1, Shapes DEF Receipt
  <2> QED BY <1>1, <1>3, <2>1, <2>2, <2>3, WhoPurges
<1> QED BY <1>2, <1>3

LEMMA WorkerStep == ASSUME TypeInv, WorkerInOrder, [Next]_vars PROVE WorkerInOrder'
<1>0. /\ worker \in Worker /\ purge \in [Receipts -> {"none", "pending", "done"}]
      /\ None \notin Receipts /\ worker.todo \subseteq Receipts /\ worker.current \in Receipts \cup {None}
  BY Apart, WorkerShape DEF TypeInv, TypeOK
<1>1. ASSUME worker' = Resting PROVE WorkerInOrder'
  BY <1>1, WorkerShape DEF WorkerInOrder
<1>2. CASE Rest \/ WriteThrows \/ Crash
  BY <1>1, <1>2 DEF Rest, WriteThrows, Released, Crash
<1>3. CASE BeginPurges
  <2>1. CASE worker' = [Resting EXCEPT !.pc = "purge", !.config = Current, !.todo = PendingPurges]
    <3>1. worker'.todo = PendingPurges /\ worker'.current = None
      BY <2>1 DEF Resting
    <3>2. flight'["worker"] = None /\ purge' = purge
      BY <1>3 DEF BeginPurges, Deliveries, file
    <3> QED BY <3>1, <3>2 DEF WorkerInOrder, PendingPurges
  <2> QED BY <1>1, <1>3, <2>1 DEF BeginPurges
<1>4. CASE Wake \/ \E d \in Destinations : Flush(d)
  <2>1. worker'.pc = "flush" /\ worker'.todo \subseteq worker.todo /\ worker'.current \in {worker.current, None} /\ purge' = purge
    BY <1>0, <1>4 DEF Wake, Flush, Resting, Worker, file
  <2> QED BY <1>0, <2>1 DEF WorkerInOrder
<1>5. ASSUME worker'.pc = worker.pc, worker'.todo \subseteq worker.todo,
             worker'.current \in {None, worker.current} \cup worker.todo, flight'["worker"] = None \/ flight'["worker"] = flight["worker"]
      PROVE  WorkerInOrder'
  <2>1. \A r \in worker'.todo \cup ({worker'.current} \ {None}) : r \in worker.todo \cup ({worker.current} \ {None}) /\ r \in Receipts
    BY <1>0, <1>5
  <2>2. \A r \in worker'.todo \cup ({worker'.current} \ {None}) : purge'[r] # "none"
    BY <2>1, PurgesLast DEF WorkerInOrder
  <2> QED BY <1>5, <2>2 DEF WorkerInOrder
<1>6. ASSUME NEW r \in Receipts, Purge(r) PROVE WorkerInOrder'
  BY <1>0, <1>5, <1>6 DEF Purge, Worker
<1>7. CASE Purged \/ PurgeFails
  BY <1>0, <1>5, <1>7 DEF Purged, PurgeFails, Worker
<1>8. ASSUME UNCHANGED worker PROVE WorkerInOrder'
  <2>1. ASSUME flight["worker"] = None, worker.pc = "purge", flight'["worker"] # None PROVE FALSE
    <3>1. ~\E d \in Destinations : SentFor(d)
      BY <2>1 DEF SentFor, Flush
    <3>2. flight'["worker"] = flight["worker"] \/ Deliver("worker")
      BY <2>1, <3>1, WhoFlies DEF Senders
    <3> QED BY <2>1, <3>2 DEF Deliver
  <2>2. worker.pc = "purge" => flight'["worker"] = None
    BY <2>1 DEF WorkerInOrder
  <2>3. \A r \in worker.todo \cup ({worker.current} \ {None}) : purge'[r] # "none"
    BY <1>0, PurgesLast DEF WorkerInOrder
  <2> QED BY <1>8, <2>2, <2>3 DEF WorkerInOrder
<1> QED BY <1>2, <1>3, <1>4, <1>6, <1>7, <1>8
        DEF Next, User, Answers, Work, Faults, vars, Consent, Enroll, Register, Capture, Revoke, Disconnect, EditReceiver,
            SwitchWorkspace, FlushRoute, Accept, Return, Deliver, Settle, RequestFails, DeliveryFails, Expire

\* Where an event is stays where it may be.
LEMMA SentStays ==
    ASSUME TypeInv, IssuedOnce, [Next]_vars, NEW r \in Receipts, NEW to, SentTo(to, r) PROVE SentTo(to, r)'
BY ReceiptsLast DEF SentTo, Lasts

\* A batch is composed of what may be sent there, at the time.
LEMMA Composed ==
    ASSUME TypeInv, [Next]_vars, NEW s \in Senders,
           (s = "route" /\ FlushRoute) \/ (s = "worker" /\ \E d \in Destinations : SentFor(d))
    PROVE  /\ flight'[s].batch \subseteq Entries /\ flight'[s].accepted = FALSE /\ consent' = consent
           /\ \A x \in flight'[s].batch : /\ SentTo(flight'[s].to, x[2]) /\ consent[x[2]].active
                                          /\ s = "route" => consent[x[2]].dest # AgentForge
<1>0. flight \in [Senders -> Flight \cup {None}] /\ TypeOK
  BY DEF TypeInv, TypeOK
<1> USE DEF file
<1>1. CASE s = "route" /\ FlushRoute
  <2>1. flight'[s] = [batch |-> RouteCandidates, to |-> Home, accepted |-> FALSE] /\ consent' = consent
    BY <1>0, <1>1 DEF FlushRoute, Sent
  <2>2. \A x \in RouteCandidates : x \in Entries /\ Authorised(x[2]) /\ consent[x[2]].dest \in Direct
    BY <1>0, DeliverableType DEF RouteCandidates
  <2> QED BY <1>1, <2>1, <2>2, Apart DEF SentTo, Authorised
<1>2. ASSUME s = "worker", NEW d \in Destinations, SentFor(d)
      PROVE  /\ flight'[s].batch \subseteq Entries /\ flight'[s].accepted = FALSE /\ consent' = consent
             /\ \A x \in flight'[s].batch : SentTo(flight'[s].to, x[2]) /\ consent[x[2]].active
  <2>1. flight'[s] = [batch |-> Deliverable({d}), to |-> Receiver(d), accepted |-> FALSE] /\ consent' = consent
    BY <1>0, <1>2 DEF SentFor, Flush, Sent
  <2>2. \A x \in Deliverable({d}) : x \in Entries /\ Authorised(x[2]) /\ consent[x[2]].dest = d
    BY <1>0, DeliverableType
  <2>3. \A x \in Deliverable({d}) : SentTo(Receiver(d), x[2]) /\ consent[x[2]].active
    BY <2>2 DEF SentTo, Authorised, Receiver
  <2>4. /\ flight'[s].batch = Deliverable({d}) /\ flight'[s].to = Receiver(d) /\ flight'[s].accepted = FALSE
        /\ consent' = consent
    BY <2>1
  <2> HIDE DEF SentTo
  <2>5. \A x \in flight'[s].batch : SentTo(flight'[s].to, x[2]) /\ consent[x[2]].active
    BY <2>3, <2>4
  <2>6. flight'[s].batch \subseteq Entries
    BY <2>2, <2>4
  <2> QED BY <2>4, <2>5, <2>6
<1> QED BY <1>1, <1>2

LEMMA BatchStep ==
    ASSUME TypeInv, IssuedOnce, WorkerInOrder, PurgesFollow, BatchesAreSent, [Next]_vars PROVE BatchesAreSent'
<1>0. /\ flight \in [Senders -> Flight \cup {None}] /\ worker.current \in Receipts \cup {None} /\ TypeOK
  BY WorkerShape DEF TypeInv, TypeOK
<1> DEFINE Fine(s, x) == /\ consent'[x[2]] # None
                         /\ IF consent'[x[2]].dest = AgentForge THEN flight'[s].to = consent'[x[2]].receiver
                                                                ELSE flight'[s].to \in {consent'[x[2]].dest, Home}
                         /\ s = "route" => consent'[x[2]].dest # AgentForge
                         /\ flight'[s].accepted => ~consent'[x[2]].active \/ \E h \in held' : h[2] = x
<1>1. SUFFICES ASSUME NEW s \in Senders, flight'[s] # None, NEW x \in flight'[s].batch PROVE Fine(s, x)
  BY DEF BatchesAreSent, SentTo
<1>2. CASE (s = "route" /\ FlushRoute) \/ (s = "worker" /\ \E d \in Destinations : SentFor(d))
  BY <1>1, <1>2, Composed DEF SentTo
<1>3. ASSUME flight[s] \in Flight, flight'[s].batch = flight[s].batch, flight'[s].to = flight[s].to
      PROVE  /\ x[2] \in Receipts /\ Lasts(x[2]) /\ consent[x[2]] # None
             /\ IF consent'[x[2]].dest = AgentForge THEN flight'[s].to = consent'[x[2]].receiver
                                                    ELSE flight'[s].to \in {consent'[x[2]].dest, Home}
             /\ s = "route" => consent'[x[2]].dest # AgentForge
             /\ flight[s].accepted => ~consent[x[2]].active \/ \E h \in held : h[2] = x
  <2>1. x \in flight[s].batch /\ x[2] \in Receipts /\ flight[s] # None
    BY <1>1, <1>3, Shapes
  <2>2. /\ SentTo(flight[s].to, x[2]) /\ (s = "route" => consent[x[2]].dest # AgentForge)
        /\ flight[s].accepted => ~consent[x[2]].active \/ \E h \in held : h[2] = x
    BY <2>1 DEF BatchesAreSent
  <2>3. Lasts(x[2])
    BY <2>1, <2>2, ReceiptsLast DEF SentTo
  <2> QED BY <1>3, <2>1, <2>2, <2>3 DEF SentTo, Lasts
<1>4. CASE Deliver(s)
  <2>1. flight[s] \in Flight /\ flight'[s] = [flight[s] EXCEPT !.accepted = TRUE]
    BY <1>0, <1>4 DEF Deliver
  <2>2. flight'[s].batch = flight[s].batch /\ flight'[s].to = flight[s].to
    BY <2>1 DEF Flight
  <2>3. <<flight[s].to, x>> \in held'
    BY <1>1, <1>4, <2>2 DEF Deliver
  <2>4. \E h \in held' : h[2] = x
    BY <2>3
  <2> QED BY <1>3, <2>1, <2>2, <2>4 DEF Lasts
<1>5. CASE flight'[s] = flight[s]
  <2>1. flight[s] \in Flight
    BY <1>0, <1>1, <1>5
  <2>2. CASE held \subseteq held'
    BY <1>3, <1>5, <2>1, <2>2 DEF Lasts
  <2>3. CASE Deletes
    <3>1. CASE x[2] = worker.current
      <4>1. x[2] \in Receipts /\ Lasts(x[2])
        BY <1>3, <1>5, <2>1
      <4>2. purge[x[2]] # "none"
        BY <2>3, <3>1 DEF Deletes, WorkerInOrder
      <4>3. ~consent[x[2]].active
        BY <4>1, <4>2 DEF PurgesFollow
      <4> QED BY <1>3, <1>5, <2>1, <4>1, <4>3 DEF Lasts
    <3>2. CASE x[2] # worker.current
      <4>1. \A h \in held : h[2] = x => h \in held'
        BY <2>3, <3>2 DEF Deletes
      <4> QED BY <1>3, <1>5, <2>1, <4>1 DEF Lasts
    <3> QED BY <3>1, <3>2
  <2>4. ASSUME NEW p \in Senders, Deliver(p) PROVE held \subseteq held'
    BY <2>4 DEF Deliver
  <2> QED BY <2>2, <2>3, <2>4, WhoHolds
<1> QED BY <1>1, <1>2, <1>4, <1>5, WhoFlies

LEMMA HeldStep ==
    ASSUME TypeInv, IssuedOnce, BatchesAreSent, HeldWasSent, [Next]_vars PROVE HeldWasSent'
<1>0. flight \in [Senders -> Flight \cup {None}] /\ held \subseteq (Direct \cup Bindings) \X Entries
  BY DEF TypeInv, TypeOK
<1>1. ASSUME NEW h \in held PROVE SentTo(h[1], h[2][2])'
  <2>1. h[2][2] \in Receipts /\ SentTo(h[1], h[2][2])
    BY <1>0, Shapes DEF HeldWasSent
  <2> QED BY <2>1, ReceiptsLast DEF SentTo, Lasts
<1>2. ASSUME NEW s \in Senders, Deliver(s), NEW h \in held' \ held PROVE SentTo(h[1], h[2][2])'
  <2>1. flight[s] \in Flight /\ flight[s] # None /\ h \in {flight[s].to} \X flight[s].batch
    BY <1>0, <1>2 DEF Deliver
  <2>2. h[1] = flight[s].to /\ h[2] \in flight[s].batch
    BY <2>1
  <2>3. h[2][2] \in Receipts
    BY <2>1, <2>2, Shapes
  <2>4. SentTo(h[1], h[2][2])
    BY <2>1, <2>2 DEF BatchesAreSent
  <2> QED BY <2>3, <2>4, ReceiptsLast DEF SentTo, Lasts
<1>3. Deletes => held' \subseteq held
  BY DEF Deletes
<1> QED BY <1>1, <1>2, <1>3, WhoHolds DEF HeldWasSent

LEMMA ArrivesStep ==
    ASSUME TypeInv, WorkerInOrder, PurgesFollow, BatchesAreSent, NothingArrives, [Next]_vars PROVE NothingArrives'
<1>0. /\ flight \in [Senders -> Flight \cup {None}] /\ purge \in [Receipts -> {"none", "pending", "done"}]
  BY DEF TypeInv, TypeOK
<1>1. SUFFICES ASSUME NEW s \in Senders, flight'[s] # None, NEW x \in flight'[s].batch PROVE purge'[x[2]] # "done"
  BY DEF NothingArrives
\* A batch is composed of receipts in force, and no purge is about one.
<1>2. CASE (s = "route" /\ FlushRoute) \/ (s = "worker" /\ \E d \in Destinations : SentFor(d))
  <2>1. x[2] \in Receipts /\ consent[x[2]].active
    BY <1>1, <1>2, Composed, Shapes
  <2>2. purge[x[2]] # "done"
    BY <2>1 DEF PurgesFollow
  <2>3. purge' = purge
    BY <1>2 DEF FlushRoute, SentFor, Flush, file
  <2> QED BY <2>2, <2>3
<1>3. CASE flight'[s] = flight[s] \/ Deliver(s)
  <2>1. flight[s] # None /\ x \in flight[s].batch /\ x[2] \in Receipts
    <3>1. CASE flight'[s] = flight[s]
      BY <1>0, <1>1, <3>1, Shapes
    <3>2. CASE Deliver(s)
      <4>1. flight[s] \in Flight /\ flight[s] # None /\ flight'[s] = [flight[s] EXCEPT !.accepted = TRUE]
        BY <1>0, <3>2 DEF Deliver
      <4>2. flight'[s].batch = flight[s].batch
        BY <4>1 DEF Flight
      <4> QED BY <1>1, <4>1, <4>2, Shapes
    <3> QED BY <1>3, <3>1, <3>2
  <2>2. purge[x[2]] # "done"
    BY <2>1 DEF NothingArrives
  <2>3. ASSUME NEW D, Revoked(D) PROVE purge'[x[2]] # "done"
    BY <2>1, <2>2, <2>3 DEF Revoked
  \* The route has nothing for AgentForge, and the worker purges between its batches.
  <2>4. ASSUME Purged PROVE purge'[x[2]] # "done"
    <3>1. s = "route" /\ flight["worker"] = None
      BY <2>1, <2>4 DEF Purged, WorkerInOrder, Senders
    <3>2. consent[x[2]].dest # AgentForge
      BY <2>1, <3>1 DEF BatchesAreSent
    <3>3. purge[x[2]] = "none" /\ purge[worker.current] # "none"
      BY <1>0, <2>1, <2>4, <3>2 DEF PurgesFollow, WorkerInOrder, Purged
    <3> QED BY <1>0, <2>2, <2>4, <3>3, <2>1 DEF Purged
  <2> QED BY <2>2, <2>3, <2>4, WhoPurges
<1> QED BY <1>1, <1>2, <1>3, WhoFlies

LEMMA GoneStep ==
    ASSUME TypeInv, PurgesFollow, NothingArrives, PurgedIsGone, [Next]_vars PROVE PurgedIsGone'
<1>0. /\ flight \in [Senders -> Flight \cup {None}] /\ purge \in [Receipts -> {"none", "pending", "done"}]
  BY DEF TypeInv, TypeOK
<1>1. SUFFICES ASSUME NEW r \in Receipts, purge'[r] = "done", NEW h \in held', h[2][2] = r PROVE FALSE
  BY DEF PurgedIsGone
<1>2. CASE purge[r] = "done"
  <2>1. h \notin held
    BY <1>1, <1>2 DEF PurgedIsGone
  <2>2. ASSUME NEW s \in Senders, Deliver(s) PROVE FALSE
    <3>1. flight[s] \in Flight /\ flight[s] # None /\ h \in {flight[s].to} \X flight[s].batch
      BY <1>0, <1>1, <2>1, <2>2 DEF Deliver
    <3>2. h[2] \in flight[s].batch
      BY <3>1
    <3> QED BY <1>1, <1>2, <3>1, <3>2 DEF NothingArrives
  <2>3. ~Deletes /\ held' # held
    BY <1>1, <2>1 DEF Deletes
  <2> QED BY <2>2, <2>3, WhoHolds
<1>3. CASE purge[r] # "done"
  <2>1. ~\E D \in SUBSET Destinations : Revoked(D)
    BY <1>0, <1>1, <1>3 DEF Revoked
  <2>2. Purged
    BY <1>1, <1>3, <2>1, WhoPurges
  <2>3. r = worker.current
    BY <1>0, <1>1, <1>3, <2>2 DEF Purged
  <2> QED BY <1>1, <2>2, <2>3 DEF Purged
<1> QED BY <1>2, <1>3

DeliveryInv ==
    /\ TypeInv /\ IssuedOnce /\ WorkerInOrder /\ PurgesFollow
    /\ BatchesAreSent /\ HeldWasSent /\ NothingArrives /\ PurgedIsGone

LEMMA DeliveryInitially == Init => DeliveryInv
<1> SUFFICES ASSUME Init PROVE DeliveryInv
  OBVIOUS
<1>1. IssuedOnce /\ PurgesFollow /\ BatchesAreSent /\ HeldWasSent /\ NothingArrives /\ PurgedIsGone
  BY DEF Init, IssuedOnce, Asks, PurgesFollow, BatchesAreSent, HeldWasSent, NothingArrives, PurgedIsGone
<1>2. WorkerInOrder
  BY WorkerShape DEF Init, WorkerInOrder
<1> QED BY <1>1, <1>2, TypeInit DEF DeliveryInv

LEMMA DeliveryStep == DeliveryInv /\ [Next]_vars => DeliveryInv'
BY TypeStep, IssuedStep, WorkerStep, PurgesFollowStep, BatchStep, HeldStep, ArrivesStep, GoneStep DEF DeliveryInv

\* A purge that is reported complete is: AgentForge keeps nothing of the
\* receipt, and nothing that is under way can bring any of it back.
THEOREM PurgesAreComplete == Spec => []PurgedIsGone
<1>1. DeliveryInv => PurgedIsGone
  BY DEF DeliveryInv
<1> QED BY <1>1, DeliveryInitially, DeliveryStep, PTL DEF Spec

\* An event reaches the receiver its receipt is for and no other, where the
\* environment's endpoint is that of the only direct destination.
THEOREM EventsReachTheirReceiver == ASSUME Direct = {Home} PROVE Spec => []OwnReceiverOnly
<1>1. DeliveryInv => OwnReceiverOnly
  <2> SUFFICES ASSUME DeliveryInv, NEW h \in held
               PROVE  h[1] = IF consent[h[2][2]].dest = AgentForge THEN consent[h[2][2]].receiver ELSE consent[h[2][2]].dest
    BY DEF OwnReceiverOnly
  <2>1. h[2][2] \in Receipts /\ SentTo(h[1], h[2][2])
    BY Shapes DEF DeliveryInv, HeldWasSent, TypeInv, TypeOK
  <2>2. consent[h[2][2]].dest \in Destinations
    BY <2>1, Shapes DEF SentTo, DeliveryInv, TypeInv, TypeOK
  <2> QED BY <2>1, <2>2 DEF SentTo, Destinations
<1> QED BY <1>1, DeliveryInitially, DeliveryStep, PTL DEF Spec

\* Whatever the direct destinations are, an event shared under a receipt for
\* AgentForge is kept by the receiver of that receipt and nobody else; one for
\* a direct destination is kept there or at the endpoint of the environment.
ForgeIsApart ==
    \A h \in held :
        IF consent[h[2][2]].dest = AgentForge THEN h[1] = consent[h[2][2]].receiver
                                              ELSE h[1] \in {consent[h[2][2]].dest, Home}

\* Neither /flush nor a change of the receiver mixes the two.
THEOREM ForgeEventsStayApart == Spec => []ForgeIsApart
<1>1. DeliveryInv => ForgeIsApart
  BY DEF DeliveryInv, HeldWasSent, SentTo, ForgeIsApart
<1> QED BY <1>1, DeliveryInitially, DeliveryStep, PTL DEF Spec

\* Who takes an event out of the outbox.
LEMMA WhoDequeues ==
    ASSUME [Next]_vars, NEW x \in outbox \ outbox'
    PROVE  (\E D \in SUBSET Destinations : Revoked(D)) \/ (\E s \in Senders : Settle(s))
<1>1. CASE outbox' = outbox
  BY <1>1
<1>2. ASSUME NEW D \in {{d} : d \in Destinations} \cup {Destinations}, Revoke(D)
      PROVE  D \in SUBSET Destinations /\ Revoked(D)
  BY <1>2 DEF Revoke
<1>3. Disconnect => Revoked({AgentForge})
  BY DEF Disconnect, Disconnected
<1>4. ASSUME NEW b \in Bindings \cup {None}, EditReceiver(b) PROVE outbox' = outbox \/ Revoked({AgentForge})
  BY <1>4 DEF EditReceiver, Disconnected, file
<1>5. Crash => outbox' = outbox \/ Revoked({AgentForge})
  BY DEF Crash, Disconnected, file
<1>6. {AgentForge} \in SUBSET Destinations /\ ~Capture
  BY Apart DEF Capture
<1>7. \/ outbox' = outbox \/ Capture \/ Disconnect \/ Crash \/ \E s \in Senders : Settle(s)
      \/ \E D \in {{d} : d \in Destinations} \cup {Destinations} : Revoke(D)
      \/ \E b \in Bindings \cup {None} : EditReceiver(b)
  BY DEF Next, User, Answers, Work, Faults, vars, file, Consent, Enroll, Register, SwitchWorkspace, FlushRoute,
         Accept, Return, Deliver, Wake, Flush, BeginPurges, Purge, Purged, Rest, RequestFails, DeliveryFails,
         PurgeFails, WriteThrows, Expire
<1> QED BY <1>1, <1>2, <1>3, <1>4, <1>5, <1>6, <1>7

\* Delivery is at least once: what leaves the outbox was delivered, or its
\* receipt was taken back.
THEOREM NothingIsDropped == Spec => AtLeastOnce
<1>1. ASSUME DeliveryInv, [Next]_vars, NEW x \in outbox \ outbox'
      PROVE  ~consent'[x[2]].active \/ \E h \in held : h[2] = x
  <2>0. /\ x[2] \in Receipts /\ consent \in [Receipts -> Receipt \cup {None}] /\ consent[x[2]] # None
        /\ flight \in [Senders -> Flight \cup {None}]
    BY <1>1, Shapes DEF DeliveryInv, TypeInv, TypeOK, QueueInForce
  <2>1. ASSUME NEW D \in SUBSET Destinations, Revoked(D) PROVE ~consent'[x[2]].active
    <3>1. consent'[x[2]] = [consent[x[2]] EXCEPT !.active = FALSE] /\ consent[x[2]] \in Receipt
      BY <1>1, <2>0, <2>1 DEF Revoked
    <3> QED BY <3>1 DEF Receipt
  <2>2. ASSUME NEW s \in Senders, Settle(s) PROVE ~consent'[x[2]].active \/ \E h \in held : h[2] = x
    <3>1. flight[s] # None /\ flight[s].accepted /\ x \in flight[s].batch /\ consent' = consent
      BY <1>1, <2>2 DEF Settle, Settlement
    <3> QED BY <1>1, <3>1 DEF DeliveryInv, BatchesAreSent
  <2> QED BY <1>1, <2>1, <2>2, WhoDequeues
<1>2. DeliveryInv /\ [Next]_vars
        => [\A x \in outbox \ outbox' :
               \/ ~consent'[x[2]].active
               \/ \E h \in held : h[2] = x]_vars
  BY <1>1
<1> QED BY <1>2, DeliveryInitially, DeliveryStep, PTL DEF Spec, AtLeastOnce
=============================================================================
