---------------------------- MODULE ActivityExport ----------------------------
(***************************************************************************)
(* The Activity Export of one user in one workspace: consent receipts,     *)
(* revocation fences, the outbox and the purge jobs of                     *)
(* lib/activity-export.ts, the worker of lib/activity-export-worker.ts,    *)
(* the AgentForge client (lib/agentforge-activity-export.ts) and the       *)
(* routes that drive them (routes/activity-export.ts).                     *)
(*                                                                         *)
(* Everything durable is one JSON file, read and written inside one        *)
(* synchronous section, so a step lasts from one await to the next.  The   *)
(* receivers are external: each keeps what it handles, and AgentForge also *)
(* keeps the receipts registered with it.  A call that is given up after   *)
(* its timeout was handled before that or never is.                        *)
(***************************************************************************)
EXTENDS Integers, FiniteSets

CONSTANTS Direct,         \* destinations that need a local receipt only ('clawmax-ai', 'digo')
          Home,           \* the one whose endpoint is in the environment ('clawmax-ai')
          AgentForge,     \* the destination with enrollment, registration and purge
          Bindings,       \* the receiver configurations AgentForge may be given
          Configured,     \* the one it has when the process starts
          Requests,       \* HTTP requests that may wait for AgentForge at once
          None,
          MaxReceipts,    \* bound: receipts ever issued
          MaxActivities,  \* bound: activities captured
          MaxEnrollments, \* bound: enrollments saved
          MaxRevocations, \* bound: times the user takes a consent back
          MaxChanges,     \* bound: receiver edits, switches of workspace, receipts that expire
          MaxFaults       \* bound: calls that fail, writes that throw, crashes

Destinations == Direct \cup {AgentForge}
Receipts == 1..MaxReceipts
Entries == (1..MaxActivities) \X Receipts
Senders == {"worker", "route"}
Grants == Destinations \cup {"enrollment"}

\* A receipt, an enrollment, what a request captured, a batch, and the worker.
Receipt == [dest : Destinations, receiver : Bindings \cup {None}, active : BOOLEAN]
Enrollment == [id : 1..MaxEnrollments, receiver : Bindings]
Request == [kind : {"enrollment", "consent"}, receipt : Receipts \cup {None},
            enrollment : 1..MaxEnrollments \cup {None}, fence : Nat,
            receiver : Bindings, accepted : BOOLEAN]
Flight == [batch : SUBSET Entries, to : Direct \cup Bindings, accepted : BOOLEAN]
Worker == [pc : {"idle", "flush", "purge"}, dests : SUBSET Destinations, config : Bindings \cup {None},
           todo : SUBSET Receipts, current : Receipts \cup {None}]

ASSUME HomeIsDirect == Home \in Direct /\ AgentForge \notin Direct /\ "enrollment" \notin Destinations
ASSUME NoneIsNobody == None \notin Destinations \cup Bindings \cup Receipts
ASSUME NoneIsNothing == None \notin Receipt \cup Enrollment \cup Request \cup Flight
ASSUME ConfiguredIsBinding == Configured \in Bindings
ASSUME BoundsAreNat == {MaxReceipts, MaxActivities, MaxEnrollments, MaxRevocations,
                        MaxChanges, MaxFaults} \subseteq Nat

VARIABLES consent,      \* consent[r]: destination, receiver and state of the receipt r
          enrollment,   \* the active enrollment, or None
          purge,        \* purge[r]: "none", "pending" or "done"
          outbox,       \* <<a, r>>: the activity a, queued under the receipt r
          fence,        \* fence[d]: changes with every revocation for d
          binding,      \* AgentForge's configuration in this workspace, or None
          here,         \* the Dashboard has this workspace selected
          expired,      \* receipts past their retention
          request,      \* request[q]: what q captured before its await, or None
          flight,       \* flight[s]: the batch of the sender s under way, or None
          worker,       \* the background worker
          held,         \* <<to, a, r>>: what the receivers keep
          registered,   \* receipts that AgentForge has on record
          stopped,      \* what the user took back and did not ask for again
          issued, activities, enrollments, revocations, changes, faults

file == <<consent, enrollment, purge, outbox, fence>>
setting == <<binding, here, expired>>
receivers == <<held, registered>>
budget == <<revocations, changes, faults>>
counts == <<issued, activities, enrollments>>
vars == <<file, setting, request, flight, worker, receivers, stopped, counts, budget>>

Resting == [pc |-> "idle", dests |-> {}, config |-> None, todo |-> {}, current |-> None]

-----------------------------------------------------------------------------
(* Authority, asked afresh at every use.                                   *)

\* currentAgentForgeReceiverBinding of this workspace.
Current == IF here THEN binding ELSE None

\* Where a batch for d goes: destinationCredentials.
Receiver(d) == IF d = AgentForge THEN Current ELSE d

\* hasActiveConsent with hasCurrentReceiver.
Authorised(r) ==
    /\ consent[r] # None /\ consent[r].active /\ r \notin expired
    /\ consent[r].dest = AgentForge => consent[r].receiver = Current

\* The candidates of a flush: queueEntryHasConsent and the workspace filter.
Deliverable(D) ==
    {x \in outbox : here /\ Authorised(x[2]) /\ consent[x[2]].dest \in D}

Enrolled == enrollment # None /\ enrollment.receiver = Current

Init ==
    /\ consent = [r \in Receipts |-> None] /\ purge = [r \in Receipts |-> "none"]
    /\ enrollment = None /\ outbox = {} /\ fence = [d \in Destinations |-> 0]
    /\ binding = Configured /\ here = TRUE /\ expired = {}
    /\ request = [q \in Requests |-> None] /\ flight = [s \in Senders |-> None]
    /\ worker = Resting /\ held = {} /\ registered = {} /\ stopped = Grants
    /\ issued = 0 /\ activities = 0 /\ enrollments = 0
    /\ revocations = 0 /\ changes = 0 /\ faults = 0

-----------------------------------------------------------------------------
(* The user shares.                                                        *)

\* POST /consent for a destination that needs no registration: one write.
Consent(d) ==
    /\ here /\ issued < MaxReceipts
    /\ d # Home => \E r \in Receipts : Authorised(r) /\ consent[r].dest = Home
    /\ issued' = issued + 1
    /\ consent' = [consent EXCEPT ![issued'] = [dest |-> d, receiver |-> None, active |-> TRUE]]
    /\ stopped' = stopped \ {d}
    /\ UNCHANGED <<enrollment, purge, outbox, fence, setting, request, flight, worker,
                   receivers, activities, enrollments, budget>>

\* POST /agentforge/enrollment up to its await.
Enroll(q) ==
    /\ request[q] = None /\ Current # None /\ enrollments < MaxEnrollments
    /\ request' = [request EXCEPT ![q] =
           [kind |-> "enrollment", receipt |-> None, enrollment |-> None,
            fence |-> fence[AgentForge], receiver |-> Current, accepted |-> FALSE]]
    /\ stopped' = stopped \ {"enrollment"}
    /\ UNCHANGED <<file, setting, flight, worker, receivers, counts, budget>>

\* POST /consent for AgentForge up to its await.
Register(q) ==
    /\ request[q] = None /\ Current # None /\ Enrolled /\ issued < MaxReceipts
    /\ issued' = issued + 1
    /\ request' = [request EXCEPT ![q] =
           [kind |-> "consent", receipt |-> issued', enrollment |-> enrollment.id,
            fence |-> fence[AgentForge], receiver |-> Current, accepted |-> FALSE]]
    /\ stopped' = stopped \ {AgentForge}
    /\ UNCHANGED <<file, setting, flight, worker, receivers, activities, enrollments, budget>>

\* AgentForge takes the call and records the receipt it is about.
Accept(q) ==
    /\ request[q] # None /\ ~request[q].accepted
    /\ request' = [request EXCEPT ![q].accepted = TRUE]
    /\ registered' = registered \cup ({request[q].receipt} \ {None})
    /\ UNCHANGED <<file, setting, flight, worker, held, stopped, counts, budget>>

\* AgentForge refuses, or its answer is lost: 502 and nothing is saved.
RequestFails(q) ==
    /\ request[q] # None /\ faults < MaxFaults
    /\ request' = [request EXCEPT ![q] = None]
    /\ faults' = faults + 1
    /\ UNCHANGED <<file, setting, flight, worker, receivers, stopped, counts,
                   revocations, changes>>

\* Variant: the fence is not compared when the call returns.
StillConnected(c) ==
    /\ Current = c.receiver
    /\ c.kind = "consent" => Enrolled /\ enrollment.id = c.enrollment

\* What the route asks again when its call returns.
StillAuthorised(c) ==
    /\ Current = c.receiver /\ fence[AgentForge] = c.fence
    /\ c.kind = "consent" => Enrolled /\ enrollment.id = c.enrollment

\* The call returned: saveActivityExportEnrollment, which retires the one
\* before, or saveActivityExportConsent; 409 when something has changed.
Return(q) ==
    /\ request[q] # None /\ request[q].accepted
    /\ request' = [request EXCEPT ![q] = None]
    /\ LET c == request[q] IN
         \/ /\ StillAuthorised(c) /\ c.kind = "enrollment" /\ enrollments < MaxEnrollments
            /\ enrollments' = enrollments + 1
            /\ enrollment' = [id |-> enrollments', receiver |-> c.receiver]
            /\ UNCHANGED consent
         \/ /\ StillAuthorised(c) /\ c.kind = "consent"
            /\ consent' = [consent EXCEPT ![c.receipt] =
                   [dest |-> AgentForge, receiver |-> c.receiver, active |-> TRUE]]
            /\ UNCHANGED <<enrollment, enrollments>>
         \/ /\ ~StillAuthorised(c)
            /\ UNCHANGED <<consent, enrollment, enrollments>>
    /\ UNCHANGED <<purge, outbox, fence, setting, flight, worker, receivers, stopped,
                   issued, activities, budget>>

\* appendActivityExportEventsForActiveConsents: one entry for every receipt
\* in force whose scopes, here any of them, have the activity.
Capture ==
    /\ here /\ activities < MaxActivities
    /\ activities' = activities + 1
    /\ \E R \in SUBSET {r \in Receipts : Authorised(r)} :
           R # {} /\ outbox' = outbox \cup {<<activities', r>> : r \in R}
    /\ UNCHANGED <<consent, enrollment, purge, fence, setting, request, flight, worker,
                   receivers, stopped, issued, enrollments, budget>>

-----------------------------------------------------------------------------
(* The user takes it back.                                                 *)

InForce(D) == {r \in Receipts : consent[r] # None /\ consent[r].active /\ consent[r].dest \in D}

\* Variant: the early return for want of a receipt comes before the write.
FencedIfAny(D) ==
    [d \in Destinations |-> fence[d] + (IF d \in D /\ InForce(D) # {} THEN 1 ELSE 0)]

\* A fence changes even when no receipt is in force.
Fenced(D) == [d \in Destinations |-> fence[d] + (IF d \in D THEN 1 ELSE 0)]

\* revokeActivityExportDestinationConsent and revokeActivityExportConsent:
\* the receipts, their purge jobs and their queued events go in one write.
Revoked(D) ==
    LET R == InForce(D) IN
    /\ fence' = Fenced(D)
    /\ consent' = [r \in Receipts |-> IF r \in R THEN [consent[r] EXCEPT !.active = FALSE]
                                                 ELSE consent[r]]
    /\ purge' = [r \in Receipts |->
           IF r \in R /\ consent[r].dest = AgentForge /\ purge[r] = "none"
           THEN "pending" ELSE purge[r]]
    /\ outbox' = {x \in outbox : x[2] \notin R}

\* DELETE /consent, for one destination or for all.
Revoke(D) ==
    /\ here /\ revocations < MaxRevocations
    /\ revocations' = revocations + 1
    /\ Revoked(D)
    /\ stopped' = stopped \cup D
    /\ UNCHANGED <<enrollment, setting, request, flight, worker, receivers, counts,
                   changes, faults>>

\* revokeActivityExportEnrollment: two writes, the consents first.
Disconnected(whole) ==
    /\ Revoked({AgentForge})
    /\ enrollment' = IF whole THEN None ELSE enrollment
    /\ stopped' = stopped \cup {AgentForge} \cup (IF whole THEN {"enrollment"} ELSE {})

\* DELETE /agentforge/enrollment.
Disconnect ==
    /\ here /\ revocations < MaxRevocations
    /\ revocations' = revocations + 1
    /\ Disconnected(TRUE)
    /\ UNCHANGED <<setting, request, flight, worker, receivers, counts, changes, faults>>

\* writeWorkspaceIntegrationConfig and writeWorkspaceIntegrationSecrets: the
\* grants of every user on record go before the new receiver is written.
EditReceiver(b) ==
    /\ here /\ b # binding /\ changes < MaxChanges
    /\ changes' = changes + 1 /\ binding' = b
    /\ IF enrollments > 0 \/ \E r \in Receipts : consent[r] # None /\ consent[r].dest = AgentForge
       THEN Disconnected(TRUE)
       ELSE UNCHANGED <<file, stopped>>
    /\ UNCHANGED <<here, expired, request, flight, worker, receivers, counts,
                   revocations, faults>>

\* The Dashboard selects another workspace, or comes back to this one.
SwitchWorkspace ==
    /\ changes < MaxChanges
    /\ changes' = changes + 1 /\ here' = ~here
    /\ UNCHANGED <<file, binding, expired, request, flight, worker, receivers, stopped,
                   counts, revocations, faults>>

\* The retention of an AgentForge receipt ends.
Expire(r) ==
    /\ consent[r] # None /\ consent[r].dest = AgentForge /\ r \notin expired
    /\ changes < MaxChanges
    /\ changes' = changes + 1 /\ expired' = expired \cup {r}
    /\ UNCHANGED <<file, binding, here, request, flight, worker, receivers, stopped,
                   counts, revocations, faults>>

-----------------------------------------------------------------------------
(* Delivery: flushActivityExportOutbox, for the worker and for the route.  *)

Sent(s, batch, to) ==
    flight' = [flight EXCEPT ![s] = [batch |-> batch, to |-> to, accepted |-> FALSE]]

\* The receiver takes the batch.
Deliver(s) ==
    /\ flight[s] # None /\ ~flight[s].accepted
    /\ flight' = [flight EXCEPT ![s].accepted = TRUE]
    /\ held' = held \cup ({flight[s].to} \X flight[s].batch)
    /\ UNCHANGED <<file, setting, request, worker, registered, stopped, counts, budget>>

\* Variant: every entry for the destination is settled, also a later one.
SettlesDestination(s) ==
    flight[s].batch \cup Deliverable({consent[x[2]].dest : x \in flight[s].batch})

\* What the settlement takes out of the outbox it has just read again.
Settlement(s) == flight[s].batch

\* The answer is good: the batch leaves the outbox.
Settle(s) ==
    /\ flight[s] # None /\ flight[s].accepted
    /\ outbox' = outbox \ Settlement(s)
    /\ flight' = [flight EXCEPT ![s] = None]
    /\ UNCHANGED <<consent, enrollment, purge, fence, setting, request, worker, receivers,
                   stopped, counts, budget>>

\* The call fails, is refused, or its answer is lost: the entries stay.
DeliveryFails(s) ==
    /\ flight[s] # None /\ faults < MaxFaults
    /\ faults' = faults + 1
    /\ flight' = [flight EXCEPT ![s] = None]
    /\ UNCHANGED <<file, setting, request, worker, receivers, stopped, counts,
                   revocations, changes>>

\* Variant: AgentForge's events are not kept out.
RouteCandidatesAll == Deliverable(Destinations)

\* What POST /flush may send to the endpoint of the environment:
\* agentForgeDeliveryMatches keeps AgentForge out, and nothing the others.
RouteCandidates == Deliverable(Direct)

\* POST /flush: no destination is named, and the worker is not asked.
FlushRoute ==
    /\ flight["route"] = None
    /\ RouteCandidates # {}
    /\ Sent("route", RouteCandidates, Home)
    /\ UNCHANGED <<file, setting, request, worker, receivers, stopped, counts, budget>>

-----------------------------------------------------------------------------
(* flushActivityExportWorker.                                              *)

QueuedFor == {consent[x[2]].dest : x \in outbox}

\* Variant: a run without a queued event ends at once.
WakeForEvents ==
    /\ worker.pc = "idle" /\ QueuedFor # {}
    /\ worker' = [Resting EXCEPT !.pc = "flush", !.dests = QueuedFor]
    /\ UNCHANGED <<file, setting, request, flight, receivers, stopped, counts, budget>>

\* The timer, the queue listener or a route; dropped while a run is under way.
Wake ==
    /\ worker.pc = "idle"
    /\ worker' = [Resting EXCEPT !.pc = "flush", !.dests = QueuedFor]
    /\ UNCHANGED <<file, setting, request, flight, receivers, stopped, counts, budget>>

\* The next destination; one without credentials or candidates is skipped.
Flush(d) ==
    /\ worker.pc = "flush" /\ flight["worker"] = None /\ d \in worker.dests
    /\ worker' = [worker EXCEPT !.dests = @ \ {d}]
    /\ IF Receiver(d) # None /\ Deliverable({d}) # {}
       THEN Sent("worker", Deliverable({d}), Receiver(d))
       ELSE UNCHANGED flight
    /\ UNCHANGED <<file, setting, request, receivers, stopped, counts, budget>>

PendingPurges == {r \in Receipts : purge[r] = "pending"}

\* Variant: the deliveries are started and not awaited.
DeliveriesStarted == worker.dests = {}

\* flushAgentForgePurgeQueue, once every delivery was awaited.
Deliveries == flight["worker"] = None /\ worker.dests = {}

BeginPurges ==
    /\ worker.pc = "flush" /\ Deliveries
    /\ worker' = IF Current = None \/ PendingPurges = {} THEN Resting
                 ELSE [Resting EXCEPT !.pc = "purge", !.config = Current, !.todo = PendingPurges]
    /\ UNCHANGED <<file, setting, request, flight, receivers, stopped, counts, budget>>

\* The next job: it is sent only from its workspace, to its receiver.
Purge(r) ==
    /\ worker.pc = "purge" /\ worker.current = None /\ r \in worker.todo
    /\ worker' = [worker EXCEPT !.todo = @ \ {r},
                      !.current = IF here /\ worker.config = consent[r].receiver THEN r ELSE None]
    /\ UNCHANGED <<file, setting, request, flight, receivers, stopped, counts, budget>>

\* AgentForge deletes what it has of the receipt and says so; the job is done.
Purged ==
    /\ worker.pc = "purge" /\ worker.current # None
    /\ held' = {h \in held : h[2][2] # worker.current}
    /\ registered' = registered \ {worker.current}
    /\ purge' = [purge EXCEPT ![worker.current] = "done"]
    /\ worker' = [worker EXCEPT !.current = None]
    /\ UNCHANGED <<consent, enrollment, outbox, fence, setting, request, flight, stopped,
                   counts, budget>>

\* AgentForge may have deleted it, but no answer says completed.
PurgeFails ==
    /\ worker.pc = "purge" /\ worker.current # None /\ faults < MaxFaults
    /\ faults' = faults + 1
    /\ \/ UNCHANGED receivers
       \/ /\ held' = {h \in held : h[2][2] # worker.current}
          /\ registered' = registered \ {worker.current}
    /\ worker' = [worker EXCEPT !.current = None]
    /\ UNCHANGED <<file, setting, request, flight, stopped, counts, revocations, changes>>

\* The purge queue is worked off.
Rest ==
    /\ worker.pc = "purge" /\ worker.current = None /\ worker.todo = {}
    /\ worker' = Resting
    /\ UNCHANGED <<file, setting, request, flight, receivers, stopped, counts, budget>>

\* Variant: the run ends without it, so that it counts as under way.
StaysRunning == [Resting EXCEPT !.pc = "thrown"]

\* The finally clause of a run in which the state could not be written.
Released == Resting

WriteThrows ==
    /\ faults < MaxFaults
    /\ flight["worker"] # None \/ worker.current # None
    /\ faults' = faults + 1
    /\ worker' = Released /\ flight' = [flight EXCEPT !["worker"] = None]
    /\ UNCHANGED <<file, setting, request, receivers, stopped, counts, revocations, changes>>

\* The process dies; only the file is left.  In the middle of a disconnection
\* the consents are already revoked and the enrollment is not.
Crash ==
    /\ faults < MaxFaults
    /\ faults' = faults + 1
    /\ request' = [q \in Requests |-> None] /\ flight' = [s \in Senders |-> None]
    /\ worker' = Resting
    /\ \/ UNCHANGED <<file, stopped, revocations>>
       \/ /\ here /\ revocations < MaxRevocations
          /\ revocations' = revocations + 1
          /\ Disconnected(FALSE)
    /\ UNCHANGED <<setting, receivers, counts, changes>>

-----------------------------------------------------------------------------
User ==
    \/ \E d \in Direct : Consent(d)
    \/ \E q \in Requests : Enroll(q) \/ Register(q)
    \/ Capture
    \/ \E D \in {{d} : d \in Destinations} \cup {Destinations} : Revoke(D)
    \/ Disconnect
    \/ \E b \in Bindings \cup {None} : EditReceiver(b)
    \/ SwitchWorkspace
    \/ FlushRoute

Answers ==
    \/ \E q \in Requests : Accept(q) \/ Return(q)
    \/ \E s \in Senders : Deliver(s) \/ Settle(s)

Work ==
    \/ \E d \in Destinations : Flush(d)
    \/ BeginPurges
    \/ \E r \in Receipts : Purge(r)
    \/ Purged
    \/ Rest

Faults ==
    \/ \E q \in Requests : RequestFails(q)
    \/ \E s \in Senders : DeliveryFails(s)
    \/ PurgeFails
    \/ WriteThrows
    \/ Crash
    \/ \E r \in Receipts : Expire(r)

Next == User \/ Answers \/ Wake \/ Work \/ Faults

Spec == Init /\ [][Next]_vars

\* The timer wakes the worker for ever, every await of a sender or of the
\* worker ends, by an answer or by its 15 s timeout.
Fairness ==
    /\ WF_vars(Wake)
    /\ WF_vars(Work)
    /\ \A s \in Senders : WF_vars(Deliver(s) \/ Settle(s))

FairSpec == Spec /\ Fairness

-----------------------------------------------------------------------------
(* Properties.                                                             *)

\* Every variable has its type: receipts, requests under way, batches under
\* way and the worker's place are what the code can hold.
TypeOK ==
    /\ consent \in [Receipts -> Receipt \cup {None}]
    /\ enrollment \in Enrollment \cup {None}
    /\ purge \in [Receipts -> {"none", "pending", "done"}]
    /\ outbox \subseteq Entries
    /\ fence \in [Destinations -> Nat]
    /\ binding \in Bindings \cup {None} /\ here \in BOOLEAN /\ expired \subseteq Receipts
    /\ request \in [Requests -> Request \cup {None}]
    /\ flight \in [Senders -> Flight \cup {None}]
    /\ worker \in Worker
    /\ held \subseteq (Direct \cup Bindings) \X Entries
    /\ registered \subseteq Receipts /\ stopped \subseteq Grants
    /\ {issued, activities, enrollments, revocations, changes, faults} \subseteq Nat

\* What the user took back stays taken back until the user asks again,
\* whatever request was waiting for AgentForge meanwhile: no receipt of that
\* destination is in force, none of its events is queued, and no enrollment
\* is active after a disconnection.
StopIsFinal ==
    /\ InForce(stopped \cap Destinations) = {}
    /\ \A x \in outbox : consent[x[2]].dest \notin stopped
    /\ "enrollment" \in stopped => enrollment = None

\* What a receiver keeps was sent to it under a receipt for it: an event
\* never reaches another destination, nor a receiver configured later.
OwnReceiverOnly ==
    \A h \in held :
        LET c == consent[h[2][2]] IN
        h[1] = IF c.dest = AgentForge THEN c.receiver ELSE c.dest

\* A purge that is reported complete is: AgentForge keeps no event of that
\* receipt, and none can arrive any more.
PurgedIsGone ==
    \A r \in Receipts : purge[r] = "done" => ~\E h \in held : h[2][2] = r

\* Delivery is at least once: an event leaves the outbox only if its
\* receiver has it or its receipt was revoked.
AtLeastOnce ==
    [][\A x \in outbox \ outbox' :
          \/ ~consent'[x[2]].active
          \/ \E h \in held : h[2] = x]_vars

\* An event that may be delivered does not stay queued for ever.
QueuedLeaves ==
    \A x \in Entries : []<>(x \notin outbox \/ ~here \/ ~Authorised(x[2]))

\* A purge is asked for until it is complete, as long as the receiver and
\* the workspace it concerns are the configured ones.
PurgeEnds ==
    \A r \in Receipts : []<>(purge[r] # "pending" \/ Current # consent[r].receiver)
=============================================================================
