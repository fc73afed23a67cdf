------------------------- MODULE MailAccounts_proofs -------------------------
(***************************************************************************)
(* Proofs about the mail accounts: what is undone was exposed to an        *)
(* overlap, a code is exchanged once, and grants follow the connections.   *)
(***************************************************************************)
EXTENDS MailAccounts, SequenceTheorems, TLAPS

Grant == [account : Accounts, agent : Agents, active : BOOLEAN]

-----------------------------------------------------------------------------
(* The inductive invariant.                                                *)

\* What a call has captured when it waits.
Captured ==
  \A c \in Calls :
    /\ pc[c] = "exchanging" => subject[c] \in Flows /\ held[c] = None
    /\ pc[c] = "refreshing" => held[c] \in Files
    /\ pc[c] = "revoking" => held[c] \in Files /\ subject[c] \in Accounts

\* An authorization waits in a file, or in a copy of it, only after it was begun.
OnlyBegunWait ==
  /\ store.pending \cup truth.pending \subseteq begun
  /\ \A c \in Holders : held[c].pending \subseteq begun

TypeInv == TypeOK /\ Captured /\ OnlyBegunWait

\* In what the files s and t differ.
Differ(s, t) ==
  {f \in Flows : (f \in s.pending) # (f \in t.pending)} \cup
  {a \in Accounts : s.connection[a] # t.connection[a]}

\* The file, and every copy that will be written back, is wrong only in what
\* was exposed.
WrongIsExposed ==
  /\ Differ(store, truth) \subseteq exposed
  /\ \A c \in Holders : Differ(held[c], truth) \subseteq exposed

\* Were nothing ever undone, no authorization would wait any more once its code
\* was exchanged.
ExchangedIsOver == exchanged \subseteq begun /\ exchanged \cap truth.pending = {}

\* GrantsFollowConnections, of the connections as they would be if no change
\* were ever undone.
GrantsFollowTruth ==
  \A i \in DOMAIN grants :
    grants[i].active => grants[i].account \in Connected(truth) \cup exposed \cup cut

MailInv ==
  /\ TypeInv /\ WrongIsExposed /\ ExchangedIsOver
  /\ ExchangedOnce /\ DisconnectRevokes /\ GrantsFollowTruth

-----------------------------------------------------------------------------
(* Types.                                                                  *)

\* Every change of a file of accounts gives a file of accounts.
LEMMA FileTypes ==
  ASSUME NEW s \in Files, NEW f \in Flows, NEW a \in Accounts
  PROVE  Offer(s, f) \in Files /\ Consume(s, f) \in Files
         /\ Connect(s, a, f) \in Files /\ Drop(s, a) \in Files
BY DEF Files, Offer, Consume, Connect, Drop

\* Revoking some grants keeps their list and their owners.
LEMMA RevokedType ==
  ASSUME grants \in Seq(Grant), NEW is
  PROVE  /\ Revoked(is) \in Seq(Grant)
         /\ Len(Revoked(is)) = Len(grants) /\ DOMAIN Revoked(is) = DOMAIN grants
         /\ \A i \in DOMAIN grants :
              /\ Revoked(is)[i].account = grants[i].account
              /\ Revoked(is)[i].active = (grants[i].active /\ i \notin is)
<1>1. Len(grants) \in Nat /\ DOMAIN grants = 1..Len(grants)
  BY LenProperties
<1>2. \A i \in DOMAIN grants : grants[i] \in Grant
  BY <1>1, ElementOfSeq
<1>3. \A i \in DOMAIN grants : [grants[i] EXCEPT !.active = @ /\ i \notin is] \in Grant
  BY <1>2 DEF Grant
<1>4. Revoked(is) \in [1..Len(grants) -> Grant]
  BY <1>1, <1>3 DEF Revoked
<1>5. Revoked(is) \in Seq(Grant)
  BY <1>1, <1>4, SeqDef
<1>6. DOMAIN Revoked(is) = DOMAIN grants
  BY DEF Revoked
<1>7. Len(Revoked(is)) = Len(grants)
  BY <1>1, <1>5, <1>6, LenProperties
<1> QED BY <1>2, <1>5, <1>6, <1>7 DEF Revoked, Grant

\* A new grant takes the place of the agent's earlier ones.
LEMMA AppendType ==
  ASSUME grants \in Seq(Grant), NEW is, NEW g \in Grant
  PROVE  LET new == Append(Revoked(is), g) IN
         /\ new \in Seq(Grant) /\ Len(new) = Len(grants) + 1
         /\ DOMAIN new = 1..Len(grants) + 1
         /\ new[Len(grants) + 1] = g
         /\ \A i \in DOMAIN grants : new[i] = Revoked(is)[i]
<1>1. Revoked(is) \in Seq(Grant) /\ Len(Revoked(is)) = Len(grants)
  BY RevokedType
<1>2. Len(grants) \in Nat /\ DOMAIN grants = 1..Len(grants)
  BY LenProperties
<1> QED BY <1>1, <1>2, AppendProperties


LEMMA TypeInit == Init => TypeInv
<1>1. [pending |-> {}, connection |-> [a \in Accounts |-> None]] \in Files
  BY DEF Files
<1>2. <<>> \in Seq(Grant) /\ Len(<<>>) = 0 /\ DOMAIN <<>> = {}
  BY EmptySeq
<1> QED BY <1>1, <1>2, MailBounds DEF Init, TypeInv, TypeOK, Captured, OnlyBegunWait, Holders, Grant

\* Exposed stays a set of items.
LEMMA ExposeType ==
  ASSUME exposed \subseteq Items, NEW items \in SUBSET Items, NEW others, Expose(items, others)
  PROVE  exposed' \subseteq Items /\ exposed \subseteq exposed'
         /\ (others # {} => items \subseteq exposed')
BY DEF Expose

\* A call that waits has captured what it needs, and the others are as before.
LEMMA WaitType ==
  ASSUME TypeInv, NEW c \in Calls, NEW place, NEW x, NEW s, Wait(c, place, x, s),
         \/ place = "idle" /\ x = None /\ s = None
         \/ place = "exchanging" /\ x \in Flows /\ s = None
         \/ place = "refreshing" /\ x \in Items /\ s \in Files
         \/ place = "revoking" /\ x \in Accounts /\ s \in Files
  PROVE  /\ pc' \in [Calls -> {"idle", "exchanging", "refreshing", "revoking"}]
         /\ subject' \in [Calls -> Items \cup {None}]
         /\ held' \in [Calls -> Files \cup {None}]
         /\ Captured'
         /\ Holders' = IF s = None THEN Holders \ {c} ELSE Holders \cup {c}
         /\ held'[c] = s /\ \A d \in Calls \ {c} : held'[d] = held[d]
BY NoneIsApart DEF Holders, Wait, TypeInv, TypeOK, Captured, Items

\* After a crash nobody waits.
LEMMA StopType ==
  ASSUME Stop
  PROVE  /\ pc' \in [Calls -> {"idle", "exchanging", "refreshing", "revoking"}]
         /\ subject' \in [Calls -> Items \cup {None}]
         /\ held' \in [Calls -> Files \cup {None}]
         /\ Captured' /\ Holders' = {}
BY DEF Stop, Captured, Holders


LEMMA TypeStep == ASSUME TypeInv, [Next]_vars PROVE TypeInv'
<1> USE DEF TypeInv
<1>t. /\ store \in Files /\ truth \in Files /\ grants \in Seq(Grant)
      /\ exposed \subseteq Items /\ expired \subseteq begun /\ begun \subseteq Flows
      /\ Len(grants) \in Nat /\ DOMAIN grants = 1..Len(grants)
  BY LenProperties DEF TypeOK, Grant
<1>1. ASSUME NEW f \in Flows, Begin(f) PROVE TypeInv'
  <2>1. store' \in Files /\ truth' \in Files
        /\ store'.pending \subseteq store.pending \cup {f}
        /\ truth'.pending \subseteq truth.pending \cup {f}
    BY <1>t, <1>1, FileTypes DEF Begin, Offer, Files
  <2>2. {f} \cup (store.pending \cap expired) \subseteq Items
    BY <1>t DEF Items, Files
  <2>3. exposed' \subseteq Items
    BY <1>t, <1>1, <2>2, ExposeType DEF Begin
  <2>4. OnlyBegunWait'
    BY <1>1, <2>1 DEF Begin, calls, OnlyBegunWait, Holders
  <2> QED BY <1>1, <2>1, <2>3, <2>4 DEF Begin, TypeOK, Captured, calls
<1>2. ASSUME NEW f \in Flows, Expire(f) PROVE TypeInv'
  <2>1. f \in begun
    BY <1>2 DEF Expire, OnlyBegunWait
  <2> QED BY <1>2, <2>1 DEF Expire, TypeOK, Captured, OnlyBegunWait, Holders, calls, files
<1>3. ASSUME NEW c \in Calls, NEW f \in Flows, BeginComplete(c, f) PROVE TypeInv'
  <2>1. /\ store' \in Files /\ truth' \in Files /\ exposed' \subseteq Items
        /\ store'.pending \subseteq store.pending /\ truth'.pending \subseteq truth.pending
    BY <1>t, <1>3 DEF BeginComplete, Take, Consume, Files, Expose, Items
  <2>2. CASE UNCHANGED <<calls, exchanged, repeated>>
    BY <1>3, <2>1, <2>2 DEF BeginComplete, TypeOK, Captured, OnlyBegunWait, Holders, calls
  <2>3. CASE Wait(c, "exchanging", f, None) /\ exchanged' = exchanged \cup {f}
             /\ repeated' = repeated \cup ({f} \cap exchanged)
    <3>1. OnlyBegunWait'
      BY <1>3, <2>1, <2>3, WaitType DEF BeginComplete, OnlyBegunWait, Holders
    <3> QED BY <1>3, <2>1, <2>3, <3>1, WaitType DEF BeginComplete, TypeOK
  <2> QED BY <1>3, <2>2, <2>3 DEF BeginComplete
<1>4. ASSUME NEW c \in Calls, NEW a \in Accounts, EndComplete(c, a) PROVE TypeInv'
  <2>1. /\ store' \in Files /\ truth' \in Files /\ exposed' \subseteq Items
        /\ store'.pending = store.pending /\ truth'.pending = truth.pending
    BY <1>t, <1>4 DEF EndComplete, Captured, Connect, Files, Expose, Items
  <2>2. OnlyBegunWait'
    BY <1>4, <2>1, WaitType DEF EndComplete, Done, OnlyBegunWait, Holders
  <2> QED BY <1>4, <2>1, <2>2, WaitType DEF EndComplete, Done, TypeOK
<1>5. ASSUME NEW c \in Calls, NEW a \in Accounts, BeginRefresh(c, a) \/ BeginDisconnect(c, a)
      PROVE TypeInv'
  <2>1. PICK place \in {"refreshing", "revoking"} : Wait(c, place, a, store)
    BY <1>5 DEF BeginRefresh, BeginDisconnect
  <2>2. a \in Items
    BY DEF Items
  <2>3. OnlyBegunWait'
    BY <1>t, <1>5, <2>1, <2>2, WaitType
       DEF BeginRefresh, BeginDisconnect, OnlyBegunWait, Holders, files
  <2> QED BY <1>t, <1>5, <2>1, <2>2, <2>3, WaitType
         DEF BeginRefresh, BeginDisconnect, TypeOK, files
<1>6. ASSUME NEW c \in Calls, EndRefresh(c) PROVE TypeInv'
  <2>1. c \in Holders /\ held[c] \in Files
    BY <1>6, NoneIsApart DEF EndRefresh, Captured, Holders
  <2>2. OnlyBegunWait'
    BY <1>6, <2>1, WaitType DEF EndRefresh, Done, OnlyBegunWait, Holders
  <2> QED BY <1>6, <2>1, <2>2, WaitType DEF EndRefresh, Done, TypeOK
<1>7. ASSUME NEW c \in Calls, Fail(c) PROVE TypeInv'
  <2>1. OnlyBegunWait'
    BY <1>7, WaitType DEF Fail, Done, OnlyBegunWait, Holders, files
  <2> QED BY <1>7, <2>1, WaitType DEF Fail, Done, TypeOK, files
<1>8. ASSUME NEW c \in Calls, Forget(c), Done(c) \/ Stop
      PROVE  /\ store' \in Files /\ truth' \in Files /\ exposed' \subseteq Items
             /\ pc' \in [Calls -> {"idle", "exchanging", "refreshing", "revoking"}]
             /\ subject' \in [Calls -> Items \cup {None}]
             /\ held' \in [Calls -> Files \cup {None}]
             /\ subject[c] \in Accounts /\ Captured' /\ OnlyBegunWait'
  <2>1. c \in Holders /\ held[c] \in Files /\ subject[c] \in Accounts
    BY <1>8, NoneIsApart DEF Forget, Captured, Holders
  <2>2. /\ store' \in Files /\ truth' \in Files
        /\ store'.pending = held[c].pending /\ truth'.pending = truth.pending
    BY <1>t, <1>8, <2>1 DEF Forget, Drop, Files
  <2>3. exposed' \subseteq Items
    BY <1>t, <1>8, <2>1, ExposeType DEF Forget, Items
  <2>4. /\ pc' \in [Calls -> {"idle", "exchanging", "refreshing", "revoking"}]
        /\ subject' \in [Calls -> Items \cup {None}]
        /\ held' \in [Calls -> Files \cup {None}]
        /\ Captured' /\ Holders' \subseteq Holders
        /\ \A d \in Holders' : held'[d] = held[d]
    BY <1>8, StopType, WaitType DEF Done, Holders
  <2>5. OnlyBegunWait'
    BY <1>8, <2>1, <2>2, <2>4 DEF OnlyBegunWait, Forget
  <2> QED BY <2>1, <2>2, <2>3, <2>4, <2>5
<1>9. ASSUME NEW is
      PROVE  Revoked(is) \in Seq(Grant) /\ Len(Revoked(is)) = Len(grants)
             /\ DOMAIN Revoked(is) = DOMAIN grants
  BY <1>t, RevokedType
<1>10. ASSUME NEW c \in Calls, EndDisconnect(c) PROVE TypeInv'
  <2>1. Of(subject[c]) \subseteq DOMAIN grants
    BY DEF Of
  <2> QED BY <1>8, <1>9, <1>10, <2>1 DEF EndDisconnect, Forget, RevokeAll, TypeOK, Grant
<1>11. ASSUME NEW c \in Calls, CutDisconnect(c) PROVE TypeInv'
  BY <1>8, <1>11 DEF CutDisconnect, Forget, TypeOK
<1>12. ASSUME NEW a \in Accounts, NEW p \in Agents, CreateGrant(a, p) PROVE TypeInv'
  <2>1. [account |-> a, agent |-> p, active |-> TRUE] \in Grant
    BY DEF Grant
  <2>2. grants' \in Seq(Grant) /\ Len(grants') = Len(grants) + 1
        /\ DOMAIN grants' = 1..Len(grants) + 1
    BY <1>t, <1>12, <2>1, AppendType DEF CreateGrant
  <2>3. Len(grants') <= MaxGrants /\ DOMAIN grants \subseteq DOMAIN grants'
    BY <1>t, <1>12, <2>2, MailBounds DEF CreateGrant
  <2> QED BY <1>12, <2>2, <2>3
          DEF CreateGrant, TypeOK, Captured, OnlyBegunWait, Holders, calls, Grant
<1>13. ASSUME NEW is, grants' = Revoked(is),
              UNCHANGED <<store, begun, expired, calls, truth, exposed, exchanged, repeated, dropped, cut>>
       PROVE TypeInv'
  BY <1>9, <1>13 DEF TypeOK, Captured, OnlyBegunWait, Holders, calls, Grant
<1>14. CASE Crash
  BY <1>14, StopType DEF Crash, TypeOK, OnlyBegunWait, files
<1>15. CASE UNCHANGED vars
  BY <1>15 DEF vars, files, calls, TypeOK, Captured, OnlyBegunWait, Holders
<1> QED BY <1>1, <1>2, <1>3, <1>4, <1>5, <1>6, <1>7, <1>10, <1>11, <1>12, <1>13, <1>14, <1>15
        DEF Next, RevokeGrant, StrayDisconnect, RevokeAll

\* The two files, the requests that wait and the histories have their types.
THEOREM TypeCorrect == Spec => []TypeOK
<1>1. Init => TypeInv
  BY TypeInit
<1>2. TypeInv /\ [Next]_vars => TypeInv'
  BY TypeStep
<1>3. TypeInv => TypeOK
  BY DEF TypeInv
<1> QED BY <1>1, <1>2, <1>3, PTL DEF Spec


-----------------------------------------------------------------------------
(* Nothing is undone but what was exposed.                                 *)

\* What differs over a third file.
LEMMA DifferTriangle ==
  ASSUME NEW s, NEW t, NEW u PROVE Differ(s, u) \subseteq Differ(s, t) \cup Differ(t, u)
BY DEF Differ

\* The argument for every step: the file is wrong only in what is exposed, what
\* the step changes is exposed to those who hold the file before and after it,
\* and who takes the file takes it as it is.
LEMMA StepExposes ==
  ASSUME MailInv,
         exposed \subseteq exposed', Differ(store', truth') \subseteq exposed',
         \A c \in Holders' :
            \/ c \in Holders /\ held'[c] = held[c] /\ Differ(truth, truth') \subseteq exposed'
            \/ held'[c] = store /\ truth' = truth
  PROVE  WrongIsExposed'
<1>1. ASSUME NEW c \in Holders' PROVE Differ(held'[c], truth') \subseteq exposed'
  <2>1. CASE c \in Holders /\ held'[c] = held[c] /\ Differ(truth, truth') \subseteq exposed'
    BY <2>1, DifferTriangle DEF MailInv, WrongIsExposed
  <2>2. CASE held'[c] = store /\ truth' = truth
    BY <2>2 DEF MailInv, WrongIsExposed
  <2> QED BY <2>1, <2>2
<1> QED BY <1>1 DEF WrongIsExposed

LEMMA ExposedStep == ASSUME MailInv, [Next]_vars PROVE WrongIsExposed'
<1> USE DEF MailInv, TypeInv
<1>t. store \in Files /\ truth \in Files /\ Differ(store, truth) \subseteq exposed
  BY DEF TypeOK, WrongIsExposed
<1>1. ASSUME NEW f \in Flows, Begin(f) PROVE WrongIsExposed'
  <2> DEFINE X == {f} \cup (store.pending \cap expired)
  <2>1. exposed \subseteq exposed' /\ (Holders # {} => X \subseteq exposed')
    BY <1>1 DEF Begin, Expose
  <2>2. /\ truth'.pending = (truth.pending \ expired) \cup {f}
        /\ truth'.connection = truth.connection
        /\ store'.pending = (store.pending \ expired) \cup {f}
        /\ store'.connection = store.connection
    BY <1>t, <1>1 DEF Begin, Offer, Files
  <2>3. Differ(store', truth') \subseteq Differ(store, truth)
    BY <2>2 DEF Differ
  <2>4. Differ(truth, truth') \subseteq Differ(store, truth) \cup X
    BY <2>2 DEF Differ
  <2>5. Holders' = Holders /\ UNCHANGED held
    BY <1>1 DEF Begin, calls, Holders
  <2> QED BY <1>t, <2>1, <2>3, <2>4, <2>5, StepExposes
<1>2. ASSUME UNCHANGED <<store, held, truth, exposed>> PROVE WrongIsExposed'
  BY <1>2 DEF WrongIsExposed, Holders
<1>3. ASSUME NEW c \in Calls, NEW f \in Flows, BeginComplete(c, f) PROVE WrongIsExposed'
  <2>1. exposed \subseteq exposed' /\ (Holders # {} => {f} \subseteq exposed')
    BY <1>3 DEF BeginComplete, Take, Expose
  <2>2. /\ truth'.pending = truth.pending \ {f} /\ truth'.connection = truth.connection
        /\ store'.pending = store.pending \ {f} /\ store'.connection = store.connection
    BY <1>t, <1>3 DEF BeginComplete, Take, Consume, Files
  <2>3. Differ(store', truth') \subseteq Differ(store, truth) /\ Differ(truth, truth') \subseteq {f}
    BY <2>2 DEF Differ
  <2>4. \A d \in Holders' : d \in Holders /\ held'[d] = held[d]
    BY <1>3, WaitType DEF BeginComplete, calls, Holders
  <2> QED BY <1>t, <2>1, <2>3, <2>4, StepExposes
<1>4. ASSUME NEW c \in Calls, NEW a \in Accounts, EndComplete(c, a) PROVE WrongIsExposed'
  <2>1. exposed \subseteq exposed' /\ (Holders # {} => {a} \subseteq exposed')
    BY <1>4 DEF EndComplete, Expose
  <2>2. /\ truth'.pending = truth.pending /\ store'.pending = store.pending
        /\ truth'.connection = [truth.connection EXCEPT ![a] = subject[c]]
        /\ store'.connection = [store.connection EXCEPT ![a] = subject[c]]
    BY <1>t, <1>4 DEF EndComplete, Connect, Files
  <2>3. truth.connection \in [Accounts -> Flows \cup {None}]
        /\ store.connection \in [Accounts -> Flows \cup {None}]
    BY <1>t DEF Files
  <2>4. Differ(store', truth') \subseteq Differ(store, truth) /\ Differ(truth, truth') \subseteq {a}
    BY <2>2, <2>3 DEF Differ
  <2>5. \A d \in Holders' : d \in Holders /\ held'[d] = held[d]
    BY <1>4, WaitType DEF EndComplete, Done, Holders
  <2> QED BY <1>t, <2>1, <2>4, <2>5, StepExposes
<1>5. ASSUME NEW c \in Calls, NEW a \in Accounts, BeginRefresh(c, a) \/ BeginDisconnect(c, a)
      PROVE WrongIsExposed'
  <2>1. UNCHANGED <<store, truth, exposed>>
        /\ \E place \in {"refreshing", "revoking"} : Wait(c, place, a, store)
    BY <1>5 DEF BeginRefresh, BeginDisconnect, files
  <2>2. \A d \in Holders' : held'[d] = store \/ (d \in Holders /\ held'[d] = held[d])
    BY <1>t, <2>1, WaitType DEF Holders, Items
  <2>3. Differ(truth, truth') = {}
    BY <2>1 DEF Differ
  <2> QED BY <1>t, <2>1, <2>2, <2>3, StepExposes
<1>6. ASSUME NEW c \in Calls, EndRefresh(c) PROVE WrongIsExposed'
  <2>1. c \in Holders /\ UNCHANGED <<truth, exposed>> /\ store' = held[c]
    BY <1>6, NoneIsApart DEF EndRefresh, Captured, Holders
  <2>2. Differ(store', truth') \subseteq exposed' /\ Differ(truth, truth') = {}
    BY <2>1 DEF WrongIsExposed, Differ
  <2>3. \A d \in Holders' : d \in Holders /\ held'[d] = held[d]
    BY <1>6, WaitType DEF EndRefresh, Done, Holders
  <2> QED BY <2>1, <2>2, <2>3, StepExposes
<1>7. ASSUME (\E c \in Calls : Done(c)) \/ Stop, UNCHANGED <<store, truth, exposed>>
      PROVE WrongIsExposed'
  <2>1. \A d \in Holders' : d \in Holders /\ held'[d] = held[d]
    BY <1>7, WaitType, StopType DEF Done, Holders
  <2> QED BY <1>7, <2>1 DEF WrongIsExposed
<1>8. ASSUME NEW c \in Calls, Forget(c), Done(c) \/ Stop PROVE WrongIsExposed'
  <2> DEFINE a == subject[c]
  <2>1. c \in Holders /\ held[c] \in Files /\ a \in Accounts
    BY <1>8, NoneIsApart DEF Forget, Captured, Holders
  <2>2. exposed \subseteq exposed' /\ (Holders \ {c} # {} => {a} \subseteq exposed')
    BY <1>8 DEF Forget, Expose
  <2>3. /\ truth'.pending = truth.pending /\ store'.pending = held[c].pending
        /\ truth'.connection = [truth.connection EXCEPT ![a] = None]
        /\ store'.connection = [held[c].connection EXCEPT ![a] = None]
    BY <1>t, <1>8, <2>1 DEF Forget, Drop, Files
  <2>4. truth.connection \in [Accounts -> Flows \cup {None}]
        /\ held[c].connection \in [Accounts -> Flows \cup {None}]
    BY <1>t, <2>1 DEF Files
  <2>5. Differ(store', truth') \subseteq Differ(held[c], truth) /\ Differ(truth, truth') \subseteq {a}
    BY <2>3, <2>4 DEF Differ
  <2>6. \A d \in Holders' : d \in Holders \ {c} /\ held'[d] = held[d]
    BY <1>8, WaitType, StopType DEF Done, Holders
  <2>7. Differ(held[c], truth) \subseteq exposed
    BY <2>1 DEF WrongIsExposed
  <2> QED BY <2>2, <2>5, <2>6, <2>7, StepExposes
<1> QED BY <1>1, <1>2, <1>3, <1>4, <1>5, <1>6, <1>7, <1>8
        DEF Next, vars, files, calls, Expire, Fail, EndDisconnect, CutDisconnect, CreateGrant,
            RevokeGrant, StrayDisconnect, Crash


\* A code whose authorization still waits in the file was taken back there by
\* an overlap.
LEMMA ExchangeStep ==
  ASSUME MailInv, [Next]_vars PROVE ExchangedIsOver' /\ ExchangedOnce'
<1> USE DEF MailInv, TypeInv
<1>t. /\ store \in Files /\ truth \in Files /\ expired \subseteq begun
      /\ store.pending \subseteq begun /\ exposed \subseteq exposed'
  <2>1. exposed \subseteq exposed'
    BY DEF Next, vars, Begin, Expire, BeginComplete, Take, EndComplete, BeginRefresh, BeginDisconnect,
           EndRefresh, EndDisconnect, CutDisconnect, Forget, Fail, CreateGrant, RevokeGrant,
           StrayDisconnect, Crash, Expose
  <2> QED BY <2>1 DEF TypeOK, OnlyBegunWait
<1>1. ASSUME NEW f \in Flows, Begin(f) PROVE ExchangedIsOver' /\ ExchangedOnce'
  <2>1. truth'.pending \subseteq truth.pending \cup {f}
    BY <1>t, <1>1 DEF Begin, Offer, Files
  <2> QED BY <1>t, <1>1, <2>1 DEF Begin, ExchangedIsOver, ExchangedOnce
<1>2. ASSUME NEW c \in Calls, NEW f \in Flows, BeginComplete(c, f)
      PROVE ExchangedIsOver' /\ ExchangedOnce'
  <2>1. truth'.pending = truth.pending \ {f}
    BY <1>t, <1>2 DEF BeginComplete, Take, Consume, Files
  <2>2. f \in exchanged => f \in exposed
    BY <1>t, <1>2 DEF BeginComplete, ExchangedIsOver, WrongIsExposed, Differ
  <2> QED BY <1>t, <1>2, <2>1, <2>2 DEF BeginComplete, ExchangedIsOver, ExchangedOnce
<1>3. ASSUME UNCHANGED <<begun, exchanged, repeated>>, truth'.pending = truth.pending
      PROVE ExchangedIsOver' /\ ExchangedOnce'
  BY <1>t, <1>3 DEF ExchangedIsOver, ExchangedOnce
<1>4. ASSUME NEW c \in Calls, NEW a \in Accounts, EndComplete(c, a)
      PROVE UNCHANGED <<begun, exchanged, repeated>> /\ truth'.pending = truth.pending
  BY <1>t, <1>4 DEF EndComplete, Connect, Files
<1>5. ASSUME NEW c \in Calls, EndDisconnect(c) \/ CutDisconnect(c)
      PROVE UNCHANGED <<begun, exchanged, repeated>> /\ truth'.pending = truth.pending
  BY <1>t, <1>5 DEF EndDisconnect, CutDisconnect, Forget, Drop, Files
<1> QED BY <1>1, <1>2, <1>3, <1>4, <1>5
        DEF Next, vars, files, Expire, BeginRefresh, BeginDisconnect, EndRefresh, Fail, CreateGrant,
            RevokeGrant, StrayDisconnect, Crash

\* Grants go with their connections, and those dropped are never active again.
LEMMA GrantStep ==
  ASSUME MailInv, [Next]_vars PROVE DisconnectRevokes' /\ GrantsFollowTruth'
<1> USE DEF MailInv, TypeInv
<1>t. /\ store \in Files /\ truth \in Files /\ grants \in Seq(Grant)
      /\ dropped \subseteq DOMAIN grants /\ DOMAIN grants = 1..Len(grants) /\ Len(grants) \in Nat
      /\ exposed \subseteq exposed' /\ cut \subseteq cut'
  <2>1. exposed \subseteq exposed' /\ cut \subseteq cut'
    BY DEF Next, vars, Begin, Expire, BeginComplete, Take, EndComplete, BeginRefresh, BeginDisconnect,
           EndRefresh, EndDisconnect, CutDisconnect, Forget, Fail, CreateGrant, RevokeGrant,
           StrayDisconnect, Crash, Expose
  <2> QED BY <2>1, LenProperties DEF TypeOK, Grant
<1>1. ASSUME UNCHANGED <<grants, dropped>>, Connected(truth) \subseteq Connected(truth') \cup cut'
      PROVE DisconnectRevokes' /\ GrantsFollowTruth'
  BY <1>t, <1>1 DEF DisconnectRevokes, GrantsFollowTruth
<1>2. ASSUME NEW f \in Flows, Begin(f) \/ (\E c \in Calls : BeginComplete(c, f))
      PROVE Connected(truth') = Connected(truth)
  BY <1>t, <1>2 DEF Begin, BeginComplete, Take, Offer, Consume, Connected, Files
<1>3. ASSUME NEW c \in Calls, NEW a \in Accounts, EndComplete(c, a)
      PROVE Connected(truth) \subseteq Connected(truth')
  <2>1. subject[c] \in Flows
    BY <1>3 DEF EndComplete, Captured
  <2> QED BY <1>t, <1>3, <2>1, NoneIsApart DEF EndComplete, Connect, Connected, Files
<1>4. ASSUME NEW c \in Calls, Forget(c)
      PROVE Connected(truth) \subseteq Connected(truth') \cup {subject[c]}
  BY <1>t, <1>4 DEF Forget, Drop, Connected, Files
<1>5. ASSUME NEW c \in Calls, EndDisconnect(c)
      PROVE DisconnectRevokes' /\ GrantsFollowTruth'
  <2> DEFINE a == subject[c]
  <2>1. /\ DOMAIN grants' = DOMAIN grants
        /\ \A i \in DOMAIN grants : grants'[i].account = grants[i].account
        /\ \A i \in DOMAIN grants : grants'[i].active <=> grants[i].active /\ i \notin Of(a)
    BY <1>t, <1>5, RevokedType DEF EndDisconnect, RevokeAll
  <2>2. dropped' = dropped \cup Of(a) /\ Connected(truth) \subseteq Connected(truth') \cup {a}
    BY <1>4, <1>5 DEF EndDisconnect
  <2>3. \A i \in DOMAIN grants : i \in Of(a) <=> grants[i].account = a
    BY DEF Of
  <2>4. Of(a) \subseteq DOMAIN grants
    BY DEF Of
  <2>5. DisconnectRevokes'
    BY <1>t, <2>1, <2>2, <2>4 DEF DisconnectRevokes
  <2>6. GrantsFollowTruth'
    BY <1>t, <2>1, <2>2, <2>3 DEF GrantsFollowTruth
  <2> QED BY <2>5, <2>6
<1>6. ASSUME NEW c \in Calls, CutDisconnect(c) PROVE DisconnectRevokes' /\ GrantsFollowTruth'
  BY <1>1, <1>4, <1>6 DEF CutDisconnect
<1>7. ASSUME NEW is, grants' = Revoked(is), UNCHANGED <<truth, dropped>>
      PROVE DisconnectRevokes' /\ GrantsFollowTruth'
  BY <1>t, <1>7, RevokedType DEF DisconnectRevokes, GrantsFollowTruth
<1>8. ASSUME NEW a \in Accounts, NEW p \in Agents, CreateGrant(a, p)
      PROVE DisconnectRevokes' /\ GrantsFollowTruth'
  <2> DEFINE n == Len(grants) + 1
  <2>1. [account |-> a, agent |-> p, active |-> TRUE] \in Grant
        /\ grants' = Append(Revoked(Current(a, p)), [account |-> a, agent |-> p, active |-> TRUE])
    BY <1>8 DEF Grant, CreateGrant
  <2>2. /\ DOMAIN grants' = 1..n /\ grants'[n].account = a
        /\ \A i \in DOMAIN grants : grants'[i] = Revoked(Current(a, p))[i]
    BY <1>t, <2>1, AppendType
  <2>3. \A i \in DOMAIN grants :
             /\ grants'[i].account = grants[i].account
             /\ grants'[i].active => grants[i].active
    <3>1. \A i \in DOMAIN grants :
             /\ Revoked(Current(a, p))[i].account = grants[i].account
             /\ Revoked(Current(a, p))[i].active => grants[i].active
      BY <1>t, RevokedType
    <3> QED BY <2>2, <3>1
  <2>4. a \in Connected(truth) \cup exposed
    BY <1>8 DEF CreateGrant, WrongIsExposed, Differ, Connected
  <2>5. n \notin DOMAIN grants /\ 1..n = DOMAIN grants \cup {n} /\ UNCHANGED <<truth, dropped>>
    BY <1>t, <1>8 DEF CreateGrant
  <2>6. DisconnectRevokes'
    BY <1>t, <2>2, <2>3, <2>5 DEF DisconnectRevokes
  <2>7. GrantsFollowTruth'
    BY <1>t, <2>2, <2>3, <2>4, <2>5 DEF GrantsFollowTruth
  <2> QED BY <2>6, <2>7
<1> QED BY <1>1, <1>2, <1>3, <1>5, <1>6, <1>7, <1>8
        DEF Next, vars, files, Expire, BeginRefresh, BeginDisconnect, EndRefresh, Fail,
            Begin, BeginComplete, EndComplete, RevokeGrant, StrayDisconnect, RevokeAll, Crash

LEMMA MailInit == Init => MailInv
<1>1. Init => DOMAIN grants = {}
  BY EmptySeq DEF Init
<1> QED BY <1>1, TypeInit
        DEF Init, MailInv, WrongIsExposed, Differ, ExchangedIsOver, ExchangedOnce, Holders,
            DisconnectRevokes, GrantsFollowTruth

LEMMA MailStep == ASSUME MailInv, [Next]_vars PROVE MailInv'
<1> QED BY TypeStep, ExposedStep, ExchangeStep, GrantStep DEF MailInv

LEMMA MailInvariant == Spec => []MailInv
<1>1. MailInv /\ [Next]_vars => MailInv'
  BY MailStep
<1> QED BY <1>1, MailInit, PTL DEF Spec

\* The file of accounts is wrong only in what changed while a refresh or a
\* disconnection held an earlier copy of it.
THEOREM OnlyOverlapsUndo == Spec => []OnlyOverlapsAreUndone
<1>1. MailInv => OnlyOverlapsAreUndone
  BY DEF MailInv, WrongIsExposed, Differ, OnlyOverlapsAreUndone, Undone
<1> QED BY <1>1, MailInvariant, PTL

\* The code of an authorization is exchanged once, unless an overlap put the
\* authorization back.
THEOREM CodesAreExchangedOnce == Spec => []ExchangedOnce
<1>1. MailInv => ExchangedOnce
  BY DEF MailInv
<1> QED BY <1>1, MailInvariant, PTL

\* A disconnection that was answered has revoked the grants of its account.
THEOREM AnsweredDisconnectRevokes == Spec => []DisconnectRevokes
<1>1. MailInv => DisconnectRevokes
  BY DEF MailInv
<1> QED BY <1>1, MailInvariant, PTL

\* An active grant is for a connected account, but for a disconnection that was
\* cut short and for connections lost to an overlap.
THEOREM GrantsAreConnected == Spec => []GrantsFollowConnections
<1>1. MailInv => GrantsFollowConnections
  BY DEF MailInv, GrantsFollowTruth, GrantsFollowConnections, WrongIsExposed, Differ, Connected
<1> QED BY <1>1, MailInvariant, PTL
=============================================================================
