------------------------ MODULE WorkspaceClear_proofs ------------------------
(***************************************************************************)
(* Proofs about clearing a workspace: what is removed was confirmed or     *)
(* came in behind the fence, and a complete operation has left nothing     *)
(* but what a child process registered when it was past it.                *)
(***************************************************************************)
EXTENDS WorkspaceClear, TLAPS

-----------------------------------------------------------------------------
(* The inductive invariant.                                                *)

\* While an operation is under way the receipt is its fence, and its plan is
\* one of those that were confirmed.
FenceIsUp ==
    pc # "idle" => /\ plan \in Contents /\ plan \in confirmed
                   /\ receipt = [state |-> "running", plan |-> plan]

TypeInv == TypeOK /\ FenceIsUp

\* What is still in the workspace of an unfinished operation was confirmed, or
\* came in behind the fence.
Unfinished == receipt \in Receipt /\ receipt.state # "complete"

LeftIsConfirmed ==
    Unfinished => \A e \in Entries :
        content[e] > 1 => content[e] \in late \/ \E p \in confirmed : p[e] = content[e]

\* After the removal only a child has put anything into the tree.
ScaffoldIsLeft ==
    pc = "emptied" =>
        \A e \in Entries : content[e] \in {0, 1} \/ (e = AgentsDir /\ content[e] \in late)

\* The operation knows agents that are on disk; of what is registered it still
\* has to go through all but what it has missed, and it goes through all.
AgentsAreOnDisk == pc \in {"jobs", "agents", "remove"} => agents \subseteq dirs
RosterIsKnown ==
    /\ pc # "idle" => registered \subseteq missed \cup (agents \ checked)
    /\ pc \in {"remove", "emptied"} => checked = agents

\* A job is for an agent by which it will be found.
Findable == CASE pc = "idle" -> dirs [] pc \in {"jobs", "agents"} -> agents [] OTHER -> {}
JobsAreFindable == \A j \in jobs : AgentOf[j] \in registered \cup Findable

ClearInv ==
    /\ TypeInv /\ LeftIsConfirmed /\ ScaffoldIsLeft
    /\ AgentsAreOnDisk /\ RosterIsKnown /\ JobsAreFindable

-----------------------------------------------------------------------------
(* What a removal leaves.                                                  *)

LEMMA MadeIsScaffold ==
    ASSUME NEW k PROVE Made(k) \in Contents /\ \A e \in Entries : Made(k)[e] \in {0, 1}
<1>1. {0, 1} \subseteq 0..(MaxWrites + 2)
  BY ClearBounds
<1> QED BY <1>1 DEF Made, Contents

\* A removal that is cut short leaves of every name what was there, or nothing
\* but the scaffold, and it leaves all if its last look at the tree fails.
LEMMA CutShortLeaves ==
    ASSUME TypeOK, CutShort
    PROVE  /\ content' \in Contents /\ dirs' \subseteq dirs
           /\ \A e \in Entries : content'[e] \in {content[e], 0, 1}
           /\ UNCHANGED tree \/ (pc = "remove" /\ Revalidated)
<1>1. {0, 1} \subseteq 0..(MaxWrites + 2)
  BY ClearBounds
<1>2. ASSUME UNCHANGED tree
      PROVE  content' \in Contents /\ dirs' \subseteq dirs /\ \A e \in Entries : content'[e] = content[e]
  BY <1>2 DEF tree, TypeOK
<1>3. ASSUME NEW k, PartlyRemoved(k)
      PROVE  /\ content' \in Contents /\ dirs' \subseteq dirs
             /\ \A e \in Entries : content'[e] \in {content[e], 0}
  <2>1. content' \in Contents /\ \A e \in Entries : content'[e] \in {content[e], 0}
    BY <1>1, <1>3 DEF PartlyRemoved, TypeOK, Contents
  <2>2. dirs' \subseteq dirs
    BY <1>3 DEF PartlyRemoved
  <2> QED BY <2>1, <2>2
<1>4. ASSUME NEW k, dirs' = {}, content' = Made(k)
      PROVE  /\ content' \in Contents /\ dirs' \subseteq dirs
             /\ \A e \in Entries : content'[e] \in {0, 1}
  BY <1>4, MadeIsScaffold
<1> QED BY <1>2, <1>3, <1>4 DEF CutShort

-----------------------------------------------------------------------------
(* Types.                                                                  *)

LEMMA TypeInit == Init => TypeInv
<1> SUFFICES ASSUME Init PROVE TypeInv
  OBVIOUS
<1>1. {0, 2} \subseteq 0..(MaxWrites + 2)
  BY ClearBounds
<1>2. content \in Contents
  BY <1>1 DEF Init, Contents
<1>3. dirs \subseteq Agents
  BY DEF Init
<1>4. 0 \in 0..MaxWrites
  BY ClearBounds
<1> QED BY <1>2, <1>3, <1>4 DEF Init, TypeInv, TypeOK, FenceIsUp

\* A write by anybody gives a name the next number.
LEMMA NextVersion ==
    ASSUME TypeOK, writes < MaxWrites, NEW e,
           content' = [content EXCEPT ![e] = writes + 3], writes' = writes + 1
    PROVE  /\ content' \in Contents /\ writes' \in 0..MaxWrites
           /\ writes + 3 \in 0..(MaxWrites + 2) /\ writes + 3 > 1
<1>1. writes' \in 0..MaxWrites /\ writes + 3 \in 0..(MaxWrites + 2) /\ writes + 3 > 1
  BY ClearBounds DEF TypeOK
<1> QED BY <1>1 DEF TypeOK, Contents

LEMMA TypeStep == ASSUME TypeInv, [Next]_vars PROVE TypeInv'
<1> USE DEF TypeInv
<1>1. ASSUME NEW w \in Requests, BeginRequest(w) \/ ClientLeaves(w) \/ EndRequest(w) \/ KeepPath(w)
      PROVE  TypeInv'
  BY <1>1 DEF BeginRequest, ClientLeaves, EndRequest, KeepPath, TypeOK, FenceIsUp,
              tree, gateway, operation, children, history
<1>2. ASSUME NEW w \in Requests, NEW e \in Entries, Write(w, e) \/ LateWrite(w, e) PROVE TypeInv'
  <2>1. /\ content' \in Contents /\ writes' \in 0..MaxWrites
        /\ writes + 3 \in 0..(MaxWrites + 2)
    BY <1>2, NextVersion DEF Write, LateWrite
  <2> QED BY <1>2, <2>1 DEF Write, LateWrite, TypeOK, FenceIsUp, gateway, operation, requests, children, history
<1>3. ASSUME NEW w \in Requests, NEW a \in Agents, Provision(w, a) PROVE TypeInv'
  <2>1. content' \in Contents /\ writes' \in 0..MaxWrites
    BY <1>3, NextVersion DEF Provision
  <2> QED BY <1>3, <2>1 DEF Provision, TypeOK, FenceIsUp, gateway, operation, requests, history
<1>4. ASSUME NEW a \in Agents, ChildWrites(a) PROVE TypeInv'
  <2>1. /\ content' \in Contents /\ writes' \in 0..MaxWrites
        /\ writes + 3 \in 0..(MaxWrites + 2)
    BY <1>4, NextVersion DEF ChildWrites
  <2>2. late' \subseteq 0..(MaxWrites + 2)
    BY <1>4, <2>1 DEF ChildWrites, TypeOK
  <2> QED BY <1>4, <2>1, <2>2 DEF ChildWrites, TypeOK, FenceIsUp, gateway, operation, requests, children
<1>5. ASSUME NEW a \in Agents, Register(a) \/ ChildEnds(a) PROVE TypeInv'
  <2>1. missed' \subseteq Agents
    BY <1>5 DEF Register, ChildEnds, history, TypeOK
  <2> QED BY <1>5, <2>1 DEF Register, ChildEnds, TypeOK, FenceIsUp, tree, gateway, operation, requests, history
<1>6. ASSUME NEW j \in Jobs, AddJob(j) \/ RemoveJob(j) PROVE TypeInv'
  BY <1>6 DEF AddJob, RemoveJob, TypeOK, FenceIsUp, tree, operation, requests, children, history
<1>7. ASSUME NEW t \in Tokens, Preview(t) PROVE TypeInv'
  <2>1. Retry => receipt \in Receipt
    BY <1>7 DEF Preview, Retry, TypeOK
  <2>2. (IF Retry THEN receipt.plan ELSE content) \in Contents
    BY <2>1 DEF TypeOK, Receipt
  <2> QED BY <1>7, <2>2 DEF Preview, TypeOK, FenceIsUp, tree, gateway, operation, requests, children, history
<1>8. ASSUME NEW t \in Tokens, Lapse(t) PROVE TypeInv'
  BY <1>8 DEF Lapse, TypeOK, FenceIsUp, tree, gateway, operation, requests, children, history
<1>9. ASSUME NEW t \in Tokens, Clear(t) PROVE TypeInv'
  <2>1. preview[t] \in Contents
    BY <1>9 DEF Clear, TypeOK
  <2>2. [state |-> "running", plan |-> preview[t]] \in Receipt
    BY <2>1 DEF Receipt
  <2> QED BY <1>9, <2>1, <2>2 DEF Clear, TypeOK, FenceIsUp, tree, gateway, requests, children
<1>10. CASE JobsRemoved \/ Prepared
  BY <1>10 DEF JobsRemoved, Prepared, TypeOK, FenceIsUp, tree, gateway, requests, children, history
<1>11. ASSUME NEW a \in Agents, Inspect(a) \/ Deregister(a) PROVE TypeInv'
  BY <1>11 DEF Inspect, Deregister, TypeOK, FenceIsUp, tree, gateway, requests, children, history
<1>12. CASE Remove
  BY <1>12, MadeIsScaffold DEF Remove, TypeOK, FenceIsUp, gateway, requests, children, history
<1>13. CASE Complete \/ Fail
  <2>1. content' \in Contents /\ dirs' \subseteq Agents
    BY <1>13, CutShortLeaves DEF Complete, Fail, tree, TypeOK
  <2>2. \A state \in {"complete", "failed"} : [state |-> state, plan |-> plan] \in Receipt
    BY <1>13 DEF Complete, Fail, FenceIsUp, Receipt
  <2> QED BY <1>13, <2>1, <2>2 DEF Complete, Fail, Quit, Forgotten, TypeOK, FenceIsUp, gateway, requests, children
<1>14. CASE Crash
  <2>1. content' \in Contents /\ dirs' \subseteq Agents
    BY <1>14, CutShortLeaves DEF Crash, TypeOK
  <2> QED BY <1>14, <2>1 DEF Crash, Forgotten, TypeOK, FenceIsUp, gateway
<1>15. CASE UNCHANGED vars
  BY <1>15 DEF vars, TypeOK, FenceIsUp, tree, gateway, operation, requests, children, history
<1> QED BY <1>1, <1>2, <1>3, <1>4, <1>5, <1>6, <1>7, <1>8, <1>9, <1>10, <1>11, <1>12, <1>13, <1>14, <1>15
        DEF Next

\* The tree, the receipt, the pending plans and the operation have their types.
THEOREM TypeCorrect == Spec => []TypeOK
<1>1. TypeInv /\ [Next]_vars => TypeInv'
  BY TypeStep
<1>2. TypeInv => TypeOK
  BY DEF TypeInv
<1> QED BY <1>1, <1>2, TypeInit, PTL DEF Spec

-----------------------------------------------------------------------------
(* What a step may do to the tree and to the operation's receipt.          *)

LEMMA FenceIsPending == ASSUME TypeInv, pc # "idle" PROVE Unfinished
BY DEF TypeInv, FenceIsUp, Receipt, Unfinished

LEMMA UnfinishedIsPending == Unfinished => Pending
BY MarksAreNoReceipts DEF Unfinished, Pending

\* What changes in the tree of an unfinished operation came in behind its
\* fence, or it is the removal after the last look at it.
LEMMA TreeStep ==
    ASSUME TypeInv, [Next]_vars, Unfinished, NEW e \in Entries, content'[e] # content[e]
    PROVE  \/ /\ content'[e] \in late' /\ content'[e] > 1
              /\ pc = "emptied" => e = AgentsDir
           \/ content'[e] \in {0, 1} /\ pc = "remove" /\ Revalidated
<1> USE DEF TypeInv
<1>1. Pending
  BY UnfinishedIsPending
<1>2. CASE \E w \in Requests, f \in Entries : LateWrite(w, f)
  <2>1. PICK f \in Entries : /\ content' = [content EXCEPT ![f] = writes + 3] /\ pc # "emptied"
                             /\ writes < MaxWrites /\ writes' = writes + 1
                             /\ late' = late \cup {writes + 3}
    BY <1>2 DEF LateWrite, Yields
  <2>2. writes + 3 > 1
    BY <2>1, NextVersion
  <2>3. content'[e] = writes + 3
    BY <2>1 DEF TypeOK, Contents
  <2> QED BY <2>1, <2>2, <2>3
<1>3. CASE \E a \in Agents : ChildWrites(a)
  <2>1. /\ content' = [content EXCEPT ![AgentsDir] = writes + 3]
        /\ writes < MaxWrites /\ writes' = writes + 1
        /\ late' = late \cup {writes + 3}
    BY <1>1, <1>3 DEF ChildWrites
  <2>2. writes + 3 > 1
    BY <2>1, NextVersion
  <2>3. content'[e] = writes + 3 /\ e = AgentsDir
    BY <2>1 DEF TypeOK, Contents
  <2> QED BY <2>1, <2>2, <2>3
<1>4. CASE Remove
  BY <1>4, MadeIsScaffold DEF Remove
<1>5. CASE Fail \/ Crash
  BY <1>5, CutShortLeaves DEF Fail, Crash, tree
<1> QED BY <1>1, <1>2, <1>3, <1>4, <1>5
    DEF Next, vars, tree, BeginRequest, ClientLeaves, EndRequest, KeepPath, Write, Recovered, Provision,
        Register, ChildEnds, AddJob, RemoveJob, Preview, Lapse, Clear, JobsRemoved, Inspect,
        Deregister, Prepared, Complete

\* An operation begins with a plan that shows the tree, or goes on with an
\* unfinished one, of which nothing is forgotten.
LEMMA ReceiptStep ==
    ASSUME TypeInv, [Next]_vars, Unfinished'
    PROVE  \/ Unfinished /\ confirmed \subseteq confirmed' /\ late \subseteq late'
           \/ UNCHANGED content /\ content \in confirmed'
<1> USE DEF TypeInv
<1>1. ASSUME NEW t \in Tokens, Clear(t)
      PROVE  \/ Unfinished /\ confirmed \subseteq confirmed' /\ late \subseteq late'
             \/ UNCHANGED content /\ content \in confirmed'
  <2>1. CASE Retry
    BY <1>1, <2>1 DEF Clear, Retry, Unfinished, TypeOK
  <2>2. CASE ~Retry
    BY <1>1, <2>2 DEF Clear, UnchangedSince, tree
  <2> QED BY <2>1, <2>2
<1>2. CASE Complete
  BY <1>2 DEF Complete, Quit, Unfinished
<1>3. CASE Fail
  BY <1>3, FenceIsPending DEF Fail
<1>4. CASE Crash
  BY <1>4, MarksAreNoReceipts DEF Crash, Unfinished
<1>5. ASSUME UNCHANGED <<receipt, confirmed>>, late \subseteq late'
      PROVE  Unfinished /\ confirmed \subseteq confirmed' /\ late \subseteq late'
  BY <1>5 DEF Unfinished
<1> QED BY <1>1, <1>2, <1>3, <1>4, <1>5
    DEF Next, vars, tree, history, BeginRequest, ClientLeaves, EndRequest, KeepPath, Write, LateWrite,
        Provision, ChildWrites, Register, ChildEnds, AddJob, RemoveJob, Preview, Lapse, JobsRemoved,
        Inspect, Deregister, Prepared, Remove

LEMMA LeftStep == ASSUME ClearInv, [Next]_vars PROVE LeftIsConfirmed'
<1> SUFFICES ASSUME Unfinished', NEW e \in Entries, content'[e] > 1
             PROVE  content'[e] \in late' \/ \E p \in confirmed' : p[e] = content'[e]
  BY DEF LeftIsConfirmed
<1> USE DEF ClearInv
<1>1. CASE Unfinished /\ confirmed \subseteq confirmed' /\ late \subseteq late'
  <2>1. CASE content'[e] = content[e]
    BY <1>1, <2>1 DEF LeftIsConfirmed
  <2>2. CASE content'[e] # content[e]
    BY <1>1, <2>2, TreeStep
  <2> QED BY <2>1, <2>2
<1>2. CASE UNCHANGED content /\ content \in confirmed'
  BY <1>2
<1> QED BY <1>1, <1>2, ReceiptStep DEF TypeInv

\* After the removal only the steps of others are left, until the operation ends.
LEMMA ScaffoldStep == ASSUME ClearInv, [Next]_vars PROVE ScaffoldIsLeft'
<1> SUFFICES ASSUME pc' = "emptied", NEW e \in Entries
             PROVE  content'[e] \in {0, 1} \/ (e = AgentsDir /\ content'[e] \in late')
  BY DEF ScaffoldIsLeft
<1> USE DEF ClearInv, TypeInv
<1>1. CASE Remove
  BY <1>1, MadeIsScaffold DEF Remove
<1>2. CASE pc = "emptied"
  <2>1. Unfinished
    BY <1>2, FenceIsPending
  <2>2. ~Complete
    BY DEF Complete, Quit, Forgotten
  <2>3. CASE content'[e] = content[e]
    <3>1. late \subseteq late'
      BY <2>2 DEF Next, vars, history, BeginRequest, ClientLeaves, EndRequest, KeepPath, Write, LateWrite,
                  Provision, ChildWrites, Register, ChildEnds, AddJob, RemoveJob, Preview, Lapse, Clear,
                  JobsRemoved, Inspect, Deregister, Prepared, Remove, Fail, Crash
    <3> QED BY <1>2, <2>3, <3>1 DEF ScaffoldIsLeft
  <2>4. CASE content'[e] # content[e]
    BY <1>2, <2>1, <2>4, TreeStep
  <2> QED BY <2>3, <2>4
<1> QED BY <1>1, <1>2
    DEF Next, vars, operation, BeginRequest, ClientLeaves, EndRequest, KeepPath, Write, LateWrite,
        Provision, ChildWrites, Register, ChildEnds, AddJob, RemoveJob, Preview, Lapse, Clear,
        JobsRemoved, Inspect, Deregister, Prepared, Complete, Fail, Quit, Crash, Forgotten

-----------------------------------------------------------------------------
(* What the Gateway has left.                                              *)

\* A child may register at any time; what the operation will not meet any more
\* it has missed.
LEMMA RosterStep == ASSUME ClearInv, [Next]_vars PROVE AgentsAreOnDisk' /\ RosterIsKnown'
<1> USE DEF ClearInv, TypeInv
<1>1. ASSUME NEW t \in Tokens, Clear(t) PROVE AgentsAreOnDisk' /\ RosterIsKnown'
  BY <1>1 DEF Clear, Standard, tree, gateway, AgentsAreOnDisk, RosterIsKnown
<1>2. ASSUME NEW a \in Agents, Register(a) PROVE AgentsAreOnDisk' /\ RosterIsKnown'
  BY <1>2 DEF Register, tree, operation, AgentsAreOnDisk, RosterIsKnown
<1>3. ASSUME NEW a \in Agents, Inspect(a) \/ Deregister(a) PROVE AgentsAreOnDisk' /\ RosterIsKnown'
  BY <1>3 DEF Inspect, Deregister, tree, gateway, history, AgentsAreOnDisk, RosterIsKnown
<1>4. CASE JobsRemoved \/ Prepared \/ Remove
  BY <1>4 DEF JobsRemoved, Prepared, Verified, Remove, tree, gateway, history, AgentsAreOnDisk, RosterIsKnown
<1>5. CASE Complete \/ Fail \/ Crash
  BY <1>5 DEF Complete, Fail, Crash, Quit, Forgotten, AgentsAreOnDisk, RosterIsKnown
<1>6. ASSUME UNCHANGED <<registered, pc, agents, checked, missed>>, dirs \subseteq dirs'
      PROVE  AgentsAreOnDisk' /\ RosterIsKnown'
  BY <1>6 DEF AgentsAreOnDisk, RosterIsKnown
<1> QED BY <1>1, <1>2, <1>3, <1>4, <1>5, <1>6
    DEF Next, vars, tree, gateway, operation, history, BeginRequest, ClientLeaves, EndRequest, KeepPath,
        Write, LateWrite, Provision, ChildWrites, ChildEnds, AddJob, RemoveJob, Preview, Lapse

\* A job is added for a registered agent, and an agent leaves the roster only
\* when the operation knows it and will list its jobs again.
LEMMA JobsStep == ASSUME ClearInv, [Next]_vars PROVE JobsAreFindable'
<1> USE DEF ClearInv, TypeInv
<1>1. ASSUME NEW t \in Tokens, Clear(t) PROVE JobsAreFindable'
  BY <1>1 DEF Clear, gateway, JobsAreFindable, Findable
<1>2. CASE JobsRemoved
  BY <1>2 DEF JobsRemoved, gateway, JobsAreFindable, Findable
<1>3. CASE Prepared
  BY <1>3 DEF Prepared, Verified, Known, gateway, JobsAreFindable, Findable
<1>4. CASE Remove
  BY <1>4 DEF Remove, gateway, JobsAreFindable, Findable
<1>5. CASE Complete \/ Fail \/ Crash
  <2>1. pc' = "idle" /\ UNCHANGED <<registered, jobs>>
    BY <1>5 DEF Complete, Fail, Crash, Quit, Forgotten, gateway
  <2>2. CASE pc \in {"remove", "emptied"}
    BY <2>1, <2>2 DEF JobsAreFindable, Findable
  <2>3. CASE pc \notin {"remove", "emptied"}
    <3>1. UNCHANGED dirs /\ pc \in {"idle", "jobs", "agents"}
      BY <1>5, <2>3 DEF Complete, Fail, Crash, CutShort, tree, TypeOK
    <3> QED BY <2>1, <3>1 DEF JobsAreFindable, Findable, AgentsAreOnDisk
  <2> QED BY <2>2, <2>3
<1>6. ASSUME NEW a \in Agents, Deregister(a) PROVE JobsAreFindable'
  BY <1>6 DEF Deregister, JobsAreFindable, Findable
<1>7. ASSUME NEW j \in Jobs, AddJob(j) \/ RemoveJob(j) PROVE JobsAreFindable'
  BY <1>7 DEF AddJob, RemoveJob, tree, operation, JobsAreFindable, Findable
<1>8. ASSUME UNCHANGED <<jobs, pc, agents>>, registered \subseteq registered', dirs \subseteq dirs'
      PROVE  JobsAreFindable'
  BY <1>8 DEF JobsAreFindable, Findable
<1> QED BY <1>1, <1>2, <1>3, <1>4, <1>5, <1>6, <1>7, <1>8
    DEF Next, vars, tree, gateway, operation, BeginRequest, ClientLeaves, EndRequest, KeepPath, Write,
        LateWrite, Provision, ChildWrites, Register, ChildEnds, Preview, Lapse, Inspect

-----------------------------------------------------------------------------
(* The theorems.                                                           *)

LEMMA ClearInit == Init => ClearInv
<1>1. Init => JobsAreFindable
  BY DEF Init, JobsAreFindable
<1> QED BY <1>1, TypeInit, MarksAreNoReceipts
    DEF Init, ClearInv, LeftIsConfirmed, Unfinished, ScaffoldIsLeft, AgentsAreOnDisk, RosterIsKnown

LEMMA ClearStep == ASSUME ClearInv, [Next]_vars PROVE ClearInv'
BY TypeStep, LeftStep, ScaffoldStep, RosterStep, JobsStep DEF ClearInv

LEMMA ClearInvariant == Spec => []ClearInv
<1>1. ClearInv /\ [Next]_vars => ClearInv'
  BY ClearStep
<1> QED BY <1>1, ClearInit, PTL DEF Spec

\* Whatever an operation removes, the owner has seen in a plan that was
\* confirmed for it, or it came behind the fence into a directory of such a plan.
THEOREM RemovedWasConfirmed == Spec => OnlyConfirmedIsRemoved
<1>1. ASSUME ClearInv, [Next]_vars, NEW e \in Entries, content[e] > 1, content'[e] \in {0, 1}
      PROVE  \E p \in confirmed : p[e] = content[e] \/ (p[e] # 0 /\ content[e] \in late)
  <2>1. \/ Remove \/ Fail \/ Crash
    <3>1. ASSUME TypeOK, writes < MaxWrites, NEW f,
                 content' = [content EXCEPT ![f] = writes + 3], writes' = writes + 1
          PROVE  FALSE
      <4>1. content'[e] \in {content[e], writes + 3} /\ writes + 3 > 1
        BY <3>1, NextVersion DEF TypeOK, Contents
      <4> QED BY <1>1, <4>1
    <3> QED BY <1>1, <3>1
        DEF ClearInv, TypeInv, Next, vars, tree, BeginRequest, ClientLeaves, EndRequest, KeepPath, Write, LateWrite,
            Provision, ChildWrites, Register, ChildEnds, AddJob, RemoveJob, Preview, Lapse, Clear,
            JobsRemoved, Inspect, Deregister, Prepared, Complete
  <2>2. pc = "remove" /\ Revalidated
    BY <1>1, <2>1, CutShortLeaves DEF Remove, Fail, Crash, tree, ClearInv, TypeInv
  <2>3. plan \in confirmed /\ plan[e] # 0
    BY <1>1, <2>2 DEF Revalidated, Present, Named, ClearInv, TypeInv, FenceIsUp
  <2>4. content[e] \in late \/ \E p \in confirmed : p[e] = content[e]
    BY <1>1, <2>2, FenceIsPending DEF ClearInv, LeftIsConfirmed
  <2> QED BY <2>3, <2>4
<1>2. ClearInv /\ [Next]_vars
        => [\A e \in Entries : (content[e] > 1 /\ content'[e] \in {0, 1})
               => \E p \in confirmed : p[e] = content[e] \/ (p[e] # 0 /\ content[e] \in late)]_vars
  BY <1>1
<1> QED BY <1>2, ClearInvariant, PTL DEF Spec, OnlyConfirmedIsRemoved

\* When the receipt comes to say complete, the workspace is the scaffold, up to
\* a child's last writes among the agents, and the Gateway has nothing of it
\* but what a child registered when the operation was past it, and the jobs of
\* that, after any number of attempts.
THEOREM CompleteLeavesNothing == Spec => CompleteIsClean
<1> DEFINE Completes == receipt' # receipt /\ receipt' \notin {None, Torn} /\ receipt'.state = "complete"
<1> DEFINE Clean == /\ \A e \in Entries : content'[e] \in {0, 1} \/ (e = AgentsDir /\ content'[e] \in late)
                    /\ registered' \subseteq missed
                    /\ \A j \in jobs' : AgentOf[j] \in registered'
<1>1. ASSUME ClearInv, Complete PROVE Clean
  <2>1. \A e \in Entries : content'[e] \in {0, 1} \/ (e = AgentsDir /\ content'[e] \in late)
    BY <1>1 DEF Complete, tree, ClearInv, ScaffoldIsLeft
  <2>2. registered' \subseteq missed
    BY <1>1 DEF Complete, gateway, ClearInv, RosterIsKnown
  <2>3. \A j \in jobs' : AgentOf[j] \in registered'
    BY <1>1 DEF Complete, gateway, ClearInv, JobsAreFindable, Findable
  <2> QED BY <2>1, <2>2, <2>3
<1>2. ASSUME ClearInv, [Next]_vars, Completes PROVE Complete
  <2>1. ASSUME NEW t \in Tokens, Clear(t) PROVE receipt'.state = "running"
    BY <2>1 DEF Clear
  <2>2. CASE Fail
    BY <1>2, <2>2 DEF Fail, Quit
  <2>3. CASE Crash
    BY <1>2, <2>3 DEF Crash
  <2> QED BY <1>2, <2>1, <2>2, <2>3
      DEF Next, vars, BeginRequest, ClientLeaves, EndRequest, KeepPath, Write, LateWrite, Provision,
          ChildWrites, Register, ChildEnds, AddJob, RemoveJob, Preview, Lapse, JobsRemoved, Inspect,
          Deregister, Prepared, Remove
<1>3. ClearInv /\ [Next]_vars => [Completes => Clean]_vars
  BY <1>1, <1>2
<1> QED BY <1>3, ClearInvariant, PTL DEF Spec, CompleteIsClean
=============================================================================
