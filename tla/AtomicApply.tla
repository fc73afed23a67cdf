----------------------------- MODULE AtomicApply -----------------------------
(***************************************************************************)
(* What a workspace with Templates promises its readers: a revision goes   *)
(* into the resource files and into the revision ledger in one step, and   *)
(* it is cleaned out of them in one step.  What the user writes into the   *)
(* same files is never touched.                                            *)
(*                                                                         *)
(* A file is the set of those who have text in it: the plans whose section *)
(* it carries, and User when it was edited by hand.                        *)
(***************************************************************************)
CONSTANTS Plans, Files, PlanFiles, User

VARIABLES text,     \* text[f]: whose text the file f carries
          status    \* status[p]: what the revision ledger says of the plan p

avars == <<text, status>>

TypeOK == /\ text \in [Files -> SUBSET (Plans \cup {User})]
          /\ status \in [Plans -> {"absent", "applied", "cleaned"}]

Init == /\ text \in [Files -> SUBSET {User}]
        /\ status = [p \in Plans |-> "absent"]

Apply(p) == /\ status[p] = "absent"
            /\ status' = [status EXCEPT ![p] = "applied"]
            /\ text' = [f \in Files |-> IF f \in PlanFiles[p] THEN text[f] \cup {p} ELSE text[f]]

Cleanup(p) == /\ status[p] = "applied"
              /\ status' = [status EXCEPT ![p] = "cleaned"]
              /\ text' = [f \in Files |-> IF f \in PlanFiles[p] THEN text[f] \ {p} ELSE text[f]]

\* The user edits a file, or takes the edit back.
Edit(f) == /\ \E t \in {text[f] \cup {User}, text[f] \ {User}} : text' = [text EXCEPT ![f] = t]
           /\ UNCHANGED status

Next == \/ \E p \in Plans : Apply(p) \/ Cleanup(p)
        \/ \E f \in Files : Edit(f)

Spec == Init /\ [][Next]_avars
=============================================================================
