---------------------------- MODULE MCMailAccounts ----------------------------
(***************************************************************************)
(* Two accounts and two agents for the model checker.                      *)
(***************************************************************************)
EXTENDS MailAccounts, TLC

CONSTANTS a1, a2, f1, f2, p1, p2, c1, c2

Symmetric ==
  UNION {Permutations(S) : S \in {Accounts, Agents, Flows, Calls}}
=============================================================================
