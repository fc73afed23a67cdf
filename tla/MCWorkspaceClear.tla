--------------------------- MODULE MCWorkspaceClear ---------------------------
(***************************************************************************)
(* A workspace of three directories, with two agents that have a cron job  *)
(* each, for TLC.                                                          *)
(***************************************************************************)
EXTENDS WorkspaceClear, TLC

CONSTANTS AGENTS, SYSTEM, WORKFLOWS, a1, a2, j1, j2, t1, t2, w1

MCNames == <<AGENTS, SYSTEM, WORKFLOWS>>
MCScaffold == <<AGENTS, SYSTEM>>
MCAgentOf == (j1 :> a1) @@ (j2 :> a2)

\* Two confirmations differ in nothing but their plans.
SameTokens == Permutations(Tokens)
=============================================================================
