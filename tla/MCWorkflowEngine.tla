-------------------------- MODULE MCWorkflowEngine --------------------------
(***************************************************************************)
(* Small dependency graphs for the model checker: the workflows a, b and c *)
(* with up to two agents.                                                  *)
(***************************************************************************)
EXTENDS WorkflowEngine, TLC

CONSTANTS a, b, c, p, q

Runs(n) == 1..n
Runs2 == Runs(2)
Runs4 == Runs(4)
Runs6 == Runs(6)

\* One workflow, no dependencies.
SoloDeps   == a :> {}
SoloAgents == a :> {p, q}
SoloLimit  == a :> 1
SoloNoLimit  == a :> 0

\* a -> b
ChainDeps   == a :> {} @@ b :> {a}
ChainAgents == a :> {p, q} @@ b :> {p}
ChainLimit  == a :> 0 @@ b :> 1
ChainNoLimit == a :> 0 @@ b :> 0

\* a -> c <- b
JoinDeps   == a :> {} @@ b :> {} @@ c :> {a, b}
\* a -> b -> c and a -> c
DiamondDeps == a :> {} @@ b :> {a} @@ c :> {a, b}
OneAgent   == a :> {p} @@ b :> {p} @@ c :> {p}
NoLimits   == a :> 0 @@ b :> 0 @@ c :> 0
JoinLimit  == a :> 0 @@ b :> 0 @@ c :> 1
=============================================================================
