--------------------------- MODULE MCBriefDelivery ---------------------------
(***************************************************************************)
(* Three runs of two workflows and two configurations, for TLC.            *)
(***************************************************************************)
EXTENDS BriefDelivery, TLC

CONSTANTS d1, d2, r1, r2, r3, w1, w2, c1, c2

MCWorkflowOf == (r1 :> w1) @@ (r2 :> w1) @@ (r3 :> w2)
MCCovers == (c1 :> {r1, r2, r3}) @@ (c2 :> {r1})
=============================================================================
