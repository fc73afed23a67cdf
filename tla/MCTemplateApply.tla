--------------------------- MODULE MCTemplateApply ---------------------------
(***************************************************************************)
(* Two plans, each with a file of its own and a section in one shared      *)
(* index, for TLC.                                                         *)
(***************************************************************************)
EXTENDS TemplateApply, TLC

CONSTANTS p1, p2, f1, f2, groups

MCPlanFiles == (p1 :> {f1, groups}) @@ (p2 :> {f2, groups})
MCShared == {groups}
=============================================================================
