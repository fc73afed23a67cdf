--------------------------- MODULE MCActivityExport ---------------------------
(***************************************************************************)
(* Small instances of the Activity Export for TLC.                         *)
(***************************************************************************)
EXTENDS ActivityExport, TLC

CONSTANTS clawmax, digo, b1, b2, q1, q2
=============================================================================
