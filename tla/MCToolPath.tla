------------------------------ MODULE MCToolPath ------------------------------
(***************************************************************************)
(* Small instances of ToolPath.                                            *)
(***************************************************************************)
EXTENDS ToolPath

CONSTANTS c1, c2   \* calls
=============================================================================
