------------------------------ MODULE MCParse -------------------------------
(***************************************************************************)
(* Instances of Parse and Language for TLC.                                *)
(***************************************************************************)
EXTENDS Language
=============================================================================
