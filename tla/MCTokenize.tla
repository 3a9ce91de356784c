----------------------------- MODULE MCTokenize -----------------------------
(***************************************************************************)
(* Instances of Tokenize for TLC.                                          *)
(***************************************************************************)
EXTENDS Tokenize
=============================================================================
