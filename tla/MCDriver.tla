------------------------------ MODULE MCDriver ------------------------------
(***************************************************************************)
(* Instances of Driver for TLC.                                            *)
(***************************************************************************)
EXTENDS Driver

\* -r once at most (every -r makes a file of its own), in any place.
Usual ==
  {<<>>, <<"o">>, <<"S">>, <<"S", "o">>, <<"e">>, <<"e", "o">>, <<"r">>,
   <<"o", "r">>, <<"r", "o">>, <<"r", "S">>, <<"r", "e">>, <<"r", "o", "S">>,
   <<"h">>, <<"r", "h">>, <<"unknown">>}
=============================================================================
