---------------------------- MODULE MCRoundSession ----------------------------
(* Small instances of RoundSession for TLC.                                 *)
EXTENDS RoundSession

(* One iteration that passes, one that is skipped, and two of which the first *)
(* or the last fails.                                                       *)
MCLoops == {<<"pass">>, <<"skip">>, <<"fail", "pass">>, <<"pass", "fail">>}
=============================================================================
