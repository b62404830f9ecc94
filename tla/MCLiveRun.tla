------------------------------- MODULE MCLiveRun -------------------------------
(* A question with one statement and one with two, on one target: the       *)
(* candidates' results are right, right in the wrong order, or wrong.  Or   *)
(* the first question named twice, as the command line allows.              *)
EXTENDS LiveRun

MCQuestions == {<<"q01", "q14">>, <<"q01", "q01">>}
MCTargets   == <<"ddl_only">>
MCGold      == [q \in {"q01", "q14"} |-> IF q = "q01" THEN <<"a">> ELSE <<"a", "b">>]
=============================================================================
