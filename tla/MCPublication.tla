----------------------------- MODULE MCPublication -----------------------------
(* Two questions on two targets.  The candidates are right, without a result,   *)
(* not of a live provider, or named like the one of another trial.               *)
EXTENDS Publication

McLive ==
  [answer |-> "old", provider |-> "live", responses |-> "own", closed |-> TRUE,
   declared |-> TRUE]
McUnavailable ==
  [answer |-> "none", provider |-> "unavailable", responses |-> "none",
   closed |-> TRUE, declared |-> FALSE]
McScripted == [McLive EXCEPT !.provider = "scripted", !.responses = "none"]
McRepeated == [McLive EXCEPT !.responses = "shared"]

McCandidates == {McLive, McUnavailable, McScripted}
McLiveCandidates == {McLive, McRepeated, McScripted}

McQuestions == <<"q01", "q14">>
McTargets == <<"ddl_only", "okf">>
=============================================================================
