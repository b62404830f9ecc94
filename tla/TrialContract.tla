---------------------------- MODULE TrialContract ----------------------------
(***************************************************************************)
(* What both runners promise of one trial, whatever happens in the         *)
(* conversation: the agent answers at most once, the trial is concluded    *)
(* once, and its verdict is one its answer admits.  A trial whose runner   *)
(* raises is "lost": it has no record.  ControlTrial and NativeTrial are   *)
(* shown to implement this specification.                                  *)
(***************************************************************************)
CONSTANT Admissible   \* answer -> the verdicts it admits

Answers == {"success", "unsupported", "failed"}

VARIABLES
  answer,    \* the status the agent submitted, "none" before
  verdict    \* "pending", the trial's final status, or "lost"

vars == <<answer, verdict>>

Init == answer = "none" /\ verdict = "pending"

Accept ==
  /\ verdict = "pending"
  /\ answer = "none"
  /\ answer' \in Answers
  /\ UNCHANGED verdict

Conclude ==
  /\ verdict = "pending"
  /\ verdict' \in Admissible[answer]
  /\ UNCHANGED answer

Lose ==
  /\ verdict = "pending"
  /\ verdict' = "lost"
  /\ UNCHANGED answer

Next == Accept \/ Conclude \/ Lose

Ends == <>(verdict # "pending")

Spec == Init /\ [][Next]_vars /\ Ends
=============================================================================
