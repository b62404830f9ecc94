------------------------- MODULE MCControlExperiment --------------------------
(* Two questions, the two targets the control runner accepts and two        *)
(* repetitions: eight trials in every shuffled order.  The statuses other   *)
(* than "passed" are treated alike by a run, so one of them stands for all. *)
EXTENDS ControlExperiment

Row(q, i) == [question |-> q, instance |-> i]

\* The repository's instance files: one row for each question, configured or
\* not, and a file that lacks a configured question.
MCUniqueFiles == { <<Row("q01", "i01"), Row("q03", "i03")>>,
                   <<Row("q02", "i02"), Row("q03", "i03"), Row("q01", "i01")>>,
                   <<Row("q01", "i01"), Row("q02", "i02")>> }

ASSUME UniqueFilesAssumption ==
  \A file \in MCUniqueFiles : OneRowPerQuestion(file) /\ OneRowPerInstance(file)

\* Two rows for one configured question, none for the other.
MCDuplicateFiles == { <<Row("q01", "i01"), Row("q01", "i01b")>> }
=============================================================================
