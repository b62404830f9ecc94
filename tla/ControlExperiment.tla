--------------------------- MODULE ControlExperiment ---------------------------
(***************************************************************************)
(* One run of the control runner: run_control_experiment of                *)
(* runner/core/control_runner.py with FrozenGoldEvaluator.preflight of     *)
(* runner/core/frozen_gold.py.  The run selects its questions, loads their *)
(* frozen Gold, opens the database, and takes the trials of the matrix     *)
(* repetition x target x question one after the other.  What happens       *)
(* inside a trial is ControlTrial; here a trial is the verdict its         *)
(* contract allows.                                                        *)
(***************************************************************************)
EXTENDS Integers, Sequences, FiniteSets

CONSTANTS
  QuestionIds,    \* workload.question_ids of the experiment
  Targets,        \* targets.include of the experiment
  Repetitions,    \* execution.repetitions
  InstanceFiles,  \* the question instance files a run may be given: sequences
                  \* of rows with a question and an instance id
  Verdicts        \* the statuses a trial may end with

ASSUME VerdictAssumption ==
  Verdicts \subseteq {"passed", "failed", "unsupported", "invalid", "timeout"}

ASSUME MatrixAssumption ==
  /\ IsFiniteSet(QuestionIds) /\ QuestionIds # {}
  /\ IsFiniteSet(Targets) /\ Targets # {}
  /\ Repetitions \in Nat \ {0}

ASSUME InstancesAssumption ==
  InstanceFiles \subseteq Seq([question : STRING, instance : STRING])

VARIABLES
  pc,            \* "select", "gold", "database", "trial", "write", "done",
                 \* "refused", "lost"
  instances,     \* the instance file
  goldMap,       \* the questions isolation.gold_results has a path for
  goldLoaded,    \* whether the Gold identities are in memory
  opened,        \* whether the database has been opened
  talking,       \* whether a trial's conversation is under way
  plan,          \* the cells of the matrix, in the order they are run
  verdict,       \* status of the trial just run, "none" otherwise
  statuses,      \* statuses of the trials recorded so far
  disk,          \* trial id -> the trial.json written under it
  runRecord      \* the summaries written to run.json: none, or one

vars == <<pc, instances, goldMap, goldLoaded, opened, talking, plan, verdict,
          statuses, disk, runRecord>>

-----------------------------------------------------------------------------
(* Helpers *)

Orders(S) == { o \in [1 .. Cardinality(S) -> S] : \A x \in S : \E i \in DOMAIN o : o[i] = x }

\* The rows of the file whose question is configured.
Selected == { i \in DOMAIN instances : instances[i].question \in QuestionIds }

SelectedQuestions == { instances[i].question : i \in Selected }

\* The run goes through repetitions, then targets, then questions.
Plan(targets, rows) ==
  [n \in 1 .. Repetitions * Len(targets) * Len(rows) |->
     [repetition |-> ((n - 1) \div (Len(targets) * Len(rows))) + 1,
      target     |-> targets[(((n - 1) \div Len(rows)) % Len(targets)) + 1],
      row        |-> rows[((n - 1) % Len(rows)) + 1]]]

\* Mutant: the repetition is left out of the trial id.
TrialIdWithoutRepetition(cell) == <<cell.row.instance, cell.target>>

\* f"{instance_id}-{target}-r{repetition:02d}"
TrialId(cell) == <<cell.row.instance, cell.target, cell.repetition>>

\* Mutant: the database is opened before Gold is looked at.
DatabaseFirst == [select |-> "database", gold |-> "trial", database |-> "gold"]

\* Where each preflight step leads.
NextStep == [select |-> "gold", gold |-> "database", database |-> "trial"]

GoldCoversSelection == goldMap = SelectedQuestions

\* What the check of the representative instances wants of its file; a run takes
\* any file.
OneRowPerQuestion(file) ==
  \A i, j \in DOMAIN file : file[i].question = file[j].question => i = j

OneRowPerInstance(file) ==
  \A i, j \in DOMAIN file : file[i].instance = file[j].instance => i = j

Count(status) == Cardinality({ i \in DOMAIN statuses : statuses[i] = status })

-----------------------------------------------------------------------------
(* Preflight *)

Init ==
  /\ pc = "select"
  /\ instances \in InstanceFiles
  /\ goldMap \in SUBSET QuestionIds
  /\ goldLoaded = FALSE
  /\ opened = FALSE
  /\ talking = FALSE
  /\ plan = <<>>
  /\ verdict = "none"
  /\ statuses = <<>>
  /\ disk = <<>>
  /\ runRecord = {}

\* Configuration, targets, manifests and identities are checked on the way; any
\* of them may refuse the run.
Refuse ==
  /\ pc \in {"select", "gold", "database"}
  /\ pc' = "refused"
  /\ UNCHANGED <<instances, goldMap, goldLoaded, opened, talking, plan, verdict,
                 statuses, disk, runRecord>>

\* Rows are counted, not told apart.
SelectQuestions ==
  /\ pc = "select"
  /\ pc' = IF Cardinality(Selected) = Cardinality(QuestionIds) THEN NextStep.select ELSE "refused"
  /\ UNCHANGED <<instances, goldMap, goldLoaded, opened, talking, plan, verdict,
                 statuses, disk, runRecord>>

\* The Gold identities of the selection stay in memory for the rest of the run.
LoadGold ==
  /\ pc = "gold"
  /\ IF GoldCoversSelection
       THEN pc' = NextStep.gold /\ goldLoaded' = TRUE
       ELSE pc' = "refused" /\ UNCHANGED goldLoaded
  /\ UNCHANGED <<instances, goldMap, opened, talking, plan, verdict, statuses,
                 disk, runRecord>>

\* Both orders may be shuffled, once for the whole run.
OpenDatabase ==
  /\ pc = "database"
  /\ opened' = TRUE
  /\ \E targets \in Orders(Targets), order \in Orders(Selected) :
       plan' = Plan(targets, [i \in DOMAIN order |-> instances[order[i]]])
  /\ pc' = NextStep.database
  /\ UNCHANGED <<instances, goldMap, goldLoaded, talking, verdict, statuses,
                 disk, runRecord>>

-----------------------------------------------------------------------------
(* Trials *)

Current == plan[Len(statuses) + 1]

\* Context, provider and dispatcher are built afresh for the next cell.
BeginTrial ==
  /\ pc = "trial"
  /\ Len(statuses) < Len(plan)
  /\ ~ talking
  /\ talking' = TRUE
  /\ UNCHANGED <<pc, instances, goldMap, goldLoaded, opened, plan, verdict,
                 statuses, disk, runRecord>>

EndTrial ==
  /\ pc = "trial"
  /\ talking
  /\ talking' = FALSE
  /\ verdict' \in Verdicts
  /\ pc' = "write"
  /\ UNCHANGED <<instances, goldMap, goldLoaded, opened, plan, statuses, disk,
                 runRecord>>

\* The context cannot be read, the provider cannot be built, or the trial
\* raises: the exception leaves the loop.
LoseTrial ==
  /\ pc = "trial"
  /\ Len(statuses) < Len(plan)
  /\ talking' = FALSE
  /\ pc' = "lost"
  /\ UNCHANGED <<instances, goldMap, goldLoaded, opened, plan, verdict, statuses,
                 disk, runRecord>>

\* trial.json is written, then checked against its schema.
Bind(f, k, v) == [x \in DOMAIN f \cup {k} |-> IF x = k THEN v ELSE f[x]]

WriteTrial ==
  /\ pc = "write"
  /\ disk' = Bind(disk, TrialId(Current), [cell |-> Current, status |-> verdict])
  /\ \/ pc' = "trial" /\ statuses' = Append(statuses, verdict)
     \/ pc' = "lost" /\ UNCHANGED statuses
  /\ verdict' = "none"
  /\ UNCHANGED <<instances, goldMap, goldLoaded, opened, talking, plan, runRecord>>

WriteRun ==
  /\ pc = "trial"
  /\ Len(statuses) = Len(plan)
  /\ runRecord' = {[planned |-> Len(statuses), counts |-> [s \in Verdicts |-> Count(s)],
                    status  |-> IF \A i \in DOMAIN statuses : statuses[i] = "passed"
                                  THEN "completed" ELSE "completed_with_failures"]}
  /\ pc' = "done"
  /\ UNCHANGED <<instances, goldMap, goldLoaded, opened, talking, plan, verdict,
                 statuses, disk>>

Next ==
  \/ Refuse \/ SelectQuestions \/ LoadGold \/ OpenDatabase
  \/ BeginTrial \/ EndTrial \/ LoseTrial \/ WriteTrial \/ WriteRun

Spec == Init /\ [][Next]_vars

-----------------------------------------------------------------------------
(* Properties *)

\* Type invariant.  A record is on disk for every status noted, and one more at
\* most: that of a trial lost as its record was checked.
TypeOK ==
  /\ pc \in {"select", "gold", "database", "trial", "write", "done", "refused", "lost"}
  /\ instances \in InstanceFiles
  /\ goldMap \subseteq QuestionIds
  /\ {goldLoaded, opened, talking} \subseteq BOOLEAN
  /\ verdict \in Verdicts \cup {"none"}
  /\ \A i \in DOMAIN statuses : statuses[i] \in Verdicts
  /\ Len(statuses) <= Len(plan)
  /\ Cardinality(DOMAIN disk) \in Len(statuses) .. Len(statuses) + 1

\* A run that is refused has opened no database, talked to no provider and
\* written no artifact.
RefusedLeavesNothing ==
  pc = "refused" => ~ opened /\ plan = <<>> /\ disk = <<>>

\* run.json agrees with the trial records on disk: one for every cell of the
\* matrix, in whatever order the run was shuffled, and as many of each status as
\* the summary counts.
RunRecordMatchesDisk ==
  \A run \in runRecord :
    /\ run.planned = Cardinality(DOMAIN disk)
    /\ { <<disk[t].cell.row.question, disk[t].cell.target, disk[t].cell.repetition>> :
           t \in DOMAIN disk } = QuestionIds \X Targets \X (1 .. Repetitions)
    /\ \A s \in Verdicts :
         run.counts[s] = Cardinality({ t \in DOMAIN disk : disk[t].status = s })

\* A trial record is immutable: what a run has written under a trial id stays,
\* through later repetitions and through the loss of the run.
RecordsAreImmutable ==
  [][\A t \in DOMAIN disk : t \in DOMAIN disk' /\ disk'[t] = disk[t]]_vars

\* What the run's error message says of the selection: a run that starts its
\* trials has one instance for every configured question.
EveryQuestionOnce ==
  pc = "trial" =>
    \A q \in QuestionIds :
      Cardinality({ i \in Selected : instances[i].question = q }) = 1
=============================================================================
