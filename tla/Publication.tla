------------------------------ MODULE Publication ------------------------------
(***************************************************************************)
(* From frozen Gold to a published score.  A run - the live run of         *)
(* runner/core/local_live.py or the pilot of runner/core/pilot.py - has    *)
(* its trials evaluated against Gold (load_gold_for_candidate and          *)
(* materialize_publication_trial of publication_orchestrator.py), a        *)
(* manifest binds the trials (build_publication_manifest), and the report  *)
(* accepts them or not (validate_publication_trials of                     *)
(* evaluators/execution.py).  LiveRun models the files of one live run;    *)
(* here a record is written or not, runs die and are started again, and    *)
(* Gold may be frozen anew at any time.                                    *)
(***************************************************************************)
EXTENDS GoldPack

CONSTANTS
  Targets,      \* TARGETS, a sequence
  Repetitions,  \* REPETITIONS
  Candidates,   \* what the native runner may hand over, as Candidate records
  Modes,        \* "live", "pilot"
  RunNames,     \* the basenames the directories of runs may have
  MaxRuns       \* bound: runs whose records lie below one directory

\* answer: the results the candidate has submitted, "none" without a submission
\* that succeeded.  provider: "live", "scripted" or "unavailable".  responses: the
\* candidate has no provider response ids, has ids of its own, or one that the
\* provider gives to other trials too.  closed: the provider was closed.  declared:
\* only declared operations were called.
Candidate == [answer : Versions \cup {"none"},
              provider : {"live", "scripted", "unavailable"},
              responses : {"none", "own", "shared"}, closed : BOOLEAN, declared : BOOLEAN]

ASSUME CandidatesAssumption == Candidates \subseteq Candidate
ASSUME RepetitionsAssumption == Repetitions \in Nat \ {0}
ASSUME TargetsAssumption == Targets \in Seq(STRING) \ {<<>>}
ASSUME ModesAssumption == Modes \subseteq {"live", "pilot"}
ASSUME RunNamesAssumption == RunNames \subseteq STRING
ASSUME MaxRunsAssumption == MaxRuns \in Nat

VARIABLES
  mode,       \* which of the two runs
  stage,      \* "start", "trials", "closed", "bound", "published", "over"
  run,        \* runs so far; the number of one stands for its directory
  runId,      \* the run_id of the last one
  begun,      \* freezes when it was started, 0 if one was under way (history)
  trials,     \* trials of this run that were evaluated, or given up
  loaded,     \* the Gold file read for the trial, before it is compared
  records,    \* the trial.json files of all runs
  manifest,   \* the run manifest
  published   \* the records the report has accepted

publicationVars == <<mode, stage, run, runId, begun, trials, loaded, records, manifest,
                     published>>
atStart == <<run, runId, begun>>
vars == <<goldVars, publicationVars>>

-----------------------------------------------------------------------------
(* The matrix *)

TargetIds == { Targets[i] : i \in DOMAIN Targets }

\* The pilot asks one question.
Asked == IF mode = "pilot" THEN <<Questions[1]>> ELSE Questions

MatrixSize == Repetitions * Len(Targets) * Len(Asked)

\* Mutant: repetitions are counted from 0.
CellFromZero(n) ==
  [question   |-> Asked[((n - 1) % Len(Asked)) + 1],
   target     |-> Targets[(((n - 1) \div Len(Asked)) % Len(Targets)) + 1],
   repetition |-> (n - 1) \div (Len(Asked) * Len(Targets))]

Cell(n) ==
  [question   |-> Asked[((n - 1) % Len(Asked)) + 1],
   target     |-> Targets[(((n - 1) \div Len(Asked)) % Len(Targets)) + 1],
   repetition |-> ((n - 1) \div (Len(Asked) * Len(Targets))) + 1]

Matrix == [question : QuestionIds, target : TargetIds, repetition : 1 .. Repetitions]

CellOf(record) == [question |-> record.question, target |-> record.target,
                   repetition |-> record.repetition]

NoGold == [sql |-> "none", result |-> "none", line |-> "none", at |-> 0]

NoManifest == [run |-> "none", of |-> {}, gold |-> <<>>, pack |-> NoPack]

PublicationInit ==
  /\ GoldInit
  /\ mode \in Modes
  /\ stage = "start"
  /\ run = 0
  /\ runId = "none"
  /\ begun = 0
  /\ trials = 0
  /\ loaded = NoGold
  /\ records = {}
  /\ manifest = NoManifest
  /\ published = {}

-----------------------------------------------------------------------------
(* A run *)

\* The live run verifies the pack first; the pilot only wants it to have an entry
\* for its question, and holds all conversations before it looks at Gold again.
\* The directory must be new, but its basename is the run_id: two runs below
\* different directories may have the same.
StartRun ==
  /\ stage = "start"
  /\ run < MaxRuns
  /\ IF mode = "live" THEN Verifies ELSE pack # NoPack
  /\ run' = run + 1
  /\ runId' \in RunNames
  /\ begun' = IF Freezing THEN 0 ELSE freezes
  /\ trials' = 0
  /\ stage' = "trials"
  /\ UNCHANGED <<goldVars, mode, loaded, records, manifest, published>>

AtTrial == stage = "trials" /\ trials < MatrixSize

TrialCell == Cell(trials + 1)

\* load_gold_for_candidate reads the Gold file first ...
ReadGold ==
  /\ AtTrial
  /\ loaded = NoGold
  /\ TrialCell.question \in DOMAIN goldFiles
  /\ loaded' = goldFiles[TrialCell.question]
  /\ UNCHANGED <<goldVars, mode, stage, atStart, trials, records, manifest, published>>

\* ... and then the pack, with whose entry it compares the file on disk.
GoldIsPacked(q) == pack # NoPack /\ goldFiles[q] = pack.entries[q].file

\* materialize_publication_trial refuses a candidate that is not closed, not of a
\* live provider, or a result without response ids.  Ids of other trials are not
\* looked at here.
Unavailable(c) == c.provider = "unavailable" /\ c.answer = "none"

Materializes(c) ==
  /\ c.closed
  /\ Unavailable(c) \/ c.provider = "live"
  /\ c.responses # "none" \/ c.answer = "none"

Record(c) ==
  [dir |-> run, run |-> runId, question |-> TrialCell.question,
   target |-> TrialCell.target, repetition |-> TrialCell.repetition,
   reference |-> loaded.result, responses |-> c.responses, declared |-> c.declared]

\* Mutant: the Gold of a trial is kept for the next.
Keep == loaded

\* Every trial loads its own.
Forget == NoGold

Evaluate ==
  /\ AtTrial
  /\ loaded # NoGold
  /\ GoldIsPacked(TrialCell.question)
  /\ \E c \in Candidates : Materializes(c) /\ records' = records \cup {Record(c)}
  /\ trials' = trials + 1
  /\ loaded' = Forget
  /\ UNCHANGED <<goldVars, mode, stage, atStart, manifest, published>>

\* The Gold file is missing or not the packed one, the candidate is refused, the
\* trial or the materialization raises: the live run goes on without a record, the
\* pilot ends.
TrialRaises ==
  /\ AtTrial
  /\ trials' = IF mode = "live" THEN trials + 1 ELSE trials
  /\ stage' = IF mode = "live" THEN "trials" ELSE "start"
  /\ loaded' = NoGold
  /\ UNCHANGED <<goldVars, mode, atStart, records, manifest, published>>

\* The process dies; the next run has a directory of its own.
Die ==
  /\ stage = "trials"
  /\ stage' = "start"
  /\ loaded' = NoGold
  /\ UNCHANGED <<goldVars, mode, atStart, trials, records, manifest, published>>

EndTrials ==
  /\ stage = "trials"
  /\ trials = MatrixSize
  /\ stage' = "closed"
  /\ UNCHANGED <<goldVars, mode, atStart, trials, loaded, records, manifest, published>>

-----------------------------------------------------------------------------
(* The manifest *)

\* The trials below the directories of some runs.
RecordsOf(dirs) == { r \in records : r.dir \in dirs }

\* The report looks for trial.json below the directory it is given, at any depth:
\* it finds the trials of one run, or of every run below that directory.
Directories == SUBSET (1 .. run)

ReferencesOf(given, q) == { r.reference : r \in { s \in given : s.question = q } }

\* Mutant: the Gold identity of the last trial is taken, whatever came before.
AnyReferences(given) == TRUE

\* "Gold identity changed within question"
OneReference(given) == \A q \in QuestionIds : Cardinality(ReferencesOf(given, q)) <= 1

\* The schema wants every question and target, and as many trials as the matrix has.
ManifestComplete(given) ==
  /\ Cardinality(given) = MatrixSize
  /\ { r.question : r \in given } = QuestionIds
  /\ { r.target : r \in given } = TargetIds

\* Its "of" is history.
Manifest(dirs) ==
  [run |-> runId, of |-> dirs,
   gold |-> [q \in QuestionIds |->
               CHOOSE v \in ReferencesOf(RecordsOf(dirs), q) : TRUE],
   pack |-> pack]

\* build_publication_manifest; the pack's digest is taken now.
BindRun ==
  /\ mode = "live"
  /\ stage = "closed"
  /\ \E dirs \in Directories :
       /\ OneReference(RecordsOf(dirs))
       /\ ManifestComplete(RecordsOf(dirs))
       /\ manifest' = Manifest(dirs)
  /\ stage' = "bound"
  /\ UNCHANGED <<goldVars, mode, atStart, trials, loaded, records, published>>

\* The pilot's manifest names no Gold result; it cannot be published.
BindPilot ==
  /\ mode = "pilot"
  /\ stage = "closed"
  /\ Cardinality(RecordsOf({run})) = MatrixSize
  /\ manifest' = [run |-> runId, of |-> {run}, gold |-> <<>>, pack |-> pack]
  /\ stage' = "over"
  /\ UNCHANGED <<goldVars, mode, atStart, trials, loaded, records, published>>

\* No manifest without all of the trials; there may be another run.
GiveUp ==
  /\ stage = "closed"
  /\ stage' = "start"
  /\ UNCHANGED <<goldVars, mode, atStart, trials, loaded, records, manifest, published>>

-----------------------------------------------------------------------------
(* The report *)

\* Names are compared, not directories.
RunHolds(given) == \A r \in given : r.run = manifest.run

\* No response id is missing, and none is that of another trial.
ResponsesHold(given) ==
  /\ \A r \in given : r.responses # "none"
  /\ \A r, s \in given : r.responses = "shared" /\ s.responses = "shared" => r = s

\* validate_publication_trials
Valid(given) ==
  /\ Cardinality(given) = MatrixSize
  /\ RunHolds(given)
  /\ \A r, s \in given : CellOf(r) = CellOf(s) => r = s
  /\ ResponsesHold(given)
  /\ \A r \in given : r.declared
  /\ \A r \in given : r.reference = manifest.gold[r.question]
  /\ { CellOf(r) : r \in given } = Matrix

Publish ==
  /\ stage = "bound"
  /\ \E dirs \in Directories : Valid(RecordsOf(dirs)) /\ published' = RecordsOf(dirs)
  /\ stage' = "published"
  /\ UNCHANGED <<goldVars, mode, atStart, trials, loaded, records, manifest>>

PublicationNext ==
  \/ GoldNext /\ UNCHANGED publicationVars
  \/ StartRun \/ ReadGold \/ Evaluate \/ TrialRaises \/ Die \/ EndTrials
  \/ BindRun \/ BindPilot \/ GiveUp
  \/ Publish

PublicationSpec == PublicationInit /\ [][PublicationNext]_vars

-----------------------------------------------------------------------------
(* Properties *)

\* Type invariant.
PublicationTypeOK ==
  /\ mode \in Modes
  /\ stage \in {"start", "trials", "closed", "bound", "published", "over"}
  /\ run \in 0 .. MaxRuns
  /\ runId \in RunNames \cup {"none"}
  /\ begun \in 0 .. freezes
  /\ trials \in 0 .. MatrixSize
  /\ \A r \in records : CellOf(r) \in Matrix /\ r.dir \in 1 .. run
  /\ DOMAIN goldFiles \subseteq QuestionIds
  /\ loaded # NoGold => loaded.at \in 1 .. freezes

\* A manifest names the one Gold result every trial of a question was compared
\* with, even if Gold was frozen anew while the trials ran.
ManifestNamesTheGold ==
  stage = "bound" =>
    LET given == RecordsOf(manifest.of)
    IN  /\ Cardinality(given) = MatrixSize
        /\ \A r \in given : r.reference = manifest.gold[r.question]

\* The pack a manifest names holds the Gold results it names, provided that it
\* binds the run at hand alone and that no freeze was under way when this run was
\* started or has begun since: neither the SQL and the instances, which may change
\* meanwhile, nor trials lost or given up on the way set the two apart.
\* (materialize_publication_trial takes the results from the Gold file of each
\* trial, build_publication_manifest the pack from the disk.)
UndisturbedPackHoldsTheGold ==
  stage = "bound" /\ begun = freezes /\ manifest.of = {run} =>
    \A q \in QuestionIds : manifest.pack.entries[q].file.result = manifest.gold[q]

\* "Bind a closed publication run to every tool schema and Gold identity"
\* (build_publication_manifest, publication_orchestrator.py:280): the pack a
\* manifest names holds the Gold results it names.
ManifestPackHoldsTheGold ==
  stage = "bound" =>
    \A q \in QuestionIds : manifest.pack.entries[q].file.result = manifest.gold[q]

\* "Closed run identity" (the publication run manifest, runner/contracts/README.md:19),
\* "validates run/experiment identity" (generate_representative_report.py:112): the
\* trials that are published together are those of one run.
PublishedIsOneRun ==
  stage = "published" => \E n \in 1 .. run : \A r \in published : r.dir = n
=============================================================================
