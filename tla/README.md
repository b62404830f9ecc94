# Verification of the semantic-layer benchmark

TLA+ models of the benchmark's runner: what an agent may do at the tool boundary,
how a trial ends and is scored, what a native target discloses, and what a run
leaves on disk and publishes. TLC checks small
instances of every model; TLAPS proves the main properties of every part for all
values of the constants. `PROJECT.json` lists the runs, the
source lines each definition stands for, the hazards and the findings.

The benchmark is sequential Python. What makes it hard is not threads: it is long
sequences of agent-chosen calls, exceptions in the middle of several related writes,
budgets and timeouts, and records that must be believed afterwards.

## The system

| Part | Source | State it keeps | Operations |
|---|---|---|---|
| Tool dispatcher | `runner/core/control_tools.py` | results and SQL by handle, attempts charged, the submission | three discovery tools, `db.execute_readonly`, `benchmark.submit_result`, `register_native_result` |
| Control trial | `control_runner.py` `_run_trial` | turn, error category, transcript | turns and calls, persist results, compare with Gold, classify |
| Control experiment | `control_runner.py` `run_control_experiment`, `frozen_gold.py` | selected questions, Gold identities, statuses | preflight, open the database, one trial per cell, `trial.json`, `run.json` |
| Native trial | `native_runner.py`, `native_factory.py` | runtime and provider open or closed, completion status, error category | preflight, start, turns and calls, close, finalize |
| Native runtime | `native_factory.py`, `native_adapter.py` | the adapter of the target, the allowlist | create, preflight, dispatch, close |
| Skill host | `adapters/skill_host.py` | the identity it validated, activated or not | activate, read the instruction, read a reference |
| OKF consumer | `okf_native_consumer.py` | the digest of a pending search | list, read, follow a link, search |
| OSSIE adapter | `adapters/ossie.py` | a validated document with its source index | inspect, read native YAML |
| MetricFlow adapter | `adapters/metricflow.py`, `metricflow_result.py` | a query counter, a directory of CSV files | four discovery commands, query |
| Live provider | `live_provider.py` | request and retry counters | `complete` with retries and doubling pauses |
| Live run | `local_live.py` | rows of the summary | the trial loop, candidate, details and diagnostic files, `summary.json` |
| Materialization | `publication_orchestrator.py` | the trial directory | load Gold, refuse or accept the candidate, transcript, `trial.json`, trace |
| Publication | `publication_orchestrator.py` `build_publication_manifest`, `evaluators/execution.py` | none | bind and validate a complete matrix, compute the metrics |
| Pilot | `pilot.py`, `run_native_matrix` | the 18 outcomes | matrix, materialization, manifest |
| Gold | `representative_gold.py` | one Gold file a question, and the pack that binds them | freeze, verify |
| Dataset | `dataset.py`, `gold_evaluator.py` | files with hashes | generate, load, freeze q01 |

How they interact: a runner calls `provider.complete` for a turn, and the dispatcher
(control) or the native runtime (native) for each tool call of the turn; the runtime
hands the harness operations to the same dispatcher and registers native results
there. When the conversation is over the control runner scores against Gold itself.
The native runner closes runtime and provider and returns a candidate, which the live
run hands to the materialization. Everything is one process and one thread; the
endpoint, the database engine and the adapters' subprocesses answer, answer late, or
raise. Nothing is resumed after a crash, but what was written before it is read by
the report scripts and the evaluators. Gold, the artifacts of the targets and the
reference SQL are plain files, which may change while a run reads them.

The hard behaviour, and the property that makes each part correct:

* Dispatcher: a result is stored before it can fail; handles are numbered over two
  sources. A handle must denote one result for ever, a submission must resolve, the
  budget must hold however queries end.
* Control trial: the error category is overwritten along the way; calls go on after a
  submission. The verdict must follow from the submission, its result and the last
  failure.
* Native trial: every step may raise, also the ones of the `finally` block. A record
  exists only for a closed conversation, and tells what happened.
* Live provider: which failures are sent again, what is counted, how long it takes.
* Native adapters: they read files when they are asked, some of them again and again.
  What is disclosed must follow the preflight and the target's own order, the telemetry
  must name it, and rows must be those of the query that was asked.
* Gold and publication: Gold is frozen file by file over the old one, read again for
  every trial, and named in a manifest at the end. A score must be of one run and one
  Gold.
* Experiment and live run: several files for one trial, and summaries over all of them.
  What the summary says must be what the disk says, whatever failed in between.

## Modules

| Module | Models | Built on |
|---|---|---|
| `ToolDispatcher` | `ControlToolDispatcher`, one action per operation | |
| `TrialContract` | abstract: at most one answer, one verdict the answer admits, an end | |
| `ControlTrial` | `_run_trial` | extends `ToolDispatcher`, implements `TrialContract` |
| `NativeTrial` | `run_native_trial`, `_finalize`, `NativeRuntime` | extends `ToolDispatcher`, implements `TrialContract` |
| `LiveProvider` | `LiveAgentProvider.complete` | |
| `ControlExperiment` | `run_control_experiment`, `FrozenGoldEvaluator.preflight` | a trial is a verdict |
| `LiveRun` | `run_local_live`, `load_gold_for_candidate`, `materialize_publication_trial` | a trial is a candidate |
| `NativeAdapter` | one session of a runtime: create, preflight, request, close | extends `ToolDispatcher` |
| `SkillHost`, `OkfConsumer`, `MetricFlow` | one adapter each | extend `NativeAdapter` |
| `OssieModel` | a document: reference checks, source index, slices; no state | |
| `Ossie` | `OssieAdapter` | extends `NativeAdapter`, `OssieModel` |
| `NativeSurface` | `NativeAdapterFactory` and `NativeRuntime` over the six targets | composes the adapters and the dispatcher |
| `GoldPack` | `freeze_representative_pack`, `verify_representative_pack` | |
| `Publication` | from Gold over the runs to the published score | extends `GoldPack`; a trial is a candidate |
| `*Proofs` | the theorems about a module or a composition | the module they name |
| `MC*` | the instances TLC checks | |

### ToolDispatcher

`results`, `sqlByHandle`, `databaseAttempts` and `submission` are the attributes of the
class; `engineCalls` (the queries sent) is history. A call is a record with the operation and what the code
looks at in its arguments. `Dispatch(call, outcome)` relates a call to the way it ends:
`ok`, or the class of the exception. The SQL text is reduced to the five facts
`validate_read_only_sql` examines (`SqlText`), a result to its canonical JSON
(`Payload`), and `Unhashable` are the payloads with NaN or an infinity, which
`json.dumps(allow_nan=False)` refuses. The explicit empty list of handles is refused by
the input schema; the empty list in the model is the absent key. Column lists and
preview rows are left out.

The order in `_execute_readonly` is kept: budget, charge, policy, engine, late answer,
store, hash. The first four exits leave the store alone, the last does not.

### ControlTrial

`pc` walks the body of `_run_trial`: `turn` is the head of the turn loop, `calls` the
loop over the calls of one turn (`pendingCalls` of them left), then `persist` and
`score`; `done` is the returned record and `lost` an exception that leaves the
function. Time is counted in ticks: every provider and tool call takes zero or one, and
`elapsed` saturates at `TrialSeconds` because the code only compares. `failures` is
history. The calls behind a submission are dispatched like the others, as the code
does; `AfterTurn` is where it looks at the submission.

### NativeTrial

`pc` walks `run_native_trial`: `preflight`, `start` (the messages, the public tools,
the provider), the two loops, `close` (the `finally` block) and `finalize`. `tools`
says whether `public_tools` of this target answers or raises, because the code calls it
twice. A native adapter is its effect on the trial: an answer without a result, an
answer with a result that the dispatcher registers, a repairable error, or a breach of
isolation; `NativeSurface` has the adapters themselves. `CloseRaises` and `CloseProviderRaises` are the exceptions of the `finally`
block, which end the trial without a record and, in the first case, with the provider
still open.

### LiveProvider

One step per request. A reply stands for what the transport returned or raised;
`2xx garbled` is a body that `_parse_response` refuses, `other` an exception the two
`except` clauses do not name. A tick is one unit of `retry_backoff_seconds`, so that
the pause after attempt *n* is `2^n` (`PowerOfTwo`, a recursive function, because
the provers know nothing of `^`). The checks of the settings and of the request document
before the loop are left out.

### ControlExperiment

`plan` is the sequence of cells (repetition, target, row of the question file) that the
three nested loops go through, with both shuffles already drawn: any order. `disk` is
what was written under each trial id. Every configuration, schema and identity check
that can only refuse the run is the action `Refuse`; the selection and the coverage of
the Gold map are modelled because later steps rely on them. A trial that raises ends
the run (`LoseTrial`).

### LiveRun

A trial is a candidate: the ends of `run_native_trial`, each with the provider kinds,
response identities and result hashes it can have. Then one action per file: candidate,
directory, transcript, `trial.json`, trace, details. Each may fail (`Raise`), the
materialization may refuse (`RefuseCandidate`, `RefuseDirectory`), and the process may
die between any two (`Die`, which also stands for an exception outside the `try` block).
A file is written or not; a half-written file is not modelled. Tokens, latencies and
redaction are left out. `usage` in a row stands for everything `row.update` adds.

### NativeAdapter, the adapters and NativeSurface

A session is one runtime: `create`, `preflight`, `open`, `closing`, `over`, or `unbuilt`
when the factory refuses. `disk` is the artifact root of the target, a function from
paths to files, and `Edit` replaces it at any moment before the conversation ends. The
adapters read it where the code does: a skill and an OKF bundle for every call, an Ossie
document in the preflight only. `checked` remembers what the preflight read, `given`
what the agent was answered, `events` what the telemetry says; a file is identified with
its digest, so that answer and event have the same form.

The registry's allowlists are `Allowed`. The dispatcher of the composition declares all
harness operations (`AllowedOperations <- HarnessOps`), because `Request` guards each
call by the allowlist of its target, as `NativeRuntime.dispatch` does.

* `SkillHost`: an activation must read `SKILL.md` before references are open. Members are
  read from the disk without a digest comparison after the preflight, as in the code.
* `OkfConsumer`: paths are sequences of parts; `..`, absolute paths and symbolic links
  are breaches, a missing file is repairable. A directory without a file is an entry of
  its own: a link to it is valid, and following it answers an empty list. A symbolic link
  is taken to lead somewhere.
* `OssieModel`: a text is a sequence of lines, one for each object or list key. An index
  entry belongs to a line, so that two objects of one name stay two entries. A name
  is the sequence of its tokens (`/`, a blank, words between them), because ids are flat
  strings in the code: a short id may be the qualified one of another object, and the
  outer blanks of an id that is asked for are taken off (`Stripped`).
* `MetricFlow`: a query has an ordinal, which stands for what it asks and for the rows it
  yields. A process leaves no file, a whole one, or a broken one, however it ends.

The roots of the instance are small packages, bundles and documents that hold, one of
them with a link to an empty directory and one with a name like the qualified id of
another object, and one for each way they fail: a broken link, a link from the wrong
directory, a symbolic link, a missing frontmatter, a doubled name, a missing column, a
missing file. `EmptyTree` is a root that does not exist.

### GoldPack and Publication

A version of a reference SQL stands for its text, its digest and its result; versions of
different files are never compared. `frozen` is the freeze in memory, `goldFiles` and
`pack` the disk. `ExecuteReference` and `WriteGold` are two steps, because the code reads
the SQL for execution and again for its digest. `FreezeFails` is a contract that does
not fit, a missing file, or the death of the process. The model has one freeze after the
other; the code takes no lock, and two that overlap are outside it. Verification is one step, and
accepts a result recorded with the digest of another version: it compares digests and
identities, and never executes anything.

A run is a live run or a pilot. `ReadGold` and `Evaluate` are two steps, because the code
reads the Gold file before the pack. A record is one fact: `LiveRun` has its files. A run has
a directory, which stands for its number, and a name, the basename of that directory
(`runId`); the code takes this name, and nothing else, for the identity of the run. The
manifest and the report are given the records below any set of directories
(`Directories`). A candidate without response ids is refused only if it has an answer;
whether an id is missing or belongs to another trial is looked at when the report
validates (`ResponsesHold`). `build_publication_manifest` is called by tests only: the
report reads a manifest that nothing in production writes, and the model takes it from
that function. `begun` and the manifest's `of` are history. Tool
schemas, latencies, the checks for fresh conversations and fallbacks, and the statistics
of the report are left out.

## Runs

| Run | Question | States |
|---|---|---|
| `control_trial` | Does every conversation end in the verdict its answer, results and last failure justify? Does the trial implement the contract, its end included? | 22,372 |
| `native_trial` | With any step raising, does a record exist only for a closed conversation, and tell the truth? Does the trial implement the contract? Do budget, handles and submission hold under its calls, native results and results that cannot be hashed? | 45,958 |
| `live_provider` | What is retried, counted and waited for? | 5,233 |
| `control_experiment` | Do `run.json` and the trial records agree, whatever the order, the refusal or the loss? | 18,412 |
| `live_run` | Do records, rows and outcomes agree under every failed write and death, also if a question is named twice? | 667,722 |
| `native_surface` | What do the six targets disclose, in what order, from which version of their files, and what does the telemetry say of it? | 313,316 |
| `publication` | Is an accepted pack one freeze, and does a manifest name the Gold its trials were scored with, with Gold frozen, given up and frozen again, and runs that die? | 8,589,529 |
| `control_recorded`, `experiment_selection`, `ossie_slice`, `publication_pack`, `publication_mixed` | Where the code does not do what a document or message of the repository says (below). | |

Bounds, and why they are enough:

* Two database attempts and one native result: a failed and a successful query, a
  result that cannot be hashed before and after one that can, both sources of handles,
  an exhausted budget, and a handle that does not exist. `native_trial` has them, with
  both sources; `control_trial` has no native results.
* One SQL text that passes the policy and one that does not: the dispatcher never looks
  at a text again once it is validated.
* Two turns of at most two calls: a call after a submission in the same turn, a turn
  after a failure, and the budgets running out in either loop.
* Two ticks of trial time: time spent in the first turn, in the last call, or not at all.
* Two preflight responses: none, all healthy, some healthy.
* Two calls of at most three requests: the counters across calls and both pauses.
* Two questions, two targets, two repetitions: each coordinate of a trial id matters.
  The control runner accepts exactly two targets. Of the five statuses a run treats four
  alike, so two are used.
* Live run: a question with one statement and one with two, or one question named twice,
  and two hashes: right, wrong, right in the wrong order, too few, too many.
* Native surface: two calls and two edits. Two calls are an activation and a read, a
  query that fails and one that answers, a search that raises and one that does not.
  Two edits are a change and the way back.
* Publication: two freezes, one change of the inputs, two runs, one repetition. Two
  freezes are a complete one and one that ends half-way or runs during the trials; two
  runs are one that died and one that could borrow its records. A second repetition
  only lengthens the matrix. One name for both runs is the case in which names tell
  least; `publication_mixed` has two, and one freeze.

Terminal states are real ends of the program, so the deadlock check is off.

Fairness: `ControlTrial` and `NativeTrial` assume weak fairness of their whole next-state
relation. The runner is a single thread that never blocks on anything but a provider
call, a query or an adapter call, and each of these is an action that ends: the provider's
requests carry a timeout and end by `PatienceBounded`, the adapters get a deadline. The
model takes the timeout for one of a request; `urllib` applies it to each operation of
the socket, so that a reply that trickles in may take longer, and that it ends is an
assumption. A query has no timeout of its own; that DuckDB answers in the end is an assumption.
The other specifications state no fairness and no liveness.

## Where code and documents disagree

* `control_recorded`: the control runner hashes every stored result when it persists
  the trial. One that cannot be hashed ends the run: no record for the trial, no
  `run.json`. The native runner answers the agent with an error and only loses a trial
  that submits such a result.
* `experiment_selection`: duplicate rows for one question hide the absence of another.
  `control_experiment` is therefore checked on files with one row per question and per
  instance. On such files this property holds too (`SelectionIsExact`): duplicate rows
  are all that can break it.
* `ossie_slice`: the end mark of a YAML block is the start of the next token, and the
  source index extends it to the end of that line. The "exact source slice" of an
  object includes the first line of what follows it.
* `publication_pack`: the manifest takes the digest of the pack that lies on disk when
  it is built. If Gold was frozen anew after the trials, it names the Gold results of
  the trials next to a pack that holds others (the function is called by tests only). What holds without a freeze during the
  run is `UndisturbedPackHoldsTheGold`.
* `publication_mixed`: `run_id` is the basename of the directory a user names, and the
  report collects every trial below the directory it is given and compares names. The
  trials of `a/full` and `b/full`, both incomplete, are published as one run, although the
  run manifest is documented as a "closed run identity".

Three more, read off the code and not run:

* When Gold is opened. `runner/contracts/README.md` says that evaluator-only data is
  "opened only after the target has submitted a final result" (line 50) and that the
  sandbox is closed "before loading evaluator-only assets" (line 83), and the root
  `README.md` says the same (line 147). The control runner checks the reference SQL and
  loads the Gold identities in its preflight (`control_runner.py:235`), before the
  database exists, and keeps them in memory through every conversation. The model has
  this order (`LoadGold` before `OpenDatabase`), and so does `runner/core/README.md`,
  lines 10-14. The live run verifies the pack, with its Gold files, before it starts
  (`local_live.py:221`), but loads the Gold of a trial after it. No property is stated
  about this.
* Ids of Ossie objects. When a short id is ambiguous, the adapter points to the qualified
  one (`ossie.py:750-753`, `runner/adapters/README.md:58-61`). Nothing keeps a slash out
  of a name: a dataset `m/d` of the model `m` beside its dataset `d` passes validation, and
  then `m/d` is ambiguous and `d`'s qualified id of no use. Nor are outer blanks refused in
  a name, while they are taken off the id that is asked for (`ossie.py:829`): such an
  object is listed but not found under that name. `PlainObjectsResolve` is about all
  other documents; the instance has one of these too.
* Skill packages and OKF bundles are checked in the preflight and read again for every
  call, without a comparison. Only the Ossie adapter answers from what it checked
  (`ServesWhatWasChecked`).

## Proofs

Eight modules hold theorems. All are for every value of the constants, under the
assumptions stated with the constants; TLC evaluates these in every run.

| Module | Proved |
|---|---|
| `ToolDispatcherProofs` | `TypeOK`, `QueryBudget`, `SubmittedHandlesResolve`, `HandlesNeverRebound`, `SubmissionIsFinal` |
| `ControlTrialProofs` | `ControlTypeOK`, `PassedMeansGold`, `EveryResultHasItsSql`, `ErrorExplained`, `TimeoutIsTheLastFailure`; the safety part of `TrialContract` |
| `NativeTrialProofs` | `NativeTypeOK`, `BilledOnlyWhenHealthy`, `ClosedBeforeEvaluation`, `RecordTellsTheEnd`, `NothingAfterSubmission`; the safety part of `TrialContract` |
| `LiveProviderProofs` | `TypeOK`, `RetriesAccounted`, `OnlyTransientRetried`, `PatienceBounded` |
| `ControlExperimentProofs` | `RefusedLeavesNothing`; where rows are unique also `TypeOK`, `RunRecordMatchesDisk`, `RecordsAreImmutable`, `EveryQuestionOnce` |
| `LiveRunProofs` | `TypeOK`, `PassedIsGold`, `RowsMatchDisk`, `RecordsAreImmutable`, `OutcomesAddUp` |
| `PublicationProofs` | `PublicationTypeOK`, `AcceptedPackIsOneFreeze`, `ManifestNamesTheGold`, `UndisturbedPackHoldsTheGold` |
| `NativeSurfaceProofs` | every session is a behaviour of `ToolDispatcher`; `SurfaceTypeOK`, `ResultsAreTheEnginesOwn`, `DisclosedInOrder`, `TelemetryIsTrue`, `ServesWhatWasChecked`, `PlainObjectsResolve` |

The assumptions: queries are `SqlText` records, unhashable payloads are payloads, budgets
and bounds are natural numbers (positive where the code would otherwise do nothing), Gold
is a payload, lists of questions and targets are sequences of names and not empty,
instance files are sequences of rows, the questions of the pack are distinct. An Ossie document
has the lists that the schema in `runner/adapters/schemas` requires, each of names or
named objects, and no name is empty (`DocumentsAssumption`).

Four theorems about the control experiment have a hypothesis of their own, `UniqueRows`:
no file has two rows for one question or for one instance. The representative pack is
checked for that when it is frozen (`representative_gold.py`); the control runner does
not check it, and `experiment_selection` shows that without it `EveryQuestionOnce` is
false. The files of `control_experiment` meet it (`UniqueFilesAssumption`, which TLC
evaluates).

How the inductive invariants are made:

* Dispatcher. `IInv` conjoins the state properties, because none is inductive alone, with
  the finiteness of the store. Type correctness says that the store is a function on
  `1 .. n`; with its finiteness the next handle `n + 1` is fresh (`NextHandleIsFresh`),
  which is what keeps handles from being rebound, whichever of the two sources appends,
  and keeps a submission's handles in the store. `QueryBudget` needs all three of its
  counters to carry the last one.
* Control trial. `TrialInv` adds that whatever SQL is remembered passed the read-only
  policy (`SqlIsReadOnly`), which `PassedMeansGold` needs; that an unscored trial has a
  category of the conversation only (`VerdictIsOpen`); and that a category "timeout"
  comes from the clock or from the last failure (`TimeoutIsFresh`).
* Native trial. The trial is cut into before, in and after the conversation: before it
  nothing is asked (`HealthyConversation`), until it is left nothing is decided
  (`Undecided`), and what is decided is settled (`Decided`), whatever the closing does.
* Live provider. All answers of a call but the last were transient, and the request under
  way is the only one not yet counted. Up to attempt *n* (from 0) a call has waited at
  most a timeout for each answer and pauses of `2^n - 1` ticks in all (`WaitSoFar`); the
  next pause is that sum plus one.
* Control experiment. The index arithmetic of the three loops, with rows that are unique,
  is a bijection between ordinals and cells (`PlanIsTheMatrix`), which needs the
  finiteness of the selection; so trial ids are distinct. Then the disk holds the first
  cells of the plan (`RecordInv`): one for each status, and one more between a record and
  its status.
* Live run. For each point of a trial the invariant lists the files that must be there
  (`FilesSoFar`) and that the row under way is backed by them (`RowSoFar`). That a row
  stays backed rests on names never being written again: a directory that exists refuses
  its trial, also if a question is named twice. The outcomes are three sets of
  rows: a row counts as correct exactly if its status is "passed", and as wrong only if
  it is "failed" (`ScoresAgree`), so that sets are compared and not their sizes.
* Gold and publication. The files a freeze has come past are its own
  (`FilesOfTheFreeze`), so that the pack it writes has only files of its own
  (`PackOfOneFreeze`), and keeps their digests whatever is written over them later.
  A record set with one reference for every question has the manifest's. While no
  freeze disturbs a run, what it has loaded is on disk and what it has scored is in the
  pack (`ScoredWithThePack`); that needs Gold to be in memory for the trial at hand only
  (`LoadedForTrial`), because a file loaded before a freeze would be scored after it.
* Native surface. From the dispatcher's side every action is a dispatcher's step or none
  (`SurfaceDispatches`), so its invariant and theorems hold in all six compositions. From
  the agent's side every action gives one answer or none (`Tells`), and an answer that
  discloses needs the activation before it. From the engine's side no file lies under a
  number not yet given out (`EngineInv`), so that one found there is the query's own.
  From the disk's side an Ossie session answers from the document its preflight read and
  checked (`ArtifactInv`). `Flattened` and `DocumentText` say where each object of a
  document has its lines, and that no two objects share one. A plain name is one token
  (`PlainName`), so that joined paths differ where paths do and no short id is a
  qualified one (`PlainIdsDiffer`), and stripping leaves them alone (`PlainIdsAreKept`);
  hence every declared object is found again under its own index entry
  (`ObjectsResolve`). What is served is text of the document (`SlicesAreText`).

The library's induction theorems cannot be instantiated here. `SetInduction` replaces
them: a set of naturals that has 0 and every successor of its members is `Nat`, which
follows from the well-foundedness of `<`. With it recursive functions are shown to equal
their definitions (`PowerOfTwoDefined`, `FlattenSeqIsFlattening`).

Only model-checked is `ImplementsContract` as a whole: that trials end is liveness under
fairness, which is not within the prover's reach. Its safety part is proved. Every other
property of a passing run is a theorem. What the five runs of the previous section
refute is not.

## Hazards without a property

`representative_gold.py:224`: the reference SQL is read, executed, and read again for its
digest. A change in between records the new digest with the old result. The model has the
two steps, and verification accepts such a pack, in the model as in the code; no document
says who may edit files during a freeze, so there is nothing to hold it against. Two
freezes at once are not in the model.

`skill_host.py:220`: members of a package are read from the disk for every call. They may
change after the preflight, in the model as in the code, and no document promises
otherwise.

`publication_orchestrator.py:134`: a trial without an answer and without response ids is
written to disk, and refused only later, with the whole matrix. No document says that what
is on disk can be published.

## Plan

Left for later, in this order:

1. The metrics of the report (`_p95`, the token summary, the sign test) and the usage
   sums of `agent.py`, as operators against reference definitions.
2. `run_native_matrix`: no provider object is used twice.
3. The freeze of the single q01 identity in `gold_evaluator.py`, and tool schemas in the
   manifest.
4. Theorems: what the slice of an Ossie object holds beyond the object is at most one
   line, the first of what follows it.
5. Runs told apart: what `publication_mixed` refutes holds where no two runs below the
   report's directory share a basename.

## Not modelled

* Configuration, command line, `doctor`, lint, report and materialization scripts: they
  read files and print, or refuse; they keep no state a later step relies on.
* Dataset generation and loading: one query per table and one hash.
* The structure evaluator and the question contracts: pure checks of one document.
* The telemetry of a preflight, and the preflight-only mode of the live run.
* Prompt texts, transcripts, trace events, redaction and the layout of the records.
* Token and latency numbers.
* The contents of a SQL text and of a result beyond what the code tells apart.
