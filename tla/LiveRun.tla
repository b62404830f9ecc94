-------------------------------- MODULE LiveRun --------------------------------
(***************************************************************************)
(* A live run: the trial loop of run_local_live (runner/core/local_live.py)*)
(* with the materialization of each trial, load_gold_for_candidate and     *)
(* materialize_publication_trial (runner/core/publication_orchestrator.py).*)
(*                                                                         *)
(* A trial is run by the native runner (NativeTrial), which hands over a   *)
(* closed candidate.  The candidate is compared with the frozen Gold and   *)
(* written to disk file by file; every file may fail to be written, and    *)
(* the process may die between two of them.  An exception does not end the *)
(* run: the trial gets a row and a diagnostic, and the next one starts.    *)
(***************************************************************************)
EXTENDS Integers, Sequences, FiniteSets

CONSTANTS
  QuestionLists, \* the sequences --questions may give
  Targets,       \* --targets, a sequence
  Repetitions,   \* --repetitions
  GoldHashes,    \* question -> the result hashes of its frozen Gold, in order
  ResultHashes,  \* the result hashes a candidate may carry
  SaveDetails    \* --save-details

ASSUME RunAssumption ==
  /\ QuestionLists \subseteq Seq(STRING) \ {<<>>}
  /\ Targets \in Seq(STRING) \ {<<>>}
  /\ Repetitions \in Nat \ {0}
  /\ SaveDetails \in BOOLEAN
ASSUME GoldAssumption ==
  \A list \in QuestionLists : \A i \in DOMAIN list : GoldHashes[list[i]] # <<>>

VARIABLES
  questions,      \* --questions of this run
  pc,             \* the next step of the trial, "end" or "lost"
  rows,           \* the rows of summary.json, one for each trial so far
  candidate,      \* the candidate of the current trial
  row,            \* the row of the current trial
  candidateFile,  \* trial name -> the .candidate.json written last
  trialFile,      \* trial name -> the record in trials/<name>/trial.json
  written         \* the other files: pairs of a kind and a trial name

vars == <<questions, pc, rows, candidate, row, candidateFile, trialFile, written>>

-----------------------------------------------------------------------------
(* Trials and candidates *)

\* Repetitions, then targets, then questions.  The n-th trial's name.
TrialName(n) ==
  <<questions[((n - 1) % Len(questions)) + 1],
    Targets[(((n - 1) \div Len(questions)) % Len(Targets)) + 1],
    ((n - 1) \div (Len(questions) * Len(Targets))) + 1>>

Trials == Repetitions * Len(Targets) * Len(questions)

Name == TrialName(Len(rows) + 1)

Gold == GoldHashes[Name[1]]

\* The ends of a native trial: status and error category, by whether a provider
\* had been built.
EndsUnbuilt == {<<"invalid", "preflight">>, <<"invalid", "protocol_violation">>,
                <<"timeout", "timeout">>, <<"failed", "preflight">>,
                <<"failed", "provider_error">>}
EndsUnanswered == {<<"invalid", "protocol_violation">>, <<"timeout", "timeout">>,
                   <<"timeout", "turn_budget">>, <<"failed", "provider_error">>,
                   <<"failed", "internal">>, <<"failed", "agent_protocol">>}
EndsSubmitted == {<<"candidate_ready", "none">>,
                  <<"unsupported", "unsupported_semantics">>,
                  <<"failed", "agent_reported_failure">>}

ResultLists == {<<>>} \cup { <<h>> : h \in ResultHashes }
                      \cup { <<h, k>> : h \in ResultHashes, k \in ResultHashes }

\* "ids" tells whether the endpoint gave any of its turns an identity.
CandidateOf(end, kind, ids, hashes) ==
  [status |-> end[1], category |-> end[2], provider |-> kind, ids |-> ids,
   hashes |-> hashes]

Candidates ==
  { CandidateOf(e, "unavailable", FALSE, <<>>) : e \in EndsUnbuilt } \cup
  { CandidateOf(e, "live", ids, <<>>) : e \in EndsUnanswered, ids \in BOOLEAN } \cup
  { c \in { CandidateOf(e, "live", ids, hashes) :
              e \in EndsSubmitted, ids \in BOOLEAN, hashes \in ResultLists } :
      c.status = "candidate_ready" => c.hashes # <<>> }

NoCandidate == CandidateOf(<<"none", "none">>, "none", FALSE, <<>>)

-----------------------------------------------------------------------------
(* The verdict of materialize_publication_trial *)

Unavailable(c) == c.provider = "unavailable" /\ c.status # "candidate_ready"

\* A ranking-eligible live provider, unless the trial never came to build one;
\* response identities, if there is a result to rank.
Publishable(c) ==
  /\ Unavailable(c) \/ c.provider = "live"
  /\ c.status = "candidate_ready" => c.ids

\* Mutant: the hashes are compared without their order.
SameResults(c, gold) ==
  /\ Len(c.hashes) = Len(gold)
  /\ { c.hashes[i] : i \in DOMAIN c.hashes } = { gold[i] : i \in DOMAIN gold }

Equivalent(c, gold) == Len(c.hashes) = Len(gold) /\ c.hashes = gold

\* _error_category
Category(value, fallback) ==
  CASE value = "protocol_violation" -> "agent_protocol"
    [] value = "turn_budget"        -> "timeout"
    [] value \in {"none", "agent_reported_failure"} -> fallback
    [] OTHER -> value

Status(c, gold) ==
  CASE c.status = "candidate_ready" ->
         IF Equivalent(c, gold) THEN "passed" ELSE "failed"
    [] Unavailable(c) -> "invalid"
    [] OTHER -> c.status

ErrorCategory(c, gold) ==
  CASE c.status = "candidate_ready" ->
         IF Equivalent(c, gold) THEN "none" ELSE "wrong_result"
    [] Unavailable(c) -> Category(c.category, "preflight")
    [] OTHER -> Category(c.category, "internal")

\* result_equivalent: null for a trial without a candidate
ResultEquivalent(c, gold) ==
  IF c.status # "candidate_ready" THEN "null"
  ELSE IF Equivalent(c, gold) THEN "yes" ELSE "no"

Record(c, gold) ==
  [status |-> Status(c, gold), equivalent |-> ResultEquivalent(c, gold),
   category |-> ErrorCategory(c, gold), provider |-> c.provider, ids |-> c.ids,
   hashes |-> c.hashes]

-----------------------------------------------------------------------------
(* One trial *)

Bind(f, k, v) == [x \in DOMAIN f \cup {k} |-> IF x = k THEN v ELSE f[x]]

\* A row starts out invalid, and unscored.
NewRow == [status |-> "invalid", equivalent |-> "null", category |-> "none",
           usage |-> FALSE]

Init ==
  /\ questions \in QuestionLists
  /\ pc = "native"
  /\ rows = <<>>
  /\ candidate = NoCandidate
  /\ row = NewRow
  /\ candidateFile = <<>>
  /\ trialFile = <<>>
  /\ written = {}

Write(kind) == written' = written \cup {<<kind, Name>>}

RunNative ==
  /\ pc = "native"
  /\ candidate' \in Candidates
  /\ pc' = "candidate"
  /\ UNCHANGED <<questions, rows, row, candidateFile, trialFile, written>>

WriteCandidate ==
  /\ pc = "candidate"
  /\ candidateFile' = Bind(candidateFile, Name, candidate)
  /\ pc' = "check"
  /\ UNCHANGED <<questions, rows, candidate, row, trialFile, written>>

\* Gold is loaded and found in its pack, and the candidate is accepted.
Check ==
  /\ pc = "check"
  /\ Publishable(candidate)
  /\ pc' = "directory"
  /\ UNCHANGED <<questions, rows, candidate, row, candidateFile, trialFile, written>>

\* Mutant: the directory of an earlier trial of the name is used again.
DirectoryReused == TRUE

\* mkdir(exist_ok=False)
DirectoryIsFree == <<"directory", Name>> \notin written

MakeDirectory ==
  /\ pc = "directory"
  /\ DirectoryIsFree
  /\ Write("directory")
  /\ pc' = "transcript"
  /\ UNCHANGED <<questions, rows, candidate, row, candidateFile, trialFile>>

WriteTranscript ==
  /\ pc = "transcript"
  /\ Write("transcript")
  /\ pc' = "trial"
  /\ UNCHANGED <<questions, rows, candidate, row, candidateFile, trialFile>>

WriteTrial ==
  /\ pc = "trial"
  /\ trialFile' = Bind(trialFile, Name, Record(candidate, Gold))
  /\ pc' = "trace"
  /\ UNCHANGED <<questions, rows, candidate, row, candidateFile, written>>

\* Mutant: the row is filled in before the trace is on disk.
RowFilledEarly == pc = "trial"

RowIsDue == pc = "trace"

\* The last file of the record; the record is returned and fills the row.
WriteTrace ==
  /\ RowIsDue
  /\ Write("trace")
  /\ LET record == Record(candidate, Gold) IN
       row' = [status |-> record.status, equivalent |-> record.equivalent,
               category |-> record.category, usage |-> TRUE]
  /\ pc' = IF SaveDetails THEN "details" ELSE "row"
  /\ UNCHANGED <<questions, rows, candidate, candidateFile, trialFile>>

WriteDetails ==
  /\ pc = "details"
  /\ Write("details")
  /\ pc' = "row"
  /\ UNCHANGED <<questions, rows, candidate, row, candidateFile, trialFile>>

-----------------------------------------------------------------------------
(* Failures *)

\* The except clause: the row keeps what it has, with the error on top, and is
\* written as a diagnostic.  LiveProviderError does not come this far, the
\* native runner turns it into a candidate.
Diagnose ==
  /\ row' = [row EXCEPT !.category = "setup_error"]
  /\ Write("diagnostic")
  /\ pc' = "row"
  /\ UNCHANGED <<questions, rows, candidate, candidateFile, trialFile>>

\* The database, the target or the native trial raises; a file cannot be read
\* or written; Gold is not the one of its pack.
Raise ==
  /\ pc \in {"native", "candidate", "check", "directory", "transcript", "trial",
             "trace", "details"}
  /\ Diagnose

\* The materialization refuses the candidate or the directory.
RefuseCandidate == pc = "check" /\ ~ Publishable(candidate) /\ Diagnose

RefuseDirectory == pc = "directory" /\ ~ DirectoryIsFree /\ Diagnose

\* The process dies, or an exception leaves the loop: a diagnostic, the summary
\* or the report cannot be written.
Die ==
  /\ pc \notin {"end", "lost"}
  /\ pc' = "lost"
  /\ UNCHANGED <<questions, rows, candidate, row, candidateFile, trialFile, written>>

-----------------------------------------------------------------------------
(* The summary *)

\* Mutant: the next trial starts from the row of this one.
RowCarriedOver == row

FreshRow == NewRow

\* The row is appended, and the summary rewritten with all of them.
Summarize ==
  /\ pc = "row"
  /\ rows' = Append(rows, row)
  /\ candidate' = NoCandidate
  /\ row' = FreshRow
  /\ pc' = IF Len(rows') = Trials THEN "end" ELSE "native"
  /\ UNCHANGED <<questions, candidateFile, trialFile, written>>

Next ==
  \/ RunNative \/ WriteCandidate \/ Check
  \/ MakeDirectory \/ WriteTranscript \/ WriteTrial \/ WriteTrace \/ WriteDetails
  \/ Raise \/ RefuseCandidate \/ RefuseDirectory \/ Die
  \/ Summarize

Spec == Init /\ [][Next]_vars

CountRows(P(_)) == Cardinality({ i \in DOMAIN rows : P(rows[i]) })

\* Mutant: every row that is not correct counts as wrong.
WrongUnlessCorrect(attempted, scored, correct) == attempted - correct

WrongResults(attempted, scored, correct) == scored - correct

\* summarize_outcomes
Outcomes ==
  LET attempted == Len(rows)
      scored  == CountRows(LAMBDA r : r.equivalent \in {"yes", "no"})
      correct == CountRows(LAMBDA r : r.equivalent = "yes")
  IN [attempted |-> attempted, scored |-> scored, correct |-> correct,
      wrong |-> WrongResults(attempted, scored, correct),
      unscored |-> attempted - scored,
      providerErrors |-> CountRows(LAMBDA r : r.equivalent = "null"
                                              /\ r.category = "provider_error")]

-----------------------------------------------------------------------------
(* Properties *)

\* Type invariant.  A trial starts from a row that claims nothing, and has a
\* record only in a directory of its own.
TypeOK ==
  /\ pc \in {"native", "candidate", "check", "directory", "transcript", "trial",
             "trace", "details", "row", "end", "lost"}
  /\ Len(rows) <= Trials
  /\ candidate \in Candidates \cup {NoCandidate}
  /\ (pc = "native") => row = NewRow
  /\ \A name \in DOMAIN trialFile :
       {<<"directory", name>>, <<"transcript", name>>} \subseteq written

\* A record on disk says "passed" only of a live provider with response identities
\* whose results are those of the frozen Gold, all of them and in order, whatever
\* was written before or after it failed.
PassedIsGold ==
  \A name \in DOMAIN trialFile :
    trialFile[name].status = "passed" =>
      /\ trialFile[name].provider = "live"
      /\ trialFile[name].ids
      /\ trialFile[name].hashes = GoldHashes[name[1]]

\* A row with usage stands for a record on disk with its transcript and trace,
\* and repeats its status and score; any other row is unscored and has left a
\* diagnostic.
RowsMatchDisk ==
  \A n \in DOMAIN rows :
    LET name == TrialName(n) IN
    IF rows[n].usage
      THEN /\ name \in DOMAIN trialFile
           /\ {<<"transcript", name>>, <<"trace", name>>} \subseteq written
           /\ rows[n].status = trialFile[name].status
           /\ rows[n].equivalent = trialFile[name].equivalent
      ELSE /\ rows[n].equivalent = "null"
           /\ <<"diagnostic", name>> \in written

\* The outcomes of the summary count what was scored: a result is wrong only if
\* a candidate was submitted and differs from Gold, and a provider error is
\* never a scored trial.
OutcomesAddUp ==
  /\ Outcomes.wrong = CountRows(LAMBDA r : r.equivalent = "no" /\ r.status = "failed")
  /\ Outcomes.correct = CountRows(LAMBDA r : r.status = "passed")
  /\ Outcomes.providerErrors <= Outcomes.unscored

\* A record is immutable: no later trial, not even one of the same name, changes
\* a trial.json.
RecordsAreImmutable ==
  [][\A name \in DOMAIN trialFile :
        name \in DOMAIN trialFile' /\ trialFile'[name] = trialFile[name]]_vars
=============================================================================
