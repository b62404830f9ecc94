----------------------------- MODULE LiveRunProofs -----------------------------
(***************************************************************************)
(* Proofs about LiveRun, for every list of questions - also one that names *)
(* a question twice - every matrix, and every set of result hashes.        *)
(*                                                                         *)
(* A trial goes through its files in one order, so that where it stands    *)
(* tells which of them are on disk (FilesSoFar).  That no trial disturbs   *)
(* the files of another rests on the directory, which is made once for     *)
(* every name.                                                             *)
(***************************************************************************)
EXTENDS LiveRun, FiniteSetTheorems, TLAPS

\* Between the directory and the record the name has no record.
NameIsNew == pc \in {"transcript", "trial"} => Name \notin DOMAIN trialFile

\* A candidate that came past its check may be published.
CandidateChecked ==
  pc \in {"directory", "transcript", "trial", "trace"} => Publishable(candidate)

\* The files of the current trial, by where it stands.
FilesSoFar ==
  /\ pc \in {"transcript", "trial", "trace"} => <<"directory", Name>> \in written
  /\ pc \in {"trial", "trace"} => <<"transcript", Name>> \in written
  /\ pc = "trace" => /\ Name \in DOMAIN trialFile
                     /\ trialFile[Name] = Record(candidate, Gold)

\* What a row claims is on disk under the name of its trial.
Backed(r, name) ==
  IF r.usage
    THEN /\ name \in DOMAIN trialFile
         /\ {<<"transcript", name>>, <<"trace", name>>} \subseteq written
         /\ r.status = trialFile[name].status
         /\ r.equivalent = trialFile[name].equivalent
    ELSE r.equivalent = "null"

Statuses == {"passed", "failed", "invalid", "timeout", "unsupported", "none"}

Causes == {"none", "preflight", "protocol_violation", "provider_error", "timeout",
           "turn_budget", "internal", "agent_protocol", "unsupported_semantics",
           "agent_reported_failure"}

Row == [status : Statuses, equivalent : {"null", "yes", "no"},
        category : Causes \cup {"wrong_result", "setup_error"}, usage : BOOLEAN]

\* The row of the current trial, before it is appended.
RowSoFar ==
  /\ row \in Row
  /\ pc \notin {"details", "row", "lost"} => row = NewRow
  /\ pc # "lost" => Backed(row, Name)
  /\ pc = "row" /\ ~ row.usage => <<"diagnostic", Name>> \in written

\* The details are written once the row is filled.
RowIsFilled == pc = "details" => row.usage

\* As long as the run goes on there are trials left.
RowsLeft ==
  /\ questions \in QuestionLists
  /\ pc \notin {"end", "lost"} => Len(rows) < Trials

RunInv ==
  /\ TypeOK
  /\ RowsLeft
  /\ rows \in Seq(Row)
  /\ NameIsNew
  /\ CandidateChecked
  /\ FilesSoFar
  /\ RowSoFar
  /\ RowIsFilled
  /\ RowsMatchDisk
  /\ PassedIsGold

-----------------------------------------------------------------------------
(* Candidates and records *)

LEMMA CandidateTyped ==
  ASSUME NEW c \in Candidates \cup {NoCandidate}
  PROVE  /\ c.status \in (Statuses \ {"passed"}) \cup {"candidate_ready"}
         /\ c.category \in Causes
BY DEF Candidates, NoCandidate, CandidateOf, EndsUnbuilt, EndsUnanswered,
       EndsSubmitted, Statuses, Causes

LEMMA RecordTyped ==
  ASSUME NEW c \in Candidates \cup {NoCandidate}, NEW gold
  PROVE  /\ Record(c, gold).status \in Statuses
         /\ Record(c, gold).equivalent \in {"null", "yes", "no"}
         /\ Record(c, gold).category \in Causes \cup {"wrong_result"}
<1>1. /\ c.status \in (Statuses \ {"passed"}) \cup {"candidate_ready"}
      /\ c.category \in Causes
  BY CandidateTyped
<1>2. Status(c, gold) \in Statuses
  BY <1>1 DEF Status, Statuses
<1>3. ResultEquivalent(c, gold) \in {"null", "yes", "no"}
  BY DEF ResultEquivalent
<1>4. ErrorCategory(c, gold) \in Causes \cup {"wrong_result"}
  <2>1. /\ Category(c.category, "preflight") \in Causes
        /\ Category(c.category, "internal") \in Causes
    BY <1>1 DEF Category, Causes
  <2>2. "none" \in Causes
    BY DEF Causes
  <2> QED
    BY <2>1, <2>2 DEF ErrorCategory
<1> QED
  BY <1>2, <1>3, <1>4 DEF Record

\* A record that says "passed" is that of a ready candidate with the Gold results.
LEMMA PassedRecord ==
  ASSUME NEW c \in Candidates \cup {NoCandidate}, NEW gold, Publishable(c),
         Record(c, gold).status = "passed"
  PROVE  /\ Record(c, gold).provider = "live"
         /\ Record(c, gold).ids
         /\ Record(c, gold).hashes = gold
<1>1. Status(c, gold) = "passed"
  BY DEF Record
<1>2. c.status = "candidate_ready" /\ Equivalent(c, gold)
  BY <1>1, CandidateTyped DEF Status, Statuses
<1>3. c.provider = "live" /\ c.ids
  BY <1>2 DEF Publishable, Unavailable
<1> QED
  BY <1>2, <1>3 DEF Record, Equivalent

-----------------------------------------------------------------------------
(* The invariant *)

LEMMA NameKept == UNCHANGED <<questions, rows>> => Name' = Name /\ Gold' = Gold
BY DEF Name, Gold, TrialName

LEMMA BackedKept ==
  ASSUME NEW r, NEW name, Backed(r, name), written \subseteq written',
         name \in DOMAIN trialFile => /\ name \in DOMAIN trialFile'
                                      /\ trialFile'[name] = trialFile[name]
  PROVE  Backed(r, name)'
BY DEF Backed

\* No file of a trial is lost, and no record changed: what the rows claim holds on.
LEMMA RowsStayBacked ==
  ASSUME RowsMatchDisk, UNCHANGED <<questions, rows>>, written \subseteq written',
         \A name \in DOMAIN trialFile : /\ name \in DOMAIN trialFile'
                                        /\ trialFile'[name] = trialFile[name]
  PROVE  RowsMatchDisk'
BY DEF RowsMatchDisk, TrialName

\* The matrix has a trial.
LEMMA TrialsPositive ==
  ASSUME questions \in QuestionLists
  PROVE  Trials \in Nat \ {0}
<1>1. /\ Len(questions) \in Nat \ {0}
      /\ Len(Targets) \in Nat \ {0}
      /\ Repetitions \in Nat \ {0}
  BY RunAssumption
<1>2. \A a, b \in Nat \ {0} : a * b \in Nat \ {0}
  OBVIOUS
<1> QED
  BY <1>1, <1>2 DEF Trials

LEMMA RunInit == Init => RunInv
<1> SUFFICES ASSUME Init PROVE RunInv
  OBVIOUS
<1>1. Trials \in Nat \ {0}
  BY TrialsPositive DEF Init
<1>2. TypeOK
  BY <1>1 DEF Init, TypeOK
<1>3. row \in Row /\ rows \in Seq(Row)
  BY DEF Init, NewRow, Row, Statuses, Causes
<1>4. RowSoFar
  BY <1>3 DEF Init, RowSoFar, NewRow, Backed
<1> QED
  BY <1>1, <1>2, <1>3, <1>4 DEF Init, RunInv, RowsLeft, NameIsNew, CandidateChecked,
     FilesSoFar, RowIsFilled, RowsMatchDisk, PassedIsGold

-----------------------------------------------------------------------------
(* The steps *)

\* A step that leaves rows and records alone.
LEMMA QuietStep ==
  ASSUME RunInv, UNCHANGED <<questions, rows, row, trialFile>>, written \subseteq written',
         pc \notin {"end", "lost"} \/ pc' \in {"end", "lost"},
         candidate' \in Candidates \cup {NoCandidate},
         pc' \in {"native", "candidate", "check", "directory", "transcript", "trial",
                  "trace", "details", "row", "end", "lost"},
         pc' # "native",
         NameIsNew', CandidateChecked', FilesSoFar',
         \/ pc' = "lost"
         \/ pc # "lost" /\ pc' \notin {"details", "row"} /\ row = NewRow
         \/ pc = "details" /\ pc' = "row" /\ row.usage
  PROVE  RunInv'
<1>1. Name' = Name
  BY NameKept
<1>2. TypeOK'
  BY DEF RunInv, TypeOK, Trials
<1>3. RowsLeft' /\ rows' \in Seq(Row)
  BY DEF RunInv, RowsLeft, Trials
<1>4. Backed(row, Name) => Backed(row, Name)'
  BY <1>1, BackedKept
<1>5. RowSoFar' /\ RowIsFilled'
  BY <1>1, <1>4 DEF RunInv, RowSoFar, RowIsFilled
<1>6. RowsMatchDisk'
  BY RowsStayBacked DEF RunInv
<1>7. PassedIsGold'
  BY DEF RunInv, PassedIsGold
<1> QED
  BY <1>2, <1>3, <1>5, <1>6, <1>7 DEF RunInv

LEMMA QuietSteps ==
  ASSUME RunInv,
         \/ RunNative \/ WriteCandidate \/ Check \/ MakeDirectory \/ WriteTranscript
         \/ Die
  PROVE  RunInv'
<1>1. /\ UNCHANGED <<questions, rows, row, trialFile>>
      /\ written \subseteq written'
      /\ pc \notin {"end", "lost"}
      /\ candidate' \in Candidates \cup {NoCandidate}
      /\ pc' \in {"candidate", "check", "directory", "transcript", "trial", "lost"}
  BY DEF RunInv, TypeOK, RunNative, WriteCandidate, Check, MakeDirectory,
     WriteTranscript, Die, Write
<1>2. Name' = Name
  BY <1>1, NameKept
<1>3. row = NewRow \/ pc' = "lost"
  BY DEF RunInv, RowSoFar, RunNative, WriteCandidate, Check, MakeDirectory,
     WriteTranscript, Die
<1>4. NameIsNew'
  <2>1. CASE MakeDirectory
    <3>1. <<"directory", Name>> \notin written /\ UNCHANGED trialFile
      BY <2>1 DEF MakeDirectory, DirectoryIsFree
    <3>2. Name \notin DOMAIN trialFile
      BY <3>1 DEF RunInv, TypeOK
    <3> QED
      BY <1>2, <3>1, <3>2 DEF NameIsNew
  <2>2. CASE WriteTranscript
    BY <1>2, <2>2 DEF RunInv, WriteTranscript, NameIsNew
  <2>3. CASE RunNative \/ WriteCandidate \/ Check \/ Die
    BY <2>3 DEF RunNative, WriteCandidate, Check, Die, NameIsNew
  <2> QED
    BY <2>1, <2>2, <2>3
<1>5. CandidateChecked'
  BY DEF RunInv, CandidateChecked, RunNative, WriteCandidate, Check, MakeDirectory,
     WriteTranscript, Die, Publishable, Unavailable
<1>6. FilesSoFar'
  BY <1>2 DEF RunInv, FilesSoFar, RunNative, WriteCandidate, Check, MakeDirectory,
     WriteTranscript, Die, Write
<1> QED
  BY <1>1, <1>3, <1>4, <1>5, <1>6, QuietStep

LEMMA DetailsStep == ASSUME RunInv, WriteDetails PROVE RunInv'
<1>1. /\ pc = "details" /\ pc' = "row"
      /\ UNCHANGED <<questions, rows, candidate, row, trialFile>>
      /\ written \subseteq written'
  BY DEF WriteDetails, Write
<1>2. candidate' \in Candidates \cup {NoCandidate}
  BY <1>1 DEF RunInv, TypeOK
<1>3. NameIsNew' /\ CandidateChecked' /\ FilesSoFar'
  BY <1>1 DEF NameIsNew, CandidateChecked, FilesSoFar
<1>4. row.usage
  BY <1>1 DEF RunInv, RowIsFilled
<1> QED
  BY <1>1, <1>2, <1>3, <1>4, QuietStep

LEMMA TrialStep == ASSUME RunInv, WriteTrial PROVE RunInv'
<1> DEFINE record == Record(candidate, Gold)
<1>1. /\ pc = "trial" /\ pc' = "trace"
      /\ trialFile' = Bind(trialFile, Name, record)
      /\ UNCHANGED <<questions, rows, candidate, row, candidateFile, written>>
  BY DEF WriteTrial
<1>2. Name' = Name /\ Gold' = Gold
  BY <1>1, NameKept
<1>3. /\ DOMAIN trialFile' = DOMAIN trialFile \cup {Name}
      /\ trialFile'[Name] = record
      /\ \A name \in DOMAIN trialFile : name # Name => trialFile'[name] = trialFile[name]
  BY <1>1 DEF Bind
<1>4. Name \notin DOMAIN trialFile
  BY <1>1 DEF RunInv, NameIsNew
<1>5. \A name \in DOMAIN trialFile : /\ name \in DOMAIN trialFile'
                                     /\ trialFile'[name] = trialFile[name]
  BY <1>3, <1>4
<1>6. {<<"directory", Name>>, <<"transcript", Name>>} \subseteq written
  BY <1>1 DEF RunInv, FilesSoFar
<1>7. row = NewRow
  BY <1>1 DEF RunInv, RowSoFar
<1>8. TypeOK'
  BY <1>1, <1>3, <1>6 DEF RunInv, TypeOK, Trials
<1>9. RowsLeft' /\ rows' \in Seq(Row)
  BY <1>1 DEF RunInv, RowsLeft, Trials
<1>10. NameIsNew' /\ CandidateChecked'
  BY <1>1 DEF RunInv, NameIsNew, CandidateChecked, Publishable, Unavailable
<1>11. FilesSoFar'
  <2>1. record' = record
    BY <1>1, <1>2 DEF Record, Status, ResultEquivalent, ErrorCategory, Category,
       Equivalent, Unavailable
  <2> QED
    BY <1>1, <1>2, <1>3, <1>6, <2>1 DEF FilesSoFar
<1>12. RowSoFar' /\ RowIsFilled'
  BY <1>1, <1>7 DEF RunInv, RowSoFar, Backed, NewRow, RowIsFilled
<1>13. RowsMatchDisk'
  BY <1>1, <1>5, RowsStayBacked DEF RunInv
<1>14. PassedIsGold'
  <2>1. record.status = "passed" => /\ record.provider = "live"
                                    /\ record.ids
                                    /\ record.hashes = GoldHashes[Name[1]]
    BY <1>1, PassedRecord DEF RunInv, TypeOK, CandidateChecked, Gold
  <2> QED
    BY <1>3, <1>5, <2>1 DEF RunInv, PassedIsGold
<1> QED
  BY <1>8, <1>9, <1>10, <1>11, <1>12, <1>13, <1>14 DEF RunInv

LEMMA TraceStep == ASSUME RunInv, WriteTrace PROVE RunInv'
<1> DEFINE record == Record(candidate, Gold)
<1>1. /\ pc = "trace" /\ pc' \in {"details", "row"}
      /\ written' = written \cup {<<"trace", Name>>}
      /\ row' = [status |-> record.status, equivalent |-> record.equivalent,
                 category |-> record.category, usage |-> TRUE]
      /\ UNCHANGED <<questions, rows, candidate, candidateFile, trialFile>>
  BY DEF WriteTrace, RowIsDue, Write
<1>2. Name' = Name
  BY <1>1, NameKept
<1>3. /\ Name \in DOMAIN trialFile
      /\ trialFile[Name] = record
      /\ <<"transcript", Name>> \in written
  BY <1>1 DEF RunInv, FilesSoFar
<1>4. row' \in Row /\ row'.usage
  BY <1>1, RecordTyped DEF RunInv, TypeOK, Row
<1>5. Backed(row, Name)'
  BY <1>1, <1>2, <1>3 DEF Backed
<1>6. TypeOK'
  BY <1>1 DEF RunInv, TypeOK, Trials
<1>7. RowsLeft' /\ rows' \in Seq(Row)
  BY <1>1 DEF RunInv, RowsLeft, Trials
<1>8. NameIsNew' /\ CandidateChecked' /\ FilesSoFar'
  BY <1>1 DEF NameIsNew, CandidateChecked, FilesSoFar
<1>9. RowSoFar' /\ RowIsFilled'
  BY <1>1, <1>4, <1>5 DEF RowSoFar, RowIsFilled
<1>10. RowsMatchDisk'
  BY <1>1, RowsStayBacked DEF RunInv
<1>11. PassedIsGold'
  BY <1>1 DEF RunInv, PassedIsGold
<1> QED
  BY <1>6, <1>7, <1>8, <1>9, <1>10, <1>11 DEF RunInv

\* An exception leaves the row what it claims, and a diagnostic.
LEMMA FailureStep ==
  ASSUME RunInv, Raise \/ RefuseCandidate \/ RefuseDirectory
  PROVE  RunInv'
<1>1. /\ pc \notin {"row", "end", "lost"}
      /\ pc' = "row"
      /\ row' = [row EXCEPT !.category = "setup_error"]
      /\ written' = written \cup {<<"diagnostic", Name>>}
      /\ UNCHANGED <<questions, rows, candidate, candidateFile, trialFile>>
  BY DEF Raise, RefuseCandidate, RefuseDirectory, Diagnose, Write
<1>2. Name' = Name
  BY <1>1, NameKept
<1>3. /\ row' \in Row
      /\ row'.usage = row.usage
      /\ row'.status = row.status
      /\ row'.equivalent = row.equivalent
  BY <1>1 DEF RunInv, RowSoFar, Row
<1>4. Backed(row, Name)'
  BY <1>1, <1>2, <1>3 DEF RunInv, RowSoFar, Backed
<1>5. TypeOK'
  BY <1>1 DEF RunInv, TypeOK, Trials
<1>6. RowsLeft' /\ rows' \in Seq(Row)
  BY <1>1 DEF RunInv, RowsLeft, Trials
<1>7. NameIsNew' /\ CandidateChecked' /\ FilesSoFar'
  BY <1>1 DEF NameIsNew, CandidateChecked, FilesSoFar
<1>8. RowSoFar' /\ RowIsFilled'
  BY <1>1, <1>2, <1>3, <1>4 DEF RowSoFar, RowIsFilled
<1>9. RowsMatchDisk'
  BY <1>1, RowsStayBacked DEF RunInv
<1>10. PassedIsGold'
  BY <1>1 DEF RunInv, PassedIsGold
<1> QED
  BY <1>5, <1>6, <1>7, <1>8, <1>9, <1>10 DEF RunInv

LEMMA SummaryStep == ASSUME RunInv, Summarize PROVE RunInv'
<1>1. /\ pc = "row"
      /\ rows' = Append(rows, row)
      /\ row' = NewRow
      /\ candidate' = NoCandidate
      /\ pc' = IF Len(rows') = Trials THEN "end" ELSE "native"
      /\ UNCHANGED <<questions, candidateFile, trialFile, written>>
  BY DEF Summarize, FreshRow
<1>2. /\ rows \in Seq(Row) /\ row \in Row
      /\ Len(rows) < Trials /\ Trials \in Nat
      /\ questions \in QuestionLists
  BY <1>1, TrialsPositive DEF RunInv, RowSoFar, RowsLeft
<1>3. /\ rows' \in Seq(Row)
      /\ Len(rows') = Len(rows) + 1
      /\ \A n \in 1 .. Len(rows) : rows'[n] = rows[n]
      /\ rows'[Len(rows) + 1] = row
      /\ DOMAIN rows = 1 .. Len(rows)
      /\ DOMAIN rows' = 1 .. Len(rows) + 1
  BY <1>1, <1>2
<1>4. TypeOK'
  BY <1>1, <1>2, <1>3 DEF RunInv, TypeOK, Trials
<1>5. RowsLeft'
  BY <1>1, <1>2, <1>3 DEF RowsLeft, Trials
<1>6. NameIsNew' /\ CandidateChecked' /\ FilesSoFar'
  BY <1>1 DEF NameIsNew, CandidateChecked, FilesSoFar
<1>7. RowSoFar' /\ RowIsFilled'
  <2>1. NewRow \in Row
    BY DEF NewRow, Row, Statuses, Causes
  <2> QED
    BY <1>1, <2>1 DEF RowSoFar, RowIsFilled, Backed, NewRow
<1>8. RowsMatchDisk'
  <2>1. Name = TrialName(Len(rows) + 1)
    BY DEF Name
  <2>2. \A n : TrialName(n)' = TrialName(n)
    BY <1>1 DEF TrialName
  <2> SUFFICES ASSUME NEW n \in DOMAIN rows'
               PROVE  IF rows'[n].usage
                        THEN /\ TrialName(n) \in DOMAIN trialFile
                             /\ {<<"transcript", TrialName(n)>>,
                                 <<"trace", TrialName(n)>>} \subseteq written
                             /\ rows'[n].status = trialFile[TrialName(n)].status
                             /\ rows'[n].equivalent = trialFile[TrialName(n)].equivalent
                        ELSE /\ rows'[n].equivalent = "null"
                             /\ <<"diagnostic", TrialName(n)>> \in written
    BY <1>1, <2>2 DEF RowsMatchDisk
  <2>3. CASE n \in DOMAIN rows
    BY <1>3, <2>3 DEF RunInv, RowsMatchDisk
  <2>4. CASE n = Len(rows) + 1
    BY <1>1, <1>3, <2>1, <2>4 DEF RunInv, RowSoFar, Backed
  <2> QED
    BY <1>2, <1>3, <2>3, <2>4
<1>9. PassedIsGold'
  BY <1>1 DEF RunInv, PassedIsGold
<1> QED
  BY <1>3, <1>4, <1>5, <1>6, <1>7, <1>8, <1>9 DEF RunInv

LEMMA RunStep == RunInv /\ [Next]_vars => RunInv'
<1> SUFFICES ASSUME RunInv, [Next]_vars PROVE RunInv'
  OBVIOUS
<1>1. CASE UNCHANGED vars
  <2>1. Name' = Name /\ Gold' = Gold
    BY <1>1, NameKept DEF vars
  <2>2. TypeOK' /\ RowsLeft' /\ rows' \in Seq(Row)
    BY <1>1 DEF vars, RunInv, TypeOK, RowsLeft, Trials
  <2>3. NameIsNew' /\ CandidateChecked'
    BY <1>1, <2>1 DEF vars, RunInv, NameIsNew, CandidateChecked, Publishable,
       Unavailable
  <2>4. FilesSoFar'
    BY <1>1, <2>1 DEF vars, RunInv, FilesSoFar, Record, Status, ResultEquivalent,
       ErrorCategory, Category, Equivalent, Unavailable
  <2>5. RowSoFar' /\ RowIsFilled'
    BY <1>1, <2>1 DEF vars, RunInv, RowSoFar, Backed, RowIsFilled
  <2>6. RowsMatchDisk'
    BY <1>1, RowsStayBacked DEF vars, RunInv
  <2>7. PassedIsGold'
    BY <1>1 DEF vars, RunInv, PassedIsGold
  <2> QED
    BY <2>2, <2>3, <2>4, <2>5, <2>6, <2>7 DEF RunInv
<1>2. CASE Next
  BY <1>2, QuietSteps, DetailsStep, TrialStep, TraceStep, FailureStep, SummaryStep
  DEF Next
<1> QED
  BY <1>1, <1>2

LEMMA RunInvariance == Spec => []RunInv
BY RunInit, RunStep, PTL DEF Spec

-----------------------------------------------------------------------------
(* The outcomes *)

\* A row says "passed" if it counts as correct, and "failed" if it counts as wrong.
Scored(r) == /\ r.equivalent = "yes" <=> r.status = "passed"
             /\ r.equivalent = "no" => r.status = "failed"

ScoresAgree == Scored(row) /\ \A n \in DOMAIN rows : Scored(rows[n])

LEMMA RecordScored ==
  ASSUME NEW c \in Candidates \cup {NoCandidate}, NEW gold
  PROVE  Scored(Record(c, gold))
<1>1. c.status # "passed"
  BY CandidateTyped DEF Statuses
<1>2. CASE c.status = "candidate_ready"
  <2>1. Status(c, gold) = IF Equivalent(c, gold) THEN "passed" ELSE "failed"
    BY <1>2 DEF Status, Equivalent, Unavailable
  <2> QED
    BY <1>2, <2>1 DEF Scored, Record, ResultEquivalent
<1>3. CASE c.status # "candidate_ready"
  <2>1. Status(c, gold) # "passed"
    BY <1>1, <1>3 DEF Status, Equivalent, Unavailable
  <2> QED
    BY <1>3, <2>1 DEF Scored, Record, ResultEquivalent
<1> QED
  BY <1>2, <1>3

LEMMA ScoresStep == RunInv /\ ScoresAgree /\ [Next]_vars => ScoresAgree'
<1> SUFFICES ASSUME RunInv, ScoresAgree, [Next]_vars PROVE ScoresAgree'
  OBVIOUS
<1>1. CASE WriteTrace
  <2>1. Scored(Record(candidate, Gold))
    BY RecordScored DEF RunInv, TypeOK
  <2> QED
    BY <1>1, <2>1 DEF WriteTrace, ScoresAgree, Scored
<1>2. CASE Raise \/ RefuseCandidate \/ RefuseDirectory
  BY <1>2 DEF Raise, RefuseCandidate, RefuseDirectory, Diagnose, RunInv, RowSoFar, Row,
     ScoresAgree, Scored
<1>3. CASE Summarize
  <2>1. Scored(NewRow)
    BY DEF NewRow, Scored
  <2>2. rows \in Seq(Row) /\ row \in Row
    BY DEF RunInv, RowSoFar
  <2> QED
    BY <1>3, <2>1, <2>2 DEF Summarize, FreshRow, ScoresAgree
<1>4. CASE UNCHANGED <<rows, row>>
  BY <1>4 DEF ScoresAgree, Scored
<1> QED
  BY <1>1, <1>2, <1>3, <1>4 DEF Next, vars, RunNative, WriteCandidate, Check,
     MakeDirectory, WriteTranscript, WriteTrial, WriteDetails, Die

LEMMA ScoresInvariance == Spec => [](RunInv /\ ScoresAgree)
<1>1. Init => ScoresAgree
  BY DEF Init, ScoresAgree, Scored, NewRow
<1> QED
  BY <1>1, ScoresStep, RunInvariance, PTL DEF Spec

\* Rows are counted by sets of indices: those that are scored are the correct and
\* the wrong ones, and none of them is a provider error.
LEMMA OutcomesCount == ASSUME RunInv, ScoresAgree PROVE OutcomesAddUp
<1> DEFINE All     == DOMAIN rows
           Correct == { i \in All : rows[i].equivalent = "yes" }
           Wrong   == { i \in All : rows[i].equivalent = "no" }
           Both    == { i \in All : rows[i].equivalent \in {"yes", "no"} }
           Errors  == { i \in All : rows[i].equivalent = "null"
                                    /\ rows[i].category = "provider_error" }
<1>1. All = 1 .. Len(rows) /\ Len(rows) \in Nat
  BY DEF RunInv
<1>2. IsFiniteSet(All) /\ Cardinality(All) = Len(rows)
  <2>1. /\ IsFiniteSet(1 .. Len(rows))
        /\ Cardinality(1 .. Len(rows)) = IF 1 > Len(rows) THEN 0 ELSE Len(rows) - 1 + 1
    BY <1>1, FS_Interval
  <2> HIDE DEF All
  <2> QED
    BY <1>1, <2>1
<1>3. IsFiniteSet(Correct) /\ IsFiniteSet(Wrong) /\ IsFiniteSet(Both)
  BY <1>2, FS_Subset
<1>4. Cardinality(Both) = Cardinality(Correct) + Cardinality(Wrong)
  <2>1. Both = Correct \cup Wrong /\ Correct \cap Wrong = {}
    OBVIOUS
  <2> HIDE DEF All, Correct, Wrong, Both
  <2>2. Cardinality(Correct \cup Wrong)
          = Cardinality(Correct) + Cardinality(Wrong) - Cardinality(Correct \cap Wrong)
    BY <1>3, FS_Union
  <2>3. Cardinality(Correct) \in Nat /\ Cardinality(Wrong) \in Nat
    BY <1>3, FS_CardinalityType
  <2> QED
    <3>1. Cardinality(Correct \cap Wrong) = 0
      BY <2>1, FS_EmptySet, Zenon
    <3>2. Cardinality(Both) = Cardinality(Correct \cup Wrong)
      BY <2>1, Zenon
    <3> QED
      BY <2>2, <2>3, <3>1, <3>2
<1>5. Cardinality(Errors) <= Len(rows) - Cardinality(Both)
  <2>1. Errors \subseteq All \ Both
    OBVIOUS
  <2>2. All \cap Both = Both
    OBVIOUS
  <2>3. /\ IsFiniteSet(All \ Both)
        /\ Cardinality(All \ Both) = Cardinality(All) - Cardinality(Both)
    <3> HIDE DEF All, Both
    <3> QED
      BY <1>2, <2>2, FS_Difference
  <2> HIDE DEF All, Both, Errors
  <2>4. Cardinality(Errors) <= Cardinality(All \ Both)
    BY <2>1, <2>3, FS_Subset
  <2> QED
    BY <1>2, <2>3, <2>4
<1>6. Cardinality(Both) - Cardinality(Correct) = Cardinality(Wrong)
  BY <1>3, <1>4, FS_CardinalityType
<1>7. /\ Correct = { i \in All : rows[i].status = "passed" }
      /\ Wrong = { i \in All : rows[i].equivalent = "no" /\ rows[i].status = "failed" }
  BY DEF ScoresAgree, Scored
<1> QED
  BY <1>5, <1>6, <1>7 DEF OutcomesAddUp, Outcomes, WrongResults, CountRows

-----------------------------------------------------------------------------
(* Theorems *)

\* Whatever fails and wherever the process dies, a record lies in a directory of
\* its own, behind its transcript, and every trial starts from a blank row.
THEOREM RunTypeCorrect == Spec => []TypeOK
<1>1. RunInv => TypeOK
  BY DEF RunInv
<1> QED
  BY <1>1, RunInvariance, PTL

\* No record on disk says "passed" unless its results are the Gold results.
THEOREM PassingIsGold == Spec => []PassedIsGold
<1>1. RunInv => PassedIsGold
  BY DEF RunInv
<1> QED
  BY <1>1, RunInvariance, PTL

\* The summary claims nothing the disk does not hold, also if a question is named
\* twice.
THEOREM RowsAreBacked == Spec => []RowsMatchDisk
<1>1. RunInv => RowsMatchDisk
  BY DEF RunInv
<1> QED
  BY <1>1, RunInvariance, PTL

\* A record, once written, never changes.
THEOREM RecordsStay == Spec => RecordsAreImmutable
<1> DEFINE Kept == \A name \in DOMAIN trialFile :
                     name \in DOMAIN trialFile' /\ trialFile'[name] = trialFile[name]
<1>1. RunInv /\ [Next]_vars => [Kept]_vars
  <2> SUFFICES ASSUME RunInv, Next PROVE Kept
    OBVIOUS
  <2>1. CASE WriteTrial
    BY <2>1 DEF WriteTrial, Bind, RunInv, NameIsNew
  <2>2. CASE ~ WriteTrial
    BY <2>2 DEF Next, RunNative, WriteCandidate, Check, MakeDirectory, WriteTranscript,
       WriteTrace, WriteDetails, Raise, RefuseCandidate, RefuseDirectory, Diagnose, Die,
       Summarize
  <2> QED
    BY <2>1, <2>2
<1> QED
  BY <1>1, RunInvariance, PTL DEF Spec, RecordsAreImmutable

\* The outcomes of the summary add up, whatever failed: what is neither correct nor
\* unscored is a candidate that differs from Gold.
THEOREM SummaryAddsUp == Spec => []OutcomesAddUp
BY ScoresInvariance, OutcomesCount, PTL
=============================================================================
