-------------------------- MODULE ControlTrialProofs --------------------------
(***************************************************************************)
(* Proofs about ControlTrial, for every budget of turns, calls and time.   *)
(* The trial's variables are typed, and a trial passes only on the Gold    *)
(* result of a read-only query of its own.  The dispatcher's part is the   *)
(* invariant of ToolDispatcherProofs: every step of a trial is a step of   *)
(* the dispatcher or leaves it alone.                                      *)
(***************************************************************************)
EXTENDS ControlTrial, ToolDispatcherProofs

\* Only SQL that passed the read-only policy is remembered.
SqlIsReadOnly == \A h \in DOMAIN sqlByHandle : ReadOnly(sqlByHandle[h])

\* Until the trial is scored its error category is one of the conversation's.
VerdictIsOpen ==
  pc # "done" => errorCategory \notin {"incomplete_result", "wrong_result",
                                      "unsupported_semantics"}

\* A timeout is the trial's own or the last failure of its calls.
TimeoutIsFresh ==
  pc # "done" /\ errorCategory = "timeout" =>
    \/ OutOfTime
    \/ failures # <<>> /\ failures[Len(failures)] = "timeout"

\* The inductive invariant of a trial.
TrialInv ==
  /\ IInv
  /\ ControlTypeOK
  /\ EveryResultHasItsSql
  /\ SqlIsReadOnly
  /\ PassedMeansGold
  /\ VerdictIsOpen
  /\ TimeoutIsFresh
  /\ ErrorExplained
  /\ TimeoutIsTheLastFailure

-----------------------------------------------------------------------------
(* The dispatcher inside a trial *)

\* Every step of a trial is a dispatched call or leaves the dispatcher alone.
LEMMA TrialStepDispatches ==
  ASSUME [ControlNext]_vars
  PROVE  \/ \E call \in Calls, outcome \in Outcomes : Dispatch(call, outcome)
         \/ UNCHANGED dispatcherVars
BY DEF ControlNext, SpendTime, SpendTurns, ProviderRaises, ProviderStops,
       ProviderCalls, DispatchCall, Persist, Score, vars

LEMMA DispatcherInv == IInv /\ [ControlNext]_vars => IInv'
<1> SUFFICES ASSUME IInv, [ControlNext]_vars PROVE IInv'
  OBVIOUS
<1>1. [Next]_dispatcherVars
  BY TrialStepDispatches DEF Next
<1> QED
  BY <1>1, NextIInv

\* A dispatched call stores a result together with the read-only SQL it came
\* from, or stores nothing.
LEMMA DispatchStores ==
  ASSUME IInv, EveryResultHasItsSql, SqlIsReadOnly,
         NEW call \in Calls, NEW outcome \in Outcomes, Dispatch(call, outcome)
  PROVE  EveryResultHasItsSql' /\ SqlIsReadOnly'
<1>1. CASE QueryAnswers(call, outcome)
  <2>1. PICK p \in Payload :
          /\ results' = Bind(results, NextHandle, p)
          /\ sqlByHandle' = Bind(sqlByHandle, NextHandle, call.sql)
    BY <1>1 DEF QueryAnswers, RememberSql
  <2>2. ReadOnly(call.sql)
    BY <1>1 DEF QueryAnswers
  <2>3. EveryResultHasItsSql'
    BY <2>1 DEF EveryResultHasItsSql, Bind
  <2>4. SqlIsReadOnly'
    BY <2>1, <2>2 DEF SqlIsReadOnly, Bind
  <2> QED
    BY <2>3, <2>4
<1>2. CASE ~ QueryAnswers(call, outcome)
  <2>1. UNCHANGED <<results, sqlByHandle>>
    BY <1>2 DEF Dispatch, Refuse, ReadCatalogue, ExecuteReadonly, Submit,
       QueryRefusedByBudget, QueryRefusedByPolicy, QueryFails, dispatcherVars
  <2> QED
    BY <2>1 DEF EveryResultHasItsSql, SqlIsReadOnly
<1> QED
  BY <1>1, <1>2

LEMMA StoreInv ==
  ASSUME IInv, EveryResultHasItsSql, SqlIsReadOnly, [ControlNext]_vars
  PROVE  EveryResultHasItsSql' /\ SqlIsReadOnly'
<1>1. CASE \E call \in Calls, outcome \in Outcomes : Dispatch(call, outcome)
  BY <1>1, DispatchStores
<1>2. CASE UNCHANGED dispatcherVars
  BY <1>2 DEF EveryResultHasItsSql, SqlIsReadOnly, dispatcherVars
<1> QED
  BY <1>1, <1>2, TrialStepDispatches

-----------------------------------------------------------------------------
(* The types of a trial *)

LEMMA TimeStaysInBounds ==
  ASSUME elapsed \in 0 .. TrialSeconds, TimePasses
  PROVE  elapsed' \in 0 .. TrialSeconds
BY TrialAssumption DEF TimePasses

LEMMA ScoreTyped ==
  ASSUME IInv, ControlTypeOK
  PROVE  FinalCategory \in Categories /\ FinalStatus \in Verdicts
<1>1. submission = NoSubmission \/ submission \in Submissions
  BY DEF IInv, TypeOK
<1>2. CASE submission = NoSubmission
  BY <1>2 DEF ControlTypeOK, FinalCategory, FinalStatus, Categories, Verdicts,
     NoSubmission
<1>3. CASE submission \in Submissions
  <2>1. submission.status \in SubmissionStatuses /\ submission # NoSubmission
    BY <1>3 DEF Submissions, NoSubmission, SubmissionStatuses
  <2> QED
    BY <2>1 DEF ControlTypeOK, FinalCategory, FinalStatus, Categories, Verdicts,
       SubmissionStatuses, NoSubmission
<1> QED
  BY <1>1, <1>2, <1>3

LEMMA DispatchTyped ==
  ASSUME ControlTypeOK, DispatchCall
  PROVE  ControlTypeOK'
<1> USE TurnsAssumption, CallsAssumption
<1>1. PICK call \in Calls, outcome \in Outcomes :
        /\ errorCategory' = ToolErrorCategory(call, outcome)
        /\ failures' = IF outcome = "ok" THEN failures ELSE Append(failures, outcome)
  BY DEF DispatchCall
<1>2. errorCategory' \in Categories
  BY <1>1 DEF ControlTypeOK, ToolErrorCategory, Outcomes, Categories
<1>3. failures' \in Seq({"protocol", "timeout", "error"})
  BY <1>1 DEF ControlTypeOK, Outcomes
<1>4. elapsed' \in 0 .. TrialSeconds
  BY TimeStaysInBounds DEF ControlTypeOK, DispatchCall
<1>5. /\ pc' \in {"turn", "calls", "persist"}
      /\ pendingCalls' \in 0 .. MaxCallsPerTurn
      /\ (pc' = "calls") = (pendingCalls' > 0)
      /\ UNCHANGED <<turns, status>>
      /\ pc = "calls"
  BY DEF ControlTypeOK, DispatchCall, AfterTurn
<1> QED
  BY <1>2, <1>3, <1>4, <1>5 DEF ControlTypeOK

LEMMA TrialTyped ==
  ASSUME IInv, ControlTypeOK, [ControlNext]_vars
  PROVE  ControlTypeOK'
<1> USE TurnsAssumption, CallsAssumption, TrialAssumption
<1>1. CASE SpendTime
  BY <1>1 DEF ControlTypeOK, SpendTime, Categories
<1>2. CASE SpendTurns
  BY <1>2 DEF ControlTypeOK, SpendTurns
<1>3. CASE ProviderRaises
  BY <1>3, TimeStaysInBounds DEF ControlTypeOK, ProviderRaises, MayAsk, NextTurn,
     Categories
<1>4. CASE ProviderStops
  BY <1>4, TimeStaysInBounds DEF ControlTypeOK, ProviderStops, MayAsk, NextTurn,
     Categories
<1>5. CASE ProviderCalls
  BY <1>5, TimeStaysInBounds DEF ControlTypeOK, ProviderCalls, MayAsk, NextTurn
<1>6. CASE DispatchCall
  BY <1>6, DispatchTyped
<1>7. CASE Persist
  BY <1>7 DEF ControlTypeOK, Persist
<1>8. CASE Score
  BY <1>8, ScoreTyped DEF ControlTypeOK, Score, Verdicts
<1>9. CASE UNCHANGED vars
  BY <1>9 DEF ControlTypeOK, vars, controlVars
<1> QED
  BY <1>1, <1>2, <1>3, <1>4, <1>5, <1>6, <1>7, <1>8, <1>9 DEF ControlNext

-----------------------------------------------------------------------------
(* The verdict *)

LEMMA VerdictInv ==
  ASSUME TrialInv, [ControlNext]_vars
  PROVE  PassedMeansGold'
<1>1. CASE Score
  <2>1. UNCHANGED <<results, sqlByHandle, submission>>
    BY <1>1 DEF Score, dispatcherVars
  <2>2. SUFFICES ASSUME status' = "passed"
                 PROVE  /\ submission.status = "success"
                        /\ Len(submission.handles) = 1
                        /\ LET h == submission.handles[1] IN
                           /\ h \in DOMAIN results
                           /\ results[h] = Gold
                           /\ h \in DOMAIN sqlByHandle
                           /\ ReadOnly(sqlByHandle[h])
    BY <2>1 DEF PassedMeansGold, ReadOnly
  <2>3. submission \in Submissions \cup {NoSubmission}
    BY DEF TrialInv, IInv, TypeOK
  <2>4. FinalStatus = "passed"
    BY <1>1, <2>2 DEF Score
  <2>5. /\ submission # NoSubmission
        /\ submission.status = "success"
        /\ SingleHandle
        /\ ResultEquivalent
    BY <2>3, <2>4 DEF FinalStatus, Submissions, SubmissionStatuses, NoSubmission
  <2>6. submission.handles[1] \in HandlesOf(submission)
    <3>1. submission.handles \in HandleLists
      BY <2>3, <2>5 DEF Submissions
    <3>2. 1 \in DOMAIN submission.handles
      BY <2>5, <3>1 DEF SingleHandle, HandleLists
    <3> QED
      BY <3>2 DEF HandlesOf
  <2>7. submission.handles[1] \in DOMAIN results
    BY <2>5, <2>6 DEF TrialInv, IInv, SubmittedHandlesResolve
  <2> QED
    BY <2>5, <2>7 DEF TrialInv, EveryResultHasItsSql, SqlIsReadOnly, SingleHandle,
       ResultEquivalent
<1>2. CASE UNCHANGED vars
  BY <1>2 DEF TrialInv, PassedMeansGold, ReadOnly, vars, dispatcherVars, controlVars
<1>3. CASE ControlNext /\ ~ Score
  <2>1. UNCHANGED status /\ pc # "done"
    BY <1>3 DEF ControlNext, SpendTime, SpendTurns, ProviderRaises, ProviderStops,
       ProviderCalls, DispatchCall, Persist, MayAsk
  <2>2. status = "none"
    BY <2>1 DEF TrialInv, ControlTypeOK
  <2> QED
    BY <2>1, <2>2 DEF PassedMeansGold
<1> QED
  BY <1>1, <1>2, <1>3

-----------------------------------------------------------------------------
(* The error category *)

\* What a dispatched call does to the category and the history of failures.
LEMMA FailureRecorded ==
  ASSUME ControlTypeOK, DispatchCall
  PROVE  \/ UNCHANGED <<errorCategory, failures>>
         \/ /\ errorCategory' = "timeout"
            /\ failures' # <<>>
            /\ failures'[Len(failures')] = "timeout"
         \/ errorCategory' \in {"sql_policy", "agent_protocol", "tool_error"}
<1>1. PICK call \in Calls, outcome \in Outcomes :
        /\ errorCategory' = ToolErrorCategory(call, outcome)
        /\ failures' = IF outcome = "ok" THEN failures ELSE Append(failures, outcome)
  BY DEF DispatchCall
<1>2. failures \in Seq({"protocol", "timeout", "error"})
  BY DEF ControlTypeOK
<1>3. CASE outcome = "ok"
  BY <1>1, <1>3 DEF ToolErrorCategory
<1>4. CASE outcome = "timeout"
  BY <1>1, <1>2, <1>4 DEF ToolErrorCategory
<1>5. CASE outcome \in {"protocol", "error"}
  BY <1>1, <1>5 DEF ToolErrorCategory
<1> QED
  BY <1>3, <1>4, <1>5 DEF Outcomes

\* The clock of a trial does not run backwards.
LEMMA TimeStaysSpent ==
  ASSUME elapsed \in 0 .. TrialSeconds, TimePasses, OutOfTime
  PROVE  OutOfTime'
BY TrialAssumption DEF TimePasses, OutOfTime

LEMMA CategoryInv ==
  ASSUME ControlTypeOK, VerdictIsOpen, TimeoutIsFresh, [ControlNext]_vars
  PROVE  VerdictIsOpen' /\ TimeoutIsFresh'
<1>1. CASE DispatchCall
  <2>1. pc # "done" /\ TimePasses
    BY <1>1 DEF DispatchCall
  <2>2. OutOfTime => OutOfTime'
    BY <2>1, TimeStaysSpent DEF ControlTypeOK
  <2> QED
    BY <1>1, <2>1, <2>2, FailureRecorded DEF VerdictIsOpen, TimeoutIsFresh
<1>2. CASE SpendTime
  BY <1>2 DEF SpendTime, VerdictIsOpen, TimeoutIsFresh, OutOfTime
<1>3. CASE ProviderRaises \/ ProviderStops
  BY <1>3 DEF ProviderRaises, ProviderStops, VerdictIsOpen, TimeoutIsFresh
<1>4. CASE ProviderCalls
  <2>1. TimePasses /\ ~ OutOfTime /\ pc # "done" /\ UNCHANGED <<errorCategory, failures>>
    BY <1>4 DEF ProviderCalls, MayAsk
  <2> QED
    BY <2>1 DEF VerdictIsOpen, TimeoutIsFresh
<1>5. CASE SpendTurns \/ Persist
  BY <1>5 DEF SpendTurns, Persist, VerdictIsOpen, TimeoutIsFresh, OutOfTime
<1>6. CASE Score
  BY <1>6 DEF Score, VerdictIsOpen, TimeoutIsFresh
<1>7. CASE UNCHANGED vars
  BY <1>7 DEF vars, controlVars, VerdictIsOpen, TimeoutIsFresh, OutOfTime
<1> QED
  BY <1>1, <1>2, <1>3, <1>4, <1>5, <1>6, <1>7 DEF ControlNext

\* The category and the status of a record are read off the submission and off
\* the category the conversation left.
LEMMA ScoreExplains ==
  ASSUME TrialInv, Score
  PROVE  ErrorExplained' /\ TimeoutIsTheLastFailure'
<1>1. /\ errorCategory' = FinalCategory
      /\ status' = FinalStatus
      /\ UNCHANGED <<results, submission, elapsed, failures>>
      /\ pc # "done"
  BY DEF Score, dispatcherVars
<1>2. submission = NoSubmission \/ submission \in Submissions
  BY DEF TrialInv, IInv, TypeOK
<1>3. errorCategory \notin {"incomplete_result", "wrong_result", "unsupported_semantics"}
  BY <1>1 DEF TrialInv, VerdictIsOpen
<1>4. CASE submission = NoSubmission
  <2>1. /\ submission.status = "none"
        /\ errorCategory' = IF errorCategory = "none" THEN "agent_protocol"
                                                     ELSE errorCategory
        /\ status' = IF errorCategory = "timeout" THEN "timeout" ELSE "invalid"
    BY <1>1, <1>4 DEF NoSubmission, FinalCategory, FinalStatus
  <2>2. ErrorExplained'
    BY <1>1, <1>3, <2>1 DEF ErrorExplained
  <2>3. TimeoutIsTheLastFailure'
    BY <1>1, <2>1 DEF TrialInv, TimeoutIsFresh, TimeoutIsTheLastFailure, OutOfTime
  <2> QED
    BY <2>2, <2>3
<1>5. CASE submission \in Submissions
  <2>1. submission # NoSubmission /\ submission.status \in SubmissionStatuses
    BY <1>5 DEF Submissions, SubmissionStatuses, NoSubmission
  <2>2. status' # "timeout"
    BY <1>1, <2>1 DEF FinalStatus, SubmissionStatuses
  <2>3. CASE submission.status = "success"
    <3>1. errorCategory' = IF ~ SingleHandle THEN "incomplete_result"
                           ELSE IF ResultEquivalent THEN "none" ELSE "wrong_result"
      BY <1>1, <2>3 DEF FinalCategory
    <3>2. status' = IF SingleHandle /\ ResultEquivalent THEN "passed" ELSE "failed"
      BY <1>1, <2>1, <2>3 DEF FinalStatus
    <3> QED
      BY <1>1, <2>2, <2>3, <3>1, <3>2 DEF ErrorExplained, SingleHandle,
         ResultEquivalent, TimeoutIsTheLastFailure
  <2>4. CASE submission.status \in {"unsupported", "failed"}
    <3>1. /\ errorCategory' # "none"
          /\ errorCategory' \notin {"incomplete_result", "wrong_result"}
      BY <1>1, <1>3, <2>4 DEF FinalCategory
    <3>2. status' \in {"unsupported", "failed"}
      BY <1>1, <2>1, <2>4 DEF FinalStatus
    <3> QED
      BY <1>1, <2>2, <2>4, <3>1, <3>2 DEF ErrorExplained, TimeoutIsTheLastFailure
  <2> QED
    BY <2>1, <2>3, <2>4 DEF SubmissionStatuses
<1> QED
  BY <1>2, <1>4, <1>5

LEMMA ExplanationInv ==
  ASSUME TrialInv, [ControlNext]_vars
  PROVE  ErrorExplained' /\ TimeoutIsTheLastFailure'
<1>1. CASE Score
  BY <1>1, ScoreExplains
<1>2. CASE UNCHANGED vars
  BY <1>2 DEF TrialInv, ErrorExplained, TimeoutIsTheLastFailure, OutOfTime, vars,
     dispatcherVars, controlVars
<1>3. CASE ControlNext /\ ~ Score
  <2>1. UNCHANGED status /\ pc # "done"
    BY <1>3 DEF ControlNext, SpendTime, SpendTurns, ProviderRaises, ProviderStops,
       ProviderCalls, DispatchCall, Persist, MayAsk
  <2>2. status = "none"
    BY <2>1 DEF TrialInv, ControlTypeOK
  <2> QED
    BY <2>1, <2>2 DEF ErrorExplained, TimeoutIsTheLastFailure
<1> QED
  BY <1>1, <1>2, <1>3

-----------------------------------------------------------------------------
(* The contract *)

\* The dispatcher accepts one submission, with a status of the schema.
LEMMA OneAnswer ==
  ASSUME IInv, [ControlNext]_vars
  PROVE  \/ UNCHANGED submission
         \/ /\ submission = NoSubmission
            /\ submission'.status \in SubmissionStatuses
            /\ DispatchCall
<1>1. CASE DispatchCall
  <2>1. PICK call \in Calls, outcome \in Outcomes : Dispatch(call, outcome)
    BY <1>1 DEF DispatchCall
  <2>2. CASE Submit(call, outcome)
    <3>1. call \in SubmitCalls
      BY <2>2, CallKinds DEF Submit
    <3>2. call.submission.status \in SubmissionStatuses
      BY <3>1 DEF SubmitCalls, Submissions
    <3> QED
      BY <1>1, <2>2, <3>2 DEF Submit, MaySubmit
  <2>3. CASE ~ Submit(call, outcome)
    BY <2>1, <2>3 DEF Dispatch, Refuse, ReadCatalogue, ExecuteReadonly,
       QueryRefusedByBudget, QueryRefusedByPolicy, QueryFails, QueryAnswers,
       dispatcherVars
  <2> QED
    BY <2>2, <2>3
<1>2. CASE ~ DispatchCall
  BY <1>2 DEF ControlNext, SpendTime, SpendTurns, ProviderRaises, ProviderStops,
     ProviderCalls, Persist, Score, vars, dispatcherVars
<1> QED
  BY <1>1, <1>2

LEMMA ContractStep ==
  TrialInv /\ [ControlNext]_vars => [Contract!Next]_(Contract!vars)
<1> SUFFICES ASSUME TrialInv, [ControlNext]_vars
             PROVE  [Contract!Next]_(Contract!vars)
  OBVIOUS
<1>1. CASE Score
  <2>1. /\ status' = FinalStatus
        /\ pc = "score" /\ pc' = "done"
        /\ UNCHANGED submission
    BY <1>1 DEF Score, dispatcherVars
  <2>2. submission = NoSubmission \/ submission \in Submissions
    BY DEF TrialInv, IInv, TypeOK
  <2>3. FinalStatus \in Admissible[submission.status]
    <3>1. CASE submission = NoSubmission
      BY <3>1 DEF FinalStatus, Admissible, NoSubmission
    <3>2. CASE submission \in Submissions
      <4>1. submission.status \in SubmissionStatuses /\ submission # NoSubmission
        BY <3>2 DEF Submissions, SubmissionStatuses, NoSubmission
      <4> QED
        BY <4>1 DEF FinalStatus, Admissible, SubmissionStatuses
    <3> QED
      BY <2>2, <3>1, <3>2
  <2>4. Verdict = "pending" /\ Verdict' = FinalStatus
    BY <2>1 DEF Verdict
  <2> QED
    BY <2>1, <2>3, <2>4 DEF Contract!Next, Contract!Conclude
<1>2. CASE Persist
  BY <1>2 DEF Persist, Verdict, Contract!Next, Contract!Lose, Contract!vars,
     dispatcherVars
<1>3. CASE DispatchCall
  <2>1. Verdict = "pending" /\ Verdict' = "pending"
    BY <1>3 DEF DispatchCall, AfterTurn, Verdict
  <2>2. CASE UNCHANGED submission
    BY <2>1, <2>2 DEF Contract!vars
  <2>3. CASE submission = NoSubmission /\ submission'.status \in SubmissionStatuses
    BY <2>1, <2>3 DEF NoSubmission, SubmissionStatuses, Contract!Next, Contract!Accept,
       Contract!Answers
  <2> QED
    BY <2>2, <2>3, OneAnswer DEF TrialInv
<1>4. CASE SpendTime \/ SpendTurns \/ ProviderRaises \/ ProviderStops \/ ProviderCalls
  <2>1. UNCHANGED submission /\ Verdict = "pending" /\ Verdict' = "pending"
    BY <1>4 DEF SpendTime, SpendTurns, ProviderRaises, ProviderStops, ProviderCalls,
       MayAsk, Verdict, dispatcherVars
  <2> QED
    BY <2>1 DEF Contract!vars
<1>5. CASE UNCHANGED vars
  BY <1>5 DEF vars, dispatcherVars, controlVars, Verdict, Contract!vars
<1> QED
  BY <1>1, <1>2, <1>3, <1>4, <1>5 DEF ControlNext

-----------------------------------------------------------------------------
(* Theorems *)

LEMMA TrialInit == ControlInit => TrialInv
<1> SUFFICES ASSUME ControlInit PROVE TrialInv
  OBVIOUS
<1>1. IInv
  BY InitIInv DEF ControlInit
<1>2. ControlTypeOK
  BY TurnsAssumption, CallsAssumption, TrialAssumption
  DEF ControlInit, ControlTypeOK, Categories
<1>3. EveryResultHasItsSql /\ SqlIsReadOnly /\ PassedMeansGold
  BY DEF ControlInit, Init, EveryResultHasItsSql, SqlIsReadOnly, PassedMeansGold
<1>4. VerdictIsOpen /\ TimeoutIsFresh /\ ErrorExplained /\ TimeoutIsTheLastFailure
  BY DEF ControlInit, VerdictIsOpen, TimeoutIsFresh, ErrorExplained,
     TimeoutIsTheLastFailure
<1> QED
  BY <1>1, <1>2, <1>3, <1>4 DEF TrialInv

LEMMA TrialStep == TrialInv /\ [ControlNext]_vars => TrialInv'
<1> SUFFICES ASSUME TrialInv, [ControlNext]_vars PROVE TrialInv'
  OBVIOUS
<1>1. IInv'
  BY DispatcherInv DEF TrialInv
<1>2. ControlTypeOK'
  BY TrialTyped DEF TrialInv
<1>3. EveryResultHasItsSql' /\ SqlIsReadOnly'
  BY StoreInv DEF TrialInv
<1>4. PassedMeansGold'
  BY VerdictInv
<1>5. VerdictIsOpen' /\ TimeoutIsFresh'
  BY CategoryInv DEF TrialInv
<1>6. ErrorExplained' /\ TimeoutIsTheLastFailure'
  BY ExplanationInv
<1> QED
  BY <1>1, <1>2, <1>3, <1>4, <1>5, <1>6 DEF TrialInv

LEMMA TrialInvariance == ControlSpec => []TrialInv
BY TrialInit, TrialStep, PTL DEF ControlSpec

\* The trial's own variables keep their types: the turn loop, the calls of a
\* turn and the clock stay in their bounds, and a status is set exactly at the
\* end.
THEOREM TrialTypeCorrect == ControlSpec => []ControlTypeOK
<1>1. TrialInv => ControlTypeOK
  BY DEF TrialInv
<1> QED
  BY <1>1, TrialInvariance, PTL

\* A trial passes only on one handle whose result is Gold and came from a
\* read-only query of the trial.
THEOREM PassingIsEarned == ControlSpec => []PassedMeansGold
<1>1. TrialInv => PassedMeansGold
  BY DEF TrialInv
<1> QED
  BY <1>1, TrialInvariance, PTL

\* Persisting never looks up SQL that is missing.
THEOREM SqlIsAlwaysFound == ControlSpec => []EveryResultHasItsSql
<1>1. TrialInv => EveryResultHasItsSql
  BY DEF TrialInv
<1> QED
  BY <1>1, TrialInvariance, PTL

\* The error category of a record tells how its trial missed.
THEOREM MissesAreExplained == ControlSpec => []ErrorExplained
<1>1. TrialInv => ErrorExplained
  BY DEF TrialInv
<1> QED
  BY <1>1, TrialInvariance, PTL

\* No trial is a timeout because of a timeout that other failures followed.
THEOREM TimeoutsAreLast == ControlSpec => []TimeoutIsTheLastFailure
<1>1. TrialInv => TimeoutIsTheLastFailure
  BY DEF TrialInv
<1> QED
  BY <1>1, TrialInvariance, PTL

\* Every trial starts and moves as the contract says: one answer, and one
\* verdict that the answer admits.  (That it ends is left to the model checker.)
THEOREM KeepsTheContract ==
  ControlSpec => Contract!Init /\ [][Contract!Next]_(Contract!vars)
<1>1. ControlInit => Contract!Init
  BY DEF ControlInit, Init, NoSubmission, Verdict, Contract!Init
<1> QED
  BY <1>1, ContractStep, TrialInvariance, PTL DEF ControlSpec
=============================================================================
