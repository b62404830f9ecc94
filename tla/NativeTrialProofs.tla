--------------------------- MODULE NativeTrialProofs ---------------------------
(***************************************************************************)
(* Proofs about NativeTrial, for every allowlist, every budget and every   *)
(* preflight.  Two facts about the conversation carry them: it takes place *)
(* only behind a healthy preflight, and it is left the moment a submission *)
(* is accepted.  The dispatcher's part is the invariant of                 *)
(* ToolDispatcherProofs.                                                   *)
(***************************************************************************)
EXTENDS NativeTrial, ToolDispatcherProofs

BeforeConversation == pc \in {"preflight", "start"}
InConversation     == pc \in {"turn", "calls"}
AfterConversation  == pc \in {"close", "finalize", "done", "lost"}

\* The conversation, and what it costs, lies behind a healthy preflight.
HealthyConversation ==
  /\ BeforeConversation => turns = 0
  /\ pc = "start" \/ InConversation \/ turns > 0 => Healthy(checks)

\* Until the conversation is left nothing is decided.
Undecided ==
  ~ AfterConversation =>
    /\ submission = NoSubmission
    /\ completion = "invalid"
    /\ category = "none"
    /\ outside = FALSE

\* How it was left is settled once and for all.
Decided ==
  AfterConversation =>
    /\ outside => completion = "invalid" /\ category = "protocol_violation"
    /\ completion = "candidate_ready" <=> category = "none"
    /\ completion = "candidate_ready" <=> submission.status = "success"
    /\ completion \in Admissible[submission.status]

ClosedBehind == pc \in {"finalize", "done"} => runtime = "closed" /\ provider # "open"

HashedAtTheEnd == pc = "done" => SubmittedHashable

TrialInv ==
  /\ IInv
  /\ NativeTypeOK
  /\ HealthyConversation
  /\ Undecided
  /\ Decided
  /\ ClosedBehind
  /\ HashedAtTheEnd

-----------------------------------------------------------------------------
(* The dispatcher inside a trial *)

\* Every step of a trial is a step of the dispatcher or leaves it alone.
LEMMA DispatcherInv == IInv /\ [NativeNext]_vars => IInv'
<1> SUFFICES ASSUME IInv, [NativeNext]_vars PROVE IInv'
  OBVIOUS
<1>1. [Next]_dispatcherVars
  BY DEF NativeNext, Preflight, PreflightRaises, Start, StartRefusesProvider,
     StartRaises, SpendTurns, ProviderEnds, ProviderCalls, CallHarness, CallNative,
     CallNativeResult, CallBreachesIsolation, CallUndeclared, Close, CloseRaises,
     CloseProviderRaises, Finalize, closeFrame, vars, Next
<1> QED
  BY <1>1, NextIInv

\* A submission that is accepted carries a status of the schema.
LEMMA AnswerTyped ==
  ASSUME IInv, [NativeNext]_vars
  PROVE  submission' = NoSubmission \/ submission'.status \in SubmissionStatuses
<1>1. submission' \in Submissions \cup {NoSubmission}
  BY DispatcherInv DEF IInv, TypeOK
<1> QED
  BY <1>1 DEF Submissions

-----------------------------------------------------------------------------
(* The conversation *)

\* Leaving with a submission settles the trial.
LEMMA LeaveSettles ==
  ASSUME submission'.status \in SubmissionStatuses, outside' = FALSE,
         LeaveWithSubmission(submission'.status)
  PROVE  /\ pc' = "close"
         /\ completion' \in Completions
         /\ category' \in Categories
         /\ Decided'
<1>1. CASE submission'.status = "success"
  BY <1>1 DEF LeaveWithSubmission, Leave, Completions, Categories, Decided, Admissible
<1>2. CASE submission'.status = "unsupported"
  BY <1>2 DEF LeaveWithSubmission, Leave, Completions, Categories, Decided, Admissible
<1>3. CASE submission'.status = "failed"
  BY <1>3 DEF LeaveWithSubmission, Leave, Completions, Categories, Decided, Admissible
<1> QED
  BY <1>1, <1>2, <1>3 DEF SubmissionStatuses

\* A call that does not end the trial leads to the next one, to the next turn, or
\* out of the conversation with the submission it has left.
LEMMA ContinueInv ==
  ASSUME TrialInv, pc = "calls", Continue, UNCHANGED <<callFrame, outside>>, IInv',
         submission' = NoSubmission \/ submission'.status \in SubmissionStatuses
  PROVE  TrialInv'
<1>1. /\ outside = FALSE
      /\ completion = "invalid"
      /\ category = "none"
      /\ Healthy(checks)
      /\ pendingCalls \in 1 .. MaxCallsPerTurn
  BY CallsAssumption DEF TrialInv, Undecided, AfterConversation, HealthyConversation,
     InConversation, NativeTypeOK
<1>2. UNCHANGED <<checks, runtime, provider, turns, tools, outside>>
  BY DEF callFrame
<1>3. CASE submission' # NoSubmission
  <2>1. pendingCalls' = 0 /\ LeaveWithSubmission(submission'.status)
    BY <1>3 DEF Continue
  <2>2. pc' = "close" /\ completion' \in Completions /\ category' \in Categories
        /\ Decided'
    BY <1>1, <1>2, <1>3, <2>1, LeaveSettles
  <2>3. NativeTypeOK'
    BY <1>2, <2>1, <2>2, CallsAssumption DEF TrialInv, NativeTypeOK
  <2>4. HealthyConversation'
    BY <1>1, <1>2, <2>2 DEF HealthyConversation, BeforeConversation, InConversation,
       Healthy
  <2>5. Undecided' /\ ClosedBehind' /\ HashedAtTheEnd'
    BY <2>2 DEF Undecided, AfterConversation, ClosedBehind, HashedAtTheEnd
  <2> QED
    BY <2>2, <2>3, <2>4, <2>5 DEF TrialInv
<1>4. CASE submission' = NoSubmission
  <2>1. /\ pendingCalls' = pendingCalls - 1
        /\ pc' = IF pendingCalls = 1 THEN "turn" ELSE "calls"
        /\ UNCHANGED <<completion, category>>
    BY <1>4 DEF Continue
  <2>2. NativeTypeOK'
    <3>1. pc' \in {"turn", "calls"} /\ pendingCalls' \in 0 .. MaxCallsPerTurn
      BY <1>1, <2>1, CallsAssumption
    <3>2. pc' = "calls" <=> pendingCalls' > 0
      BY <1>1, <2>1, CallsAssumption
    <3>3. outside' \in BOOLEAN
      BY <1>1, <1>2, Zenon
    <3>4. UNCHANGED <<checks, runtime, provider, turns, tools, completion, category>>
      BY <1>2, <2>1
    <3> QED
      BY <3>1, <3>2, <3>3, <3>4 DEF TrialInv, NativeTypeOK
  <2>3. HealthyConversation'
    BY <1>1, <1>2, <2>1 DEF HealthyConversation, BeforeConversation, InConversation,
       Healthy
  <2>4. Undecided' /\ Decided' /\ ClosedBehind' /\ HashedAtTheEnd'
    BY <1>1, <1>2, <1>4, <2>1 DEF Undecided, Decided, AfterConversation, ClosedBehind,
       HashedAtTheEnd
  <2> QED
    BY <2>2, <2>3, <2>4 DEF TrialInv
<1> QED
  BY <1>3, <1>4

\* Leaving without a submission, with a category that tells why.
LEMMA LeaveInv ==
  ASSUME TrialInv, ~ AfterConversation,
         NEW status \in {"invalid", "failed", "timeout"},
         NEW why \in Categories \ {"none"},
         Leave(status, why),
         outside' => status = "invalid" /\ why = "protocol_violation",
         UNCHANGED dispatcherVars,
         UNCHANGED <<runtime, tools>>,
         pendingCalls' = 0,
         provider' \in {provider, "open"},
         checks' \in PreflightResponses,
         outside' \in BOOLEAN,
         turns' \in 0 .. MaxTurns,
         turns' > 0 => Healthy(checks')
  PROVE  TrialInv'
<1>1. pc' = "close" /\ completion' = status /\ category' = why
  BY DEF Leave
<1>2. submission' = NoSubmission
  BY DEF TrialInv, Undecided, dispatcherVars
<1>3. IInv'
  BY StutterIInv DEF TrialInv
<1>4. NativeTypeOK'
  BY <1>1, CallsAssumption DEF TrialInv, NativeTypeOK, Completions
<1>5. HealthyConversation'
  BY <1>1 DEF HealthyConversation, BeforeConversation, InConversation, Healthy
<1>6. Decided'
  BY <1>1, <1>2 DEF Decided, NoSubmission, Admissible
<1>7. Undecided' /\ ClosedBehind' /\ HashedAtTheEnd'
  BY <1>1 DEF Undecided, AfterConversation, ClosedBehind, HashedAtTheEnd
<1> QED
  BY <1>3, <1>4, <1>5, <1>6, <1>7 DEF TrialInv

LEMMA ConversationStep ==
  ASSUME TrialInv, InConversation, NativeNext
  PROVE  TrialInv'
<1> USE TurnsAssumption, CallsAssumption
<1>1. IInv' /\ (submission' = NoSubmission \/ submission'.status \in SubmissionStatuses)
  BY DispatcherInv, AnswerTyped DEF TrialInv
<1>2. /\ ~ AfterConversation
      /\ Healthy(checks)
      /\ checks \in PreflightResponses
      /\ turns \in 0 .. MaxTurns
      /\ outside = FALSE
      /\ pc = "turn" => pendingCalls = 0
  BY DEF TrialInv, InConversation, AfterConversation, HealthyConversation, Undecided,
     NativeTypeOK
<1>3. CASE SpendTurns
  BY <1>2, <1>3, LeaveInv DEF SpendTurns, Categories, Healthy
<1>4. CASE ProviderEnds
  <2>1. /\ pc = "turn" /\ turns' \in 0 .. MaxTurns
        /\ UNCHANGED <<dispatcherVars, checks, runtime, provider, pendingCalls, tools,
                       outside>>
    BY <1>2, <1>4 DEF ProviderEnds, NextTurn, TurnsLeft
  <2>2. PICK status \in {"failed", "timeout"}, why \in Categories \ {"none"} :
          Leave(status, why)
    BY <1>4 DEF ProviderEnds, Categories
  <2> QED
    BY <1>2, <2>1, <2>2, LeaveInv DEF Healthy
<1>5. CASE ProviderCalls
  <2>1. /\ turns' \in 0 .. MaxTurns
        /\ pendingCalls' \in 1 .. MaxCallsPerTurn
        /\ pc' = "calls"
        /\ UNCHANGED <<dispatcherVars, checks, runtime, provider, completion, category,
                       tools, outside>>
    BY <1>2, <1>5 DEF ProviderCalls, NextTurn, TurnsLeft
  <2>2. NativeTypeOK'
    BY <2>1 DEF TrialInv, NativeTypeOK
  <2>3. HealthyConversation'
    BY <1>2, <2>1 DEF HealthyConversation, BeforeConversation, InConversation, Healthy
  <2>4. Undecided' /\ Decided' /\ ClosedBehind' /\ HashedAtTheEnd'
    BY <1>2, <2>1 DEF TrialInv, Undecided, Decided, AfterConversation, ClosedBehind,
       HashedAtTheEnd, dispatcherVars
  <2> QED
    BY <1>1, <2>2, <2>3, <2>4 DEF TrialInv
<1>6. CASE CallHarness \/ CallNative \/ CallNativeResult
  BY <1>1, <1>6, ContinueInv DEF CallHarness, CallNative, CallNativeResult
<1>7. CASE CallBreachesIsolation \/ CallUndeclared
  <2>1. /\ UNCHANGED <<dispatcherVars, checks, runtime, provider, turns, tools>>
        /\ outside' \in BOOLEAN
        /\ pendingCalls' = 0
        /\ Leave("invalid", "protocol_violation")
    BY <1>2, <1>7 DEF CallBreachesIsolation, CallUndeclared, Violation, callFrame
  <2> QED
    BY <1>2, <2>1, LeaveInv DEF Categories, Healthy
<1> QED
  BY <1>3, <1>4, <1>5, <1>6, <1>7 DEF NativeNext, InConversation, Preflight,
     PreflightRaises, Start, StartRefusesProvider, StartRaises, Close, CloseRaises,
     CloseProviderRaises, Finalize

-----------------------------------------------------------------------------
(* Before and after *)

LEMMA BeforeStep ==
  ASSUME TrialInv, BeforeConversation, NativeNext
  PROVE  TrialInv'
<1> USE TurnsAssumption, CallsAssumption
<1>1. IInv'
  BY DispatcherInv DEF TrialInv
<1>2. /\ ~ AfterConversation
      /\ pendingCalls = 0
      /\ turns = 0
      /\ outside = FALSE
      /\ checks \in PreflightResponses
      /\ pc = "start" => Healthy(checks)
  BY DEF TrialInv, BeforeConversation, AfterConversation, HealthyConversation,
     Undecided, NativeTypeOK
<1>3. CASE Preflight
  <2>1. /\ checks' \in PreflightResponses
        /\ UNCHANGED <<dispatcherVars, runtime, provider, turns, pendingCalls, tools,
                       outside>>
    BY <1>3 DEF Preflight
  <2>2. CASE Healthy(checks')
    <3>1. pc' = "start" /\ UNCHANGED <<completion, category>>
      BY <1>3, <2>2 DEF Preflight
    <3>2. NativeTypeOK'
      BY <1>2, <2>1, <3>1 DEF TrialInv, NativeTypeOK
    <3>3. HealthyConversation'
      BY <1>2, <2>1, <2>2, <3>1 DEF HealthyConversation, Healthy
    <3>4. Undecided' /\ Decided' /\ ClosedBehind' /\ HashedAtTheEnd'
      BY <1>2, <2>1, <3>1 DEF TrialInv, Undecided, Decided, AfterConversation,
         ClosedBehind, HashedAtTheEnd, dispatcherVars
    <3> QED
      BY <1>1, <3>2, <3>3, <3>4 DEF TrialInv
  <2>3. CASE ~ Healthy(checks')
    <3>1. Leave("invalid", "preflight")
      BY <1>3, <2>3 DEF Preflight
    <3>2. turns' \in 0 .. MaxTurns /\ ~ (turns' > 0) /\ pendingCalls' = 0
      BY <1>2, <2>1
    <3>3. outside' \in BOOLEAN /\ ~ outside' /\ provider' = provider
      BY <1>2, <2>1, Zenon
    <3>4. UNCHANGED dispatcherVars /\ UNCHANGED <<runtime, tools>>
      BY <2>1
    <3>5. "preflight" \in Categories \ {"none"}
      BY DEF Categories
    <3> QED
      BY <1>2, <2>1, <3>1, <3>2, <3>3, <3>4, <3>5, LeaveInv
  <2> QED
    BY <2>2, <2>3
<1>4. CASE PreflightRaises \/ StartRaises \/ StartRefusesProvider
  <2>1. /\ UNCHANGED <<dispatcherVars, checks, runtime, turns, pendingCalls, tools,
                       outside>>
        /\ provider' \in {provider, "open"}
    BY <1>4 DEF PreflightRaises, StartRaises, StartRefusesProvider
  <2>2. PICK status \in {"invalid", "failed", "timeout"},
             why \in Categories \ {"none"} : Leave(status, why)
    BY <1>4 DEF PreflightRaises, StartRaises, StartRefusesProvider, Categories
  <2>3. turns' \in 0 .. MaxTurns /\ ~ (turns' > 0) /\ pendingCalls' = 0
        /\ checks' \in PreflightResponses
    BY <1>2, <2>1
  <2>4. outside' \in BOOLEAN /\ ~ outside'
    BY <1>2, <2>1, Zenon
  <2>5. UNCHANGED dispatcherVars /\ UNCHANGED <<runtime, tools>>
    BY <2>1
  <2> QED
    BY <1>2, <2>1, <2>2, <2>3, <2>4, <2>5, LeaveInv
<1>5. CASE Start
  <2>1. /\ pc = "start" /\ pc' = "turn"
        /\ provider' = "open"
        /\ UNCHANGED <<dispatcherVars, checks, runtime, turns, pendingCalls, completion,
                       category, tools, outside>>
    BY <1>5 DEF Start
  <2>2. NativeTypeOK'
    BY <1>2, <2>1 DEF TrialInv, NativeTypeOK
  <2>3. HealthyConversation'
    BY <1>2, <2>1 DEF HealthyConversation, BeforeConversation, Healthy
  <2>4. Undecided' /\ Decided' /\ ClosedBehind' /\ HashedAtTheEnd'
    BY <1>2, <2>1 DEF TrialInv, Undecided, Decided, AfterConversation, ClosedBehind,
       HashedAtTheEnd, dispatcherVars
  <2> QED
    BY <1>1, <2>2, <2>3, <2>4 DEF TrialInv
<1> QED
  BY <1>3, <1>4, <1>5 DEF NativeNext, BeforeConversation, SpendTurns, ProviderEnds,
     ProviderCalls, CallHarness, CallNative, CallNativeResult, CallBreachesIsolation,
     CallUndeclared, Close, CloseRaises, CloseProviderRaises, Finalize

LEMMA AfterStep ==
  ASSUME TrialInv, AfterConversation, NativeNext
  PROVE  TrialInv'
<1>1. IInv'
  BY DispatcherInv DEF TrialInv
<1>2. Close \/ CloseRaises \/ CloseProviderRaises \/ Finalize
  BY DEF AfterConversation, NativeNext, Preflight, PreflightRaises, Start,
     StartRefusesProvider, StartRaises, SpendTurns, ProviderEnds, ProviderCalls,
     CallHarness, CallNative, CallNativeResult, CallBreachesIsolation, CallUndeclared
<1>3. /\ UNCHANGED <<dispatcherVars, checks, turns, pendingCalls, completion, category,
                     tools, outside>>
      /\ pc # "calls"
      /\ pc' \in {"finalize", "done", "lost"}
      /\ runtime' \in {runtime, "closed"}
      /\ provider' \in {provider, "closed"}
  BY <1>2 DEF Close, CloseRaises, CloseProviderRaises, Finalize, CloseProvider,
     closeFrame
<1>4. NativeTypeOK'
  BY <1>3 DEF TrialInv, NativeTypeOK
<1>5. HealthyConversation'
  BY <1>3 DEF TrialInv, HealthyConversation, BeforeConversation, InConversation,
     Healthy
<1>6. Undecided' /\ Decided'
  BY <1>3 DEF TrialInv, Undecided, Decided, AfterConversation, dispatcherVars
<1>7. ClosedBehind'
  BY <1>2 DEF TrialInv, ClosedBehind, Close, CloseRaises, CloseProviderRaises,
     Finalize, CloseProvider
<1>8. HashedAtTheEnd'
  <2>1. CASE Finalize
    BY <1>3, <2>1 DEF Finalize, HashedAtTheEnd, SubmittedHashable, HandlesOf,
       dispatcherVars, Hashable
  <2>2. CASE ~ Finalize
    BY <1>2, <2>2 DEF Close, CloseRaises, CloseProviderRaises, HashedAtTheEnd
  <2> QED
    BY <2>1, <2>2
<1> QED
  BY <1>1, <1>4, <1>5, <1>6, <1>7, <1>8 DEF TrialInv

-----------------------------------------------------------------------------
(* The invariant *)

LEMMA TrialInit == NativeInit => TrialInv
<1> SUFFICES ASSUME NativeInit PROVE TrialInv
  OBVIOUS
<1>1. IInv
  BY InitIInv DEF NativeInit
<1>2. <<>> \in PreflightResponses
  <2>1. <<>> \in [1 .. 0 -> {"ok", "error"}] /\ 0 \in 0 .. MaxChecks
    BY ChecksAssumption
  <2> QED
    BY <2>1 DEF PreflightResponses
<1>3. NativeTypeOK
  <2>1. turns \in 0 .. MaxTurns /\ pendingCalls \in 0 .. MaxCallsPerTurn
    BY TurnsAssumption, CallsAssumption DEF NativeInit
  <2>2. pc = "preflight" /\ pc # "calls" /\ ~ (pendingCalls > 0)
    BY DEF NativeInit
  <2>3. outside \in BOOLEAN
    BY Zenon DEF NativeInit
  <2>4. completion \in Completions /\ category \in Categories
    BY DEF NativeInit, Completions, Categories
  <2> QED
    BY <1>2, <2>1, <2>2, <2>3, <2>4 DEF NativeInit, NativeTypeOK
<1>4. HealthyConversation /\ Undecided /\ Decided /\ ClosedBehind /\ HashedAtTheEnd
  BY DEF NativeInit, Init, HealthyConversation, InConversation, Undecided, Decided,
     AfterConversation, ClosedBehind, HashedAtTheEnd
<1> QED
  BY <1>1, <1>3, <1>4 DEF TrialInv

LEMMA TrialStutter == TrialInv /\ UNCHANGED vars => TrialInv'
<1> SUFFICES ASSUME TrialInv, UNCHANGED vars PROVE TrialInv'
  OBVIOUS
<1>1. UNCHANGED dispatcherVars /\ UNCHANGED nativeVars
  BY DEF vars
<1>2. IInv'
  BY <1>1, StutterIInv DEF TrialInv
<1>3. NativeTypeOK' /\ HealthyConversation' /\ ClosedBehind'
  BY <1>1 DEF TrialInv, nativeVars, NativeTypeOK, HealthyConversation,
     BeforeConversation, InConversation, Healthy, ClosedBehind
<1>4. Undecided' /\ Decided' /\ HashedAtTheEnd'
  BY <1>1 DEF TrialInv, nativeVars, dispatcherVars, Undecided, Decided,
     AfterConversation, HashedAtTheEnd, SubmittedHashable, HandlesOf, Hashable
<1> QED
  BY <1>2, <1>3, <1>4 DEF TrialInv

LEMMA TrialStep == TrialInv /\ [NativeNext]_vars => TrialInv'
<1> SUFFICES ASSUME TrialInv, [NativeNext]_vars PROVE TrialInv'
  OBVIOUS
<1>1. BeforeConversation \/ InConversation \/ AfterConversation
  BY DEF TrialInv, NativeTypeOK, BeforeConversation, InConversation, AfterConversation
<1> QED
  BY <1>1, BeforeStep, ConversationStep, AfterStep, TrialStutter

LEMMA TrialInvariance == NativeSpec => []TrialInv
BY TrialInit, TrialStep, PTL DEF NativeSpec

-----------------------------------------------------------------------------
(* Theorems *)

\* Turns and calls stay in their budgets, and the trial's variables keep their
\* types.
THEOREM NativeTypeCorrect == NativeSpec => []NativeTypeOK
<1>1. TrialInv => NativeTypeOK
  BY DEF TrialInv
<1> QED
  BY <1>1, TrialInvariance, PTL

\* No turn is asked of a provider unless every check of the preflight passed.
THEOREM BillingIsHealthy == NativeSpec => []BilledOnlyWhenHealthy
<1>1. TrialInv => BilledOnlyWhenHealthy
  BY DEF TrialInv, HealthyConversation, Healthy, BilledOnlyWhenHealthy
<1> QED
  BY <1>1, TrialInvariance, PTL

\* Artifacts are handed out by a closed runtime and a closed provider.
THEOREM ArtifactsAreClosed == NativeSpec => []ClosedBeforeEvaluation
<1>1. TrialInv => ClosedBeforeEvaluation
  BY DEF TrialInv, ClosedBehind, ClosedBeforeEvaluation
<1> QED
  BY <1>1, TrialInvariance, PTL

\* A record tells how its trial ended, and names only results it can identify.
THEOREM RecordsTellTheEnd == NativeSpec => []RecordTellsTheEnd
<1>1. TrialInv => RecordTellsTheEnd
  <2> SUFFICES ASSUME TrialInv, pc = "done" PROVE RecordTellsTheEnd
    BY DEF RecordTellsTheEnd
  <2>1. HandlesOf(submission) \subseteq DOMAIN results
    <3>1. CASE submission = NoSubmission
      BY <3>1 DEF NoSubmission, HandlesOf
    <3>2. CASE submission # NoSubmission
      BY <3>2 DEF TrialInv, IInv, SubmittedHandlesResolve
    <3> QED
      BY <3>1, <3>2
  <2>2. SubmittedHashable
    BY DEF TrialInv, HashedAtTheEnd
  <2> QED
    BY <2>1, <2>2 DEF TrialInv, Decided, AfterConversation, RecordTellsTheEnd,
       UsedOnlyDeclaredSurface, SubmittedHashable
<1> QED
  BY <1>1, TrialInvariance, PTL

\* The dispatcher does nothing more for the agent behind its submission.
THEOREM SubmissionEndsTheWork == NativeSpec => NothingAfterSubmission
<1> DEFINE Still == submission # NoSubmission =>
                      databaseAttempts' = databaseAttempts /\ results' = results
<1>1. TrialInv /\ [NativeNext]_vars => [Still]_vars
  <2> SUFFICES ASSUME TrialInv, NativeNext, submission # NoSubmission
               PROVE  databaseAttempts' = databaseAttempts /\ results' = results
    OBVIOUS
  <2>1. AfterConversation
    BY DEF TrialInv, Undecided
  <2> QED
    BY <2>1 DEF AfterConversation, NativeNext, Preflight, PreflightRaises, Start,
       StartRefusesProvider, StartRaises, SpendTurns, ProviderEnds, ProviderCalls,
       CallHarness, CallNative, CallNativeResult, CallBreachesIsolation,
       CallUndeclared, Close, CloseRaises, CloseProviderRaises, Finalize, closeFrame,
       dispatcherVars
<1> QED
  BY <1>1, TrialInvariance, PTL DEF NativeSpec, NothingAfterSubmission

\* Every trial starts and moves as the contract says: one answer, and one verdict
\* that the answer admits.  (That it ends is left to the model checker.)
THEOREM KeepsTheContract ==
  NativeSpec => Contract!Init /\ [][Contract!Next]_(Contract!vars)
<1>1. NativeInit => Contract!Init
  BY DEF NativeInit, Init, NoSubmission, Verdict, Contract!Init
<1>2. TrialInv /\ [NativeNext]_vars => [Contract!Next]_(Contract!vars)
  <2> SUFFICES ASSUME TrialInv, [NativeNext]_vars
               PROVE  [Contract!Next]_(Contract!vars)
    OBVIOUS
  <2>1. CASE Finalize
    <3>1. UNCHANGED <<submission, completion>> /\ pc = "finalize" /\ pc' \in {"done", "lost"}
      BY <2>1 DEF Finalize, closeFrame, dispatcherVars
    <3>2. completion \in Admissible[submission.status]
      BY <3>1 DEF TrialInv, Decided, AfterConversation
    <3>3. Verdict = "pending"
      BY <3>1 DEF Verdict
    <3>4. CASE pc' = "done"
      BY <3>1, <3>2, <3>3, <3>4 DEF Verdict, Contract!Next, Contract!Conclude
    <3>5. CASE pc' = "lost"
      BY <3>1, <3>3, <3>5 DEF Verdict, Contract!Next, Contract!Lose
    <3> QED
      BY <3>1, <3>4, <3>5
  <2>2. CASE Close \/ CloseRaises \/ CloseProviderRaises
    <3>1. UNCHANGED submission /\ pc = "close" /\ pc' \in {"finalize", "lost"}
      BY <2>2 DEF Close, CloseRaises, CloseProviderRaises, closeFrame, dispatcherVars
    <3>2. CASE pc' = "finalize"
      BY <3>1, <3>2 DEF Verdict, Contract!vars
    <3>3. CASE pc' = "lost"
      BY <3>1, <3>3 DEF Verdict, Contract!Next, Contract!Lose
    <3> QED
      BY <3>1, <3>2, <3>3
  <2>3. CASE UNCHANGED vars
    BY <2>3 DEF vars, dispatcherVars, nativeVars, Verdict, Contract!vars
  <2>4. CASE NativeNext /\ ~ (Finalize \/ Close \/ CloseRaises \/ CloseProviderRaises)
    <3>1. ~ AfterConversation
      BY <2>4 DEF AfterConversation, NativeNext, Preflight, PreflightRaises, Start,
         StartRefusesProvider, StartRaises, SpendTurns, ProviderEnds, ProviderCalls,
         CallHarness, CallNative, CallNativeResult, CallBreachesIsolation,
         CallUndeclared
    <3>2. pc' \notin {"done", "lost"}
      <4>1. ASSUME NEW status, NEW why, Leave(status, why)
            PROVE  pc' = "close"
        BY <4>1 DEF Leave
      <4>2. CASE CallHarness \/ CallNative \/ CallNativeResult
        <5>1. Continue
          BY <4>2 DEF CallHarness, CallNative, CallNativeResult
        <5>2. submission' = NoSubmission \/ submission'.status \in SubmissionStatuses
          BY AnswerTyped DEF TrialInv
        <5> QED
          BY <5>1, <5>2, <4>1 DEF Continue, LeaveWithSubmission, SubmissionStatuses
      <4>3. CASE ~ (CallHarness \/ CallNative \/ CallNativeResult)
        BY <2>4, <4>1, <4>3 DEF NativeNext, Preflight, PreflightRaises, Start,
           StartRefusesProvider, StartRaises, SpendTurns, ProviderEnds, ProviderCalls,
           CallBreachesIsolation, CallUndeclared, Violation
      <4> QED
        BY <4>2, <4>3
    <3>3. Verdict = "pending" /\ Verdict' = "pending"
      BY <3>1, <3>2 DEF AfterConversation, Verdict
    <3>4. submission = NoSubmission
      BY <3>1 DEF TrialInv, Undecided
    <3>5. CASE submission' = NoSubmission
      BY <3>3, <3>4, <3>5 DEF Contract!vars
    <3>6. CASE submission'.status \in SubmissionStatuses
      BY <3>3, <3>4, <3>6 DEF NoSubmission, SubmissionStatuses, Contract!Next,
         Contract!Accept, Contract!Answers
    <3> QED
      BY <3>5, <3>6, AnswerTyped DEF TrialInv
  <2> QED
    BY <2>1, <2>2, <2>3, <2>4
<1> QED
  BY <1>1, <1>2, TrialInvariance, PTL DEF NativeSpec
=============================================================================
