----------------------------- MODULE NativeTrial ------------------------------
(***************************************************************************)
(* One trial of the native runner: run_native_trial and _finalize of       *)
(* runner/core/native_runner.py over the NativeRuntime of                  *)
(* runner/core/native_factory.py.  The runtime puts the target's native    *)
(* adapter beside the dispatcher; the trial preflights it, opens a fresh   *)
(* conversation, runs the provider's turns, and closes runtime and         *)
(* provider before it hands out its artifacts.                             *)
(***************************************************************************)
EXTENDS ToolDispatcher

CONSTANTS
  MaxTurns,         \* settings.max_turns
  MaxCallsPerTurn,  \* bound: tool calls in one provider turn
  MaxChecks         \* bound: responses of one preflight

ASSUME TurnsAssumption  == MaxTurns \in Nat \ {0}
ASSUME CallsAssumption  == MaxCallsPerTurn \in Nat \ {0}
ASSUME ChecksAssumption == MaxChecks \in Nat

VARIABLES
  pc,            \* "preflight", "start", "turn", "calls", "close",
                 \* "finalize", "done", "lost"
  checks,        \* statuses of the preflight's responses
  runtime,       \* "open" or "closed" (NativeRuntime._closed)
  provider,      \* "none", "open" or "closed"
  turns,         \* turns the provider was asked for
  pendingCalls,  \* tool calls of the current turn still to dispatch
  completion,    \* completion_status
  category,      \* error_category, "none" for None
  tools,         \* whether NativeRuntime.public_tools answers or raises
  outside        \* an operation outside the allowlist was requested (history)

nativeVars == <<pc, checks, runtime, provider, turns, pendingCalls, completion,
                category, tools, outside>>
vars == <<dispatcherVars, nativeVars>>

Completions == {"candidate_ready", "unsupported", "failed", "invalid", "timeout"}

Categories == {"none", "preflight", "protocol_violation", "provider_error",
               "timeout", "internal", "agent_protocol", "turn_budget",
               "unsupported_semantics", "agent_reported_failure"}

-----------------------------------------------------------------------------
(* Helpers *)

\* The trial leaves its conversation with this status and error category.
Leave(status, why) ==
  /\ completion' = status
  /\ category' = why
  /\ pc' = "close"

\* Mutant: one healthy check is enough.
SomeHealthy(responses) ==
  responses # <<>> => \E i \in DOMAIN responses : responses[i] = "ok"

Healthy(responses) == \A i \in DOMAIN responses : responses[i] = "ok"

\* The submission's status decides how the trial completed.
LeaveWithSubmission(status) ==
  CASE status = "success"     -> Leave("candidate_ready", "none")
    [] status = "unsupported" -> Leave("unsupported", "unsupported_semantics")
    [] status = "failed"      -> Leave("failed", "agent_reported_failure")

\* Mutant: the calls of a turn are all dispatched, submission or not.
ContinuePastSubmission ==
  /\ pendingCalls' = pendingCalls - 1
  /\ IF pendingCalls = 1
       THEN IF submission' # NoSubmission
              THEN LeaveWithSubmission(submission'.status)
              ELSE pc' = "turn" /\ UNCHANGED <<completion, category>>
       ELSE UNCHANGED <<pc, completion, category>>

\* After a call that did not end the trial: out of both loops if there is a
\* submission, to the next call, or to the next turn.
Continue ==
  IF submission' # NoSubmission
    THEN pendingCalls' = 0 /\ LeaveWithSubmission(submission'.status)
    ELSE /\ pendingCalls' = pendingCalls - 1
         /\ pc' = IF pendingCalls = 1 THEN "turn" ELSE "calls"
         /\ UNCHANGED <<completion, category>>

\* Mutant: a protocol violation is reported like any other tool error.
RepairableViolation == Continue

\* NativeIsolationError and NativeOperationError end the trial.
Violation == pendingCalls' = 0 /\ Leave("invalid", "protocol_violation")

-----------------------------------------------------------------------------
(* Before the conversation *)

NativeInit ==
  /\ Init
  /\ pc = "preflight"
  /\ checks = <<>>
  /\ runtime = "open"
  /\ provider = "none"
  /\ turns = 0
  /\ pendingCalls = 0
  /\ completion = "invalid"
  /\ category = "none"
  /\ tools \in {"answer", "raise"}
  /\ outside = FALSE

PreflightResponses ==
  UNION { [1 .. n -> {"ok", "error"}] : n \in 0 .. MaxChecks }

Preflight ==
  /\ pc = "preflight"
  /\ checks' \in PreflightResponses
  /\ IF Healthy(checks') THEN pc' = "start" /\ UNCHANGED <<completion, category>>
                         ELSE Leave("invalid", "preflight")
  /\ UNCHANGED <<dispatcherVars, runtime, provider, turns, pendingCalls, tools,
                 outside>>

\* The adapter raises instead of answering: an operation of its own it does not
\* declare, a timeout, or any other error.
PreflightRaises ==
  /\ pc = "preflight"
  /\ \/ Leave("invalid", "protocol_violation")
     \/ Leave("timeout", "timeout")
     \/ Leave("failed", "preflight")
  /\ UNCHANGED <<dispatcherVars, checks, runtime, provider, turns, pendingCalls,
                 tools, outside>>

\* The runtime lists the tools, and the provider is built after the messages.
Start ==
  /\ pc = "start"
  /\ tools = "answer"
  /\ provider' = "open"
  /\ pc' = "turn"
  /\ UNCHANGED <<dispatcherVars, checks, runtime, turns, pendingCalls, completion,
                 category, tools, outside>>

\* The factory's object has no complete: it is refused, and closed if it can be.
StartRefusesProvider ==
  /\ pc = "start"
  /\ tools = "answer"
  /\ provider' = "open"
  /\ Leave("failed", "internal")
  /\ UNCHANGED <<dispatcherVars, checks, runtime, turns, pendingCalls, tools,
                 outside>>

\* public_tools raises; the tools expose Gold or direct SQL; the provider's
\* constructor refuses its settings, or the factory raises.
StartRaises ==
  /\ pc = "start"
  /\ \/ Leave("failed", "preflight")
     \/ tools = "answer" /\ Leave("invalid", "protocol_violation")
     \/ tools = "answer" /\ Leave("failed", "provider_error")
  /\ UNCHANGED <<dispatcherVars, checks, runtime, provider, turns, pendingCalls,
                 tools, outside>>

-----------------------------------------------------------------------------
(* The conversation *)

\* Mutant: the loop does not count its turns.
SameTurn == turns' = turns

NextTurn == turns' = turns + 1

\* Mutant: one turn too many.
TurnsLeftOffByOne == turns <= MaxTurns

TurnsLeft == turns < MaxTurns

SpendTurns ==
  /\ pc = "turn"
  /\ turns = MaxTurns
  /\ Leave("timeout", "turn_budget")
  /\ UNCHANGED <<dispatcherVars, checks, runtime, provider, turns, pendingCalls,
                 tools, outside>>

\* The provider raises AgentProviderError, TimeoutError or anything else, or
\* returns a turn without a tool call.
ProviderEnds ==
  /\ pc = "turn"
  /\ TurnsLeft
  /\ NextTurn
  /\ \/ Leave("failed", "provider_error")
     \/ Leave("timeout", "timeout")
     \/ Leave("failed", "internal")
     \/ Leave("failed", "agent_protocol")
  /\ UNCHANGED <<dispatcherVars, checks, runtime, provider, pendingCalls, tools,
                 outside>>

ProviderCalls ==
  /\ pc = "turn"
  /\ TurnsLeft
  /\ NextTurn
  /\ pendingCalls' \in 1 .. MaxCallsPerTurn
  /\ pc' = "calls"
  /\ UNCHANGED <<dispatcherVars, checks, runtime, provider, completion, category,
                 tools, outside>>

callFrame == <<checks, runtime, provider, turns, tools>>

\* An operation of the dispatcher.  Its exceptions are answers to the agent.
CallHarness ==
  /\ pc = "calls"
  /\ \E call \in Calls, outcome \in Outcomes :
       call.op \in AllowedOperations /\ Dispatch(call, outcome)
  /\ Continue
  /\ UNCHANGED <<callFrame, outside>>

\* An operation of the native adapter: it answers without a result (discovery,
\* an unsupported request, a failed command) or raises something repairable.
CallNative ==
  /\ pc = "calls"
  /\ UNCHANGED <<dispatcherVars, callFrame, outside>>
  /\ Continue

\* It answers with a result, which the dispatcher registers; a result that
\* cannot be hashed is registered too, and the agent reads an error.
CallNativeResult ==
  /\ pc = "calls"
  /\ \E outcome \in Outcomes : RegisterNativeResult(outcome)
  /\ Continue
  /\ UNCHANGED <<callFrame, outside>>

\* The adapter refuses the request as a breach of isolation.
CallBreachesIsolation ==
  /\ pc = "calls"
  /\ UNCHANGED <<dispatcherVars, callFrame, outside>>
  /\ Violation

\* The operation is not in the target's allowlist.
CallUndeclared ==
  /\ pc = "calls"
  /\ outside' = TRUE
  /\ UNCHANGED <<dispatcherVars, callFrame>>
  /\ Violation

-----------------------------------------------------------------------------
(* After the conversation *)

\* Mutant: a failed trial leaves its provider open.
CloseProviderUnlessFailed ==
  provider' = IF provider = "open" /\ completion # "failed" THEN "closed" ELSE provider

CloseProvider == provider' = IF provider = "open" THEN "closed" ELSE provider

closeFrame == <<dispatcherVars, checks, turns, pendingCalls, completion, category,
                tools, outside>>

\* The finally block: hash the tools, close the runtime, close the provider.
Close ==
  /\ pc = "close"
  /\ tools = "answer"
  /\ runtime' = "closed"
  /\ CloseProvider
  /\ pc' = "finalize"
  /\ UNCHANGED closeFrame

\* public_tools or the adapter's close raises: nothing after it is closed.
CloseRaises ==
  /\ pc = "close"
  /\ pc' = "lost"
  /\ UNCHANGED <<closeFrame, runtime, provider>>

\* provider.close raises: the runtime has been closed.
CloseProviderRaises ==
  /\ pc = "close"
  /\ tools = "answer"
  /\ provider = "open"
  /\ runtime' = "closed"
  /\ pc' = "lost"
  /\ UNCHANGED <<closeFrame, provider>>

SubmittedHashable == \A h \in HandlesOf(submission) : Hashable(results[h])

\* The record hashes the submitted results, and only these.
Finalize ==
  /\ pc = "finalize"
  /\ pc' = IF SubmittedHashable THEN "done" ELSE "lost"
  /\ UNCHANGED <<closeFrame, runtime, provider>>

\* native_execution.used_only_declared_surface of the record
UsedOnlyDeclaredSurface == category # "protocol_violation"

NativeNext ==
  \/ Preflight \/ PreflightRaises \/ Start \/ StartRefusesProvider \/ StartRaises
  \/ SpendTurns \/ ProviderEnds \/ ProviderCalls
  \/ CallHarness \/ CallNative \/ CallNativeResult
  \/ CallBreachesIsolation \/ CallUndeclared
  \/ Close \/ CloseRaises \/ CloseProviderRaises \/ Finalize

\* One thread, which takes its next step as long as it has one.
NativeSpec == NativeInit /\ [][NativeNext]_vars /\ WF_vars(NativeNext)

-----------------------------------------------------------------------------
(* Properties *)

\* Type invariant of the trial's own variables.
NativeTypeOK ==
  /\ pc \in {"preflight", "start", "turn", "calls", "close", "finalize", "done",
             "lost"}
  /\ checks \in PreflightResponses
  /\ runtime \in {"open", "closed"}
  /\ provider \in {"none", "open", "closed"}
  /\ turns \in 0 .. MaxTurns
  /\ pendingCalls \in 0 .. MaxCallsPerTurn
  /\ (pc = "calls") = (pendingCalls > 0)
  /\ completion \in Completions
  /\ category \in Categories
  /\ tools \in {"answer", "raise"}
  /\ outside \in BOOLEAN

\* A provider is asked, and billed, only after a preflight all of whose checks
\* passed.
BilledOnlyWhenHealthy ==
  turns > 0 => \A i \in DOMAIN checks : checks[i] = "ok"

\* Whoever receives the artifacts of a trial, and may load Gold, receives them
\* from a closed runtime and a closed provider, if the trial came to build one.
ClosedBeforeEvaluation ==
  pc = "done" => runtime = "closed" /\ provider # "open"

\* A record tells how its trial ended.  A call outside the allowlist makes it an
\* invalid trial that left the declared surface, whatever was called before; no
\* error category means a candidate, a candidate is an accepted success, and
\* every result a submission names has an identity.
RecordTellsTheEnd ==
  pc = "done" =>
    /\ outside => completion = "invalid" /\ ~ UsedOnlyDeclaredSurface
    /\ completion = "candidate_ready" <=> category = "none"
    /\ completion = "candidate_ready" <=> submission.status = "success"
    /\ \A h \in HandlesOf(submission) : h \in DOMAIN results /\ Hashable(results[h])

\* Nothing is executed for the agent once its submission is accepted.
NothingAfterSubmission ==
  [][submission # NoSubmission =>
       databaseAttempts' = databaseAttempts /\ results' = results]_vars

\* The trial implements the contract of a trial.
Admissible == [answer \in {"none", "success", "unsupported", "failed"} |->
  CASE answer = "none"        -> {"invalid", "failed", "timeout"}
    [] answer = "success"     -> {"candidate_ready"}
    [] answer = "unsupported" -> {"unsupported"}
    [] answer = "failed"      -> {"failed"}]

Verdict == CASE pc = "lost" -> "lost"
             [] pc = "done" -> completion
             [] OTHER       -> "pending"

Contract == INSTANCE TrialContract
              WITH answer <- submission.status, verdict <- Verdict

ImplementsContract == Contract!Spec
=============================================================================
