----------------------------- MODULE ControlTrial -----------------------------
(***************************************************************************)
(* One trial of the control runner: _run_trial of                          *)
(* runner/core/control_runner.py.  The runner asks the provider for a      *)
(* turn, dispatches every tool call of the turn, and repeats until a       *)
(* submission is accepted or a budget runs out; it then persists every     *)
(* result the dispatcher holds, compares the submitted one with the frozen *)
(* Gold identity, and classifies the trial.                                *)
(***************************************************************************)
EXTENDS ToolDispatcher

CONSTANTS
  MaxTurns,         \* generation.max_turns
  MaxCallsPerTurn,  \* bound: tool calls in one provider turn
  TrialSeconds,     \* timeouts.trial_seconds, in ticks
  Gold              \* the payload the question's frozen Gold identifies

ASSUME TurnsAssumption == MaxTurns \in Nat \ {0}
ASSUME CallsAssumption == MaxCallsPerTurn \in Nat \ {0}
ASSUME TrialAssumption == TrialSeconds \in Nat \ {0}
ASSUME GoldAssumption  == Gold \in Payload

VARIABLES
  pc,             \* "turn", "calls", "persist", "score", "done", "lost"
  turns,          \* provider turns started
  pendingCalls,   \* tool calls of the current turn still to dispatch
  elapsed,        \* ticks since the trial started; saturates at TrialSeconds
  errorCategory,  \* error_category, "none" for None
  status,         \* status of the trial record, "none" before
  failures        \* how the failed tool calls ended, in order (history)

controlVars ==
  <<pc, turns, pendingCalls, elapsed, errorCategory, status, failures>>
vars == <<dispatcherVars, controlVars>>

Verdicts == {"passed", "failed", "unsupported", "invalid", "timeout"}

Categories == {"none", "timeout", "provider_error", "agent_protocol",
               "sql_policy", "tool_error", "incomplete_result",
               "wrong_result", "unsupported_semantics"}

-----------------------------------------------------------------------------
(* Helpers *)

\* The duration of a provider call or of a tool call.
TimePasses ==
  \E d \in 0 .. 1 :
    elapsed' = IF elapsed + d > TrialSeconds THEN TrialSeconds ELSE elapsed + d

OutOfTime == elapsed >= TrialSeconds

\* Mutant: the first failure of the trial is kept.
FirstToolErrorCategory(call, outcome) ==
  IF outcome = "ok" \/ errorCategory # "none" THEN errorCategory
  ELSE CASE outcome = "timeout"  -> "timeout"
         [] outcome = "protocol" -> IF call.op = QueryOp THEN "sql_policy"
                                                         ELSE "agent_protocol"
         [] outcome = "error"    -> "tool_error"

\* The category of a failed tool call replaces the one before it; a call that
\* succeeds leaves it.
ToolErrorCategory(call, outcome) ==
  CASE outcome = "ok"       -> errorCategory
    [] outcome = "timeout"  -> "timeout"
    [] outcome = "protocol" -> IF call.op = QueryOp THEN "sql_policy"
                                                    ELSE "agent_protocol"
    [] outcome = "error"    -> "tool_error"

\* Where the runner goes after the last call of a turn: out of the loop if the
\* turn's calls have left a submission.
AfterTurn == IF submission' # NoSubmission THEN "persist" ELSE "turn"

NextTurn == turns' = turns + 1

-----------------------------------------------------------------------------
(* The conversation *)

ControlInit ==
  /\ Init
  /\ pc = "turn"
  /\ turns = 0
  /\ pendingCalls = 0
  /\ elapsed = 0
  /\ errorCategory = "none"
  /\ status = "none"
  /\ failures = <<>>

\* The loop leaves at its head: the trial's time is spent, or the turns are.
SpendTime ==
  /\ pc = "turn"
  /\ turns < MaxTurns
  /\ OutOfTime
  /\ errorCategory' = "timeout"
  /\ pc' = "persist"
  /\ UNCHANGED <<dispatcherVars, turns, pendingCalls, elapsed, status, failures>>

SpendTurns ==
  /\ pc = "turn"
  /\ turns = MaxTurns
  /\ pc' = "persist"
  /\ UNCHANGED <<dispatcherVars, turns, pendingCalls, elapsed, errorCategory,
                 status, failures>>

\* Mutant: one turn too many.
MayAskOnceMore == pc = "turn" /\ turns <= MaxTurns /\ ~ OutOfTime

MayAsk == pc = "turn" /\ turns < MaxTurns /\ ~ OutOfTime

\* provider.complete raises: AgentProviderError, or anything else.
ProviderRaises ==
  /\ MayAsk
  /\ NextTurn
  /\ TimePasses
  /\ errorCategory' \in {"provider_error", "agent_protocol"}
  /\ pc' = "persist"
  /\ UNCHANGED <<dispatcherVars, pendingCalls, status, failures>>

\* The turn holds no tool call: the conversation is over.
ProviderStops ==
  /\ MayAsk
  /\ NextTurn
  /\ TimePasses
  /\ errorCategory' = "agent_protocol"
  /\ pc' = "persist"
  /\ UNCHANGED <<dispatcherVars, pendingCalls, status, failures>>

ProviderCalls ==
  /\ MayAsk
  /\ NextTurn
  /\ TimePasses
  /\ pendingCalls' \in 1 .. MaxCallsPerTurn
  /\ pc' = "calls"
  /\ UNCHANGED <<dispatcherVars, errorCategory, status, failures>>

\* One call of the turn.  The calls after an accepted submission are dispatched
\* as well: the loop over the calls has no exit.
DispatchCall ==
  /\ pc = "calls"
  /\ \E call \in Calls, outcome \in Outcomes :
       /\ Dispatch(call, outcome)
       /\ errorCategory' = ToolErrorCategory(call, outcome)
       /\ failures' = IF outcome = "ok" THEN failures
                                        ELSE Append(failures, outcome)
  /\ TimePasses
  /\ pendingCalls' = pendingCalls - 1
  /\ pc' = IF pendingCalls = 1 THEN AfterTurn ELSE "calls"
  /\ UNCHANGED <<turns, status>>

-----------------------------------------------------------------------------
(* The record *)

\* Every stored result is written with its SQL and its hash, the submitted one
\* or not: a payload without a hash raises out of the trial.
Persistable == \A h \in DOMAIN results : h \in DOMAIN sqlByHandle /\ Hashable(results[h])

Persist ==
  /\ pc = "persist"
  /\ pc' = IF Persistable THEN "score" ELSE "lost"
  /\ UNCHANGED <<dispatcherVars, turns, pendingCalls, elapsed, errorCategory,
                 status, failures>>

SingleHandle == Len(submission.handles) = 1

\* Mutant: a Gold identity is compared with any result of the trial.
AnyResultEquivalent == \E h \in DOMAIN results : results[h] = Gold

\* FrozenGoldEvaluator.evaluate: same columns, row count and hash.
ResultEquivalent == results[submission.handles[1]] = Gold

\* Mutant: the category of an agent's own failure is left as it is.
StaleCategory ==
  CASE submission.status = "success" ->
         IF ~ SingleHandle THEN "incomplete_result"
         ELSE IF ResultEquivalent THEN "none" ELSE "wrong_result"
    [] submission.status = "unsupported" -> "unsupported_semantics"
    [] OTHER -> errorCategory

\* A verdict on the submission replaces whatever the conversation left.
FinalCategory ==
  CASE submission.status = "success" ->
         IF ~ SingleHandle THEN "incomplete_result"
         ELSE IF ResultEquivalent THEN "none" ELSE "wrong_result"
    [] submission.status = "unsupported" -> "unsupported_semantics"
    [] OTHER -> IF errorCategory = "none" THEN "agent_protocol" ELSE errorCategory

\* Mutant: a timeout along the way outweighs the submission.
TimeoutFirst ==
  IF errorCategory = "timeout" THEN "timeout"
  ELSE CASE submission.status = "none"        -> "invalid"
         [] submission.status = "unsupported" -> "unsupported"
         [] submission.status = "failed"      -> "failed"
         [] submission.status = "success"     ->
              IF SingleHandle /\ ResultEquivalent THEN "passed" ELSE "failed"

FinalStatus ==
  CASE submission = NoSubmission ->
         IF errorCategory = "timeout" THEN "timeout" ELSE "invalid"
    [] submission.status = "unsupported" -> "unsupported"
    [] submission.status = "failed" -> "failed"
    [] submission.status = "success" ->
         IF SingleHandle /\ ResultEquivalent THEN "passed" ELSE "failed"

Score ==
  /\ pc = "score"
  /\ errorCategory' = FinalCategory
  /\ status' = FinalStatus
  /\ pc' = "done"
  /\ UNCHANGED <<dispatcherVars, turns, pendingCalls, elapsed, failures>>

ControlNext ==
  \/ SpendTime \/ SpendTurns
  \/ ProviderRaises \/ ProviderStops \/ ProviderCalls
  \/ DispatchCall
  \/ Persist \/ Score

\* The runner is one thread: it takes its next step as long as it has one.
ControlSpec == ControlInit /\ [][ControlNext]_vars /\ WF_vars(ControlNext)

-----------------------------------------------------------------------------
(* Properties *)

\* Type invariant of the trial's own variables.
ControlTypeOK ==
  /\ pc \in {"turn", "calls", "persist", "score", "done", "lost"}
  /\ turns \in 0 .. MaxTurns
  /\ pendingCalls \in 0 .. MaxCallsPerTurn
  /\ (pc = "calls") = (pendingCalls > 0)
  /\ elapsed \in 0 .. TrialSeconds
  /\ errorCategory \in Categories
  /\ status \in Verdicts \cup {"none"}
  /\ (pc = "done") = (status # "none")
  /\ failures \in Seq({"protocol", "timeout", "error"})

\* A trial passes only on one submitted handle whose result is the Gold result
\* and came from a read-only query this trial sent.
PassedMeansGold ==
  status = "passed" =>
    /\ submission.status = "success"
    /\ Len(submission.handles) = 1
    /\ LET h == submission.handles[1] IN
       /\ h \in DOMAIN results
       /\ results[h] = Gold
       /\ h \in DOMAIN sqlByHandle
       /\ ReadOnly(sqlByHandle[h])

\* The error category tells how a trial missed: only a passed trial has none, a
\* success of several handles is an incomplete result, a success of one handle
\* that is not Gold a wrong one, and neither is ever the label of a timeout, a
\* provider error or a tool error.
ErrorExplained ==
  status # "none" =>
    /\ (status = "passed") <=> (errorCategory = "none")
    /\ errorCategory = "incomplete_result" <=>
         submission.status = "success" /\ Len(submission.handles) # 1
    /\ errorCategory = "wrong_result" <=>
         /\ submission.status = "success"
         /\ Len(submission.handles) = 1
         /\ results[submission.handles[1]] # Gold

\* A trial is a timeout because its time was spent or because the last thing
\* that failed in it was a timed out query, never because of a timeout that
\* later failures followed.
TimeoutIsTheLastFailure ==
  status = "timeout" =>
    \/ OutOfTime
    \/ failures # <<>> /\ failures[Len(failures)] = "timeout"

\* Persisting looks up the SQL of every stored result, and always finds it: also
\* that of a result whose answer raised and whose handle no one has seen.
EveryResultHasItsSql == DOMAIN results = DOMAIN sqlByHandle

\* The trial implements the contract of a trial: one answer, one verdict the
\* answer admits, and an end.
Admissible == [answer \in {"none", "success", "unsupported", "failed"} |->
  CASE answer = "none"        -> {"timeout", "invalid"}
    [] answer = "success"     -> {"passed", "failed"}
    [] answer = "unsupported" -> {"unsupported"}
    [] answer = "failed"      -> {"failed"}]

Verdict == CASE pc = "lost" -> "lost"
             [] pc = "done" -> status
             [] OTHER       -> "pending"

Contract == INSTANCE TrialContract
              WITH answer <- submission.status, verdict <- Verdict

ImplementsContract == Contract!Spec

\* What the trial lifecycle of the contracts says: the trial's last step is to
\* emit its record.
EveryTrialIsRecorded == pc # "lost"
=============================================================================
