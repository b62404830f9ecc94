----------------------------- MODULE LiveProvider ------------------------------
(***************************************************************************)
(* The retry loop of LiveAgentProvider.complete                            *)
(* (runner/core/live_provider.py).  One provider serves one trial, which   *)
(* calls complete once per turn; a call sends its request up to            *)
(* max_retries + 1 times and sleeps between two sends.                     *)
(***************************************************************************)
EXTENDS Integers, Sequences

CONSTANTS
  MaxRetries,     \* settings.max_retries
  RequestTicks,   \* timeout_seconds of one request, in backoff units
  MaxCalls        \* bound: calls of complete, the turns of the trial

ASSUME RetriesAssumption == MaxRetries \in Nat
ASSUME TicksAssumption   == RequestTicks \in Nat \ {0}
ASSUME CallsAssumption   == MaxCalls \in Nat \ {0}

VARIABLES
  pc,            \* "idle", "send" or "backoff"
  attempt,       \* loop variable of the current call
  requestCount,  \* _request_count
  retryCount,    \* _retry_count
  calls,         \* calls of complete so far
  replies,       \* what the endpoint answered in the latest call (history)
  spent,         \* ticks the latest call has waited, for answers and asleep
  ended          \* how the latest call ended, "none" while it runs

vars == <<pc, attempt, requestCount, retryCount, calls, replies, spent, ended>>

\* What the transport can do.  A transport returns a status or raises HTTPError
\* for it; "2xx garbled" is a body _parse_response refuses; "other" is what the
\* two except clauses let through, a connection reset in mid-answer among them.
Transient == {"status 429/5xx", "HTTPError 429/5xx", "URLError", "TimeoutError"}
Permanent == {"status 3xx/4xx", "HTTPError 4xx", "2xx garbled"}
Replies   == Transient \cup Permanent \cup {"2xx", "other"}

-----------------------------------------------------------------------------
(* Helpers *)

\* Mutant: any HTTPError is worth another try.
RetryableHTTPError(reply) == reply \in Transient \cup {"HTTPError 4xx"}

Retryable(reply) == reply \in Transient

\* Mutant: one retry too many.
LastAttemptLate == attempt > MaxRetries

LastAttempt == attempt >= MaxRetries

\* 2 ** n
PowerOfTwo[n \in Nat] == IF n = 0 THEN 1 ELSE 2 * PowerOfTwo[n - 1]

\* Mutant: the wait grows with every call of complete, not with the attempt.
BackoffByRequests == PowerOfTwo[requestCount]

Backoff == PowerOfTwo[attempt]

\* Mutant: the retry is counted when its predecessor fails, also the last time.
CountFailure(reply) ==
  retryCount' = IF Retryable(reply) THEN retryCount + 1 ELSE retryCount

\* A send counts no retry: the counter moves when the loop comes round again.
CountSend(reply) == UNCHANGED retryCount

-----------------------------------------------------------------------------
(* complete *)

Init ==
  /\ pc = "idle"
  /\ attempt = 0
  /\ requestCount = 0
  /\ retryCount = 0
  /\ calls = 0
  /\ replies = <<>>
  /\ spent = 0
  /\ ended = "none"

Begin ==
  /\ pc = "idle"
  /\ calls < MaxCalls
  /\ calls' = calls + 1
  /\ attempt' = 0
  /\ replies' = <<>>
  /\ spent' = 0
  /\ ended' = "none"
  /\ pc' = "send"
  /\ UNCHANGED <<requestCount, retryCount>>

Send(reply) ==
  /\ pc = "send"
  /\ requestCount' = requestCount + 1
  /\ replies' = Append(replies, reply)
  /\ \E ticks \in 0 .. RequestTicks : spent' = spent + ticks
  /\ CountSend(reply)
  /\ UNCHANGED <<attempt, calls>>

\* The call returns a turn.
Answered(reply) ==
  /\ reply = "2xx"
  /\ Send(reply)
  /\ ended' = "answered"
  /\ pc' = "idle"

\* It raises at once: LiveProviderError, or an exception it does not handle.
Raised(reply) ==
  /\ reply # "2xx"
  /\ ~ Retryable(reply)
  /\ Send(reply)
  /\ ended' = IF reply = "other" THEN "escaped" ELSE "refused"
  /\ pc' = "idle"

Exhausted(reply) ==
  /\ Retryable(reply)
  /\ LastAttempt
  /\ Send(reply)
  /\ ended' = "exhausted"
  /\ pc' = "idle"

Failed(reply) ==
  /\ Retryable(reply)
  /\ ~ LastAttempt
  /\ Send(reply)
  /\ pc' = "backoff"
  /\ UNCHANGED ended

Sleep ==
  /\ pc = "backoff"
  /\ retryCount' = retryCount + 1
  /\ spent' = spent + Backoff
  /\ attempt' = attempt + 1
  /\ pc' = "send"
  /\ UNCHANGED <<requestCount, calls, replies, ended>>

Attempt(reply) == Answered(reply) \/ Raised(reply) \/ Exhausted(reply) \/ Failed(reply)

Next == Begin \/ (\E reply \in Replies : Attempt(reply)) \/ Sleep

Spec == Init /\ [][Next]_vars

-----------------------------------------------------------------------------
(* Properties *)

\* Type invariant.
TypeOK ==
  /\ pc \in {"idle", "send", "backoff"}
  /\ attempt \in 0 .. MaxRetries
  /\ requestCount \in Nat
  /\ retryCount \in Nat
  /\ calls \in 0 .. MaxCalls
  /\ replies \in Seq(Replies)
  /\ ended \in {"none", "answered", "refused", "escaped", "exhausted"}

\* The retries the trial record reports are the requests sent beyond the first
\* of each call, however the calls ended.
RetriesAccounted == pc = "idle" => requestCount = calls + retryCount

\* A request is sent again exactly after a transient failure, until it has been
\* sent max_retries + 1 times: every other answer is the last of its call, and no
\* call gives up on a transient failure sooner.
OnlyTransientRetried ==
  /\ Len(replies) <= MaxRetries + 1
  /\ \A i \in 1 .. Len(replies) - 1 : replies[i] \in Transient
  /\ pc = "backoff" => replies # <<>> /\ replies[Len(replies)] \in Transient
  /\ ended = "exhausted" => Len(replies) = MaxRetries + 1

\* timeout_seconds bounds a request and not the call: a call waits at most for
\* max_retries + 1 requests and the doubling pauses between them.
PatienceBounded ==
  spent \in 0 .. (MaxRetries + 1) * RequestTicks + PowerOfTwo[MaxRetries] - 1
=============================================================================
