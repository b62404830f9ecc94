-------------------------- MODULE LiveProviderProofs --------------------------
(***************************************************************************)
(* Proofs about LiveProvider, for every number of retries and of calls.    *)
(* The loop's own variable ties the counters together: before its n-th     *)
(* request a call has had n - 1 answers, all of them transient failures,   *)
(* and has slept 1 + 2 + ... = 2^(n-1) - 1 units.                          *)
(***************************************************************************)
EXTENDS LiveProvider, WellFoundedInduction, TLAPS

\* How many answers the call has had, by where its loop stands.
AnswersCounted ==
  /\ pc = "send" => Len(replies) = attempt
  /\ pc = "backoff" => Len(replies) = attempt + 1 /\ attempt < MaxRetries
  /\ pc = "idle" => Len(replies) <= attempt + 1

\* All answers but that of a call that has ended were transient failures.
OnlyTransientSoFar ==
  /\ \A i \in 1 .. Len(replies) - 1 : replies[i] \in Transient
  /\ pc # "idle" /\ replies # <<>> => replies[Len(replies)] \in Transient

\* The request under way is not counted yet.
RequestsCounted ==
  IF pc = "send" THEN requestCount + 1 = calls + retryCount
                 ELSE requestCount = calls + retryCount

EndsCounted ==
  ended = "exhausted" => pc = "idle" /\ Len(replies) = MaxRetries + 1

\* What the call can have waited: a request for every answer it has had, and
\* the pauses 1 + 2 + 4 + ... before its present attempt.
WaitSoFar ==
  /\ spent \in Nat
  /\ LET answered == IF pc = "send" THEN attempt ELSE attempt + 1
     IN  spent <= answered * RequestTicks + PowerOfTwo[attempt] - 1

ProviderInv ==
  /\ TypeOK
  /\ AnswersCounted
  /\ OnlyTransientSoFar
  /\ RequestsCounted
  /\ EndsCounted

-----------------------------------------------------------------------------
(* The invariant *)

\* The answer of a request is appended to those before it.
LEMMA ReplyAppended ==
  ASSUME TypeOK, NEW reply \in Replies, Send(reply)
  PROVE  /\ replies' \in Seq(Replies)
         /\ Len(replies') = Len(replies) + 1
         /\ \A i \in 1 .. Len(replies) : replies'[i] = replies[i]
         /\ replies'[Len(replies')] = reply
         /\ replies' # <<>>
BY DEF TypeOK, Send

LEMMA ProviderInit == Init => ProviderInv
BY RetriesAssumption, CallsAssumption
DEF Init, ProviderInv, TypeOK, AnswersCounted, OnlyTransientSoFar, RequestsCounted,
    EndsCounted

\* A request whose answer ends the call.
LEMMA CallEnds ==
  ASSUME ProviderInv, NEW reply \in Replies, Send(reply),
         pc' = "idle",
         ended' \in {"answered", "refused", "escaped", "exhausted"},
         ended' = "exhausted" => LastAttempt
  PROVE  ProviderInv'
<1> USE RetriesAssumption, CallsAssumption
<1>1. /\ UNCHANGED <<attempt, calls, retryCount>>
      /\ requestCount' = requestCount + 1
      /\ pc = "send"
  BY DEF Send, CountSend
<1>2. TypeOK'
  BY <1>1, ReplyAppended DEF ProviderInv, TypeOK
<1>3. AnswersCounted'
  BY <1>1, ReplyAppended DEF ProviderInv, AnswersCounted
<1>4. OnlyTransientSoFar'
  <2>1. CASE replies = <<>>
    BY <1>1, <2>1, ReplyAppended DEF ProviderInv, TypeOK, OnlyTransientSoFar
  <2>2. CASE replies # <<>>
    <3>1. \A i \in 1 .. Len(replies) : replies[i] \in Transient
      BY <1>1, <2>2 DEF ProviderInv, TypeOK, OnlyTransientSoFar
    <3> QED
      BY <3>1, ReplyAppended DEF ProviderInv, TypeOK, OnlyTransientSoFar
  <2> QED
    BY <2>1, <2>2
<1>5. RequestsCounted'
  BY <1>1 DEF ProviderInv, TypeOK, RequestsCounted
<1>6. EndsCounted'
  BY <1>1, ReplyAppended DEF ProviderInv, TypeOK, AnswersCounted, EndsCounted,
     LastAttempt
<1> QED
  BY <1>2, <1>3, <1>4, <1>5, <1>6 DEF ProviderInv

\* A transient failure that leaves another attempt.
LEMMA CallGoesOn ==
  ASSUME ProviderInv, NEW reply \in Replies, Failed(reply)
  PROVE  ProviderInv'
<1> USE RetriesAssumption, CallsAssumption
<1>1. /\ UNCHANGED <<attempt, calls, retryCount, ended>>
      /\ requestCount' = requestCount + 1
      /\ pc = "send"
      /\ pc' = "backoff"
      /\ attempt < MaxRetries
      /\ reply \in Transient
      /\ Send(reply)
  BY DEF Failed, Send, CountSend, LastAttempt, Retryable, ProviderInv, TypeOK
<1>2. TypeOK'
  BY <1>1, ReplyAppended DEF ProviderInv, TypeOK
<1>3. AnswersCounted'
  BY <1>1, ReplyAppended DEF ProviderInv, AnswersCounted
<1>4. OnlyTransientSoFar'
  <2>1. CASE replies = <<>>
    BY <1>1, <2>1, ReplyAppended DEF ProviderInv, TypeOK, OnlyTransientSoFar
  <2>2. CASE replies # <<>>
    <3>1. \A i \in 1 .. Len(replies) : replies[i] \in Transient
      BY <1>1, <2>2 DEF ProviderInv, TypeOK, OnlyTransientSoFar
    <3> QED
      BY <1>1, <3>1, ReplyAppended DEF ProviderInv, TypeOK, OnlyTransientSoFar
  <2> QED
    BY <2>1, <2>2
<1>5. RequestsCounted' /\ EndsCounted'
  BY <1>1 DEF ProviderInv, TypeOK, RequestsCounted, EndsCounted
<1> QED
  BY <1>2, <1>3, <1>4, <1>5 DEF ProviderInv

LEMMA ProviderStep == ProviderInv /\ [Next]_vars => ProviderInv'
<1> SUFFICES ASSUME ProviderInv, [Next]_vars PROVE ProviderInv'
  OBVIOUS
<1> USE RetriesAssumption, CallsAssumption
<1>1. CASE Begin
  BY <1>1 DEF Begin, ProviderInv, TypeOK, AnswersCounted, OnlyTransientSoFar,
     RequestsCounted, EndsCounted
<1>2. ASSUME NEW reply \in Replies, Attempt(reply)
      PROVE  ProviderInv'
  <2>1. CASE Answered(reply)
    BY <2>1, CallEnds DEF Answered
  <2>2. CASE Raised(reply)
    BY <2>2, CallEnds DEF Raised
  <2>3. CASE Exhausted(reply)
    BY <2>3, CallEnds DEF Exhausted
  <2>4. CASE Failed(reply)
    BY <2>4, CallGoesOn
  <2> QED
    BY <1>2, <2>1, <2>2, <2>3, <2>4 DEF Attempt
<1>3. CASE Sleep
  BY <1>3 DEF Sleep, ProviderInv, TypeOK, AnswersCounted, OnlyTransientSoFar,
     RequestsCounted, EndsCounted
<1>4. CASE UNCHANGED vars
  BY <1>4 DEF vars, ProviderInv, TypeOK, AnswersCounted, OnlyTransientSoFar,
     RequestsCounted, EndsCounted
<1> QED
  BY <1>1, <1>2, <1>3, <1>4 DEF Next

-----------------------------------------------------------------------------
(* Powers of two *)

\* Induction over the naturals, as a fact about sets.
LEMMA SetInduction ==
  ASSUME NEW S, S \subseteq Nat, 0 \in S, \A n \in S : n + 1 \in S
  PROVE  S = Nat
<1> DEFINE R == { ss \in Nat \X Nat : ss[1] < ss[2] }
           T == Nat \ S
<1>1. IsWellFoundedOn(R, Nat)
  BY NatLessThanWellFounded DEF OpToRel
<1>2. SUFFICES ASSUME T # {} PROVE FALSE
  OBVIOUS
<1>3. PICK x \in T : \A y \in T : <<y, x>> \notin R
  <2> HIDE DEF R
  <2> QED
    BY <1>1, <1>2, WFMin
<1>4. x # 0 /\ x - 1 \in Nat /\ x - 1 < x
  OBVIOUS
<1>5. x - 1 \in T
  BY <1>4
<1> QED
  BY <1>3, <1>4, <1>5

\* The powers up to the n-th.
Powers(n) ==
  { g \in [0 .. n -> Nat] : g[0] = 1 /\ \A i \in 1 .. n : g[i] = 2 * g[i - 1] }

LEMMA PowersExist == \A n \in Nat : Powers(n) # {}
<1> DEFINE S == { n \in Nat : Powers(n) # {} }
<1>1. 0 \in S
  <2>1. [i \in 0 .. 0 |-> 1] \in Powers(0)
    BY DEF Powers
  <2> QED
    BY <2>1
<1>2. ASSUME NEW n \in S PROVE n + 1 \in S
  <2>1. PICK g \in Powers(n) : TRUE
    BY <1>2
  <2> DEFINE h == [i \in 0 .. n + 1 |-> IF i <= n THEN g[i] ELSE 2 * g[n]]
  <2>2. h \in [0 .. n + 1 -> Nat]
    BY DEF Powers
  <2>3. h[0] = 1 /\ \A i \in 1 .. n + 1 : h[i] = 2 * h[i - 1]
    BY DEF Powers
  <2>4. h \in Powers(n + 1)
    BY <2>2, <2>3 DEF Powers
  <2> QED
    BY <2>4
<1> HIDE DEF S
<1>3. S = Nat
  BY <1>1, <1>2, SetInduction DEF S
<1> QED
  BY <1>3 DEF S

\* They do not depend on how far they go.
LEMMA PowersAgree ==
  ASSUME NEW m \in Nat, NEW n \in Nat, NEW g \in Powers(m), NEW h \in Powers(n),
         NEW i \in Nat, i <= m, i <= n
  PROVE  g[i] = h[i]
<1> DEFINE S == { k \in Nat : k <= m /\ k <= n => g[k] = h[k] }
<1>1. 0 \in S
  BY DEF Powers
<1>2. ASSUME NEW k \in S PROVE k + 1 \in S
  <2> SUFFICES ASSUME k + 1 <= m, k + 1 <= n PROVE g[k + 1] = h[k + 1]
    OBVIOUS
  <2>1. g[k] = h[k]
    BY <1>2
  <2>2. k + 1 \in 1 .. m /\ k + 1 \in 1 .. n /\ (k + 1) - 1 = k
    OBVIOUS
  <2> QED
    BY <2>1, <2>2 DEF Powers
<1> HIDE DEF S
<1>3. S = Nat
  BY <1>1, <1>2, SetInduction DEF S
<1> QED
  BY <1>3 DEF S

\* The recursive function is what its definition says.
LEMMA PowerOfTwoDefined ==
  PowerOfTwo = [n \in Nat |-> IF n = 0 THEN 1 ELSE 2 * PowerOfTwo[n - 1]]
<1> DEFINE G(n) == CHOOSE g \in Powers(n) : TRUE
           F == [n \in Nat |-> G(n)[n]]
<1>1. \A n \in Nat : G(n) \in Powers(n)
  BY PowersExist
<1>2. \A n \in Nat : F[n] = IF n = 0 THEN 1 ELSE 2 * F[n - 1]
  <2> SUFFICES ASSUME NEW n \in Nat PROVE G(n)[n] = IF n = 0 THEN 1 ELSE 2 * F[n - 1]
    OBVIOUS
  <2> HIDE DEF G
  <2>1. CASE n = 0
    BY <1>1, <2>1 DEF Powers
  <2>2. CASE n # 0
    <3>1. n - 1 \in Nat /\ n - 1 <= n /\ n \in 1 .. n
      BY <2>2
    <3>2. G(n)[n] = 2 * G(n)[n - 1]
      BY <1>1, <3>1 DEF Powers
    <3>3. G(n)[n - 1] = G(n - 1)[n - 1]
      BY <1>1, <3>1, PowersAgree
    <3> QED
      BY <2>2, <3>1, <3>2, <3>3
  <2> QED
    BY <2>1, <2>2
<1>3. F = [n \in Nat |-> IF n = 0 THEN 1 ELSE 2 * F[n - 1]]
  <2>1. F = [n \in Nat |-> F[n]]
    OBVIOUS
  <2> HIDE DEF F
  <2> QED
    BY <1>2, <2>1
<1>4. \E f : f = [n \in Nat |-> IF n = 0 THEN 1 ELSE 2 * f[n - 1]]
  <2> HIDE DEF F
  <2> QED
    BY <1>3
<1> QED
  BY <1>4 DEF PowerOfTwo

LEMMA PowerOfTwoTyped ==
  /\ PowerOfTwo \in [Nat -> Nat \ {0}]
  /\ PowerOfTwo[0] = 1
  /\ \A n \in Nat : PowerOfTwo[n + 1] = 2 * PowerOfTwo[n]
<1>1. PowerOfTwo[0] = 1 /\ \A n \in Nat : PowerOfTwo[n + 1] = 2 * PowerOfTwo[n]
  <2>1. \A n \in Nat : PowerOfTwo[n] = IF n = 0 THEN 1 ELSE 2 * PowerOfTwo[n - 1]
    BY PowerOfTwoDefined
  <2>2. \A n \in Nat : n + 1 \in Nat /\ n + 1 # 0 /\ (n + 1) - 1 = n
    OBVIOUS
  <2> QED
    BY <2>1, <2>2
<1> DEFINE S == { n \in Nat : PowerOfTwo[n] \in Nat \ {0} }
<1>2. 0 \in S /\ \A n \in S : n + 1 \in S
  BY <1>1
<1> HIDE DEF S
<1>3. S = Nat
  BY <1>2, SetInduction DEF S
<1>4. PowerOfTwo \in [Nat -> Nat \ {0}]
  BY <1>3, PowerOfTwoDefined DEF S
<1> QED
  BY <1>1, <1>4

LEMMA PowersGrow ==
  ASSUME NEW m \in Nat, NEW n \in Nat, m <= n
  PROVE  PowerOfTwo[m] <= PowerOfTwo[n]
<1> DEFINE S == { k \in Nat : PowerOfTwo[m] <= PowerOfTwo[m + k] }
<1>1. 0 \in S
  BY PowerOfTwoTyped
<1>2. ASSUME NEW k \in S PROVE k + 1 \in S
  <2>1. PowerOfTwo[m + (k + 1)] = 2 * PowerOfTwo[m + k]
    BY PowerOfTwoTyped
  <2>2. PowerOfTwo[m] \in Nat /\ PowerOfTwo[m + k] \in Nat
    BY PowerOfTwoTyped
  <2> QED
    BY <1>2, <2>1, <2>2
<1> HIDE DEF S
<1>3. S = Nat
  BY <1>1, <1>2, SetInduction DEF S
<1>4. n - m \in S
  BY <1>3
<1> QED
  BY <1>4 DEF S

-----------------------------------------------------------------------------
(* The wait of a call *)

\* A product grows with its factor.
LEMMA TicksGrow ==
  ASSUME NEW m \in Nat, NEW n \in Nat, m <= n
  PROVE  /\ m * RequestTicks \in Nat
         /\ (m + 1) * RequestTicks = m * RequestTicks + RequestTicks
         /\ m * RequestTicks <= n * RequestTicks
BY TicksAssumption

LEMMA WaitInit == Init => WaitSoFar
BY PowerOfTwoTyped, TicksAssumption DEF Init, WaitSoFar

\* A request adds at most its timeout, a pause doubles the pauses so far.
LEMMA WaitStep == ProviderInv /\ WaitSoFar /\ [Next]_vars => WaitSoFar'
<1> SUFFICES ASSUME ProviderInv, WaitSoFar, [Next]_vars PROVE WaitSoFar'
  OBVIOUS
<1>1. attempt \in Nat /\ PowerOfTwo[attempt] \in Nat \ {0}
  <2>1. attempt \in Nat
    BY RetriesAssumption DEF ProviderInv, TypeOK
  <2> QED
    BY <2>1, PowerOfTwoTyped
<1>2. CASE Begin
  BY <1>2, PowerOfTwoTyped, TicksAssumption DEF Begin, WaitSoFar
<1>3. ASSUME NEW reply \in Replies, Attempt(reply)
      PROVE  WaitSoFar'
  <2>1. /\ pc = "send" /\ pc' # "send" /\ attempt' = attempt
        /\ \E ticks \in 0 .. RequestTicks : spent' = spent + ticks
    BY <1>3 DEF Attempt, Answered, Raised, Exhausted, Failed, Send
  <2>2. spent \in Nat /\ spent <= attempt * RequestTicks + PowerOfTwo[attempt] - 1
    BY <2>1 DEF WaitSoFar
  <2>3. spent' \in Nat /\ spent' <= spent + RequestTicks
    BY <2>1, <2>2, TicksAssumption
  <2>4. spent' <= (attempt + 1) * RequestTicks + PowerOfTwo[attempt] - 1
    BY <1>1, <2>2, <2>3, TicksGrow, TicksAssumption
  <2> QED
    BY <2>1, <2>3, <2>4 DEF WaitSoFar
<1>4. CASE Sleep
  <2>1. /\ pc = "backoff" /\ pc' = "send" /\ attempt' = attempt + 1
        /\ spent' = spent + PowerOfTwo[attempt]
    BY <1>4 DEF Sleep, Backoff
  <2>2. /\ spent \in Nat
        /\ spent <= (attempt + 1) * RequestTicks + PowerOfTwo[attempt] - 1
    BY <2>1 DEF WaitSoFar
  <2>3. PowerOfTwo[attempt + 1] = 2 * PowerOfTwo[attempt]
    BY <1>1, PowerOfTwoTyped
  <2>4. (attempt + 1) * RequestTicks \in Nat
    BY <1>1, TicksGrow
  <2>5. /\ spent' \in Nat
        /\ spent' <= (attempt + 1) * RequestTicks + PowerOfTwo[attempt + 1] - 1
    BY <1>1, <2>1, <2>2, <2>3, <2>4
  <2> QED
    BY <2>1, <2>5 DEF WaitSoFar
<1>5. CASE UNCHANGED vars
  BY <1>5 DEF vars, WaitSoFar
<1> QED
  BY <1>2, <1>3, <1>4, <1>5 DEF Next

\* No attempt goes beyond the last, and its wait is the longest.
LEMMA WaitEnds == ProviderInv /\ WaitSoFar => PatienceBounded
<1> SUFFICES ASSUME ProviderInv, WaitSoFar PROVE PatienceBounded
  OBVIOUS
<1>1. /\ attempt \in Nat /\ MaxRetries \in Nat /\ attempt <= MaxRetries
  BY RetriesAssumption DEF ProviderInv, TypeOK
<1>2. PowerOfTwo[attempt] <= PowerOfTwo[MaxRetries]
  BY <1>1, PowersGrow
<1>3. PowerOfTwo[attempt] \in Nat \ {0} /\ PowerOfTwo[MaxRetries] \in Nat \ {0}
  BY <1>1, PowerOfTwoTyped
<1>4. /\ attempt * RequestTicks \in Nat
      /\ (attempt + 1) * RequestTicks \in Nat
      /\ (MaxRetries + 1) * RequestTicks \in Nat
      /\ attempt * RequestTicks <= (MaxRetries + 1) * RequestTicks
      /\ (attempt + 1) * RequestTicks <= (MaxRetries + 1) * RequestTicks
  <2>1. attempt <= MaxRetries + 1 /\ attempt + 1 <= MaxRetries + 1
    BY <1>1
  <2>2. attempt + 1 \in Nat /\ MaxRetries + 1 \in Nat
    BY <1>1
  <2> QED
    BY <1>1, <2>1, <2>2, TicksGrow
<1>5. \/ spent <= attempt * RequestTicks + PowerOfTwo[attempt] - 1
      \/ spent <= (attempt + 1) * RequestTicks + PowerOfTwo[attempt] - 1
  BY DEF WaitSoFar
<1>6. spent \in Nat
  BY DEF WaitSoFar
<1>7. spent <= (MaxRetries + 1) * RequestTicks + PowerOfTwo[MaxRetries] - 1
  BY <1>2, <1>3, <1>4, <1>5, <1>6
<1> QED
  BY <1>3, <1>4, <1>6, <1>7 DEF PatienceBounded

-----------------------------------------------------------------------------
(* Theorems *)

LEMMA ProviderInvariance == Spec => []ProviderInv
BY ProviderInit, ProviderStep, PTL DEF Spec

\* The loop variable stays within the retries, whatever the endpoint answers.
THEOREM ProviderTypeCorrect == Spec => []TypeOK
<1>1. ProviderInv => TypeOK
  BY DEF ProviderInv
<1> QED
  BY <1>1, ProviderInvariance, PTL

\* However the calls of a trial end, its retries are the requests beyond the
\* first of each.
THEOREM RetriesAreRequests == Spec => []RetriesAccounted
<1>1. ProviderInv => RetriesAccounted
  BY DEF ProviderInv, RequestsCounted, RetriesAccounted
<1> QED
  BY <1>1, ProviderInvariance, PTL

\* Only a transient failure is followed by another request, and no call sends
\* more than max_retries + 1 or gives up on one sooner.
THEOREM RetriesAreForTransients == Spec => []OnlyTransientRetried
<1>1. ProviderInv => OnlyTransientRetried
  <2> SUFFICES ASSUME ProviderInv PROVE OnlyTransientRetried
    OBVIOUS
  <2>1. Len(replies) <= MaxRetries + 1
    BY RetriesAssumption DEF ProviderInv, TypeOK, AnswersCounted
  <2>2. pc = "backoff" => replies # <<>> /\ replies[Len(replies)] \in Transient
    BY DEF ProviderInv, TypeOK, AnswersCounted, OnlyTransientSoFar
  <2> QED
    BY <2>1, <2>2 DEF ProviderInv, OnlyTransientSoFar, EndsCounted,
       OnlyTransientRetried
<1> QED
  BY <1>1, ProviderInvariance, PTL

\* However long every request takes and however the call ends, it waits at most
\* for max_retries + 1 requests and the doubling pauses between them.
THEOREM PatienceIsBounded == Spec => []PatienceBounded
<1>1. Spec => []WaitSoFar
  BY WaitInit, WaitStep, ProviderInvariance, PTL DEF Spec
<1> QED
  BY <1>1, WaitEnds, ProviderInvariance, PTL
=============================================================================
