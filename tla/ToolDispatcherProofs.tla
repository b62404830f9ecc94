------------------------- MODULE ToolDispatcherProofs -------------------------
(***************************************************************************)
(* Proofs about ToolDispatcher, for every set of SQL texts and payloads,   *)
(* every allowlist and every budget.  Everything rests on the numbering of *)
(* the result store: its handles are 1 .. n, so that the next handle n + 1 *)
(* is always fresh.                                                        *)
(***************************************************************************)
EXTENDS ToolDispatcher, FiniteSetTheorems, TLAPS

\* The inductive invariant: the checked invariants, and the finiteness of the
\* store without which its size means nothing.
IInv ==
  /\ IsFiniteSet(DOMAIN results)
  /\ TypeOK
  /\ QueryBudget
  /\ SubmittedHandlesResolve

-----------------------------------------------------------------------------
(* The result store *)

\* The next handle of a store numbered without a gap is fresh, and a store with
\* it is again numbered without a gap.
LEMMA NextHandleIsFresh ==
  ASSUME IsFiniteSet(DOMAIN results),
         DOMAIN results = 1 .. Cardinality(DOMAIN results)
  PROVE  /\ NextHandle \in Nat
         /\ NextHandle \notin DOMAIN results
         /\ IsFiniteSet(DOMAIN results \cup {NextHandle})
         /\ Cardinality(DOMAIN results \cup {NextHandle}) = NextHandle
         /\ DOMAIN results \cup {NextHandle} = 1 .. NextHandle
<1> DEFINE n == Cardinality(DOMAIN results)
<1>1. n \in Nat
  BY FS_CardinalityType
<1>2. NextHandle = n + 1
  BY DEF NextHandle
<1>3. NextHandle \notin DOMAIN results
  BY <1>1, <1>2
<1>4. /\ IsFiniteSet(DOMAIN results \cup {NextHandle})
      /\ Cardinality(DOMAIN results \cup {NextHandle}) = n + 1
  BY <1>3, FS_AddElement
<1>5. DOMAIN results \cup {NextHandle} = 1 .. NextHandle
  BY <1>1, <1>2
<1> QED
  BY <1>1, <1>2, <1>3, <1>4, <1>5

\* One more handle raises the number of stored SQL texts by one at most.
LEMMA OneMoreSql ==
  ASSUME NEW S, NEW h, IsFiniteSet(S)
  PROVE  /\ IsFiniteSet(S \cup {h})
         /\ Cardinality(S) \in Nat
         /\ Cardinality(S \cup {h}) \in Nat
         /\ Cardinality(S \cup {h}) <= Cardinality(S) + 1
BY FS_AddElement, FS_CardinalityType

-----------------------------------------------------------------------------
(* The invariant *)

LEMMA InitIInv == Init => IInv
<1> SUFFICES ASSUME Init PROVE IInv
  OBVIOUS
<1>1. DOMAIN results = {} /\ DOMAIN sqlByHandle = {}
  BY DEF Init
<1>2. Cardinality({}) = 0 /\ IsFiniteSet({})
  BY FS_EmptySet
<1>3. TypeOK
  BY <1>1, <1>2 DEF Init, TypeOK
<1>4. QueryBudget
  BY <1>1, <1>2, AttemptsAssumption DEF Init, QueryBudget
<1>5. SubmittedHandlesResolve
  BY DEF Init, SubmittedHandlesResolve
<1> QED
  BY <1>1, <1>2, <1>3, <1>4, <1>5 DEF IInv

LEMMA StutterIInv == IInv /\ UNCHANGED dispatcherVars => IInv'
BY DEF IInv, TypeOK, QueryBudget, SubmittedHandlesResolve, HandlesOf, dispatcherVars

\* What storing a result does to the result store.
LEMMA StoreGrows ==
  ASSUME IInv, NEW p \in Payload,
         results' = Bind(results, NextHandle, p)
  PROVE  /\ IsFiniteSet(DOMAIN results')
         /\ DOMAIN results' = 1 .. Cardinality(DOMAIN results')
         /\ \A h \in DOMAIN results' : results'[h] \in Payload
         /\ DOMAIN results' = DOMAIN results \cup {NextHandle}
         /\ \A h \in DOMAIN results : results'[h] = results[h]
<1>1. /\ NextHandle \notin DOMAIN results
      /\ IsFiniteSet(DOMAIN results \cup {NextHandle})
      /\ Cardinality(DOMAIN results \cup {NextHandle}) = NextHandle
      /\ DOMAIN results \cup {NextHandle} = 1 .. NextHandle
  BY NextHandleIsFresh DEF IInv, TypeOK
<1>2. /\ DOMAIN results' = DOMAIN results \cup {NextHandle}
      /\ results'[NextHandle] = p
      /\ \A h \in DOMAIN results : h # NextHandle => results'[h] = results[h]
  BY DEF Bind
<1>3. \A h \in DOMAIN results' : results'[h] \in Payload
  BY <1>1, <1>2 DEF IInv, TypeOK
<1> QED
  BY <1>1, <1>2, <1>3

\* What remembering the SQL of a stored result does.
LEMMA SqlStoreGrows ==
  ASSUME IInv, NEW p, NEW sql \in Sql, NEW h,
         RememberSql(h, p, sql), DOMAIN results' = DOMAIN results \cup {h}
  PROVE  /\ DOMAIN sqlByHandle' \subseteq DOMAIN results'
         /\ \A k \in DOMAIN sqlByHandle' : sqlByHandle'[k] \in Sql
         /\ Cardinality(DOMAIN sqlByHandle) \in Nat
         /\ Cardinality(DOMAIN sqlByHandle') \in Nat
         /\ Cardinality(DOMAIN sqlByHandle') <= Cardinality(DOMAIN sqlByHandle) + 1
<1>1. /\ DOMAIN sqlByHandle' = DOMAIN sqlByHandle \cup {h}
      /\ sqlByHandle'[h] = sql
      /\ \A k \in DOMAIN sqlByHandle : k # h => sqlByHandle'[k] = sqlByHandle[k]
  BY DEF RememberSql, Bind
<1>2. IsFiniteSet(DOMAIN sqlByHandle)
  BY FS_Subset DEF IInv, TypeOK
<1>3. /\ Cardinality(DOMAIN sqlByHandle) \in Nat
      /\ Cardinality(DOMAIN sqlByHandle \cup {h}) \in Nat
      /\ Cardinality(DOMAIN sqlByHandle \cup {h}) <= Cardinality(DOMAIN sqlByHandle) + 1
  BY <1>2, OneMoreSql
<1> QED
  BY <1>1, <1>3 DEF IInv, TypeOK

\* A submission survives the growth of the store it refers to.
LEMMA SubmissionKept ==
  ASSUME SubmittedHandlesResolve, UNCHANGED submission,
         DOMAIN results \subseteq DOMAIN results'
  PROVE  SubmittedHandlesResolve'
BY DEF SubmittedHandlesResolve, HandlesOf

LEMMA SqlCountIsNat == IInv => Cardinality(DOMAIN sqlByHandle) \in Nat
BY FS_Subset, FS_CardinalityType DEF IInv, TypeOK

-----------------------------------------------------------------------------
(* The steps *)

LEMMA QueryStep ==
  ASSUME IInv, NEW call \in QueryCalls, NEW outcome, ExecuteReadonly(call, outcome)
  PROVE  IInv'
<1> USE AttemptsAssumption
<1>1. CASE QueryRefusedByBudget(call, outcome)
  BY <1>1, StutterIInv DEF QueryRefusedByBudget
<1>2. CASE QueryRefusedByPolicy(call, outcome)
  <2>1. UNCHANGED <<results, sqlByHandle, submission, engineCalls>>
        /\ databaseAttempts' = databaseAttempts + 1
        /\ databaseAttempts < MaxDatabaseAttempts
    BY <1>2 DEF QueryRefusedByPolicy, Charge, BudgetLeft
  <2>2. TypeOK' /\ IsFiniteSet(DOMAIN results)'
    BY <2>1 DEF IInv, TypeOK
  <2>3. QueryBudget'
    BY <2>1 DEF IInv, TypeOK, QueryBudget
  <2>4. SubmittedHandlesResolve'
    BY <2>1, SubmissionKept DEF IInv
  <2> QED
    BY <2>2, <2>3, <2>4 DEF IInv
<1>3. CASE QueryFails(call, outcome)
  <2>1. UNCHANGED <<results, sqlByHandle, submission>>
        /\ databaseAttempts' = databaseAttempts + 1
        /\ engineCalls' = engineCalls + 1
        /\ databaseAttempts < MaxDatabaseAttempts
    BY <1>3 DEF QueryFails, Charge, BudgetLeft
  <2>2. TypeOK' /\ IsFiniteSet(DOMAIN results)'
    BY <2>1 DEF IInv, TypeOK
  <2>3. QueryBudget'
    BY <2>1, SqlCountIsNat DEF IInv, TypeOK, QueryBudget
  <2>4. SubmittedHandlesResolve'
    BY <2>1, SubmissionKept DEF IInv
  <2> QED
    BY <2>2, <2>3, <2>4 DEF IInv
<1>4. CASE QueryAnswers(call, outcome)
  <2>1. PICK p \in Payload :
          /\ results' = Bind(results, NextHandle, p)
          /\ RememberSql(NextHandle, p, call.sql)
          /\ Answer(p, outcome)
    BY <1>4 DEF QueryAnswers
  <2>2. /\ databaseAttempts' = databaseAttempts + 1
        /\ engineCalls' = engineCalls + 1
        /\ databaseAttempts < MaxDatabaseAttempts
        /\ UNCHANGED submission
    BY <1>4 DEF QueryAnswers, Charge, BudgetLeft
  <2>3. call.sql \in Sql
    BY DEF QueryCalls
  <2>4. /\ IsFiniteSet(DOMAIN results')
        /\ DOMAIN results' = 1 .. Cardinality(DOMAIN results')
        /\ \A h \in DOMAIN results' : results'[h] \in Payload
        /\ DOMAIN results' = DOMAIN results \cup {NextHandle}
    BY <2>1, StoreGrows
  <2>5. /\ DOMAIN sqlByHandle' \subseteq DOMAIN results'
        /\ \A k \in DOMAIN sqlByHandle' : sqlByHandle'[k] \in Sql
        /\ Cardinality(DOMAIN sqlByHandle) \in Nat
        /\ Cardinality(DOMAIN sqlByHandle') \in Nat
        /\ Cardinality(DOMAIN sqlByHandle') <= Cardinality(DOMAIN sqlByHandle) + 1
    BY <2>1, <2>3, <2>4, SqlStoreGrows
  <2>6. TypeOK'
    <3>1. /\ databaseAttempts' \in Nat
          /\ engineCalls' \in Nat
          /\ submission' \in Submissions \cup {NoSubmission}
      BY <2>2 DEF IInv, TypeOK
    <3> QED
      BY <2>4, <2>5, <3>1 DEF TypeOK
  <2>7. QueryBudget'
    BY <2>2, <2>5 DEF IInv, TypeOK, QueryBudget
  <2>8. SubmittedHandlesResolve'
    BY <2>2, <2>4, SubmissionKept DEF IInv
  <2> QED
    BY <2>4, <2>6, <2>7, <2>8 DEF IInv
<1> QED
  BY <1>1, <1>2, <1>3, <1>4 DEF ExecuteReadonly

LEMMA SubmitStep ==
  ASSUME IInv, NEW call \in SubmitCalls, NEW outcome, Submit(call, outcome)
  PROVE  IInv'
<1>1. CASE MaySubmit /\ KnownHandles(call.submission)
  <2>1. /\ UNCHANGED <<results, sqlByHandle, databaseAttempts, engineCalls>>
        /\ submission' = call.submission
        /\ HandlesOf(call.submission) \subseteq DOMAIN results
    BY <1>1 DEF Submit, KnownHandles
  <2>2. call.submission \in Submissions
    BY DEF SubmitCalls
  <2>3. SubmissionWellFormed(call)
    BY DEF Submit, Declared, WellFormed
  <2>4. TypeOK' /\ IsFiniteSet(DOMAIN results)' /\ QueryBudget'
    BY <2>1, <2>2 DEF IInv, TypeOK, QueryBudget
  <2>5. SubmittedHandlesResolve'
    BY <2>1, <2>3 DEF SubmittedHandlesResolve, SubmissionWellFormed, HandlesOf
  <2> QED
    BY <2>4, <2>5 DEF IInv
<1>2. CASE ~ (MaySubmit /\ KnownHandles(call.submission))
  BY <1>2, StutterIInv DEF Submit, dispatcherVars
<1> QED
  BY <1>1, <1>2

LEMMA NativeStep ==
  ASSUME IInv, NEW outcome, RegisterNativeResult(outcome)
  PROVE  IInv'
<1>1. PICK p \in Payload : /\ results' = Bind(results, NextHandle, p)
                           /\ Answer(p, outcome)
  BY DEF RegisterNativeResult
<1>2. UNCHANGED <<sqlByHandle, databaseAttempts, submission, engineCalls>>
  BY DEF RegisterNativeResult
<1>3. /\ IsFiniteSet(DOMAIN results')
      /\ DOMAIN results' = 1 .. Cardinality(DOMAIN results')
      /\ \A h \in DOMAIN results' : results'[h] \in Payload
      /\ DOMAIN results' = DOMAIN results \cup {NextHandle}
  BY <1>1, StoreGrows
<1>4. TypeOK' /\ QueryBudget'
  BY <1>2, <1>3 DEF IInv, TypeOK, QueryBudget
<1>5. SubmittedHandlesResolve'
  BY <1>2, <1>3, SubmissionKept DEF IInv
<1> QED
  BY <1>3, <1>4, <1>5 DEF IInv

\* A call is of the kind its operation names.
LEMMA CallKinds ==
  ASSUME NEW call \in Calls
  PROVE  /\ call.op = QueryOp => call \in QueryCalls
         /\ call.op = SubmitOp => call \in SubmitCalls
BY DEF Calls, QueryOp, SubmitOp, CatalogueOps, CatalogueCalls, QueryCalls, SubmitCalls,
       OtherCalls

LEMMA NextIInv == IInv /\ [Next]_dispatcherVars => IInv'
<1> SUFFICES ASSUME IInv, [Next]_dispatcherVars PROVE IInv'
  OBVIOUS
<1>1. ASSUME NEW call \in Calls, NEW outcome \in Outcomes, Dispatch(call, outcome)
      PROVE  IInv'
  <2>1. CASE Refuse(call, outcome)
    BY <2>1, StutterIInv DEF Refuse
  <2>2. CASE ReadCatalogue(call, outcome)
    BY <2>2, StutterIInv DEF ReadCatalogue
  <2>3. CASE ExecuteReadonly(call, outcome)
    BY <2>3, CallKinds, QueryStep DEF ExecuteReadonly
  <2>4. CASE Submit(call, outcome)
    BY <2>4, CallKinds, SubmitStep DEF Submit
  <2> QED
    BY <1>1, <2>1, <2>2, <2>3, <2>4 DEF Dispatch
<1>2. ASSUME NEW outcome \in Outcomes, RegisterNativeResult(outcome)
      PROVE  IInv'
  BY <1>2, NativeStep
<1>3. CASE UNCHANGED dispatcherVars
  BY <1>3, StutterIInv
<1> QED
  BY <1>1, <1>2, <1>3 DEF Next

-----------------------------------------------------------------------------
(* Theorems *)

LEMMA Invariance == Spec => []IInv
BY InitIInv, NextIInv, PTL DEF Spec

\* The store, the counters and the submission keep their types, and the handles
\* of the result store stay 1 .. n through every mix of queries, failures and
\* native results.
THEOREM TypeCorrect == Spec => []TypeOK
<1>1. IInv => TypeOK
  BY DEF IInv
<1> QED
  BY <1>1, Invariance, PTL

\* No sequence of calls, refused, failed or answered, sends the database more
\* queries than attempts were charged, nor charges more than the budget.
THEOREM BudgetHolds == Spec => []QueryBudget
<1>1. IInv => QueryBudget
  BY DEF IInv
<1> QED
  BY <1>1, Invariance, PTL

\* Whatever is dispatched after it, an accepted submission resolves to stored
\* results.
THEOREM SubmissionResolves == Spec => []SubmittedHandlesResolve
<1>1. IInv => SubmittedHandlesResolve
  BY DEF IInv
<1> QED
  BY <1>1, Invariance, PTL

\* Every result of the store is there after the step, under its handle.
ResultsKept ==
  \A h \in DOMAIN results : h \in DOMAIN results' /\ results'[h] = results[h]

LEMMA NextKeepsResults == IInv /\ [Next]_dispatcherVars => ResultsKept
<1> SUFFICES ASSUME IInv, [Next]_dispatcherVars PROVE ResultsKept
  OBVIOUS
<1>1. ASSUME NEW p \in Payload, NEW outcome,
             results' = Bind(results, NextHandle, p), Answer(p, outcome)
      PROVE  ResultsKept
  BY <1>1, StoreGrows DEF ResultsKept
<1>2. CASE \E call \in Calls, outcome \in Outcomes : Dispatch(call, outcome)
  <2>1. PICK call \in Calls, outcome \in Outcomes : Dispatch(call, outcome)
    BY <1>2
  <2>2. CASE QueryAnswers(call, outcome)
    BY <1>1, <2>2 DEF QueryAnswers
  <2>3. CASE ~ QueryAnswers(call, outcome)
    BY <2>1, <2>3 DEF Dispatch, Refuse, ReadCatalogue, ExecuteReadonly, Submit,
       QueryRefusedByBudget, QueryRefusedByPolicy, QueryFails, dispatcherVars, ResultsKept
  <2> QED
    BY <2>2, <2>3
<1>3. CASE \E outcome \in Outcomes : RegisterNativeResult(outcome)
  BY <1>1, <1>3 DEF RegisterNativeResult
<1>4. CASE UNCHANGED dispatcherVars
  BY <1>4 DEF dispatcherVars, ResultsKept
<1> QED
  BY <1>2, <1>3, <1>4 DEF Next

\* A handle denotes the same result for ever.
THEOREM HandlesAreStable == Spec => HandlesNeverRebound
<1>1. IInv /\ [Next]_dispatcherVars => [ResultsKept]_dispatcherVars
  BY NextKeepsResults
<1> QED
  BY <1>1, Invariance, PTL DEF Spec, HandlesNeverRebound, ResultsKept

\* The first accepted submission is the last.
THEOREM SubmissionStays == Spec => SubmissionIsFinal
<1> DEFINE Kept == submission # NoSubmission => submission' = submission
<1>1. ASSUME NEW call \in Calls, NEW outcome \in Outcomes, Dispatch(call, outcome)
      PROVE  Kept
  BY <1>1 DEF Dispatch, Refuse, ReadCatalogue, ExecuteReadonly, QueryRefusedByBudget,
     QueryRefusedByPolicy, QueryFails, QueryAnswers, Submit, MaySubmit, dispatcherVars
<1>2. ASSUME NEW outcome \in Outcomes, RegisterNativeResult(outcome)
      PROVE  Kept
  BY <1>2 DEF RegisterNativeResult
<1>3. [Next]_dispatcherVars => [Kept]_dispatcherVars
  BY <1>1, <1>2 DEF Next
<1> QED
  BY <1>3, PTL DEF Spec, SubmissionIsFinal
=============================================================================
