---------------------------- MODULE ToolDispatcher ----------------------------
(***************************************************************************)
(* The tool boundary of one benchmark trial: class ControlToolDispatcher   *)
(* of runner/core/control_tools.py.  It keeps the results of the trial's   *)
(* queries under the handles it hands out, counts the attempts on the      *)
(* database, and accepts the trial's one submission.  The control runner   *)
(* (ControlTrial) and the native runner (NativeTrial) build their          *)
(* conversations on the actions of this module.                            *)
(*                                                                         *)
(* A call is a record.  Dispatch relates a call and the way it ends,       *)
(* "ok" or the class of the exception raised:                              *)
(*   "protocol"  ToolProtocolError                                         *)
(*   "timeout"   ToolTimeoutError                                          *)
(*   "error"     anything else (duckdb.Error, the ValueError and TypeError *)
(*               of json.dumps)                                            *)
(***************************************************************************)
EXTENDS Integers, Sequences, FiniteSets

CONSTANTS
  Sql,                  \* the SQL texts an agent may send, as SqlText records
  Payload,              \* query results, told apart by their canonical JSON
  Unhashable,           \* the payloads json.dumps(allow_nan=False) refuses
  AllowedOperations,    \* the operations the trial's condition declares
  MaxDatabaseAttempts,  \* max_database_attempts
  MaxNativeResults      \* bound: results a native engine registers in a trial

\* What validate_read_only_sql looks at in a SQL text.
SqlText == [parses : BOOLEAN, statements : Nat, leading : BOOLEAN,
            forbidden : BOOLEAN, select : BOOLEAN]

ASSUME SqlAssumption      == Sql \subseteq SqlText
ASSUME PayloadAssumption  == Unhashable \subseteq Payload
ASSUME AttemptsAssumption == MaxDatabaseAttempts \in Nat
ASSUME NativeAssumption   == MaxNativeResults \in Nat

VARIABLES
  results,           \* handle -> payload; the n-th handle is the number n
  sqlByHandle,       \* handle -> the SQL that produced it
  databaseAttempts,  \* attempts charged to the budget
  submission,        \* the accepted submission
  engineCalls        \* queries the database has been sent (history)

dispatcherVars ==
  <<results, sqlByHandle, databaseAttempts, submission, engineCalls>>

-----------------------------------------------------------------------------
(* Calls *)

CatalogueOps == {"db.list_schemas", "db.list_relations", "db.describe_relations"}
QueryOp      == "db.execute_readonly"
SubmitOp     == "benchmark.submit_result"
HarnessOps   == CatalogueOps \cup {QueryOp, SubmitOp}

Outcomes == {"ok", "protocol", "timeout", "error"}

SubmissionStatuses == {"success", "unsupported", "failed"}

\* The handles an agent can name: every one the dispatcher may have issued,
\* and one that it has not.
HandleNames == 1 .. MaxDatabaseAttempts + MaxNativeResults + 1
HandleLists == {<<>>} \cup { <<h>> : h \in HandleNames }
                      \cup { <<h, k>> : h \in HandleNames, k \in HandleNames }

\* No result_handles in the arguments is the empty list; "reason" says whether
\* the arguments hold one.
Submissions == [status : SubmissionStatuses, handles : HandleLists]

CatalogueCalls == [op : CatalogueOps, wellFormed : BOOLEAN]
QueryCalls     == [op : {QueryOp}, sql : Sql, wellFormed : BOOLEAN]
SubmitCalls    == [op : {SubmitOp}, submission : Submissions, reason : BOOLEAN]
OtherCalls     == [op : {"undeclared"}, wellFormed : {TRUE}]
Calls          == CatalogueCalls \cup QueryCalls \cup SubmitCalls \cup OtherCalls

NoSubmission == [status |-> "none", handles |-> <<>>]

HandlesOf(s) == { s.handles[i] : i \in DOMAIN s.handles }

-----------------------------------------------------------------------------
(* Checks of the code *)

\* validate_read_only_sql: one parsed SELECT that starts like a query and uses
\* no prohibited operation or reader.
ReadOnly(sql) ==
  /\ sql.parses
  /\ sql.statements = 1
  /\ sql.leading
  /\ ~ sql.forbidden
  /\ sql.select

\* The input schema of benchmark.submit_result: at most two distinct handles;
\* a success names at least one, anything else gives a reason.
SubmissionWellFormed(call) ==
  LET s == call.submission IN
  /\ Len(s.handles) <= 2
  /\ Cardinality(HandlesOf(s)) = Len(s.handles)
  /\ IF s.status = "success" THEN s.handles # <<>> ELSE call.reason

WellFormed(call) ==
  IF call.op = SubmitOp THEN SubmissionWellFormed(call) ELSE call.wellFormed

BudgetLeft == databaseAttempts < MaxDatabaseAttempts

MaySubmit == submission = NoSubmission

\* Mutant: the handles of a submission are not looked up.
AnyHandles(s) == TRUE

KnownHandles(s) == HandlesOf(s) \subseteq DOMAIN results

-----------------------------------------------------------------------------
(* The result store *)

\* Mutant: the handle is numbered after the SQL store, which native results
\* never enter.
NextHandleBySql == Cardinality(DOMAIN sqlByHandle) + 1

\* Mutant: the handle is the length of the store as it is.
NextHandleFromZero == Cardinality(DOMAIN results)

\* f"result-{len(self.results) + 1:03d}"
NextHandle == Cardinality(DOMAIN results) + 1

Bind(f, h, v) == [x \in DOMAIN f \cup {h} |-> IF x = h THEN v ELSE f[x]]

Hashable(p) == p \notin Unhashable

\* Mutant: the SQL is remembered once the result has been hashed.
RememberSqlOfAnswers(h, p, sql) ==
  sqlByHandle' = IF Hashable(p) THEN Bind(sqlByHandle, h, sql) ELSE sqlByHandle

RememberSql(h, p, sql) == sqlByHandle' = Bind(sqlByHandle, h, sql)

\* The result is stored first and hashed for the answer afterwards: a payload
\* that cannot be hashed stays in the store while the call raises.
Answer(p, outcome) == outcome = IF Hashable(p) THEN "ok" ELSE "error"

-----------------------------------------------------------------------------
(* Operations *)

Init ==
  /\ results = <<>>
  /\ sqlByHandle = <<>>
  /\ databaseAttempts = 0
  /\ submission = NoSubmission
  /\ engineCalls = 0

\* dispatch, before it reaches a handler: the operation is not declared, or its
\* arguments do not fit the input schema.
Refuse(call, outcome) ==
  /\ call.op \notin AllowedOperations \/ ~ WellFormed(call)
  /\ outcome = "protocol"
  /\ UNCHANGED dispatcherVars

Declared(call) == call.op \in AllowedOperations /\ WellFormed(call)

\* The three discovery tools change nothing.  The engine may raise, and
\* describe_relations refuses an invalid or unknown relation.
ReadCatalogue(call, outcome) ==
  /\ Declared(call)
  /\ call.op \in CatalogueOps
  /\ \/ outcome \in {"ok", "error"}
     \/ outcome = "protocol" /\ call.op = "db.describe_relations"
  /\ UNCHANGED dispatcherVars

\* Mutant: a query is charged only once it has answered.
ChargeOnAnswer(answered) ==
  databaseAttempts' = IF answered THEN databaseAttempts + 1 ELSE databaseAttempts

\* The attempt is charged before the SQL is even validated.
Charge(answered) == databaseAttempts' = databaseAttempts + 1

QueryRefusedByBudget(call, outcome) ==
  /\ ~ BudgetLeft
  /\ outcome = "protocol"
  /\ UNCHANGED dispatcherVars

QueryRefusedByPolicy(call, outcome) ==
  /\ BudgetLeft
  /\ ~ ReadOnly(call.sql)
  /\ outcome = "protocol"
  /\ Charge(FALSE)
  /\ UNCHANGED <<results, sqlByHandle, submission, engineCalls>>

\* The engine raises, or answers after database_timeout_seconds: the answer is
\* then dropped.
QueryFails(call, outcome) ==
  /\ BudgetLeft
  /\ ReadOnly(call.sql)
  /\ outcome \in {"error", "timeout"}
  /\ Charge(FALSE)
  /\ engineCalls' = engineCalls + 1
  /\ UNCHANGED <<results, sqlByHandle, submission>>

QueryAnswers(call, outcome) ==
  /\ BudgetLeft
  /\ ReadOnly(call.sql)
  /\ Charge(TRUE)
  /\ engineCalls' = engineCalls + 1
  /\ \E p \in Payload :
       /\ results' = Bind(results, NextHandle, p)
       /\ RememberSql(NextHandle, p, call.sql)
       /\ Answer(p, outcome)
  /\ UNCHANGED submission

ExecuteReadonly(call, outcome) ==
  /\ Declared(call)
  /\ call.op = QueryOp
  /\ \/ QueryRefusedByBudget(call, outcome)
     \/ QueryRefusedByPolicy(call, outcome)
     \/ QueryFails(call, outcome)
     \/ QueryAnswers(call, outcome)

Submit(call, outcome) ==
  /\ Declared(call)
  /\ call.op = SubmitOp
  /\ IF MaySubmit /\ KnownHandles(call.submission)
       THEN outcome = "ok" /\ submission' = call.submission
       ELSE outcome = "protocol" /\ UNCHANGED submission
  /\ UNCHANGED <<results, sqlByHandle, databaseAttempts, engineCalls>>

Dispatch(call, outcome) ==
  \/ Refuse(call, outcome)
  \/ ReadCatalogue(call, outcome)
  \/ ExecuteReadonly(call, outcome)
  \/ Submit(call, outcome)

\* A native engine's result gets a handle but no SQL, and costs no attempt.
RegisterNativeResult(outcome) ==
  /\ Cardinality(DOMAIN results) < MaxDatabaseAttempts + MaxNativeResults
  /\ \E p \in Payload :
       /\ results' = Bind(results, NextHandle, p)
       /\ Answer(p, outcome)
  /\ UNCHANGED <<sqlByHandle, databaseAttempts, submission, engineCalls>>

Next ==
  \/ \E call \in Calls, outcome \in Outcomes : Dispatch(call, outcome)
  \/ \E outcome \in Outcomes : RegisterNativeResult(outcome)

Spec == Init /\ [][Next]_dispatcherVars

-----------------------------------------------------------------------------
(* Properties *)

\* Type invariant.  Handles are numbered from 1 without a gap.
TypeOK ==
  /\ DOMAIN results = 1 .. Cardinality(DOMAIN results)
  /\ \A h \in DOMAIN results : results[h] \in Payload
  /\ DOMAIN sqlByHandle \subseteq DOMAIN results
  /\ \A h \in DOMAIN sqlByHandle : sqlByHandle[h] \in Sql
  /\ databaseAttempts \in Nat
  /\ submission \in Submissions \cup {NoSubmission}
  /\ engineCalls \in Nat

\* The attempt budget bounds what reaches the database, counting the queries
\* that raise or come back too late: stored results never outnumber the queries
\* sent, which never outnumber the attempts charged, which stay in budget.
QueryBudget ==
  /\ Cardinality(DOMAIN sqlByHandle) <= engineCalls
  /\ engineCalls <= databaseAttempts
  /\ databaseAttempts <= MaxDatabaseAttempts

\* An accepted submission names only results of this trial, no result twice,
\* and a success names at least one: the evaluator can resolve every handle.
SubmittedHandlesResolve ==
  submission # NoSubmission =>
    /\ HandlesOf(submission) \subseteq DOMAIN results
    /\ Cardinality(HandlesOf(submission)) = Len(submission.handles)
    /\ submission.status = "success" => submission.handles # <<>>

\* A handle the dispatcher has issued denotes the same result for ever, whatever
\* mix of SQL and native results follows: what is evaluated under the handle is
\* what the agent saw.
HandlesNeverRebound ==
  [][\A h \in DOMAIN results :
        h \in DOMAIN results' /\ results'[h] = results[h]]_dispatcherVars

\* The first accepted submission is the trial's submission.
SubmissionIsFinal ==
  [][submission # NoSubmission => submission' = submission]_dispatcherVars
=============================================================================
