------------------------------ MODULE MetricFlow -------------------------------
(***************************************************************************)
(* The MetricFlow engine: MetricFlowAdapter of runner/adapters/            *)
(* metricflow.py and MetricFlowResultAdapter of metricflow_result.py.      *)
(* Every operation runs the mf command in a process of its own.  A query   *)
(* has the process write its rows into a CSV file, which the adapter reads *)
(* once the process has ended well, and the runtime registers with the     *)
(* dispatcher.  What a query asks for is told by its ordinal.              *)
(***************************************************************************)
EXTENDS NativeAdapter

VARIABLES
  mfReady,     \* _ready
  queryIndex,  \* _query_index
  captured,    \* _capture_dir: index of a CSV file -> what a process left there
  asked,       \* queries the engine was started for (history)
  answered     \* handle -> the query whose answer named it (history)

mfVars == <<mfReady, queryIndex, captured, asked, answered>>

\* How a process ends: it cannot be started or is killed at the deadline, it
\* fails, or it exits with 0.
Ends == {"raised", "failed", "unsupported", "succeeded"}

\* What it has left in its CSV file by then: nothing, all its rows, rows of
\* different lengths, or bytes that are no UTF-8.
Forms == {"none", "whole", "ragged", "undecodable"}

-----------------------------------------------------------------------------
(* Around the conversation *)

MetricFlowInit ==
  /\ mfReady = FALSE
  /\ queryIndex = 0
  /\ captured = <<>>
  /\ asked = 0
  /\ answered = <<>>

\* The adapter's constructor wants the path of the runtime project.
MetricFlowCreated ==
  /\ target = "metricflow"
  /\ Created(TreeHashable /\ configured)
  /\ UNCHANGED mfVars

LayoutValid == {"project_configuration.yml", "semantic_models"} \subseteq DOMAIN disk

\* Version probe, layout, health checks, validation of the configurations: each
\* runs only if the one before it succeeded, and the last success opens the
\* adapter.  version, health and configs say how the processes end.
PreflightSucceeds(version, health, configs) ==
  /\ version = "succeeded"
  /\ LayoutValid
  /\ health = "succeeded"
  /\ configs = "succeeded"

MetricFlowPreflight ==
  /\ target = "metricflow"
  /\ \E version, health, configs \in Ends :
       /\ Preflighted(PreflightSucceeds(version, health, configs))
       /\ mfReady' = PreflightSucceeds(version, health, configs)
  /\ UNCHANGED <<queryIndex, captured, asked, answered>>

\* The directory of the CSV files goes with the adapter.
MetricFlowClosed ==
  /\ target = "metricflow"
  /\ Closed
  /\ mfReady' = FALSE
  /\ captured' = <<>>
  /\ UNCHANGED <<queryIndex, asked, answered>>

-----------------------------------------------------------------------------
(* Operations *)

Discoveries == {"metricflow.list_metrics", "metricflow.list_dimensions",
                "metricflow.list_dimension_values", "metricflow.list_entities"}

\* What the engine lists is its own affair.
Discover(op) ==
  /\ Request(op)
  /\ \/ Repairable
     \/ mfReady /\ Give(Told(op, "none", EmptyTree, "none"),
                        Told(op, "none", EmptyTree, "none"))
  /\ UNCHANGED <<dispatcherVars, mfVars>>

\* Mutant: all queries share one file.
OneFile == queryIndex

NextFile == queryIndex + 1

\* The process of the query asked last leaves its file, over one that is there.
Left(form) ==
  IF form = "none" THEN captured
  ELSE Bind(captured, NextFile, [query |-> asked + 1, form |-> form])

\* path.unlink, once the rows are read and before they are looked at
Unlinked(files) == [n \in DOMAIN files \ {NextFile} |-> files[n]]

HasRows(files) == NextFile \in DOMAIN files /\ files[NextFile].form = "whole"

\* Success without a CSV file, and rows of different lengths, are failures; bytes
\* that cannot be decoded raise and stay where they are.
NoRows(files) ==
  /\ ~ HasRows(files)
  /\ captured' = IF NextFile \in DOMAIN files /\ files[NextFile].form = "ragged"
                   THEN Unlinked(files) ELSE files
  /\ Repairable
  /\ UNCHANGED <<dispatcherVars, answered>>

Rows(files) ==
  /\ HasRows(files)
  /\ captured' = Unlinked(files)
  /\ RegisterNativeResult("ok")
  /\ results'[NextHandle] = files[NextFile].query
  /\ answered' = Bind(answered, NextHandle, asked + 1)
  /\ Give(Told("metricflow.query", "none", EmptyTree, "none"),
          Told("metricflow.query", "none", EmptyTree, "none"))

\* Not ready, or arguments the command line has no place for.
QueryRefused ==
  /\ Request("metricflow.query")
  /\ Repairable
  /\ UNCHANGED <<dispatcherVars, mfVars>>

\* The process ends without success; a file it has left is not looked at.
QueryUnanswered ==
  /\ Request("metricflow.query")
  /\ mfReady
  /\ queryIndex' = NextFile
  /\ asked' = asked + 1
  /\ \E form \in Forms : captured' = Left(form)
  /\ Repairable
  /\ UNCHANGED <<dispatcherVars, mfReady, answered>>

QueryAnswered ==
  /\ Request("metricflow.query")
  /\ mfReady
  /\ queryIndex' = NextFile
  /\ asked' = asked + 1
  /\ \E form \in Forms : NoRows(Left(form)) \/ Rows(Left(form))
  /\ UNCHANGED mfReady

MetricFlowRequest ==
  \/ \E op \in Discoveries : Discover(op)
  \/ QueryRefused \/ QueryUnanswered \/ QueryAnswered

-----------------------------------------------------------------------------
(* Properties *)

\* A handle the agent was given for a native query holds the rows the engine wrote
\* for that very query, never those an earlier process left behind: the evaluator
\* scores what the engine computed.
ResultsAreTheEnginesOwn ==
  /\ DOMAIN answered \subseteq DOMAIN results
  /\ \A h \in DOMAIN answered : results[h] = answered[h]
=============================================================================
