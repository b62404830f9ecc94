----------------------------- MODULE NativeAdapter -----------------------------
(***************************************************************************)
(* What the native targets share: the registry of operations               *)
(* (runner/config/targets.native.yaml), the boundary of                    *)
(* runner/core/native_adapter.py, and one session of a NativeRuntime       *)
(* (runner/core/native_factory.py).  A session serves one trial: it is     *)
(* created, preflighted, asked, and closed.  The modules of the adapters   *)
(* (SkillHost, OkfConsumer, Ossie, MetricFlow) add the operations of one   *)
(* target each; NativeSurface puts them together.                          *)
(*                                                                         *)
(* The artifact root of a target is a function from paths to files, which  *)
(* someone may change while the trial runs.  A file is identified with its *)
(* digest, and an answer with the file it hands over.                      *)
(***************************************************************************)
EXTENDS ToolDispatcher

CONSTANTS
  Trees,        \* target -> what its artifact root may hold
  MaxRequests,  \* bound: calls of the agent, the turn budget of the trial
  MaxEdits      \* bound: changes of the artifact root during the trial

ASSUME RequestsAssumption == MaxRequests \in Nat
ASSUME EditsAssumption    == MaxEdits \in Nat

VARIABLES
  target,      \* the target of the session
  configured,  \* whether the settings name its host revision or runtime project
  disk,        \* what its artifact root holds
  edits,       \* changes of the artifact root so far
  session,     \* "create", "preflight", "open", "closing", "over", "unbuilt"
  requests,    \* calls of the agent so far
  checked,     \* the artifact root when the preflight read it (history)
  given,       \* what the agent was given, answer by answer (history)
  events       \* the adapter's telemetry of the same answers

sessionVars ==
  <<target, configured, disk, edits, session, requests, checked, given, events>>

-----------------------------------------------------------------------------
(* The registry *)

Allowed ==
  [blank_context |-> HarnessOps,
   ddl_only      |-> {QueryOp, SubmitOp},
   metricflow    |-> {"metricflow.list_metrics", "metricflow.list_dimensions",
                      "metricflow.list_dimension_values",
                      "metricflow.list_entities", "metricflow.query", SubmitOp},
   ossie         |-> {"ossie.inspect_model", "ossie.read_native_yaml", QueryOp,
                      SubmitOp},
   okf           |-> {"okf.list_files", "okf.read_file", "okf.follow_link",
                      "okf.search_text", QueryOp, SubmitOp},
   skill         |-> {"skill.activate", "skill.read_instruction",
                      "skill.read_reference", QueryOp, SubmitOp}]

Targets == DOMAIN Allowed

-----------------------------------------------------------------------------
(* One call of the agent *)

\* NativeRuntime.dispatch lets an operation of the target's allowlist through.
Request(op) ==
  /\ session = "open"
  /\ op \in Allowed[target]
  /\ requests < MaxRequests
  /\ requests' = requests + 1
  /\ UNCHANGED <<target, configured, disk, edits, checked>>

\* Any other one ends the trial: NativeOperationError, or NativeIsolationError for
\* an operation the target prohibits.
RequestOutsideAllowlist ==
  /\ session = "open"
  /\ requests < MaxRequests
  /\ requests' = requests + 1
  /\ session' = "closing"
  /\ UNCHANGED <<target, configured, disk, edits, checked, given, events>>

\* The adapter answers, and records the answer in its telemetry.
Give(answer, event) ==
  /\ given' = Append(given, answer)
  /\ events' = Append(events, event)
  /\ UNCHANGED session

\* The adapter raises, or answers that it failed; the agent may try again.
Repairable == UNCHANGED <<session, given, events>>

\* The adapter raises NativeIsolationError.
Breach == session' = "closing" /\ UNCHANGED <<given, events>>

\* What is given, and what the telemetry says of it, have the same form.
Told(op, path, content, query) ==
  [op |-> op, path |-> path, content |-> content, query |-> query]

-----------------------------------------------------------------------------
(* Around the conversation *)

\* An artifact root that does not exist.
EmptyTree == [path \in {} |-> path]

\* _hash_tree of the factory refuses symbolic links.
TreeHashable == \A path \in DOMAIN disk : disk[path].kind # "symlink"

SessionInit ==
  /\ target \in Targets
  /\ configured \in BOOLEAN
  /\ disk \in Trees[target]
  /\ edits = 0
  /\ session = "create"
  /\ requests = 0
  /\ checked = EmptyTree
  /\ given = <<>>
  /\ events = <<>>

\* Someone changes the artifact root.
Edit ==
  /\ session \in {"create", "preflight", "open"}
  /\ edits < MaxEdits
  /\ edits' = edits + 1
  /\ disk' \in Trees[target] \ {disk}
  /\ UNCHANGED <<target, configured, session, requests, checked, given, events>>

\* NativeAdapterFactory.create returns a runtime or raises.
Created(ok) ==
  /\ session = "create"
  /\ session' = IF ok THEN "preflight" ELSE "unbuilt"
  /\ UNCHANGED <<target, configured, disk, edits, requests, checked, given, events>>

\* NativeRuntime.preflight is healthy, or raises, or reports a failed check.
Preflighted(healthy) ==
  /\ session = "preflight"
  /\ session' = IF healthy THEN "open" ELSE "closing"
  /\ checked' = disk
  /\ UNCHANGED <<target, configured, disk, edits, requests, given, events>>

\* The trial leaves its conversation: a submission, a budget, a provider's error.
EndConversation ==
  /\ session = "open"
  /\ session' = "closing"
  /\ UNCHANGED <<target, configured, disk, edits, requests, checked, given, events>>

\* NativeRuntime.close
Closed ==
  /\ session = "closing"
  /\ session' = "over"
  /\ UNCHANGED <<target, configured, disk, edits, requests, checked, given, events>>
=============================================================================
