---------------------------- MODULE NativeSurface -----------------------------
(***************************************************************************)
(* The runtime of one native trial with the adapter of its target:         *)
(* NativeAdapterFactory and NativeRuntime of runner/core/native_factory.py *)
(* over SkillHost, OkfConsumer, Ossie and MetricFlow, beside the           *)
(* dispatcher.  NativeTrial models the conversation around it, with the    *)
(* adapter's answers left open; here the adapters answer.                  *)
(***************************************************************************)
EXTENDS SkillHost, OkfConsumer, Ossie, MetricFlow

adapterVars == <<skillVars, pendingQuery, ossieVars, mfVars>>
surfaceVars == <<dispatcherVars, sessionVars, adapterVars>>

SurfaceInit ==
  /\ Init
  /\ SessionInit
  /\ SkillInit
  /\ OkfInit
  /\ OssieInit
  /\ MetricFlowInit

-----------------------------------------------------------------------------
(* NativeAdapterFactory.create *)

\* _ddl_context: the DDL becomes the initial context of the conversation.
DdlCreated ==
  /\ target = "ddl_only"
  /\ Created(TreeHashable /\ disk # EmptyTree)

BlankCreated == target = "blank_context" /\ Created(TRUE)

Create ==
  /\ \/ SkillCreated     /\ UNCHANGED <<pendingQuery, ossieVars, mfVars>>
     \/ OkfCreated       /\ UNCHANGED <<skillVars, ossieVars, mfVars>>
     \/ OssieCreated     /\ UNCHANGED <<skillVars, pendingQuery, mfVars>>
     \/ MetricFlowCreated /\ UNCHANGED <<skillVars, pendingQuery, ossieVars>>
     \/ DdlCreated       /\ UNCHANGED adapterVars
     \/ BlankCreated     /\ UNCHANGED adapterVars
  /\ UNCHANGED dispatcherVars

-----------------------------------------------------------------------------
(* NativeRuntime *)

\* Without an adapter there is nothing to check.
PreflightWithoutAdapter ==
  /\ target \in {"ddl_only", "blank_context"}
  /\ Preflighted(TRUE)

Preflight ==
  /\ \/ SkillPreflight      /\ UNCHANGED <<pendingQuery, ossieVars, mfVars>>
     \/ OkfPreflight        /\ UNCHANGED <<skillVars, ossieVars, mfVars>>
     \/ OssiePreflight      /\ UNCHANGED <<skillVars, pendingQuery, mfVars>>
     \/ MetricFlowPreflight /\ UNCHANGED <<skillVars, pendingQuery, ossieVars>>
     \/ PreflightWithoutAdapter /\ UNCHANGED adapterVars
  /\ UNCHANGED dispatcherVars

\* An operation of the dispatcher.  Its answers are kept in its own variables; a
\* submission it accepts ends the conversation.
HarnessRequest(call, outcome) ==
  /\ Request(call.op)
  /\ Dispatch(call, outcome)
  /\ session' = IF submission' # NoSubmission THEN "closing" ELSE session
  /\ UNCHANGED <<given, events, adapterVars>>

AdapterRequest ==
  \/ SkillRequest /\ UNCHANGED <<dispatcherVars, pendingQuery, ossieVars, mfVars>>
  \/ OkfRequest   /\ UNCHANGED <<dispatcherVars, skillVars, ossieVars, mfVars>>
  \/ OssieRequest /\ UNCHANGED <<dispatcherVars, skillVars, pendingQuery, mfVars>>
  \/ MetricFlowRequest /\ UNCHANGED <<skillVars, pendingQuery, ossieVars>>

Close ==
  /\ \/ OssieClosed      /\ UNCHANGED <<skillVars, pendingQuery, mfVars>>
     \/ MetricFlowClosed /\ UNCHANGED <<skillVars, pendingQuery, ossieVars>>
     \/ target \notin {"ossie", "metricflow"} /\ Closed /\ UNCHANGED adapterVars
  /\ UNCHANGED dispatcherVars

SurfaceNext ==
  \/ Create
  \/ Preflight
  \/ AdapterRequest
  \/ \E call \in Calls, outcome \in Outcomes : HarnessRequest(call, outcome)
  \/ RequestOutsideAllowlist /\ UNCHANGED <<dispatcherVars, adapterVars>>
  \/ EndConversation /\ UNCHANGED <<dispatcherVars, adapterVars>>
  \/ Edit /\ UNCHANGED <<dispatcherVars, adapterVars>>
  \/ Close

SurfaceSpec == SurfaceInit /\ [][SurfaceNext]_surfaceVars

-----------------------------------------------------------------------------
(* Properties *)

\* Type invariant of the session and of the adapters' own state.
SurfaceTypeOK ==
  /\ target \in Targets
  /\ configured \in BOOLEAN
  /\ disk \in Trees[target]
  /\ edits \in 0 .. MaxEdits
  /\ session \in {"create", "preflight", "open", "closing", "over", "unbuilt"}
  /\ requests \in 0 .. MaxRequests
  /\ Len(given) <= requests
  /\ activated \in BOOLEAN
  /\ pendingQuery \in Queries \cup {"none"}
  /\ ossieReady \in BOOLEAN
  /\ mfReady \in BOOLEAN
  /\ DOMAIN captured \subseteq 1 .. queryIndex
  /\ asked \in 0 .. requests

\* The telemetry of a session names the very answers the agent was given, in
\* their order: a search is recorded with its own query even after one that
\* raised half-way.
TelemetryIsTrue == events = given

\* An Ossie conversation is served the document its preflight validated, whatever
\* happens to the file before, during and after it.  The OKF consumer and the
\* skill host promise no such thing: they read their files from the disk on every
\* request.
ServesWhatWasChecked ==
  target = "ossie" =>
    \A i \in DOMAIN given :
      Elements(given[i].content) \subseteq Elements(Text(checked[ModelFile].models))

\* A single word: no slash in the name, no blank around it.
Plain(name) == Len(name) = 1 /\ name[1] \notin {Slash, Blank}

AllPlain(text) == \A line \in Elements(text) : \A i \in DOMAIN line.path : Plain(line.path[i])

\* Once the preflight has passed, every object of an Ossie document is found under
\* its qualified id, with no other object in the way, and so is every column a
\* relationship joins by: "addressed by its fully qualified native ID"
\* (runner/adapters/README.md:59), the way out the adapter points to when a short
\* id is ambiguous (ossie.py:750-753).  It is the checks of the preflight that
\* make the ids differ, for names without a slash and without outer blanks only:
\* nothing refuses a dataset "m/d" of the model "m" beside its dataset "d".
PlainObjectsResolve ==
  target = "ossie" /\ session = "open" /\ AllPlain(Text(snapshot)) =>
    /\ \A ref \in SourceIndex(snapshot) :
         Resolves(snapshot, ref.kind, Stripped(ref.qualified))
    /\ \A model \in Elements(snapshot) : \A r \in Elements(model.relationships) :
         \A column \in Elements(r.fromColumns) :
           Resolves(snapshot, "field", Stripped(Joined(<<model.name, r.from, column>>)))

\* A skill is disclosed in order: nothing beyond the package's identity reaches
\* the agent before an activation has handed it the instructions.
DisclosedInOrder ==
  \A i \in DOMAIN given :
    given[i].op \in {"skill.read_instruction", "skill.read_reference"} =>
      \E j \in 1 .. i - 1 : given[j].op = "skill.activate"

\* An Ossie object that is read by its id is exactly its source: "the exact source
\* slice for one Dataset, Field, ..." (runner/adapters/README.md:57).
SlicesAreExact ==
  \A i \in DOMAIN given :
    given[i].op = "ossie.read_native_yaml" /\ given[i].path # <<>> =>
      LET text == Text(checked[ModelFile].models)
          head == given[i].content[1]
      IN Elements(given[i].content) =
           { text[n] : n \in Extent(text, head.kind, head.path) }
=============================================================================
