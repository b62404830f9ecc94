-------------------------- MODULE NativeSurfaceProofs --------------------------
(***************************************************************************)
(* Proofs about NativeSurface, for all artifact roots, however often and   *)
(* whenever they change, and for every number of calls.                    *)
(*                                                                         *)
(* Seen from the dispatcher, a session is a sequence of its own steps, so  *)
(* that the invariant of ToolDispatcherProofs holds in every session and   *)
(* handles keep their results.  Seen from the agent, a step gives it one   *)
(* answer or none.  Seen from an Ossie document, nothing is given of it    *)
(* that the preflight has not looked at, and what the preflight checks is  *)
(* enough for its objects to be told apart; both are shown on its text,    *)
(* line by line.                                                           *)
(***************************************************************************)
EXTENDS NativeSurface, ToolDispatcherProofs, WellFoundedInduction

-----------------------------------------------------------------------------
(* The dispatcher in a session *)

LEMMA SurfaceDispatches == SurfaceNext => [Next]_dispatcherVars
<1> SUFFICES ASSUME SurfaceNext PROVE [Next]_dispatcherVars
  OBVIOUS
<1>1. CASE Create
  BY <1>1 DEF Create
<1>2. CASE Preflight
  BY <1>2 DEF Preflight
<1>3. CASE AdapterRequest
  <2>1. ASSUME NEW files, Rows(files) PROVE Next
    BY <2>1 DEF Rows, Next, Outcomes
  <2>2. MetricFlowRequest => [Next]_dispatcherVars
    BY <2>1 DEF MetricFlowRequest, Discover, QueryRefused, QueryUnanswered,
       QueryAnswered, NoRows
  <2> QED
    BY <1>3, <2>2 DEF AdapterRequest
<1>4. ASSUME NEW call \in Calls, NEW outcome \in Outcomes, HarnessRequest(call, outcome)
      PROVE  Next
  BY <1>4 DEF HarnessRequest, Next
<1>5. CASE Close
  BY <1>5 DEF Close
<1> QED
  BY <1>1, <1>2, <1>3, <1>4, <1>5 DEF SurfaceNext

\* A session's results are numbered, stored, kept and submitted as the dispatcher
\* promises: what is proved of it holds for the six targets.
THEOREM SessionsKeepTheDispatcher == SurfaceSpec => Spec
<1>1. SurfaceInit => Init
  BY DEF SurfaceInit
<1>2. UNCHANGED surfaceVars => UNCHANGED dispatcherVars
  BY DEF surfaceVars
<1>3. [SurfaceNext]_surfaceVars => [Next]_dispatcherVars
  BY <1>2, SurfaceDispatches
<1> QED
  BY <1>1, <1>3, PTL DEF SurfaceSpec, Spec

LEMMA SessionIInv == SurfaceSpec => []IInv
BY SessionsKeepTheDispatcher, Invariance, PTL

-----------------------------------------------------------------------------
(* The results of the engine *)

\* The files of earlier processes lie under the numbers given out so far.
EngineInv ==
  /\ queryIndex \in Nat
  /\ DOMAIN captured \subseteq 1 .. queryIndex
  /\ ResultsAreTheEnginesOwn

LEMMA EngineInit == SurfaceInit => EngineInv
BY DEF SurfaceInit, MetricFlowInit, EngineInv, ResultsAreTheEnginesOwn

LEMMA EngineStutter == EngineInv /\ UNCHANGED <<mfVars, results>> => EngineInv'
BY DEF EngineInv, ResultsAreTheEnginesOwn, mfVars

\* No file lies under the next number, so that one found there was left by the
\* process of the query itself.
LEMMA FileIsOfTheQuery ==
  ASSUME EngineInv, NEW form, HasRows(Left(form))
  PROVE  Left(form)[NextFile].query = asked + 1
<1>1. NextFile \notin DOMAIN captured
  BY DEF EngineInv, NextFile
<1>2. form # "none"
  BY <1>1 DEF HasRows, Left
<1> QED
  BY <1>2 DEF Left, Bind

LEMMA FilesAreNumbered ==
  ASSUME EngineInv, NEW form
  PROVE  /\ DOMAIN Left(form) \subseteq 1 .. NextFile
         /\ DOMAIN Unlinked(Left(form)) \subseteq 1 .. NextFile
         /\ NextFile \in Nat
BY DEF EngineInv, Left, Bind, Unlinked, NextFile

LEMMA EngineStep ==
  ASSUME IInv, EngineInv, SurfaceNext
  PROVE  EngineInv'
<1>1. ResultsKept
  BY SurfaceDispatches, NextKeepsResults
<1>2. ASSUME UNCHANGED answered PROVE ResultsAreTheEnginesOwn'
  BY <1>1, <1>2 DEF EngineInv, ResultsAreTheEnginesOwn, ResultsKept
<1>3. ASSUME UNCHANGED <<answered, queryIndex>>, DOMAIN captured' \subseteq DOMAIN captured
      PROVE  EngineInv'
  BY <1>2, <1>3 DEF EngineInv
<1>4. CASE UNCHANGED mfVars
  BY <1>3, <1>4 DEF mfVars
<1>5. CASE MetricFlowPreflight \/ MetricFlowClosed
  BY <1>3, <1>5 DEF MetricFlowPreflight, MetricFlowClosed
<1>6. CASE QueryUnanswered
  BY <1>2, <1>6, FilesAreNumbered DEF QueryUnanswered, EngineInv
<1>7. CASE QueryAnswered
  <2>1. PICK form \in Forms : NoRows(Left(form)) \/ Rows(Left(form))
    BY <1>7 DEF QueryAnswered
  <2>2. queryIndex' = NextFile
    BY <1>7 DEF QueryAnswered
  <2>3. CASE NoRows(Left(form))
    BY <1>2, <2>2, <2>3, FilesAreNumbered DEF NoRows, EngineInv
  <2>4. CASE Rows(Left(form))
    <3>1. results'[NextHandle] = asked + 1
      BY <2>4, FileIsOfTheQuery DEF Rows
    <3>2. DOMAIN results' = DOMAIN results \cup {NextHandle}
      BY <2>4, StoreGrows DEF Rows, RegisterNativeResult
    <3>3. answered' = Bind(answered, NextHandle, asked + 1)
      BY <2>4 DEF Rows
    <3>4. ResultsAreTheEnginesOwn'
      BY <1>1, <3>1, <3>2, <3>3
         DEF EngineInv, ResultsAreTheEnginesOwn, ResultsKept, Bind
    <3> QED
      BY <2>2, <2>4, <3>4, FilesAreNumbered DEF Rows, EngineInv
  <2> QED
    BY <2>1, <2>3, <2>4
<1>8. UNCHANGED mfVars \/ MetricFlowPreflight \/ MetricFlowClosed \/ QueryUnanswered
        \/ QueryAnswered
  BY DEF SurfaceNext, Create, Preflight, AdapterRequest, HarnessRequest, Close, adapterVars,
     MetricFlowCreated, MetricFlowRequest, Discover, QueryRefused
<1> QED
  BY <1>4, <1>5, <1>6, <1>7, <1>8

LEMMA Engines == SurfaceSpec => []EngineInv
<1>1. EngineInv /\ IInv /\ [SurfaceNext]_surfaceVars => EngineInv'
  <2>1. UNCHANGED surfaceVars => UNCHANGED <<mfVars, results>>
    BY DEF surfaceVars, dispatcherVars, adapterVars
  <2> QED
    BY <2>1, EngineStep, EngineStutter
<1> QED
  BY <1>1, EngineInit, SessionIInv, PTL DEF SurfaceSpec

\* The rows an agent is scored on are those its engine computed for the query it
\* asked, however many processes have failed and left their files behind.
THEOREM EngineOwnsItsResults == SurfaceSpec => []ResultsAreTheEnginesOwn
<1>1. EngineInv => ResultsAreTheEnginesOwn
  BY DEF EngineInv
<1> QED
  BY <1>1, Engines, PTL

-----------------------------------------------------------------------------
(* The answers the agent is given *)

Disclosures == {"skill.read_instruction", "skill.read_reference"}

HasActivated == \E j \in DOMAIN given : given[j].op = "skill.activate"

\* What has been given is a sequence; nothing else is known of it.
ConversationInv ==
  /\ \E S : given \in Seq(S)
  /\ activated => HasActivated
  /\ DisclosedInOrder
  /\ TelemetryIsTrue

\* One answer: what is disclosed needs an activation, which an activation gives.
Answers(answer) ==
  /\ Give(answer, answer)
  /\ answer.op \in Disclosures => activated
  /\ activated' => activated \/ answer.op = "skill.activate"

Silent == UNCHANGED <<given, events>> /\ (activated' => activated)

Tells == Silent \/ \E answer : Answers(answer)

LEMMA ConversationInit == SurfaceInit => ConversationInv
BY DEF SurfaceInit, SessionInit, SkillInit, ConversationInv, HasActivated,
   DisclosedInOrder, TelemetryIsTrue

LEMMA ConversationStep ==
  ASSUME ConversationInv, Tells
  PROVE  ConversationInv'
<1>1. CASE Silent
  BY <1>1 DEF Silent, ConversationInv, HasActivated, DisclosedInOrder, TelemetryIsTrue
<1>2. ASSUME NEW answer, Answers(answer) PROVE ConversationInv'
  <2>1. PICK S : given \in Seq(S)
    BY DEF ConversationInv
  <2>2. given \in Seq(S \cup {answer})
    BY <2>1
  <2>3. given' = Append(given, answer) /\ events' = Append(events, answer)
    BY <1>2 DEF Answers, Give
  <2>4. /\ given' \in Seq(S \cup {answer})
        /\ Len(given') = Len(given) + 1
        /\ Len(given) \in Nat
        /\ DOMAIN given = 1 .. Len(given)
        /\ DOMAIN given' = 1 .. Len(given) + 1
        /\ given'[Len(given) + 1] = answer
        /\ \A i \in DOMAIN given : given'[i] = given[i]
    BY <2>2, <2>3
  <2>5. activated' => HasActivated'
    BY <1>2, <2>4 DEF Answers, ConversationInv, HasActivated
  <2>6. DisclosedInOrder'
    <3> SUFFICES ASSUME NEW i \in DOMAIN given', given'[i].op \in Disclosures
                 PROVE  \E j \in 1 .. i - 1 : given'[j].op = "skill.activate"
      BY DEF DisclosedInOrder, Disclosures
    <3>1. CASE i \in DOMAIN given
      <4>1. PICK j \in 1 .. i - 1 : given[j].op = "skill.activate"
        BY <2>4, <3>1 DEF ConversationInv, DisclosedInOrder, Disclosures
      <4> QED
        BY <2>4, <3>1, <4>1
    <3>2. CASE i = Len(given) + 1
      <4>1. activated
        BY <1>2, <2>4, <3>2 DEF Answers
      <4>2. PICK j \in DOMAIN given : given[j].op = "skill.activate"
        BY <4>1 DEF ConversationInv, HasActivated
      <4> QED
        BY <2>4, <3>2, <4>2
    <3> QED
      BY <2>4, <3>1, <3>2
  <2>7. TelemetryIsTrue'
    BY <2>3 DEF ConversationInv, TelemetryIsTrue
  <2> QED
    BY <2>4, <2>5, <2>6, <2>7 DEF ConversationInv
<1> QED
  BY <1>1, <1>2 DEF Tells

\* An answer of an operation that discloses nothing of a skill.
LEMMA PlainAnswer ==
  ASSUME NEW op, NEW path, NEW content, NEW query, op \notin Disclosures,
         Give(Told(op, path, content, query), Told(op, path, content, query)),
         UNCHANGED activated
  PROVE  Tells
<1> DEFINE answer == Told(op, path, content, query)
<1>1. answer.op = op
  BY DEF Told
<1>2. Answers(answer)
  BY <1>1 DEF Answers
<1> QED
  BY <1>2 DEF Tells

LEMMA NoAnswer ==
  ASSUME Repairable \/ Breach, UNCHANGED activated
  PROVE  Tells
BY DEF Repairable, Breach, Tells, Silent

LEMMA SkillTells == SkillRequest => Tells
<1>1. CASE Activate
  <2> DEFINE answer == Told("skill.activate", Instruction, disk[Instruction], "none")
  <2>1. answer.op = "skill.activate"
    BY DEF Told
  <2>2. CASE Readable(Instruction) /\ ReadMember("skill.activate", Instruction)
                                   /\ ActivatedOnceRead
    <3>1. ~ Refused(Instruction)
      BY <2>2 DEF Refused, Readable, Instruction, Unsafe
    <3>2. Give(answer, answer)
      BY <2>2, <3>1 DEF ReadMember
    <3>3. Answers(answer)
      BY <2>1, <3>2 DEF Answers, Disclosures
    <3> QED
      BY <3>3 DEF Tells
  <2>3. CASE ~ Readable(Instruction) /\ ReadMember("skill.activate", Instruction)
                                     /\ ActivatedOnceRead
    BY <2>3 DEF ReadMember, ActivatedOnceRead, Repairable, Breach, Tells, Silent, Answers
  <2>4. CASE Repairable /\ UNCHANGED activated
    BY <2>4, NoAnswer
  <2> QED
    BY <1>1, <2>2, <2>3, <2>4 DEF Activate
<1>2. ASSUME NEW op, NEW path, activated, UNCHANGED activated, ReadMember(op, path)
      PROVE  Tells
  <2>1. CASE Give(Told(op, path, disk[path], "none"), Told(op, path, disk[path], "none"))
    BY <1>2, <2>1 DEF Tells, Answers
  <2> QED
    BY <1>2, <2>1, NoAnswer DEF ReadMember
<1>3. CASE ReadInstruction
  BY <1>2, <1>3, NoAnswer DEF ReadInstruction, skillVars
<1>4. ASSUME NEW path, ReadReference(path) PROVE Tells
  BY <1>2, <1>4, NoAnswer DEF ReadReference, skillVars
<1> QED
  BY <1>1, <1>3, <1>4 DEF SkillRequest

LEMMA OkfTells == OkfRequest /\ UNCHANGED skillVars => Tells
<1> SUFFICES ASSUME OkfRequest, UNCHANGED activated PROVE Tells
  BY DEF skillVars
<1> USE DEF Disclosures
<1>1. ASSUME NEW op, op \notin Disclosures, NEW path, NEW directory,
             GiveList(op, path, directory)
      PROVE  Tells
  BY <1>1, PlainAnswer, NoAnswer DEF GiveList
<1>2. ASSUME NEW op, op \notin Disclosures, NEW path, GiveFile(op, path) PROVE Tells
  BY <1>2, PlainAnswer DEF GiveFile
<1>3. ASSUME NEW path, ListFiles(path) PROVE Tells
  BY <1>1, <1>3, NoAnswer DEF ListFiles
<1>4. ASSUME NEW path, ReadFile(path) PROVE Tells
  BY <1>2, <1>4, NoAnswer DEF ReadFile
<1>5. ASSUME NEW path, Follow(path) PROVE Tells
  BY <1>1, <1>2, <1>5, NoAnswer DEF Follow
<1>6. ASSUME NEW source, NEW link, FollowLink(source, link) PROVE Tells
  BY <1>5, <1>6, NoAnswer DEF FollowLink
<1>7. ASSUME NEW query, SearchText(query) PROVE Tells
  BY <1>7, PlainAnswer, NoAnswer DEF SearchText, Pending
<1> QED
  BY <1>3, <1>4, <1>6, <1>7 DEF OkfRequest

LEMMA OssieTells == OssieRequest /\ UNCHANGED skillVars => Tells
<1> SUFFICES ASSUME OssieRequest, UNCHANGED activated PROVE Tells
  BY DEF skillVars
<1>1. ASSUME NEW kind, NEW id, InspectModel(kind, id) PROVE Tells
  BY <1>1, PlainAnswer, NoAnswer DEF InspectModel, Inspected, Disclosures
<1>2. ASSUME NEW id, NEW lines, ReadSlice(id, lines) PROVE Tells
  BY <1>2, PlainAnswer DEF ReadSlice, Disclosures
<1>3. ASSUME NEW path, NEW kind, NEW id, ReadNativeYaml(path, kind, id) PROVE Tells
  BY <1>2, <1>3, NoAnswer DEF ReadNativeYaml
<1> QED
  BY <1>1, <1>3 DEF OssieRequest

LEMMA MetricFlowTells == MetricFlowRequest /\ UNCHANGED skillVars => Tells
<1> SUFFICES ASSUME MetricFlowRequest, UNCHANGED activated PROVE Tells
  BY DEF skillVars
<1>1. ASSUME NEW op \in Discoveries, Discover(op) PROVE Tells
  BY <1>1, PlainAnswer, NoAnswer DEF Discover, Discoveries, Disclosures
<1>2. ASSUME NEW files, NoRows(files) \/ Rows(files) PROVE Tells
  BY <1>2, PlainAnswer, NoAnswer DEF NoRows, Rows, Disclosures
<1> QED
  BY <1>1, <1>2, NoAnswer DEF MetricFlowRequest, QueryRefused, QueryUnanswered, QueryAnswered

LEMMA SurfaceTells == SurfaceNext => Tells
<1>1. AdapterRequest => Tells
  BY SkillTells, OkfTells, OssieTells, MetricFlowTells DEF AdapterRequest
<1>2. ASSUME NEW call, NEW outcome, HarnessRequest(call, outcome) PROVE Silent
  BY <1>2 DEF HarnessRequest, Silent, adapterVars, skillVars
<1>3. CASE Create \/ Preflight
  BY <1>3 DEF Create, Preflight, Created, Preflighted, SkillCreated, OkfCreated,
     OssieCreated, MetricFlowCreated, DdlCreated, BlankCreated, SkillPreflight,
     OkfPreflight, OssiePreflight, MetricFlowPreflight, PreflightWithoutAdapter,
     adapterVars, skillVars, Tells, Silent
<1>4. CASE \/ RequestOutsideAllowlist /\ UNCHANGED adapterVars
           \/ EndConversation /\ UNCHANGED adapterVars
           \/ Edit /\ UNCHANGED adapterVars
           \/ Close
  BY <1>4 DEF RequestOutsideAllowlist, EndConversation, Edit, Close, Closed, OssieClosed,
     MetricFlowClosed, adapterVars, skillVars, Tells, Silent
<1> QED
  BY <1>1, <1>2, <1>3, <1>4 DEF SurfaceNext, Tells

LEMMA Conversations == SurfaceSpec => []ConversationInv
<1>1. ConversationInv /\ [SurfaceNext]_surfaceVars => ConversationInv'
  <2>1. UNCHANGED surfaceVars => Tells
    BY DEF surfaceVars, sessionVars, adapterVars, skillVars, Tells, Silent
  <2> QED
    BY <2>1, SurfaceTells, ConversationStep
<1> QED
  BY <1>1, ConversationInit, PTL DEF SurfaceSpec

\* No reference and no repeated instruction is disclosed before an activation has
\* shown the agent SKILL.md, whatever has happened to the package.
THEOREM DisclosureIsProgressive == SurfaceSpec => []DisclosedInOrder
<1>1. ConversationInv => DisclosedInOrder
  BY DEF ConversationInv
<1> QED
  BY <1>1, Conversations, PTL

\* The telemetry names the answers the agent was given, in every session of every
\* target.
THEOREM TelemetryNamesTheAnswers == SurfaceSpec => []TelemetryIsTrue
<1>1. ConversationInv => TelemetryIsTrue
  BY DEF ConversationInv
<1> QED
  BY <1>1, Conversations, PTL

-----------------------------------------------------------------------------
(* Types *)

SessionTypeOK ==
  /\ target \in Targets
  /\ configured \in BOOLEAN
  /\ disk \in Trees[target]
  /\ edits \in 0 .. MaxEdits
  /\ session \in {"create", "preflight", "open", "closing", "over", "unbuilt"}
  /\ requests \in 0 .. MaxRequests
  /\ Len(given) <= requests

AdaptersTypeOK ==
  /\ activated \in BOOLEAN
  /\ pendingQuery \in Queries \cup {"none"}
  /\ ossieReady \in BOOLEAN
  /\ mfReady \in BOOLEAN

\* One call of the agent, with an answer or without.
Called ==
  /\ \E op : Request(op)
  /\ session' \in {session, "closing"}
  /\ given' = given \/ \E answer : given' = Append(given, answer)

LEMMA AnswerOrNot ==
  ASSUME NEW op, Request(op),
         Repairable \/ Breach \/ \E answer, event : Give(answer, event)
  PROVE  Called
<1>1. CASE Repairable \/ Breach
  BY <1>1 DEF Repairable, Breach, Called
<1>2. CASE \E answer, event : Give(answer, event)
  BY <1>2 DEF Give, Called
<1> QED
  BY <1>1, <1>2

LEMMA AdaptersAreCalled == AdapterRequest => Called
<1>1. SkillRequest => Called
  <2>1. ASSUME NEW op, NEW path, Request(op), ReadMember(op, path) PROVE Called
    BY <2>1, AnswerOrNot DEF ReadMember
  <2>2. Activate => Called
    BY <2>1, AnswerOrNot DEF Activate
  <2>3. ReadInstruction => Called
    BY <2>1, AnswerOrNot DEF ReadInstruction
  <2>4. ASSUME NEW path, ReadReference(path) PROVE Called
    BY <2>1, <2>4, AnswerOrNot DEF ReadReference
  <2> QED
    BY <2>2, <2>3, <2>4 DEF SkillRequest
<1>2. OkfRequest => Called
  <2>1. ASSUME NEW op, NEW path, NEW directory, Request(op),
               GiveList(op, path, directory) \/ GiveFile(op, path)
        PROVE  Called
    BY <2>1, AnswerOrNot DEF GiveList, GiveFile
  <2>2. ASSUME NEW path, ListFiles(path) PROVE Called
    BY <2>1, <2>2, AnswerOrNot DEF ListFiles
  <2>3. ASSUME NEW path, ReadFile(path) PROVE Called
    BY <2>1, <2>3, AnswerOrNot DEF ReadFile
  <2>4. ASSUME NEW path, Follow(path), Request("okf.follow_link") PROVE Called
    BY <2>1, <2>4, AnswerOrNot DEF Follow, GiveList, GiveFile
  <2>5. ASSUME NEW source, NEW link, FollowLink(source, link) PROVE Called
    BY <2>4, <2>5, AnswerOrNot DEF FollowLink
  <2>6. ASSUME NEW query, SearchText(query) PROVE Called
    BY <2>6, AnswerOrNot DEF SearchText
  <2> QED
    BY <2>2, <2>3, <2>5, <2>6 DEF OkfRequest
<1>3. OssieRequest => Called
  <2>1. ASSUME NEW kind, NEW id, InspectModel(kind, id) PROVE Called
    BY <2>1, AnswerOrNot DEF InspectModel, Inspected
  <2>2. ASSUME NEW path, NEW kind, NEW id, ReadNativeYaml(path, kind, id) PROVE Called
    BY <2>2, AnswerOrNot DEF ReadNativeYaml, ReadSlice
  <2> QED
    BY <2>1, <2>2 DEF OssieRequest
<1>4. MetricFlowRequest => Called
  BY AnswerOrNot DEF MetricFlowRequest, Discover, QueryRefused, QueryUnanswered,
     QueryAnswered, NoRows, Rows
<1> QED
  BY <1>1, <1>2, <1>3, <1>4 DEF AdapterRequest

LEMMA CallKeepsTypes ==
  ASSUME SessionTypeOK, ConversationInv, Called
  PROVE  SessionTypeOK'
<1>1. PICK S : given \in Seq(S)
  BY DEF ConversationInv
<1>2. Len(given) \in Nat
  BY <1>1
<1>3. Len(given') <= Len(given) + 1
  <2>1. ASSUME NEW answer, given' = Append(given, answer) PROVE Len(given') = Len(given) + 1
    <3>1. given \in Seq(S \cup {answer})
      BY <1>1
    <3> QED
      BY <2>1, <3>1
  <2> QED
    BY <1>2, <2>1 DEF Called
<1>4. /\ requests < MaxRequests /\ requests' = requests + 1
      /\ UNCHANGED <<target, configured, disk, edits>>
  BY DEF Called, Request
<1>5. Len(given') <= requests'
  BY <1>2, <1>3, <1>4, RequestsAssumption DEF SessionTypeOK
<1> QED
  BY <1>4, <1>5, RequestsAssumption DEF SessionTypeOK, Called

LEMMA SessionStep ==
  ASSUME SessionTypeOK, ConversationInv, SurfaceNext
  PROVE  SessionTypeOK'
<1> USE RequestsAssumption, EditsAssumption
<1>1. ASSUME NEW ok, Created(ok) PROVE SessionTypeOK'
  BY <1>1 DEF Created, SessionTypeOK
<1>2. ASSUME NEW healthy, Preflighted(healthy) PROVE SessionTypeOK'
  BY <1>2 DEF Preflighted, SessionTypeOK
<1>3. CASE Create
  BY <1>1, <1>3 DEF Create, SkillCreated, OkfCreated, OssieCreated, MetricFlowCreated,
     DdlCreated, BlankCreated
<1>4. CASE Preflight
  BY <1>2, <1>4 DEF Preflight, SkillPreflight, OkfPreflight, OssiePreflight,
     MetricFlowPreflight, PreflightWithoutAdapter
<1>5. CASE AdapterRequest
  BY <1>5, AdaptersAreCalled, CallKeepsTypes
<1>6. ASSUME NEW call, NEW outcome, HarnessRequest(call, outcome) PROVE SessionTypeOK'
  <2>1. Called
    BY <1>6 DEF HarnessRequest, Called
  <2> QED
    BY <2>1, CallKeepsTypes
<1>7. ASSUME Closed PROVE SessionTypeOK'
  BY <1>7 DEF Closed, SessionTypeOK
<1>8. CASE Close
  BY <1>7, <1>8 DEF Close, OssieClosed, MetricFlowClosed
<1>9. CASE RequestOutsideAllowlist
  <2>1. PICK S : given \in Seq(S)
    BY DEF ConversationInv
  <2>2. Len(given) \in Nat
    BY <2>1
  <2> QED
    BY <1>9, <2>2 DEF RequestOutsideAllowlist, SessionTypeOK
<1>10. CASE EndConversation \/ Edit
  BY <1>10 DEF EndConversation, Edit, SessionTypeOK
<1> QED
  BY <1>3, <1>4, <1>5, <1>6, <1>8, <1>9, <1>10 DEF SurfaceNext

LEMMA AdaptersStep ==
  ASSUME AdaptersTypeOK, SurfaceNext
  PROVE  AdaptersTypeOK'
<1>1. activated' \in BOOLEAN
  BY DEF AdaptersTypeOK, SurfaceNext, Create, Preflight, AdapterRequest, HarnessRequest,
     Close, adapterVars, skillVars, SkillCreated, SkillPreflight, SkillRequest, Activate,
     ActivatedOnceRead, ReadInstruction, ReadReference, Readable
<1>2. pendingQuery' \in Queries \cup {"none"}
  BY DEF AdaptersTypeOK, SurfaceNext, Create, Preflight, AdapterRequest, HarnessRequest,
     Close, adapterVars, OkfCreated, OkfPreflight, OkfRequest, ListFiles, ReadFile,
     FollowLink, SearchText, Pending
<1>3. ossieReady' \in BOOLEAN
  BY DEF AdaptersTypeOK, SurfaceNext, Create, Preflight, AdapterRequest, HarnessRequest,
     Close, adapterVars, ossieVars, OssieCreated, OssiePreflight, OssieRequest,
     InspectModel, ReadNativeYaml, OssieClosed, Validates, ReferencesHold
<1>4. mfReady' \in BOOLEAN
  BY DEF AdaptersTypeOK, SurfaceNext, Create, Preflight, AdapterRequest, HarnessRequest,
     Close, adapterVars, mfVars, MetricFlowCreated, MetricFlowPreflight,
     MetricFlowRequest, Discover, QueryRefused, QueryUnanswered, QueryAnswered,
     MetricFlowClosed, PreflightSucceeds
<1> QED
  BY <1>1, <1>2, <1>3, <1>4 DEF AdaptersTypeOK

\* No query is started without a call.
LEMMA AskedStep ==
  ASSUME SessionTypeOK, asked \in 0 .. requests, SurfaceNext
  PROVE  asked' \in 0 .. requests'
<1>1. CASE UNCHANGED asked
  <2>1. requests' \in {requests, requests + 1}
    BY AdaptersAreCalled DEF SurfaceNext, Create, SkillCreated, OkfCreated, OssieCreated,
       MetricFlowCreated, DdlCreated, BlankCreated, Created, Preflight, SkillPreflight,
       OkfPreflight, OssiePreflight, MetricFlowPreflight, PreflightWithoutAdapter,
       Preflighted, Called, Request, HarnessRequest, RequestOutsideAllowlist,
       EndConversation, Edit, Close, OssieClosed, MetricFlowClosed, Closed
  <2> QED
    BY <1>1, <2>1, RequestsAssumption DEF SessionTypeOK
<1>2. CASE QueryUnanswered \/ QueryAnswered
  BY <1>2, RequestsAssumption DEF QueryUnanswered, QueryAnswered, Request, SessionTypeOK
<1>3. UNCHANGED asked \/ QueryUnanswered \/ QueryAnswered
  BY DEF SurfaceNext, Create, Preflight, AdapterRequest, HarnessRequest, Close,
     adapterVars, mfVars, MetricFlowCreated, MetricFlowPreflight, MetricFlowRequest,
     Discover, QueryRefused, MetricFlowClosed
<1> QED
  BY <1>1, <1>2, <1>3

\* A session stays within its calls and its edits, gives no more answers than it
\* has calls, starts no query without one, and keeps its files under numbers it
\* has given out.
THEOREM SurfaceTypeCorrect == SurfaceSpec => []SurfaceTypeOK
<1> DEFINE Typed == SessionTypeOK /\ AdaptersTypeOK /\ asked \in 0 .. requests
<1>1. SurfaceInit => Typed
  <2>1. SurfaceInit => SessionTypeOK
    BY RequestsAssumption, EditsAssumption DEF SurfaceInit, SessionInit, SessionTypeOK
  <2>2. SurfaceInit => AdaptersTypeOK
    BY DEF SurfaceInit, SkillInit, OkfInit, OssieInit, MetricFlowInit, AdaptersTypeOK
  <2>3. SurfaceInit => asked \in 0 .. requests
    BY DEF SurfaceInit, SessionInit, MetricFlowInit
  <2> QED
    BY <2>1, <2>2, <2>3
<1>2. Typed /\ ConversationInv /\ [SurfaceNext]_surfaceVars => Typed'
  <2>1. UNCHANGED surfaceVars /\ Typed => Typed'
    BY DEF surfaceVars, sessionVars, adapterVars, skillVars, ossieVars, mfVars,
       SessionTypeOK, AdaptersTypeOK
  <2> QED
    BY <2>1, SessionStep, AdaptersStep, AskedStep
<1>3. Typed /\ EngineInv => SurfaceTypeOK
  BY DEF SessionTypeOK, AdaptersTypeOK, EngineInv, SurfaceTypeOK
<1> QED
  BY <1>1, <1>2, <1>3, Conversations, Engines, PTL DEF SurfaceSpec

-----------------------------------------------------------------------------
(* Induction *)

\* Induction over the naturals, as a fact about sets.
LEMMA SetInduction ==
  ASSUME NEW S, S \subseteq Nat, 0 \in S, \A n \in S : n + 1 \in S
  PROVE  S = Nat
<1> DEFINE R == { ss \in Nat \X Nat : ss[1] < ss[2] }
           T == Nat \ S
<1>1. IsWellFoundedOn(R, Nat)
  BY NatLessThanWellFounded DEF OpToRel
<1>2. SUFFICES ASSUME T # {} PROVE FALSE
  OBVIOUS
<1>3. PICK x \in T : \A y \in T : <<y, x>> \notin R
  <2> HIDE DEF R
  <2> QED
    BY <1>1, <1>2, WFMin
<1>4. x # 0 /\ x - 1 \in Nat /\ x - 1 < x
  OBVIOUS
<1>5. x - 1 \in T
  BY <1>4
<1> QED
  BY <1>3, <1>4, <1>5

-----------------------------------------------------------------------------
(* Sequences laid end to end *)

\* No element of T comes twice.
Single(list, T) ==
  \A i, j \in DOMAIN list : list[i] = list[j] /\ list[i] \in T => i = j

LEMMA Joint ==
  ASSUME NEW S, NEW s \in Seq(S), NEW t \in Seq(S)
  PROVE  /\ s \o t \in Seq(S)
         /\ Elements(s \o t) = Elements(s) \cup Elements(t)
<1>1. /\ s \o t \in Seq(S) /\ Len(s) \in Nat /\ Len(t) \in Nat
      /\ DOMAIN s = 1 .. Len(s) /\ DOMAIN t = 1 .. Len(t)
      /\ DOMAIN (s \o t) = 1 .. Len(s) + Len(t)
      /\ \A i \in 1 .. Len(s) : (s \o t)[i] = s[i]
      /\ \A i \in 1 .. Len(t) : (s \o t)[Len(s) + i] = t[i]
      /\ \A i \in 1 .. Len(s) + Len(t) :
           i \notin 1 .. Len(s) => i - Len(s) \in 1 .. Len(t) /\ (s \o t)[i] = t[i - Len(s)]
  OBVIOUS
<1> DEFINE st == s \o t
<1> HIDE DEF st
<1>2. Elements(st) \subseteq Elements(s) \cup Elements(t)
  BY <1>1 DEF Elements, st
<1>3. Elements(s) \subseteq Elements(st)
  BY <1>1 DEF Elements, st
<1>4. ASSUME NEW i \in 1 .. Len(t) PROVE t[i] \in Elements(st)
  <2>1. Len(s) + i \in 1 .. Len(s) + Len(t)
    BY <1>1
  <2> QED
    BY <1>1, <2>1 DEF Elements, st
<1> QED
  BY <1>1, <1>2, <1>3, <1>4 DEF Elements, st

LEMMA JointSingle ==
  ASSUME NEW S, NEW s \in Seq(S), NEW t \in Seq(S), NEW T,
         Single(s, T), Single(t, T), Elements(s) \cap Elements(t) \cap T = {}
  PROVE  Single(s \o t, T)
<1> DEFINE st == s \o t
<1>1. /\ Len(s) \in Nat /\ Len(t) \in Nat
      /\ DOMAIN s = 1 .. Len(s) /\ DOMAIN t = 1 .. Len(t)
      /\ DOMAIN st = 1 .. Len(s) + Len(t)
      /\ \A i \in 1 .. Len(s) : st[i] = s[i]
      /\ \A i \in 1 .. Len(s) + Len(t) :
           i \notin 1 .. Len(s) => i - Len(s) \in 1 .. Len(t) /\ st[i] = t[i - Len(s)]
  OBVIOUS
<1> HIDE DEF st
<1> SUFFICES ASSUME NEW i \in DOMAIN st, NEW j \in DOMAIN st, st[i] = st[j], st[i] \in T
             PROVE  i = j
  BY DEF Single, st
<1>2. CASE i \in DOMAIN s /\ j \in DOMAIN s
  BY <1>1, <1>2 DEF Single
<1>3. CASE i \notin DOMAIN s /\ j \notin DOMAIN s
  <2>1. i - Len(s) = j - Len(s)
    BY <1>1, <1>3 DEF Single
  <2> QED
    BY <1>1, <2>1
<1>4. CASE i \in DOMAIN s /\ j \notin DOMAIN s
  BY <1>1, <1>4 DEF Elements
<1>5. CASE i \notin DOMAIN s /\ j \in DOMAIN s
  BY <1>1, <1>5 DEF Elements
<1> QED
  BY <1>2, <1>3, <1>4, <1>5

\* What the first n sequences make, step by step.
Flattenings(S, seqs, n) ==
  { f \in [1 .. n -> Seq(S)] :
      /\ f[1] = seqs[1]
      /\ \A i \in 2 .. n : f[i] = f[i - 1] \o seqs[i] }

LEMMA FlatteningsExist ==
  ASSUME NEW S, NEW seqs \in Seq(Seq(S))
  PROVE  \A n \in 1 .. Len(seqs) : Flattenings(S, seqs, n) # {}
<1> DEFINE G == { n \in Nat : n + 1 <= Len(seqs) => Flattenings(S, seqs, n + 1) # {} }
<1>1. 0 \in G
  <2> SUFFICES ASSUME 1 <= Len(seqs) PROVE Flattenings(S, seqs, 1) # {}
    OBVIOUS
  <2>1. seqs[1] \in Seq(S)
    OBVIOUS
  <2>2. [i \in 1 .. 1 |-> seqs[1]] \in Flattenings(S, seqs, 1)
    BY <2>1 DEF Flattenings
  <2> QED
    BY <2>2
<1>2. ASSUME NEW n \in G PROVE n + 1 \in G
  <2> SUFFICES ASSUME n + 2 <= Len(seqs) PROVE Flattenings(S, seqs, n + 2) # {}
    OBVIOUS
  <2> DEFINE m == n + 1
  <2>1. /\ m \in Nat /\ m >= 1 /\ m + 1 = n + 2 /\ m + 1 <= Len(seqs)
        /\ Flattenings(S, seqs, m) # {} /\ seqs[m + 1] \in Seq(S)
    OBVIOUS
  <2> HIDE DEF m
  <2>2. PICK f \in Flattenings(S, seqs, m) : TRUE
    BY <2>1
  <2>3. f \in [1 .. m -> Seq(S)] /\ f[1] = seqs[1] /\ \A i \in 2 .. m : f[i] = f[i - 1] \o seqs[i]
    BY <2>2 DEF Flattenings
  <2> DEFINE h == [i \in 1 .. m + 1 |-> IF i <= m THEN f[i] ELSE f[m] \o seqs[m + 1]]
  <2>4. f[m] \in Seq(S) /\ f[m] \o seqs[m + 1] \in Seq(S)
    BY <2>1, <2>3
  <2>5. h \in [1 .. m + 1 -> Seq(S)]
    BY <2>1, <2>3, <2>4
  <2>6. h[1] = seqs[1]
    BY <2>1, <2>3
  <2>7. \A i \in 2 .. m + 1 : h[i] = h[i - 1] \o seqs[i]
    <3> SUFFICES ASSUME NEW i \in 2 .. m + 1 PROVE h[i] = h[i - 1] \o seqs[i]
      OBVIOUS
    <3>1. /\ i \in Nat /\ i - 1 \in 1 .. m /\ i \in 1 .. m + 1
          /\ i \in 2 .. m \/ (i = m + 1 /\ ~ (i <= m) /\ i - 1 = m)
      BY <2>1
    <3>2. /\ h[i - 1] = f[i - 1]
          /\ h[i] = IF i <= m THEN f[i] ELSE f[m] \o seqs[m + 1]
      BY <2>1, <3>1
    <3> HIDE DEF h
    <3>3. CASE i \in 2 .. m
      <4>1. i <= m
        BY <2>1, <3>3
      <4> QED
        BY <2>3, <3>2, <3>3, <4>1
    <3>4. CASE i = m + 1 /\ ~ (i <= m) /\ i - 1 = m
      BY <3>2, <3>4
    <3> QED
      BY <3>1, <3>3, <3>4
  <2>8. h \in Flattenings(S, seqs, m + 1)
    BY <2>5, <2>6, <2>7 DEF Flattenings
  <2> QED
    BY <2>1, <2>8
<1> HIDE DEF G
<1>3. G = Nat
  BY <1>1, <1>2, SetInduction DEF G
<1> SUFFICES ASSUME NEW n \in 1 .. Len(seqs) PROVE Flattenings(S, seqs, n) # {}
  OBVIOUS
<1>4. n - 1 \in G /\ (n - 1) + 1 = n
  BY <1>3
<1> QED
  BY <1>4 DEF G

LEMMA FlattenSeqIsFlattening ==
  ASSUME NEW S, NEW seqs \in Seq(Seq(S)), Len(seqs) # 0
  PROVE  \E f \in Flattenings(S, seqs, Len(seqs)) : FlattenSeq(seqs) = f[Len(seqs)]
<1> DEFINE n == Len(seqs)
           E(f) == [i \in 1 .. n |-> IF i = 1 THEN seqs[i] ELSE f[i - 1] \o seqs[i]]
           c == CHOOSE f : f = E(f)
<1>1. /\ n \in Nat /\ n >= 1 /\ 1 \in 1 .. n
      /\ \A i \in 1 .. n : i = 1 \/ i \in 2 .. n
      /\ \A i \in 2 .. n : i \in 1 .. n /\ i # 1
  OBVIOUS
<1>2. FlattenSeq(seqs) = c[n]
  BY DEF FlattenSeq
<1>3. PICK f \in Flattenings(S, seqs, n) : TRUE
  BY <1>1, FlatteningsExist
<1>4. f = E(f)
  <2>1. f = [i \in 1 .. n |-> f[i]]
    BY <1>3 DEF Flattenings
  <2> HIDE DEF n
  <2>2. \A i \in 1 .. n : f[i] = IF i = 1 THEN seqs[i] ELSE f[i - 1] \o seqs[i]
    BY <1>1, <1>3 DEF Flattenings
  <2> QED
    BY <2>1, <2>2
<1>5. c = E(c)
  <2> HIDE DEF E
  <2> QED
    BY <1>4
<1>6. /\ DOMAIN c = 1 .. n
      /\ \A i \in 1 .. n : c[i] = IF i = 1 THEN seqs[i] ELSE c[i - 1] \o seqs[i]
      /\ c = [i \in 1 .. n |-> c[i]]
  <2> HIDE DEF c, n
  <2> QED
    BY <1>5
<1> HIDE DEF c
<1> DEFINE G == { k \in Nat : k + 1 <= n => c[k + 1] \in Seq(S) }
<1>7. 0 \in G
  <2>1. c[1] = seqs[1]
    <3> HIDE DEF n
    <3> QED
      BY <1>1, <1>6
  <2>2. seqs[1] \in Seq(S)
    BY <1>1
  <2> QED
    BY <2>1, <2>2
<1>8. ASSUME NEW k \in G PROVE k + 1 \in G
  <2> SUFFICES ASSUME k + 2 <= n PROVE c[k + 2] \in Seq(S)
    OBVIOUS
  <2>1. k + 2 \in 1 .. n /\ k + 2 # 1 /\ (k + 2) - 1 = k + 1 /\ k + 1 <= n
    BY <1>1
  <2>2. c[k + 1] \in Seq(S) /\ seqs[k + 2] \in Seq(S)
    BY <2>1
  <2>3. c[k + 2] = c[k + 1] \o seqs[k + 2]
    BY <1>6, <2>1
  <2> QED
    BY <2>2, <2>3
<1> HIDE DEF G
<1>9. G = Nat
  BY <1>7, <1>8, SetInduction DEF G
<1>10. \A i \in 1 .. n : c[i] \in Seq(S)
  <2> SUFFICES ASSUME NEW i \in 1 .. n PROVE c[i] \in Seq(S)
    OBVIOUS
  <2>1. i - 1 \in G /\ (i - 1) + 1 = i
    BY <1>1, <1>9
  <2> QED
    BY <1>1, <2>1 DEF G
<1>11. c \in Flattenings(S, seqs, n)
  <2>1. c \in [1 .. n -> Seq(S)]
    BY <1>6, <1>10
  <2> HIDE DEF n
  <2>2. c[1] = seqs[1] /\ \A i \in 2 .. n : c[i] = c[i - 1] \o seqs[i]
    BY <1>1, <1>6
  <2> QED
    BY <2>1, <2>2 DEF Flattenings
<1> QED
  BY <1>2, <1>11

\* What FlattenSeq makes of sequences that share no element of T.
LEMMA Flattened ==
  ASSUME NEW S, NEW seqs \in Seq(Seq(S)), NEW T,
         \A i \in DOMAIN seqs : Single(seqs[i], T),
         \A i, j \in DOMAIN seqs :
           i # j => Elements(seqs[i]) \cap Elements(seqs[j]) \cap T = {}
  PROVE  /\ FlattenSeq(seqs) \in Seq(S)
         /\ Elements(FlattenSeq(seqs)) = UNION { Elements(seqs[i]) : i \in DOMAIN seqs }
         /\ Single(FlattenSeq(seqs), T)
<1> DEFINE n == Len(seqs)
<1>1. n \in Nat /\ DOMAIN seqs = 1 .. n /\ \A i \in 1 .. n : seqs[i] \in Seq(S)
  OBVIOUS
<1>2. CASE n = 0
  <2>1. seqs = <<>> /\ FlattenSeq(seqs) = <<>> /\ DOMAIN seqs = {}
    BY <1>1, <1>2 DEF FlattenSeq
  <2>2. Elements(<<>>) = {} /\ Single(<<>>, T) /\ <<>> \in Seq(S)
    BY DEF Elements, Single
  <2> QED
    BY <2>1, <2>2
<1>3. CASE n # 0
  <2>1. PICK f \in Flattenings(S, seqs, n) : FlattenSeq(seqs) = f[n]
    BY <1>1, <1>3, FlattenSeqIsFlattening
  <2>2. /\ \A i \in 1 .. n : f[i] \in Seq(S)
        /\ f[1] = seqs[1]
        /\ \A i \in 2 .. n : f[i] = f[i - 1] \o seqs[i]
    BY <1>1, <2>1 DEF Flattenings
  <2> DEFINE Upto(k) == UNION { Elements(seqs[i]) : i \in 1 .. k }
             G == { k \in Nat : k + 1 <= n =>
                      Elements(f[k + 1]) = Upto(k + 1) /\ Single(f[k + 1], T) }
  <2> HIDE DEF n
  <2>3. 0 \in G
    <3>1. Upto(0 + 1) = Elements(seqs[1])
      OBVIOUS
    <3> HIDE DEF Upto
    <3> QED
      BY <1>1, <1>3, <2>2, <3>1
  <2>4. ASSUME NEW k \in G PROVE k + 1 \in G
    <3> SUFFICES ASSUME k + 2 <= n
                 PROVE  Elements(f[k + 2]) = Upto(k + 2) /\ Single(f[k + 2], T)
      OBVIOUS
    <3>1. /\ k + 1 \in 1 .. n /\ k + 2 \in 1 .. n /\ k + 2 \in 2 .. n
          /\ (k + 2) - 1 = k + 1
          /\ \A i \in 1 .. k + 1 : i \in 1 .. n /\ i # k + 2
      BY <1>1
    <3>2. Upto(k + 2) = Upto(k + 1) \cup Elements(seqs[k + 2])
      <4>1. 1 .. k + 2 = (1 .. k + 1) \cup {k + 2}
        OBVIOUS
      <4> QED
        BY <4>1
    <3>3. Upto(k + 1) \cap Elements(seqs[k + 2]) \cap T = {}
      BY <1>1, <3>1
    <3> HIDE DEF Upto
    <3>4. Elements(f[k + 1]) = Upto(k + 1) /\ Single(f[k + 1], T)
      BY <1>1, <3>1
    <3>5. f[k + 2] = f[k + 1] \o seqs[k + 2]
      BY <2>2, <3>1
    <3>6. f[k + 1] \in Seq(S) /\ seqs[k + 2] \in Seq(S) /\ Single(seqs[k + 2], T)
      BY <1>1, <2>2, <3>1
    <3> DEFINE s == f[k + 1]
               t == seqs[k + 2]
    <3>7. Elements(s \o t) = Elements(s) \cup Elements(t)
      BY <3>6, Joint
    <3>8. Single(s \o t, T)
      <4>1. Elements(s) \cap Elements(t) \cap T = {} /\ Single(s, T)
        BY <3>3, <3>4
      <4>2. s \in Seq(S) /\ t \in Seq(S) /\ Single(t, T)
        BY <3>6
      <4> HIDE DEF s, t
      <4> QED
        BY <4>1, <4>2, JointSingle
    <3> QED
      BY <3>2, <3>4, <3>5, <3>7, <3>8
  <2> HIDE DEF G
  <2>5. G = Nat
    BY <2>3, <2>4, SetInduction DEF G
  <2>6. n - 1 \in G /\ (n - 1) + 1 = n
    BY <1>1, <1>3, <2>5
  <2>7. Elements(f[n]) = Upto(n) /\ Single(f[n], T)
    BY <1>1, <2>6 DEF G
  <2> QED
    BY <1>1, <1>3, <2>1, <2>2, <2>7
<1> QED
  BY <1>2, <1>3

-----------------------------------------------------------------------------
(* The lines of a document *)

\* How many names the path of a line has.
Depth ==
  [semantic_model |-> 1, datasets |-> 1, dataset |-> 2, fields |-> 2, field |-> 3,
   relationships |-> 1, relationship |-> 2, metrics |-> 1, metric |-> 2]

Lines ==
  { line \in [kind : DOMAIN Depth, path : Seq(Name)] : Len(line.path) = Depth[line.kind] }

\* The lines an object starts in.
ObjectLines == { line \in Lines : line.kind \in Kinds }

LEMMA LineTyped ==
  ASSUME NEW kind \in DOMAIN Depth, NEW path \in Seq(Name), Len(path) = Depth[kind]
  PROVE  Line(kind, path) \in Lines
BY DEF Line, Lines

LEMMA ListedLines ==
  ASSUME NEW key \in DOMAIN Depth, NEW kind \in DOMAIN Depth, key # kind,
         NEW path \in Seq(Name), Len(path) = Depth[key], Len(path) + 1 = Depth[kind],
         NEW R, \A x \in R : x.name \in Name, NEW list \in Seq(R)
  PROVE  LET listed == Listed(key, kind, path, list)
         IN  /\ listed \in Seq(Lines)
             /\ \A line \in Elements(listed) :
                  \/ line = Line(key, path)
                  \/ \E name \in Names(list) : line = Line(kind, Append(path, name))
             /\ \A name \in Names(list) :
                  Line(kind, Append(path, name)) \in Elements(listed)
             /\ NamesDiffer(list) => Single(listed, ObjectLines)
<1> DEFINE listed == Listed(key, kind, path, list)
           rest == [i \in DOMAIN list |-> Line(kind, Append(path, list[i].name))]
           head == <<Line(key, path)>>
<1>1. CASE list = <<>>
  <2>1. listed = <<>> /\ Names(list) = {} /\ Elements(<<>>) = {}
    BY <1>1 DEF Listed, Names, Elements
  <2>2. <<>> \in Seq(Lines) /\ Single(<<>>, ObjectLines)
    BY DEF Single
  <2> QED
    BY <2>1, <2>2
<1>2. CASE list # <<>>
  <2>1. listed = head \o rest
    BY <1>2 DEF Listed
  <2>2. /\ DOMAIN list = 1 .. Len(list) /\ Len(list) \in Nat
        /\ \A i \in DOMAIN list : list[i].name \in Name
    OBVIOUS
  <2>3. \A name \in Name :
          Append(path, name) \in Seq(Name) /\ Len(Append(path, name)) = Depth[kind]
    OBVIOUS
  <2>4. \A name \in Name : Line(kind, Append(path, name)) \in Lines
    BY <2>3, LineTyped
  <2>5. rest \in Seq(Lines) /\ head \in Seq(Lines)
    <3>1. rest \in [1 .. Len(list) -> Lines]
      BY <2>2, <2>4
    <3>2. Line(key, path) \in Lines
      BY LineTyped
    <3> HIDE DEF rest
    <3> QED
      BY <2>2, <3>1, <3>2
  <2>6. Elements(head) = {Line(key, path)}
    BY DEF Elements
  <2>7. Elements(rest) = { Line(kind, Append(path, name)) : name \in Names(list) }
    BY DEF Elements, Names
  <2>8. Elements(listed) = Elements(head) \cup Elements(rest) /\ listed \in Seq(Lines)
    <3> HIDE DEF head, rest
    <3> QED
      BY <2>1, <2>5, Joint
  <2>9. ASSUME NamesDiffer(list) PROVE Single(listed, ObjectLines)
    <3>1. Single(head, ObjectLines)
      BY DEF Single
    <3>2. Single(rest, ObjectLines)
      <4> SUFFICES ASSUME NEW i \in DOMAIN list, NEW j \in DOMAIN list, rest[i] = rest[j]
                   PROVE  i = j
        BY DEF Single
      <4>1. Append(path, list[i].name) = Append(path, list[j].name)
        BY DEF Line
      <4>2. list[i].name = list[j].name
        <5>1. list[i].name \in Name /\ list[j].name \in Name
          BY <2>2
        <5>2. \A name \in Name : Append(path, name)[Len(path) + 1] = name
          OBVIOUS
        <5> QED
          BY <4>1, <5>1, <5>2
      <4> QED
        BY <2>9, <4>2 DEF NamesDiffer
    <3>3. Elements(head) \cap Elements(rest) \cap ObjectLines = {}
      BY <2>6, <2>7 DEF Line
    <3> HIDE DEF head, rest
    <3> QED
      BY <2>1, <2>5, <3>1, <3>2, <3>3, JointSingle
  <2> HIDE DEF listed, head, rest
  <2> QED
    BY <2>6, <2>7, <2>8, <2>9 DEF listed
<1> QED
  BY <1>1, <1>2

LEMMA AppendToPair ==
  ASSUME NEW S, NEW x \in S, NEW y \in S, NEW z \in S
  PROVE  Append(<<x, y>>, z) = <<x, y, z>>
<1> DEFINE s == Append(<<x, y>>, z)
           t == <<x, y, z>>
<1>1. s \in Seq(S) /\ t \in Seq(S) /\ Len(s) = 3 /\ Len(t) = 3
  OBVIOUS
<1>2. s[1] = x /\ s[2] = y /\ s[3] = z /\ t[1] = x /\ t[2] = y /\ t[3] = z
  OBVIOUS
<1> HIDE DEF s, t
<1>3. \A i \in 1 .. 3 : s[i] = t[i]
  BY <1>2
<1>4. s = t
  BY <1>1, <1>3
<1> QED
  BY <1>4 DEF s, t

LEMMA DatasetText ==
  ASSUME NEW model, model.name \in Name, NEW dataset \in Datasets,
         NamesDiffer(dataset.fields)
  PROVE  LET lines == DatasetLines(model, dataset)
         IN  /\ lines \in Seq(Lines)
             /\ \A line \in Elements(lines) :
                  /\ line.kind \in {"dataset", "fields", "field"}
                  /\ line.path[1] = model.name /\ line.path[2] = dataset.name
             /\ \A name \in Names(dataset.fields) :
                  Line("field", <<model.name, dataset.name, name>>) \in Elements(lines)
             /\ Single(lines, ObjectLines)
<1> DEFINE path == <<model.name, dataset.name>>
           head == <<Line("dataset", path)>>
           rest == Listed("fields", "field", path, dataset.fields)
           lines == DatasetLines(model, dataset)
<1>1. /\ dataset.name \in Name /\ dataset.fields \in Seq(Fields)
      /\ \A x \in Fields : x.name \in Name
  BY DEF Datasets, Fields
<1>2. path \in Seq(Name) /\ Len(path) = 2 /\ path[1] = model.name /\ path[2] = dataset.name
  BY <1>1
<1>3. \A name \in Name :
        /\ Append(path, name) = <<model.name, dataset.name, name>>
        /\ Append(path, name)[1] = model.name /\ Append(path, name)[2] = dataset.name
  <2> SUFFICES ASSUME NEW name \in Name
               PROVE  /\ Append(path, name) = <<model.name, dataset.name, name>>
                      /\ Append(path, name)[1] = model.name
                      /\ Append(path, name)[2] = dataset.name
    OBVIOUS
  <2>1. Append(path, name) = <<model.name, dataset.name, name>>
    BY <1>1, AppendToPair
  <2> HIDE DEF path
  <2> QED
    BY <2>1
<1>4. Names(dataset.fields) \subseteq Name
  BY <1>1 DEF Names, Elements
<1>5. lines = head \o rest
  BY DEF DatasetLines
<1> HIDE DEF path
<1>6. /\ rest \in Seq(Lines)
      /\ \A line \in Elements(rest) :
           \/ line = Line("fields", path)
           \/ \E name \in Names(dataset.fields) : line = Line("field", Append(path, name))
      /\ \A name \in Names(dataset.fields) : Line("field", Append(path, name)) \in Elements(rest)
      /\ Single(rest, ObjectLines)
  <2>1. /\ "fields" \in DOMAIN Depth /\ "field" \in DOMAIN Depth
        /\ Len(path) = Depth["fields"] /\ Len(path) + 1 = Depth["field"]
        /\ "fields" # "field"
    BY <1>2 DEF Depth
  <2>2. /\ dataset.fields \in Seq(Fields) /\ path \in Seq(Name)
        /\ NamesDiffer(dataset.fields) /\ \A x \in Fields : x.name \in Name
    BY <1>1, <1>2
  <2> DEFINE list == dataset.fields
  <2>3. list \in Seq(Fields) /\ NamesDiffer(list)
    BY <2>2
  <2> HIDE DEF list
  <2>4. LET listed == Listed("fields", "field", path, list)
        IN  /\ listed \in Seq(Lines)
            /\ \A line \in Elements(listed) :
                 \/ line = Line("fields", path)
                 \/ \E name \in Names(list) : line = Line("field", Append(path, name))
            /\ \A name \in Names(list) : Line("field", Append(path, name)) \in Elements(listed)
            /\ Single(listed, ObjectLines)
    BY <2>1, <2>2, <2>3, ListedLines
  <2> QED
    BY <2>4 DEF rest, list
<1>7. Line("dataset", path) \in Lines
  BY <1>2, LineTyped DEF Depth
<1>8. head \in Seq(Lines) /\ Elements(head) = {Line("dataset", path)} /\ Single(head, ObjectLines)
  BY <1>7 DEF Elements, Single
<1>9. Elements(head) \cap Elements(rest) \cap ObjectLines = {}
  BY <1>6, <1>8 DEF Line
<1> HIDE DEF head, rest
<1>10. /\ lines \in Seq(Lines) /\ Elements(lines) = Elements(head) \cup Elements(rest)
       /\ Single(lines, ObjectLines)
  BY <1>5, <1>6, <1>8, <1>9, Joint, JointSingle
<1> HIDE DEF lines
<1>11. ASSUME NEW line \in Elements(lines)
       PROVE  /\ line.kind \in {"dataset", "fields", "field"}
              /\ line.path[1] = model.name /\ line.path[2] = dataset.name
  <2>1. CASE line = Line("dataset", path) \/ line = Line("fields", path)
    BY <1>2, <2>1 DEF Line
  <2>2. ASSUME NEW name \in Names(dataset.fields), line = Line("field", Append(path, name))
        PROVE  /\ line.kind \in {"dataset", "fields", "field"}
               /\ line.path[1] = model.name /\ line.path[2] = dataset.name
    BY <1>3, <1>4, <2>2 DEF Line
  <2> QED
    BY <1>6, <1>8, <1>10, <2>1, <2>2
<1>12. ASSUME NEW name \in Names(dataset.fields)
       PROVE  Line("field", <<model.name, dataset.name, name>>) \in Elements(lines)
  BY <1>3, <1>4, <1>6, <1>10
<1> QED
  BY <1>10, <1>11, <1>12 DEF lines

LEMMA ModelText ==
  ASSUME NEW model \in Models, ModelHolds(model)
  PROVE  LET lines == ModelLines(model)
         IN  /\ lines \in Seq(Lines)
             /\ \A line \in Elements(lines) : line.path[1] = model.name
             /\ \A d \in Elements(model.datasets) : \A name \in Names(d.fields) :
                  Line("field", <<model.name, d.name, name>>) \in Elements(lines)
             /\ Single(lines, ObjectLines)
<1> DEFINE path == <<model.name>>
           head == <<Line("semantic_model", path), Line("datasets", path)>>
           parts == [i \in DOMAIN model.datasets |-> DatasetLines(model, model.datasets[i])]
           body == FlattenSeq(parts)
           joins == Listed("relationships", "relationship", path, model.relationships)
           measures == Listed("metrics", "metric", path, model.metrics)
           lines == ModelLines(model)
<1>1. /\ model.name \in Name
      /\ model.datasets \in Seq(Datasets)
      /\ model.relationships \in Seq(Relationships)
      /\ model.metrics \in Seq(Metrics)
      /\ \A x \in Datasets \cup Relationships \cup Metrics : x.name \in Name
  BY DEF Models, Datasets, Relationships, Metrics
<1>2. path \in Seq(Name) /\ Len(path) = 1 /\ path[1] = model.name
  BY <1>1
<1>3. lines = head \o body \o joins \o measures
  BY DEF ModelLines
<1>4. \A name \in Name : Append(path, name)[1] = model.name
  BY <1>1
<1> HIDE DEF path
<1>5. /\ head \in Seq(Lines)
      /\ Elements(head) = {Line("semantic_model", path), Line("datasets", path)}
      /\ Single(head, ObjectLines)
  <2>1. Line("semantic_model", path) \in Lines /\ Line("datasets", path) \in Lines
    BY <1>2, LineTyped DEF Depth
  <2>2. head \in Seq(Lines) /\ DOMAIN head = {1, 2}
    BY <2>1
  <2>3. Line("semantic_model", path) # Line("datasets", path)
    BY DEF Line
  <2> QED
    BY <2>2, <2>3 DEF Elements, Single
<1>6. /\ body \in Seq(Lines)
      /\ \A line \in Elements(body) :
           line.kind \in {"dataset", "fields", "field"} /\ line.path[1] = model.name
      /\ \A d \in Elements(model.datasets) : \A name \in Names(d.fields) :
           Line("field", <<model.name, d.name, name>>) \in Elements(body)
      /\ Single(body, ObjectLines)
  <2>1. DOMAIN model.datasets = 1 .. Len(model.datasets) /\ Len(model.datasets) \in Nat
    BY <1>1
  <2>2. ASSUME NEW i \in DOMAIN model.datasets
        PROVE  /\ parts[i] \in Seq(Lines)
               /\ \A line \in Elements(parts[i]) :
                    /\ line.kind \in {"dataset", "fields", "field"}
                    /\ line.path[1] = model.name
                    /\ line.path[2] = model.datasets[i].name
               /\ \A name \in Names(model.datasets[i].fields) :
                    Line("field", <<model.name, model.datasets[i].name, name>>)
                      \in Elements(parts[i])
               /\ Single(parts[i], ObjectLines)
    <3>1. model.datasets[i] \in Datasets /\ NamesDiffer(model.datasets[i].fields)
      BY <1>1 DEF ModelHolds, DatasetHolds, Elements
    <3>2. parts[i] = DatasetLines(model, model.datasets[i])
      OBVIOUS
    <3> HIDE DEF parts
    <3> QED
      BY <1>1, <3>1, <3>2, DatasetText
  <2>3. DOMAIN parts = DOMAIN model.datasets /\ parts \in Seq(Seq(Lines))
    <3>1. parts \in [1 .. Len(model.datasets) -> Seq(Lines)]
      BY <2>1, <2>2
    <3> HIDE DEF parts
    <3> QED
      BY <2>1, <3>1
  <2> HIDE DEF parts
  <2>4. ASSUME NEW i \in DOMAIN parts, NEW j \in DOMAIN parts, i # j
        PROVE  Elements(parts[i]) \cap Elements(parts[j]) \cap ObjectLines = {}
    <3>1. model.datasets[i].name # model.datasets[j].name
      BY <2>3, <2>4 DEF ModelHolds, NamesDiffer
    <3> QED
      BY <2>2, <2>3, <3>1
  <2>5. /\ body \in Seq(Lines) /\ Single(body, ObjectLines)
        /\ Elements(body) = UNION { Elements(parts[i]) : i \in DOMAIN parts }
    BY <2>2, <2>3, <2>4, Flattened
  <2> HIDE DEF body
  <2>6. ASSUME NEW d \in Elements(model.datasets), NEW name \in Names(d.fields)
        PROVE  Line("field", <<model.name, d.name, name>>) \in Elements(body)
    <3>1. PICK i \in DOMAIN model.datasets : d = model.datasets[i]
      BY DEF Elements
    <3> QED
      BY <2>2, <2>3, <2>5, <3>1
  <2> QED
    BY <2>2, <2>3, <2>5, <2>6
<1>7. /\ joins \in Seq(Lines)
      /\ \A line \in Elements(joins) :
           line.kind \in {"relationships", "relationship"} /\ line.path[1] = model.name
      /\ Single(joins, ObjectLines)
  <2>1. /\ "relationships" \in DOMAIN Depth /\ "relationship" \in DOMAIN Depth
        /\ Len(path) = Depth["relationships"] /\ Len(path) + 1 = Depth["relationship"]
        /\ "relationships" # "relationship"
    BY <1>2 DEF Depth
  <2>2. \A name \in Names(model.relationships) : name \in Name
    BY <1>1 DEF Names, Elements
  <2>3. /\ NamesDiffer(model.relationships)
        /\ model.relationships \in Seq(Relationships)
        /\ \A x \in Relationships : x.name \in Name
    BY <1>1 DEF ModelHolds
  <2>4. /\ joins \in Seq(Lines)
        /\ \A line \in Elements(joins) :
             \/ line = Line("relationships", path)
             \/ \E name \in Names(model.relationships) :
                  line = Line("relationship", Append(path, name))
        /\ Single(joins, ObjectLines)
    BY <1>2, <2>1, <2>3, ListedLines
  <2> HIDE DEF joins
  <2> QED
    BY <1>2, <1>4, <2>2, <2>4 DEF Line
<1>8. /\ measures \in Seq(Lines)
      /\ \A line \in Elements(measures) :
           line.kind \in {"metrics", "metric"} /\ line.path[1] = model.name
      /\ Single(measures, ObjectLines)
  <2>1. /\ "metrics" \in DOMAIN Depth /\ "metric" \in DOMAIN Depth
        /\ Len(path) = Depth["metrics"] /\ Len(path) + 1 = Depth["metric"]
        /\ "metrics" # "metric"
    BY <1>2 DEF Depth
  <2>2. \A name \in Names(model.metrics) : name \in Name
    BY <1>1 DEF Names, Elements
  <2>3. /\ NamesDiffer(model.metrics)
        /\ model.metrics \in Seq(Metrics)
        /\ \A x \in Metrics : x.name \in Name
    BY <1>1 DEF ModelHolds
  <2>4. /\ measures \in Seq(Lines)
        /\ \A line \in Elements(measures) :
             \/ line = Line("metrics", path)
             \/ \E name \in Names(model.metrics) :
                  line = Line("metric", Append(path, name))
        /\ Single(measures, ObjectLines)
    BY <1>2, <2>1, <2>3, ListedLines
  <2> HIDE DEF measures
  <2> QED
    BY <1>2, <1>4, <2>2, <2>4 DEF Line
<1> HIDE DEF head, body, joins, measures, lines
<1>9. \A line \in Elements(head) :
        line.kind \in {"semantic_model", "datasets"} /\ line.path[1] = model.name
  BY <1>2, <1>5 DEF Line
<1>10. /\ head \o body \in Seq(Lines)
       /\ Elements(head \o body) = Elements(head) \cup Elements(body)
       /\ Single(head \o body, ObjectLines)
  <2>1. Elements(head) \cap Elements(body) \cap ObjectLines = {}
    BY <1>6, <1>9
  <2> QED
    BY <1>5, <1>6, <2>1, Joint, JointSingle
<1>11. /\ head \o body \o joins \in Seq(Lines)
       /\ Elements(head \o body \o joins) = Elements(head \o body) \cup Elements(joins)
       /\ Single(head \o body \o joins, ObjectLines)
  <2>1. Elements(head \o body) \cap Elements(joins) \cap ObjectLines = {}
    BY <1>6, <1>7, <1>9, <1>10
  <2> QED
    BY <1>7, <1>10, <2>1, Joint, JointSingle
<1>12. /\ lines \in Seq(Lines)
       /\ Elements(lines) = Elements(head \o body \o joins) \cup Elements(measures)
       /\ Single(lines, ObjectLines)
  <2>1. Elements(head \o body \o joins) \cap Elements(measures) \cap ObjectLines = {}
    BY <1>6, <1>7, <1>8, <1>9, <1>10, <1>11
  <2> DEFINE most == head \o body \o joins
  <2>2. /\ most \in Seq(Lines) /\ Single(most, ObjectLines)
        /\ Elements(most) \cap Elements(measures) \cap ObjectLines = {}
        /\ lines = most \o measures
    BY <1>3, <1>11, <2>1
  <2> HIDE DEF most
  <2>3. /\ most \o measures \in Seq(Lines) /\ Single(most \o measures, ObjectLines)
        /\ Elements(most \o measures) = Elements(most) \cup Elements(measures)
    BY <1>8, <2>2, Joint, JointSingle
  <2> QED
    BY <2>2, <2>3 DEF most
<1>13. Elements(lines) = Elements(head) \cup Elements(body) \cup Elements(joins)
                           \cup Elements(measures)
  BY <1>10, <1>11, <1>12
<1>14. \A line \in Elements(lines) : line.path[1] = model.name
  BY <1>6, <1>7, <1>8, <1>9, <1>13
<1> QED
  BY <1>6, <1>12, <1>13, <1>14 DEF lines

\* Every object of a document that holds starts in a line of its own.
LEMMA DocumentText ==
  ASSUME NEW models \in Seq(Models), ReferencesHold(models)
  PROVE  /\ Text(models) \in Seq(Lines)
         /\ Single(Text(models), ObjectLines)
         /\ \A model \in Elements(models) : \A d \in Elements(model.datasets) :
              \A name \in Names(d.fields) :
                Line("field", <<model.name, d.name, name>>) \in Elements(Text(models))
<1> DEFINE parts == [i \in DOMAIN models |-> ModelLines(models[i])]
<1>1. DOMAIN models = 1 .. Len(models) /\ Len(models) \in Nat
  OBVIOUS
<1>2. ASSUME NEW i \in DOMAIN models
      PROVE  /\ parts[i] \in Seq(Lines)
             /\ \A line \in Elements(parts[i]) : line.path[1] = models[i].name
             /\ \A d \in Elements(models[i].datasets) : \A name \in Names(d.fields) :
                  Line("field", <<models[i].name, d.name, name>>) \in Elements(parts[i])
             /\ Single(parts[i], ObjectLines)
  <2>1. models[i] \in Models /\ ModelHolds(models[i])
    BY DEF ReferencesHold, Elements
  <2>2. parts[i] = ModelLines(models[i])
    OBVIOUS
  <2> HIDE DEF parts
  <2> QED
    BY <2>1, <2>2, ModelText
<1>3. DOMAIN parts = DOMAIN models /\ parts \in Seq(Seq(Lines))
  <2>1. parts \in [1 .. Len(models) -> Seq(Lines)]
    BY <1>1, <1>2
  <2> HIDE DEF parts
  <2> QED
    BY <1>1, <2>1
<1>4. Text(models) = FlattenSeq(parts)
  BY DEF Text
<1> HIDE DEF parts
<1>5. ASSUME NEW i \in DOMAIN parts, NEW j \in DOMAIN parts, i # j
      PROVE  Elements(parts[i]) \cap Elements(parts[j]) \cap ObjectLines = {}
  <2>1. models[i].name # models[j].name
    BY <1>3, <1>5 DEF ReferencesHold, NamesDiffer
  <2> QED
    BY <1>2, <1>3, <2>1
<1>6. /\ Text(models) \in Seq(Lines) /\ Single(Text(models), ObjectLines)
      /\ Elements(Text(models)) = UNION { Elements(parts[i]) : i \in DOMAIN parts }
  <2>1. \A i \in DOMAIN parts : Single(parts[i], ObjectLines)
    BY <1>2, <1>3
  <2>2. parts \in Seq(Seq(Lines))
    BY <1>3
  <2> QED
    BY <1>4, <1>5, <2>1, <2>2, Flattened
<1>7. ASSUME NEW model \in Elements(models), NEW d \in Elements(model.datasets),
             NEW name \in Names(d.fields)
      PROVE  Line("field", <<model.name, d.name, name>>) \in Elements(Text(models))
  <2>1. PICK i \in DOMAIN models : model = models[i]
    BY DEF Elements
  <2> QED
    BY <1>2, <1>3, <1>6, <2>1
<1> QED
  BY <1>6, <1>7

\* What a plain name and an id made of plain names consist of.
Tokens == STRING \cup {Slash}

PlainPath(path) == \A i \in DOMAIN path : Plain(path[i])

LEMMA OneToken ==
  ASSUME NEW S, NEW s \in Seq(S), Len(s) = 1
  PROVE  s = <<s[1]>> /\ s[1] \in S
<1>1. s = <<s[1]>>
  OBVIOUS
<1>2. s[1] \in S
  OBVIOUS
<1> QED
  BY <1>1, <1>2

LEMMA PlainName ==
  ASSUME NEW name \in Name, Plain(name)
  PROVE  /\ name \in Seq(Tokens) /\ Len(name) = 1 /\ name = <<name[1]>>
         /\ name[1] \in Tokens /\ name[1] # Blank
<1>1. name \in Seq(Tokens)
  <2>1. name \in Seq(STRING)
    BY DEF Name
  <2> QED
    BY <2>1 DEF Tokens
<1>2. Len(name) = 1 /\ name[1] # Blank
  BY DEF Plain
<1> QED
  BY <1>1, <1>2, OneToken

\* A word put behind a sequence, after another one.
LEMMA TwoWordsBehind ==
  ASSUME NEW S, NEW n \in Nat, NEW x \in Seq(S), NEW s \in Seq(S), NEW y \in Seq(S),
         Len(x) = n, Len(s) = 1, Len(y) = 1
  PROVE  /\ x \o s \o y \in Seq(S) /\ Len(x \o s \o y) = n + 2
         /\ (x \o s \o y)[n + 2] = y[1]
         /\ \A i \in 1 .. n : (x \o s \o y)[i] = x[i]
<1>1. ASSUME NEW r \in Seq(S), NEW t \in Seq(S), Len(t) = 1
      PROVE  /\ r \o t \in Seq(S) /\ Len(r \o t) = Len(r) + 1 /\ Len(r) \in Nat
             /\ (r \o t)[Len(r) + 1] = t[1]
             /\ \A i \in 1 .. Len(r) : (r \o t)[i] = r[i]
  <2>1. /\ r \o t \in Seq(S) /\ Len(r) \in Nat /\ Len(r \o t) = Len(r) + Len(t)
        /\ \A i \in 1 .. Len(t) : (r \o t)[Len(r) + i] = t[i]
    OBVIOUS
  <2>2. \A i \in 1 .. Len(r) : (r \o t)[i] = r[i]
    OBVIOUS
  <2> QED
    BY <1>1, <2>1, <2>2
<1> DEFINE xs == x \o s
<1>2. /\ xs \in Seq(S) /\ Len(xs) = n + 1
      /\ \A i \in 1 .. n : xs[i] = x[i]
  BY <1>1
<1> HIDE DEF xs
<1>3. /\ xs \o y \in Seq(S) /\ Len(xs \o y) = n + 1 + 1
      /\ (xs \o y)[n + 1 + 1] = y[1]
      /\ \A i \in 1 .. n + 1 : (xs \o y)[i] = xs[i]
  BY <1>1, <1>2
<1> QED
  BY <1>2, <1>3 DEF xs

\* The words of a path stand at the odd places of its qualified id.
LEMMA WordsJoined ==
  ASSUME NEW path \in Seq(Name), Len(path) \in 1 .. 3, PlainPath(path)
  PROVE  /\ Joined(path) \in Seq(Tokens)
         /\ Len(Joined(path)) = 2 * Len(path) - 1
         /\ \A i \in 1 .. Len(path) : Joined(path)[2 * i - 1] = path[i][1]
<1>1. ASSUME NEW i \in 1 .. Len(path)
      PROVE  /\ path[i] \in Seq(Tokens) /\ Len(path[i]) = 1
             /\ path[i][1] \in Tokens
  <2>1. path[i] \in Name /\ Plain(path[i])
    BY DEF PlainPath
  <2> QED
    BY <2>1, PlainName
<1> DEFINE slash == <<Slash>>
<1>2. slash \in Seq(Tokens) /\ Len(slash) = 1
  BY DEF Tokens
<1> HIDE DEF slash
<1>3. CASE Len(path) = 1
  BY <1>1, <1>3 DEF Joined
<1>4. CASE Len(path) = 2
  <2> DEFINE x == path[1]
             y == path[2]
  <2>1. /\ x \in Seq(Tokens) /\ Len(x) = 1 /\ y \in Seq(Tokens) /\ Len(y) = 1
    BY <1>1, <1>4
  <2>2. Joined(path) = x \o slash \o y
    BY <1>4 DEF Joined, slash
  <2> HIDE DEF x, y
  <2>3. /\ x \o slash \o y \in Seq(Tokens) /\ Len(x \o slash \o y) = 3
        /\ (x \o slash \o y)[1] = x[1] /\ (x \o slash \o y)[3] = y[1]
    <3>1. /\ x \o slash \o y \in Seq(Tokens) /\ Len(x \o slash \o y) = 1 + 2
          /\ (x \o slash \o y)[1 + 2] = y[1]
          /\ \A i \in 1 .. 1 : (x \o slash \o y)[i] = x[i]
      BY <1>2, <2>1, TwoWordsBehind
    <3> QED
      BY <3>1
  <2>4. \A i \in 1 .. 2 : i = 1 \/ i = 2
    OBVIOUS
  <2> QED
    BY <1>4, <2>2, <2>3, <2>4 DEF x, y
<1>5. CASE Len(path) = 3
  <2> DEFINE x == path[1]
             y == path[2]
             z == path[3]
  <2>1. /\ x \in Seq(Tokens) /\ Len(x) = 1 /\ y \in Seq(Tokens) /\ Len(y) = 1
        /\ z \in Seq(Tokens) /\ Len(z) = 1
    BY <1>1, <1>5
  <2>2. Joined(path) = x \o slash \o y \o slash \o z
    BY <1>5 DEF Joined, slash
  <2> HIDE DEF x, y, z
  <2> DEFINE xy == x \o slash \o y
  <2>3. xy \in Seq(Tokens) /\ Len(xy) = 3 /\ xy[1] = x[1] /\ xy[3] = y[1]
    <3>1. 1 \in Nat /\ Len(x) = 1 /\ Len(y) = 1 /\ Len(slash) = 1
          /\ x \in Seq(Tokens) /\ y \in Seq(Tokens) /\ slash \in Seq(Tokens)
      BY <1>2, <2>1
    <3> HIDE DEF xy
    <3>2. /\ x \o slash \o y \in Seq(Tokens) /\ Len(x \o slash \o y) = 1 + 2
          /\ (x \o slash \o y)[1 + 2] = y[1]
          /\ \A i \in 1 .. 1 : (x \o slash \o y)[i] = x[i]
      BY <3>1, TwoWordsBehind
    <3>3. /\ xy \in Seq(Tokens) /\ Len(xy) = 1 + 2
          /\ xy[1 + 2] = y[1]
          /\ \A i \in 1 .. 1 : xy[i] = x[i]
      BY <3>2 DEF xy
    <3> QED
      BY <3>3
  <2>4. Joined(path) = xy \o slash \o z
    BY <2>2
  <2> HIDE DEF xy
  <2> DEFINE xyz == xy \o slash \o z
  <2>5. /\ xyz \in Seq(Tokens) /\ Len(xyz) = 5
        /\ xyz[1] = x[1] /\ xyz[3] = y[1] /\ xyz[5] = z[1]
    <3>0. PICK n \in Nat : n = 3
      OBVIOUS
    <3>1. /\ Len(xy) = n /\ Len(z) = 1 /\ Len(slash) = 1
          /\ xy \in Seq(Tokens) /\ z \in Seq(Tokens) /\ slash \in Seq(Tokens)
      BY <1>2, <2>1, <2>3, <3>0
    <3> HIDE DEF xyz
    <3>2. /\ xy \o slash \o z \in Seq(Tokens) /\ Len(xy \o slash \o z) = n + 2
          /\ (xy \o slash \o z)[n + 2] = z[1]
          /\ \A i \in 1 .. n : (xy \o slash \o z)[i] = xy[i]
      BY <3>1, TwoWordsBehind
    <3>3. /\ xyz \in Seq(Tokens) /\ Len(xyz) = 3 + 2
          /\ xyz[3 + 2] = z[1]
          /\ \A i \in 1 .. 3 : xyz[i] = xy[i]
      BY <3>0, <3>2 DEF xyz
    <3> QED
      BY <2>3, <3>3
  <2>6. Joined(path) = xyz
    BY <2>4
  <2> HIDE DEF xyz
  <2>7. \A i \in 1 .. 3 : i = 1 \/ i = 2 \/ i = 3
    OBVIOUS
  <2> QED
    BY <1>5, <2>5, <2>6, <2>7 DEF x, y, z
<1> QED
  BY <1>3, <1>4, <1>5

\* An id that begins and ends with something else than a blank is looked up as it is.
LEMMA Unpadded ==
  ASSUME NEW S, NEW id \in Seq(S), Len(id) # 0, id[1] # Blank, id[Len(id)] # Blank
  PROVE  Stripped(id) = id
<1> DEFINE shown == { i \in DOMAIN id : id[i] # Blank }
<1>1. /\ Len(id) \in Nat /\ 1 \in shown /\ Len(id) \in shown
      /\ \A i \in shown : i \in Nat /\ 1 <= i /\ i <= Len(id)
  OBVIOUS
<1>2. Stripped(id) = SubSeq(id, Min(shown), Max(shown))
  BY <1>1 DEF Stripped
<1> HIDE DEF shown
<1>3. Min(shown) = 1
  <2>1. Min(shown) \in shown /\ \A y \in shown : Min(shown) =< y
    <3>1. \E x \in shown : \A y \in shown : x =< y
      BY <1>1
    <3> QED
      BY <3>1 DEF Min
  <2> QED
    BY <1>1, <2>1
<1>4. Max(shown) = Len(id)
  <2>1. Max(shown) \in shown /\ \A y \in shown : Max(shown) >= y
    <3>1. \E x \in shown : \A y \in shown : x >= y
      BY <1>1
    <3> QED
      BY <3>1 DEF Max
  <2> QED
    BY <1>1, <2>1
<1>5. SubSeq(id, 1, Len(id)) = id
  OBVIOUS
<1> QED
  BY <1>2, <1>3, <1>4, <1>5

LEMMA PlainIdsAreKept ==
  ASSUME NEW path \in Seq(Name), Len(path) \in 1 .. 3, PlainPath(path)
  PROVE  Stripped(Joined(path)) = Joined(path)
<1> DEFINE id == Joined(path)
           n == Len(path)
<1>1. n \in 1 .. 3 /\ 1 \in 1 .. n /\ n \in 1 .. n
  OBVIOUS
<1>2. /\ id \in Seq(Tokens) /\ Len(id) = 2 * n - 1
      /\ \A i \in 1 .. n : id[2 * i - 1] = path[i][1]
  BY WordsJoined
<1>3. \A i \in 1 .. n : path[i][1] # Blank
  BY PlainName DEF PlainPath
<1> HIDE DEF id, n
<1>4. id[2 * 1 - 1] # Blank /\ id[2 * n - 1] # Blank
  BY <1>1, <1>2, <1>3
<1>5. id[1] # Blank /\ id[Len(id)] # Blank /\ Len(id) # 0
  BY <1>1, <1>2, <1>4
<1>6. Stripped(id) = id
  BY <1>2, <1>5, Unpadded
<1> QED
  BY <1>6 DEF id

\* The qualified id of a path of plain names is neither the short nor the qualified
\* id of another path of as many: to equal a short id it must have a single name.
LEMMA PlainIdsDiffer ==
  ASSUME NEW p \in Seq(Name), NEW q \in Seq(Name), Len(p) \in 1 .. 3, Len(p) = Len(q),
         PlainPath(p), PlainPath(q), Joined(p) = q[Len(q)] \/ Joined(p) = Joined(q)
  PROVE  p = q
<1>1. Joined(p) = Joined(q)
  <2>1. CASE Joined(p) = q[Len(q)]
    <3>1. Len(q) \in DOMAIN q
      OBVIOUS
    <3>2. Len(Joined(p)) = 1
      BY <2>1, <3>1 DEF PlainPath, Plain
    <3>3. Len(Joined(p)) = 2 * Len(p) - 1
      BY WordsJoined
    <3>4. Len(q) = 1
      <4>1. 2 * Len(p) - 1 = 1
        BY <3>2, <3>3
      <4> DEFINE n == Len(p)
      <4>2. n \in Nat /\ Len(q) = n /\ 2 * n - 1 = 1
        BY <4>1
      <4> HIDE DEF n
      <4>3. n = 1
        BY <4>2
      <4> QED
        BY <4>2, <4>3
    <3> QED
      BY <2>1, <3>4 DEF Joined
  <2> QED
    BY <2>1
<1>2. ASSUME NEW i \in 1 .. Len(p) PROVE p[i] = q[i]
  <2>1. Joined(p)[2 * i - 1] = p[i][1]
    BY WordsJoined
  <2>2. Joined(q)[2 * i - 1] = q[i][1]
    BY WordsJoined
  <2>3. p[i] \in Name /\ Plain(p[i]) /\ q[i] \in Name /\ Plain(q[i])
    BY DEF PlainPath
  <2> QED
    BY <1>1, <2>1, <2>2, <2>3, PlainName
<1> QED
  BY <1>2

\* In a document of plain names a short id that equals a qualified one is that of an
\* object without an owner, and is its qualified id too.
LEMMA ObjectsResolve ==
  ASSUME NEW models \in Seq(Models), ReferencesHold(models), AllPlain(Text(models)),
         NEW n \in DOMAIN Text(models), Text(models)[n].kind \in Kinds
  PROVE  Resolves(models, Text(models)[n].kind, Stripped(Joined(Text(models)[n].path)))
<1> DEFINE text == Text(models)
           kind == text[n].kind
           path == text[n].path
           id   == Joined(path)
<1>1. text \in Seq(Lines) /\ Single(text, ObjectLines)
  BY DocumentText
<1>2. \A m \in DOMAIN text :
        /\ text[m] \in Lines
        /\ text[m] = [kind |-> text[m].kind, path |-> text[m].path]
        /\ text[m].path \in Seq(Name) /\ Len(text[m].path) = Depth[text[m].kind]
        /\ Len(text[m].path) \in 1 .. 3
        /\ PlainPath(text[m].path)
  <2> TAKE m \in DOMAIN text
  <2>1. text[m] \in Lines /\ text[m] \in Elements(text)
    BY <1>1 DEF Elements
  <2>2. PlainPath(text[m].path)
    BY <2>1 DEF AllPlain, PlainPath
  <2>3. \A k \in DOMAIN Depth : Depth[k] \in 1 .. 3
    BY DEF Depth
  <2> QED
    BY <2>1, <2>2, <2>3 DEF Lines
<1>3. \A m : /\ ObjectRef(text, m).kind = text[m].kind
             /\ ObjectRef(text, m).qualified = Joined(text[m].path)
             /\ ObjectRef(text, m).id = text[m].path[Len(text[m].path)]
  BY DEF ObjectRef, Last
<1>4. SourceIndex(models) = { ObjectRef(text, m) : m \in { i \in DOMAIN text : text[i].kind \in Kinds } }
  BY DEF SourceIndex
<1> HIDE DEF text
<1>5. /\ path \in Seq(Name) /\ Len(path) \in 1 .. 3 /\ PlainPath(path)
      /\ n \in DOMAIN text /\ kind \in Kinds
  BY <1>2 DEF text
<1>6. Stripped(id) = id
  BY <1>5, PlainIdsAreKept
<1>7. ASSUME NEW m \in DOMAIN text, text[m].kind = kind,
             id = ObjectRef(text, m).id \/ id = Joined(text[m].path)
      PROVE  m = n
  <2> DEFINE other == text[m].path
  <2>1. /\ other \in Seq(Name) /\ PlainPath(other) /\ Len(other) = Len(path)
    BY <1>2, <1>5, <1>7
  <2>2. id = other[Len(other)] \/ id = Joined(other)
    BY <1>3, <1>7
  <2>3. path = other
    BY <1>5, <2>1, <2>2, PlainIdsDiffer
  <2>4. text[m] = text[n]
    BY <1>2, <1>5, <1>7, <2>3
  <2>5. text[n] \in ObjectLines
    BY <1>2, <1>5 DEF ObjectLines
  <2> QED
    BY <1>1, <1>5, <2>4, <2>5 DEF Single
<1> HIDE DEF id
<1>8. Matches(models, kind, id) = {ObjectRef(text, n)}
  <2>1. ObjectRef(text, n) \in Matches(models, kind, id)
    BY <1>3, <1>4, <1>5 DEF Matches, id
  <2>2. ASSUME NEW ref \in Matches(models, kind, id) PROVE ref = ObjectRef(text, n)
    <3>1. PICK m \in DOMAIN text : ref = ObjectRef(text, m)
      BY <1>4 DEF Matches
    <3>2. text[m].kind = kind /\ (id = ref.id \/ id = Joined(text[m].path))
      BY <1>3, <3>1 DEF Matches
    <3> QED
      BY <1>7, <3>1, <3>2
  <2> QED
    BY <2>1, <2>2
<1>9. Cardinality(Matches(models, kind, id)) = 1
  BY <1>8, FS_Singleton
<1> QED
  BY <1>6, <1>9 DEF Resolves, text, id

LEMMA MaxIsOfTheSet ==
  ASSUME NEW n \in Nat, NEW S, S \subseteq 1 .. n, S # {}
  PROVE  Max(S) \in S
<1>1. SUFFICES \E k \in S : \A m \in S : k >= m
  BY DEF Max
<1>2. SUFFICES ASSUME \A k \in S : \E m \in S : m > k PROVE FALSE
  OBVIOUS
<1> DEFINE G == { k \in Nat : \A s \in S : s <= n - k }
<1>3. 0 \in G
  OBVIOUS
<1>4. ASSUME NEW k \in G PROVE k + 1 \in G
  <2>1. \A s \in S : s \in Nat /\ s <= n - k /\ s # n - k
    BY <1>2
  <2> QED
    BY <2>1
<1> HIDE DEF G
<1>5. G = Nat
  BY <1>3, <1>4, SetInduction DEF G
<1>6. \A s \in S : s <= n - n
  BY <1>5 DEF G
<1>7. PICK s \in S : s \in 1 .. n
  OBVIOUS
<1>8. s <= n - n
  BY <1>6
<1> QED
  BY <1>7, <1>8

\* An object's slice is of the document's text, whatever end mark it has.
LEMMA SlicesAreText ==
  ASSUME NEW models \in Seq(Models), ReferencesHold(models), NEW ref \in SourceIndex(models)
  PROVE  Elements(Slice(models, ref)) \subseteq Elements(Text(models))
<1> DEFINE text == Text(models)
<1>1. text \in Seq(Lines)
  BY DocumentText
<1>2. /\ Len(text) \in Nat /\ DOMAIN text = 1 .. Len(text)
  BY <1>1
<1>3. PICK n \in DOMAIN text : ref = ObjectRef(text, n)
  BY DEF SourceIndex
<1> HIDE DEF text
<1> DEFINE S == Extent(text, text[n].kind, text[n].path)
<1>4. S \subseteq 1 .. Len(text) /\ n \in S
  <2>1. text[n] = Line(text[n].kind, text[n].path)
    BY <1>1 DEF Lines, Line
  <2> QED
    BY <1>2, <2>1 DEF Extent
<1> HIDE DEF S
<1>5. Max(S) \in 1 .. Len(text) /\ n \in 1 .. Len(text)
  BY <1>2, <1>4, MaxIsOfTheSet
<1>6. ref.first = n /\ ref.last = IF Max(S) + 1 <= Len(text) THEN Max(S) + 1 ELSE Len(text)
  BY <1>3 DEF ObjectRef, EndMark, S
<1>7. ref.first \in 1 .. Len(text) /\ ref.last \in 1 .. Len(text)
  BY <1>2, <1>5, <1>6
<1>8. ASSUME NEW i \in DOMAIN SubSeq(text, ref.first, ref.last)
      PROVE  SubSeq(text, ref.first, ref.last)[i] \in Elements(text)
  <2>1. /\ i \in Nat /\ i >= 1 /\ i + ref.first - 1 \in 1 .. Len(text)
        /\ SubSeq(text, ref.first, ref.last)[i] = text[i + ref.first - 1]
    BY <1>1, <1>2, <1>7
  <2> QED
    BY <1>2, <2>1 DEF Elements
<1> QED
  BY <1>8 DEF Slice, Elements, text

-----------------------------------------------------------------------------
(* What the preflight looked at *)

\* The lines the agent may be given of the document that was validated.
LinesGiven ==
  \A i \in DOMAIN given :
    Elements(given[i].content) \subseteq Elements(Text(checked[ModelFile].models))

\* Nothing is given before the preflight; what it looked at passed its checks for
\* as long as the adapter answers from it.
ArtifactInv ==
  /\ session \in {"create", "preflight"} => given = <<>>
  /\ target = "ossie" /\ session = "open" => ossieReady
  /\ target = "ossie" /\ ossieReady =>
       /\ snapshot = checked[ModelFile].models
       /\ snapshot \in Seq(Models)
       /\ ReferencesHold(snapshot)
  /\ target = "ossie" => LinesGiven

LEMMA ArtifactInit == SurfaceInit => ArtifactInv
<1> SUFFICES ASSUME SurfaceInit PROVE ArtifactInv
  OBVIOUS
<1>1. given = <<>> /\ session = "create" /\ ossieReady = FALSE
  BY DEF SurfaceInit, SessionInit, OssieInit
<1>2. LinesGiven
  BY <1>1 DEF LinesGiven
<1> QED
  BY <1>1, <1>2 DEF ArtifactInv

\* A step after the preflight: it keeps what was looked at, and a document's
\* lines are all it gives of it.
Serves ==
  /\ UNCHANGED <<target, checked, snapshot, ossieReady>>
  /\ session = "open" /\ session' \in {"open", "closing"}
  /\ \/ UNCHANGED given
     \/ \E answer :
          /\ given' = Append(given, answer)
          /\ target = "ossie" => Elements(answer.content) \subseteq Elements(Text(snapshot))

LEMMA ServesStep ==
  ASSUME ArtifactInv, ConversationInv, Serves
  PROVE  ArtifactInv'
<1>1. /\ UNCHANGED <<target, checked, snapshot, ossieReady>>
      /\ session = "open" /\ session' \in {"open", "closing"}
  BY DEF Serves
<1>2. ASSUME target = "ossie" PROVE LinesGiven'
  <2>1. LinesGiven /\ snapshot = checked[ModelFile].models
    BY <1>1, <1>2 DEF ArtifactInv
  <2>2. CASE UNCHANGED given
    BY <1>1, <2>1, <2>2 DEF LinesGiven
  <2>3. ASSUME NEW answer, given' = Append(given, answer),
               Elements(answer.content) \subseteq Elements(Text(snapshot))
        PROVE  LinesGiven'
    <3>1. PICK S : given \in Seq(S)
      BY DEF ConversationInv
    <3>2. given \in Seq(S \cup {answer})
      BY <3>1
    <3>3. \A i \in DOMAIN given' :
            \/ i \in DOMAIN given /\ given'[i] = given[i]
            \/ given'[i] = answer
      BY <2>3, <3>2
    <3> QED
      BY <1>1, <2>1, <2>3, <3>3 DEF LinesGiven
  <2> QED
    BY <1>2, <2>2, <2>3 DEF Serves
<1> QED
  BY <1>1, <1>2 DEF ArtifactInv

LEMMA OssieServes ==
  ASSUME ArtifactInv, OssieRequest
  PROVE  Serves
<1>1. /\ target = "ossie" => (ossieReady => snapshot \in Seq(Models) /\ ReferencesHold(snapshot))
      /\ UNCHANGED <<snapshot, ossieReady>>
  BY DEF ArtifactInv, OssieRequest, InspectModel, ReadNativeYaml, ossieVars
<1>2. /\ session = "open" /\ session' \in {"open", "closing"}
      /\ UNCHANGED <<target, checked>>
  BY DEF OssieRequest, InspectModel, Inspected, ReadNativeYaml, ReadSlice, Request,
     Repairable, Breach, Give
<1>3. ASSUME NEW op, NEW path, NEW content, Elements(content) \subseteq Elements(Text(snapshot)),
             Give(Told(op, path, content, "none"), Told(op, path, content, "none"))
      PROVE  Serves
  <2>1. Told(op, path, content, "none").content = content
    BY DEF Told
  <2> QED
    BY <1>1, <1>2, <1>3, <2>1 DEF Serves, Give
<1>4. ASSUME UNCHANGED given PROVE Serves
  BY <1>1, <1>2, <1>4 DEF Serves
<1>5. ASSUME NEW kind, NEW id, InspectModel(kind, id) PROVE Serves
  BY <1>3, <1>4, <1>5 DEF InspectModel, Inspected, Document, Repairable
<1>6. ASSUME NEW path, NEW kind, NEW id, ReadNativeYaml(path, kind, id) PROVE Serves
  <2> DEFINE asked_id == Stripped(id)
  <2> HIDE DEF asked_id
  <2>1. CASE ReadSlice(id, Text(Document))
    BY <1>3, <2>1 DEF ReadSlice, Document
  <2>2. CASE /\ ossieReady /\ Resolves(Document, kind, asked_id)
             /\ ReadSlice(asked_id, Slice(Document, TheMatch(Document, kind, asked_id)))
    <3>1. CASE target # "ossie"
      BY <1>1, <1>2, <2>2, <3>1 DEF ReadSlice, Give, Serves
    <3>2. CASE target = "ossie"
      <4>1. snapshot \in Seq(Models) /\ ReferencesHold(snapshot)
        BY <1>1, <2>2, <3>2
      <4>2. Matches(snapshot, kind, asked_id) # {}
        BY <2>2, FS_EmptySet DEF Resolves, Document
      <4>3. TheMatch(snapshot, kind, asked_id) \in SourceIndex(snapshot)
        BY <4>2 DEF TheMatch, Matches
      <4> QED
        BY <1>3, <2>2, <4>1, <4>3, SlicesAreText DEF ReadSlice, Document
    <3> QED
      BY <3>1, <3>2
  <2>3. CASE Repairable \/ Breach
    BY <1>4, <2>3 DEF Repairable, Breach
  <2> QED
    BY <1>6, <2>1, <2>2, <2>3 DEF ReadNativeYaml, Found, asked_id
<1> QED
  BY <1>5, <1>6 DEF OssieRequest

\* The other adapters answer sessions of other targets.
LEMMA OthersServe ==
  ASSUME SkillRequest \/ OkfRequest \/ MetricFlowRequest,
         AdapterRequest, UNCHANGED <<snapshot, ossieReady>>
  PROVE  Serves
<1>1. target # "ossie"
  BY DEF SkillRequest, Activate, ReadInstruction, ReadReference, OkfRequest, ListFiles,
     ReadFile, FollowLink, SearchText, MetricFlowRequest, Discover, Discoveries,
     QueryRefused, QueryUnanswered, QueryAnswered, Request, Allowed, QueryOp, SubmitOp
<1>2. Called
  BY AdaptersAreCalled
<1> QED
  BY <1>1, <1>2 DEF Called, Request, Serves

LEMMA RequestServes ==
  ASSUME ArtifactInv, AdapterRequest
  PROVE  Serves
<1>1. CASE OssieRequest
  BY <1>1, OssieServes
<1>2. CASE /\ SkillRequest \/ OkfRequest \/ MetricFlowRequest
           /\ UNCHANGED <<snapshot, ossieReady>>
  BY <1>2, OthersServe
<1> QED
  BY <1>1, <1>2 DEF AdapterRequest, ossieVars

LEMMA ArtifactStep ==
  ASSUME ArtifactInv, ConversationInv, SessionTypeOK, SurfaceNext
  PROVE  ArtifactInv'
<1>1. CASE Create
  <2>1. /\ UNCHANGED <<target, checked, given, snapshot, ossieReady>>
        /\ session = "create" /\ session' \in {"preflight", "unbuilt"}
    BY <1>1 DEF Create, SkillCreated, OkfCreated, OssieCreated, MetricFlowCreated,
       DdlCreated, BlankCreated, Created, adapterVars, ossieVars
  <2> QED
    BY <2>1 DEF ArtifactInv, LinesGiven
<1>2. CASE Preflight
  <2>1. /\ UNCHANGED <<target, given>> /\ given = <<>>
        /\ session' \in {"open", "closing"} /\ checked' = disk
    BY <1>2 DEF Preflight, SkillPreflight, OkfPreflight, OssiePreflight,
       MetricFlowPreflight, PreflightWithoutAdapter, Preflighted, ArtifactInv
  <2>2. LinesGiven'
    BY <2>1 DEF LinesGiven
  <2>3. ASSUME target = "ossie"
        PROVE  /\ session' = "open" => ossieReady'
               /\ ossieReady' =>
                    /\ snapshot' = checked'[ModelFile].models
                    /\ snapshot' \in Seq(Models)
                    /\ ReferencesHold(snapshot')
    <3>1. OssiePreflight
      BY <1>2, <2>3 DEF Preflight, SkillPreflight, OkfPreflight, OssiePreflight,
         MetricFlowPreflight, PreflightWithoutAdapter
    <3>2. CASE Validates(disk)
      <4>1. snapshot' = disk[ModelFile].models /\ ReferencesHold(disk[ModelFile].models)
        BY <3>1, <3>2 DEF OssiePreflight, Validates
      <4>2. disk[ModelFile].models \in Seq(Models)
        BY <2>3, <3>2, DocumentsAssumption DEF Validates, SessionTypeOK
      <4>3. ossieReady'
        BY <3>1, <3>2 DEF OssiePreflight
      <4> QED
        BY <2>1, <4>1, <4>2, <4>3
    <3>3. CASE ~ Validates(disk)
      BY <3>1, <3>3 DEF OssiePreflight, Preflighted
    <3> QED
      BY <3>2, <3>3
  <2> QED
    BY <2>1, <2>2, <2>3 DEF ArtifactInv
<1>3. CASE AdapterRequest
  BY <1>3, RequestServes, ServesStep
<1>4. ASSUME NEW call, NEW outcome, HarnessRequest(call, outcome) PROVE ArtifactInv'
  <2>1. Serves
    BY <1>4 DEF HarnessRequest, Request, adapterVars, skillVars, ossieVars, Serves
  <2> QED
    BY <2>1, ServesStep
<1>5. CASE (RequestOutsideAllowlist \/ EndConversation) /\ UNCHANGED adapterVars
  <2>1. Serves
    BY <1>5 DEF RequestOutsideAllowlist, EndConversation, adapterVars, skillVars,
       ossieVars, Serves
  <2> QED
    BY <2>1, ServesStep
<1>6. CASE Edit /\ UNCHANGED adapterVars
  BY <1>6 DEF Edit, adapterVars, skillVars, ossieVars, ArtifactInv, LinesGiven
<1>7. CASE Close
  <2>1. /\ UNCHANGED <<target, checked, given>> /\ session' = "over"
        /\ \/ UNCHANGED <<snapshot, ossieReady>>
           \/ ossieReady' = FALSE
    BY <1>7 DEF Close, OssieClosed, MetricFlowClosed, Closed, adapterVars, ossieVars
  <2> QED
    BY <2>1 DEF ArtifactInv, LinesGiven
<1> QED
  BY <1>1, <1>2, <1>3, <1>4, <1>5, <1>6, <1>7 DEF SurfaceNext

LEMMA Artifacts == SurfaceSpec => []ArtifactInv
<1>1. SurfaceTypeOK => SessionTypeOK
  BY DEF SurfaceTypeOK, SessionTypeOK
<1>2. ArtifactInv /\ ConversationInv /\ SessionTypeOK /\ [SurfaceNext]_surfaceVars
        => ArtifactInv'
  <2>1. UNCHANGED surfaceVars /\ ArtifactInv => ArtifactInv'
    BY DEF surfaceVars, sessionVars, adapterVars, skillVars, ossieVars, ArtifactInv, LinesGiven
  <2> QED
    BY <2>1, ArtifactStep
<1> QED
  BY <1>1, <1>2, ArtifactInit, Conversations, SurfaceTypeCorrect, PTL DEF SurfaceSpec

\* An Ossie agent reads lines of the document the preflight validated, however often
\* the file changes.
THEOREM ServedAsChecked == SurfaceSpec => []ServesWhatWasChecked
<1>1. ArtifactInv => ServesWhatWasChecked
  BY DEF ArtifactInv, LinesGiven, ServesWhatWasChecked
<1> QED
  BY <1>1, Artifacts, PTL

\* The checks of the preflight are enough for the ids of plain names: every object
\* of a document, and every column its relationships join by, is the only one of
\* its kind and qualified id, however many models, datasets and fields there are.
THEOREM PlainObjectsAreFound == SurfaceSpec => []PlainObjectsResolve
<1>1. ArtifactInv => PlainObjectsResolve
  <2> SUFFICES ASSUME ArtifactInv, target = "ossie", session = "open",
                      AllPlain(Text(snapshot))
               PROVE  PlainObjectsResolve
    BY DEF PlainObjectsResolve
  <2>1. snapshot \in Seq(Models) /\ ReferencesHold(snapshot)
    BY DEF ArtifactInv
  <2>2. ASSUME NEW ref \in SourceIndex(snapshot)
        PROVE  Resolves(snapshot, ref.kind, Stripped(ref.qualified))
    <3>1. PICK n \in DOMAIN Text(snapshot) :
            Text(snapshot)[n].kind \in Kinds /\ ref = ObjectRef(Text(snapshot), n)
      BY DEF SourceIndex
    <3>2. /\ ref.kind = Text(snapshot)[n].kind
          /\ ref.qualified = Joined(Text(snapshot)[n].path)
      BY <3>1 DEF ObjectRef
    <3> QED
      BY <2>1, <3>1, <3>2, ObjectsResolve
  <2>3. ASSUME NEW model \in Elements(snapshot),
               NEW r \in Elements(model.relationships), NEW column \in Elements(r.fromColumns)
        PROVE  Resolves(snapshot, "field", Stripped(Joined(<<model.name, r.from, column>>)))
    <3>1. RelationshipHolds(model, r)
      BY <2>1, <2>3 DEF ReferencesHold, ModelHolds
    <3>2. PICK d \in Elements(model.datasets) : d.name = r.from /\ column \in Names(d.fields)
      BY <3>1 DEF RelationshipHolds, FieldsOf
    <3>3. Line("field", <<model.name, r.from, column>>) \in Elements(Text(snapshot))
      BY <2>1, <2>3, <3>2, DocumentText
    <3>4. PICK n \in DOMAIN Text(snapshot) :
            Text(snapshot)[n] = Line("field", <<model.name, r.from, column>>)
      BY <3>3 DEF Elements
    <3>5. /\ Text(snapshot)[n].kind = "field" /\ "field" \in Kinds
          /\ Text(snapshot)[n].path = <<model.name, r.from, column>>
      BY <3>4 DEF Line, Kinds
    <3> QED
      BY <2>1, <3>5, ObjectsResolve
  <2> QED
    BY <2>2, <2>3 DEF PlainObjectsResolve
<1> QED
  BY <1>1, Artifacts, PTL
=============================================================================
