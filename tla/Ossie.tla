--------------------------------- MODULE Ossie ---------------------------------
(***************************************************************************)
(* The Ossie consumer: OssieAdapter of runner/adapters/ossie.py.  The      *)
(* preflight validates the native YAML document and keeps it; discovery    *)
(* and reads answer from what was kept.  OssieModel holds the computations *)
(* on a document.                                                          *)
(***************************************************************************)
EXTENDS NativeAdapter, OssieModel

\* The file native_surface.model_file names.
ModelFile == "tpcds-sf1.yaml"

\* A file that conforms is a document of the schema.
ASSUME DocumentsAssumption ==
  \A tree \in Trees["ossie"] :
    ModelFile \in DOMAIN tree /\ tree[ModelFile].conforms =>
      tree[ModelFile].models \in Seq(Models)

VARIABLES
  snapshot,    \* _document with _raw_text and _index, <<>> for None
  ossieReady   \* _ready

ossieVars == <<snapshot, ossieReady>>

-----------------------------------------------------------------------------
(* Validation *)

\* validate: well-formed YAML, the pinned schema and version, and references that
\* hold.
Validates(tree) ==
  /\ ModelFile \in DOMAIN tree
  /\ tree[ModelFile].conforms
  /\ ReferencesHold(tree[ModelFile].models)

OssieInit == snapshot = <<>> /\ ossieReady = FALSE

\* The constructor checks the pinned configuration and that the file is there.
OssieCreated ==
  /\ target = "ossie"
  /\ Created(TreeHashable /\ ModelFile \in DOMAIN disk)
  /\ UNCHANGED ossieVars

\* The snapshot is replaced only once every check has passed.
OssiePreflight ==
  /\ target = "ossie"
  /\ Preflighted(Validates(disk))
  /\ ossieReady' = Validates(disk)
  /\ snapshot' = IF Validates(disk) THEN disk[ModelFile].models ELSE snapshot

OssieClosed ==
  /\ target = "ossie"
  /\ Closed
  /\ snapshot' = <<>>
  /\ ossieReady' = FALSE

-----------------------------------------------------------------------------
(* Operations *)

\* Mutant: the document is read from the disk again.
ReadAgain == IF ModelFile \in DOMAIN disk THEN disk[ModelFile].models ELSE snapshot

Document == snapshot

\* The answer is read off the whole document, whose digest the telemetry records.
Inspected(id) ==
  Give(Told("ossie.inspect_model", id, Text(Document), "none"),
       Told("ossie.inspect_model", id, Text(Document), "none"))

\* An id that may be looked up: without its outer blanks, of exactly one object.  A
\* blank one, one without a kind, an unknown and an ambiguous one are refused.
Found(kind, id) == Stripped(id) # <<>> /\ Resolves(Document, kind, Stripped(id))

\* Of the model, of all objects of a kind, or of one object.
InspectModel(kind, id) ==
  /\ Request("ossie.inspect_model")
  /\ IF ossieReady /\ (id = <<>> \/ Found(kind, id))
       THEN Inspected(Stripped(id))
       ELSE Repairable
  /\ UNCHANGED ossieVars

ReadSlice(id, lines) ==
  Give(Told("ossie.read_native_yaml", id, lines, "none"),
       Told("ossie.read_native_yaml", id, lines, "none"))

\* The path, if one is given, must be the model file, and must still be there.
PathBreaches(path) == path \notin {"none", ModelFile}

PathMissing(path) == path = ModelFile /\ ModelFile \notin DOMAIN disk

\* The whole document, or the source of one object.
ReadNativeYaml(path, kind, id) ==
  /\ Request("ossie.read_native_yaml")
  /\ IF ~ ossieReady THEN Repairable
     ELSE IF PathBreaches(path) THEN Breach
     ELSE IF PathMissing(path) THEN Repairable
     ELSE IF kind = "none" /\ id = <<>> THEN ReadSlice(id, Text(Document))
     ELSE IF kind # "none" /\ Found(kind, id)
       THEN ReadSlice(Stripped(id), Slice(Document, TheMatch(Document, kind, Stripped(id))))
     ELSE Repairable
  /\ UNCHANGED ossieVars

DocumentsOf(trees) ==
  { tree[ModelFile].models : tree \in { t \in trees : ModelFile \in DOMAIN t } }

\* Ids an agent may name: qualified ones, short ones, one with a blank before it, a
\* blank, none.
OssieIds ==
  LET refs == UNION { SourceIndex(models) : models \in DocumentsOf(Trees["ossie"]) }
      ids  == { ref.id : ref \in refs } \cup { ref.qualified : ref \in refs }
  IN ids \cup { <<Blank>> \o ref.id : ref \in { r \in refs : r.kind = "semantic_model" } }
         \cup {<<Blank>>, <<>>}

OssieRequest ==
  \E kind \in Kinds \cup {"none"}, id \in OssieIds :
    \/ InspectModel(kind, id)
    \/ \E path \in {"none", ModelFile, "../outside"} : ReadNativeYaml(path, kind, id)
=============================================================================
