------------------------------ MODULE OssieModel ------------------------------
(***************************************************************************)
(* An Ossie document and what OssieAdapter (runner/adapters/ossie.py)      *)
(* computes from it: the validation of its references, the index of its    *)
(* objects, and the source slice of each.  There is no state here.         *)
(*                                                                         *)
(* A document is a sequence of semantic models.  An object has a kind and  *)
(* a path, the names from the model down.  Its ids are flat strings: its   *)
(* name, and its path joined with slashes.  Nothing keeps a slash or outer *)
(* blanks out of a name, so a string is the sequence of its tokens: "/",   *)
(* " ", and the words between them.  The text of a document is a sequence  *)
(* of lines, one for each object and for each key that opens a list of     *)
(* objects.                                                                *)
(***************************************************************************)
EXTENDS Integers, Sequences, FiniteSets, SequencesExt

Kinds == {"semantic_model", "dataset", "field", "relationship", "metric"}

Elements(list) == { list[i] : i \in DOMAIN list }

Names(list) == { x.name : x \in Elements(list) }

-----------------------------------------------------------------------------
(* What the pinned schema lets through *)

\* Tokens of a name that matter beside its words.
Slash == "/"
Blank == " "

\* An empty name is refused, whatever it names.
Name == Seq(STRING) \ {<<>>}

Fields == [name : Name]

Datasets == [name : Name, fields : Seq(Fields), keys : SUBSET Name]

Relationships ==
  [name : Name, from : Name, to : Name,
   fromColumns : Seq(Name), toColumns : Seq(Name)]

Metrics == [name : Name, references : SUBSET (Name \X Name)]

Models ==
  [name : Name, datasets : Seq(Datasets), relationships : Seq(Relationships),
   metrics : Seq(Metrics)]

-----------------------------------------------------------------------------
(* _validate_references *)

\* Mutant: a name may come twice.
AnyNames(list) == TRUE

NamesDiffer(list) ==
  \A i, j \in DOMAIN list : list[i].name = list[j].name => i = j

FieldsOf(model, dataset) ==
  UNION { Names(d.fields) : d \in { e \in Elements(model.datasets) : e.name = dataset } }

\* Primary and unique keys name fields of their dataset.
DatasetHolds(dataset) ==
  /\ NamesDiffer(dataset.fields)
  /\ dataset.keys \subseteq Names(dataset.fields)

\* A relationship joins as many columns of one dataset as of the other.
RelationshipHolds(model, relationship) ==
  /\ {relationship.from, relationship.to} \subseteq Names(model.datasets)
  /\ Len(relationship.fromColumns) = Len(relationship.toColumns)
  /\ Elements(relationship.fromColumns) \subseteq FieldsOf(model, relationship.from)
  /\ Elements(relationship.toColumns) \subseteq FieldsOf(model, relationship.to)

\* A metric's expression may name what it likes, except a missing field of a
\* dataset there is.
MetricHolds(model, metric) ==
  \A reference \in metric.references :
    reference[1] \in Names(model.datasets) =>
      reference[2] \in FieldsOf(model, reference[1])

ModelHolds(model) ==
  /\ NamesDiffer(model.datasets)
  /\ \A dataset \in Elements(model.datasets) : DatasetHolds(dataset)
  /\ NamesDiffer(model.relationships)
  /\ \A r \in Elements(model.relationships) : RelationshipHolds(model, r)
  /\ NamesDiffer(model.metrics)
  /\ \A metric \in Elements(model.metrics) : MetricHolds(model, metric)

ReferencesHold(models) ==
  /\ models # <<>>
  /\ NamesDiffer(models)
  /\ \A model \in Elements(models) : ModelHolds(model)

-----------------------------------------------------------------------------
(* The text *)

Line(kind, path) == [kind |-> kind, path |-> path]

\* The lines of a list of objects without parts, below the key that opens it.
Listed(key, kind, path, list) ==
  IF list = <<>> THEN <<>>
  ELSE <<Line(key, path)>> \o
       [i \in DOMAIN list |-> Line(kind, Append(path, list[i].name))]

DatasetLines(model, dataset) ==
  LET path == <<model.name, dataset.name>> IN
  <<Line("dataset", path)>> \o Listed("fields", "field", path, dataset.fields)

ModelLines(model) ==
  LET path == <<model.name>> IN
  <<Line("semantic_model", path), Line("datasets", path)>>
    \o FlattenSeq([i \in DOMAIN model.datasets |->
                     DatasetLines(model, model.datasets[i])])
    \o Listed("relationships", "relationship", path, model.relationships)
    \o Listed("metrics", "metric", path, model.metrics)

Text(models) == FlattenSeq([i \in DOMAIN models |-> ModelLines(models[i])])

\* The lines that belong to an object: its own, and those of its parts.
Extent(text, kind, path) ==
  { n \in DOMAIN text :
      \/ text[n] = Line(kind, path)
      \/ kind = "semantic_model" /\ IsPrefix(path, text[n].path)
      \/ /\ kind = "dataset"
         /\ text[n].kind \in {"fields", "field"}
         /\ IsPrefix(path, text[n].path) }

-----------------------------------------------------------------------------
(* _build_source_index *)

\* The end mark PyYAML gives a block: where the token after it starts.
EndMark(text, extent) == Max(extent) + 1

\* The qualified id of a path: one, two or three names.
Joined(path) ==
  IF Len(path) = 1 THEN path[1]
  ELSE IF Len(path) = 2 THEN path[1] \o <<Slash>> \o path[2]
  ELSE path[1] \o <<Slash>> \o path[2] \o <<Slash>> \o path[3]

\* _object_ref: from the line the object starts in to the end of the line in which
\* the end mark lies.
ObjectRef(text, n) ==
  LET path == text[n].path
      end  == EndMark(text, Extent(text, text[n].kind, path))
  IN [kind |-> text[n].kind, id |-> Last(path), qualified |-> Joined(path),
      first |-> n, last |-> IF end <= Len(text) THEN end ELSE Len(text)]

SourceIndex(models) ==
  LET text == Text(models) IN
  { ObjectRef(text, n) : n \in { m \in DOMAIN text : text[m].kind \in Kinds } }

\* _normalize_object_id takes the blanks off both ends of an id.
Stripped(id) ==
  LET shown == { i \in DOMAIN id : id[i] # Blank } IN
  IF shown = {} THEN <<>> ELSE SubSeq(id, Min(shown), Max(shown))

\* _resolve_object looks for a kind and an id, short or qualified.  The caller
\* wants exactly one.
Matches(models, kind, id) ==
  { ref \in SourceIndex(models) :
      ref.kind = kind /\ (id = ref.id \/ id = ref.qualified) }

Resolves(models, kind, id) == Cardinality(Matches(models, kind, id)) = 1

TheMatch(models, kind, id) == CHOOSE ref \in Matches(models, kind, id) : TRUE

Slice(models, ref) == SubSeq(Text(models), ref.first, ref.last)
=============================================================================
