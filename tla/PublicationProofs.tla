--------------------------- MODULE PublicationProofs ---------------------------
(***************************************************************************)
(* Proofs about Publication, for every list of questions, every matrix and *)
(* every set of candidates, and however often Gold is frozen, given up and *)
(* frozen again while runs are under way.                                  *)
(*                                                                         *)
(* The Gold files of the questions a freeze has come past are its own; so  *)
(* are those of all questions when it writes the pack, which keeps their   *)
(* digests whatever is written over the files later.                       *)
(***************************************************************************)
EXTENDS Publication, FiniteSetTheorems, TLAPS

GoldFile == [sql : Versions, result : Versions, line : Versions, at : Nat]

GoldTypeOK ==
  /\ reference \in [QuestionIds -> Versions]
  /\ instances \in Versions
  /\ freezes \in Nat
  /\ frozen \in Seq(GoldFile)
  /\ Len(frozen) <= Len(Questions)
  /\ rows \in Versions \cup {"none"}
  /\ executed \in Versions \cup {"none"}

\* A freeze writes its own files, one after the other.
FilesOfTheFreeze ==
  \A i \in 1 .. Len(frozen) : /\ Questions[i] \in DOMAIN goldFiles
                              /\ goldFiles[Questions[i]].at = freezes

\* A pack has an entry for every question, with the digest of a file of one freeze.
PackOfOneFreeze ==
  pack # NoPack =>
    /\ DOMAIN pack.entries = QuestionIds
    /\ QuestionIds \subseteq DOMAIN goldFiles
    /\ \A q \in QuestionIds : pack.entries[q].file.at = pack.at

GoldInv ==
  /\ GoldTypeOK
  /\ Freezing \/ frozen = <<>>
  /\ DOMAIN goldFiles \subseteq QuestionIds
  /\ FilesOfTheFreeze
  /\ PackOfOneFreeze

-----------------------------------------------------------------------------
(* Freezing *)

LEMMA QuestionsTyped ==
  /\ Questions \in Seq(STRING)
  /\ Len(Questions) \in Nat \ {0}
  /\ \A i \in 1 .. Len(Questions) : Questions[i] \in QuestionIds
  /\ \A q \in QuestionIds : \E i \in DOMAIN Questions : Questions[i] = q
BY QuestionsAssumption DEF QuestionIds

LEMMA GoldInitInv == GoldInit => GoldInv
<1> SUFFICES ASSUME GoldInit PROVE GoldInv
  OBVIOUS
<1>1. Base \in Versions
  BY VersionsAssumption DEF Base
<1>2. GoldTypeOK
  BY <1>1, QuestionsTyped DEF GoldInit, GoldTypeOK
<1> QED
  BY <1>2 DEF GoldInit, GoldInv, FilesOfTheFreeze, PackOfOneFreeze

LEMMA WriteGoldInv == ASSUME GoldInv, WriteGold PROVE GoldInv'
<1>1. /\ Freezing /\ Len(frozen) < Len(Questions)
      /\ goldFiles' = BindGold(goldFiles, Question, Artifact)
      /\ frozen' = Append(frozen, Artifact)
      /\ executed' = "none"
      /\ UNCHANGED <<reference, instances, changes, freezes, rows, pack>>
      /\ executed # "none"
  BY DEF WriteGold, AtQuestion
<1>2. /\ Question = Questions[Len(frozen) + 1]
      /\ Question \in QuestionIds
  BY <1>1, QuestionsTyped DEF Question, GoldInv, GoldTypeOK
<1>3. Artifact \in GoldFile /\ Artifact.at = freezes
  BY <1>1, <1>2 DEF Artifact, GoldFile, GoldInv, GoldTypeOK, Freezing
<1>4. /\ DOMAIN goldFiles' = DOMAIN goldFiles \cup {Question}
      /\ goldFiles'[Question] = Artifact
      /\ \A q \in DOMAIN goldFiles : q # Question => goldFiles'[q] = goldFiles[q]
  BY <1>1 DEF BindGold
<1>5. Len(frozen') = Len(frozen) + 1 /\ Len(frozen) \in Nat /\ frozen' \in Seq(GoldFile)
  BY <1>1, <1>3 DEF GoldInv, GoldTypeOK
<1>6. GoldTypeOK'
  BY <1>1, <1>5, QuestionsTyped DEF GoldInv, GoldTypeOK
<1>7. FilesOfTheFreeze'
  <2> SUFFICES ASSUME NEW i \in 1 .. Len(frozen')
               PROVE  /\ Questions[i] \in DOMAIN goldFiles'
                      /\ goldFiles'[Questions[i]].at = freezes
    BY <1>1 DEF FilesOfTheFreeze
  <2>1. CASE i = Len(frozen) + 1
    BY <1>2, <1>3, <1>4, <2>1
  <2>2. CASE i \in 1 .. Len(frozen)
    <3>1. Questions[i] \in DOMAIN goldFiles /\ goldFiles[Questions[i]].at = freezes
      BY <2>2 DEF GoldInv, FilesOfTheFreeze
    <3> QED
      BY <1>3, <1>4, <3>1
  <2> QED
    BY <1>5, <2>1, <2>2
<1>8. PackOfOneFreeze'
  BY <1>1, <1>4 DEF GoldInv, PackOfOneFreeze
<1> QED
  BY <1>1, <1>2, <1>4, <1>6, <1>7, <1>8 DEF GoldInv, Freezing

LEMMA WritePackInv == ASSUME GoldInv, WritePack PROVE GoldInv'
<1> DEFINE At(q) == CHOOSE i \in DOMAIN Questions : Questions[i] = q
<1>1. /\ Len(frozen) = Len(Questions)
      /\ pack' = [entries |-> [q \in QuestionIds |-> Packed(At(q))],
                  instances |-> instances, at |-> freezes]
      /\ frozen' = <<>>
      /\ rows' = "none"
      /\ UNCHANGED <<reference, instances, changes, freezes, executed, goldFiles>>
  BY DEF WritePack
<1>2. \A q \in QuestionIds : At(q) \in DOMAIN Questions /\ Questions[At(q)] = q
  BY QuestionsTyped
<1>3. \A q \in QuestionIds : q \in DOMAIN goldFiles /\ goldFiles[q].at = freezes
  BY <1>1, <1>2, QuestionsTyped DEF GoldInv, FilesOfTheFreeze
<1>4. \A q \in QuestionIds : Packed(At(q)).file = goldFiles[q]
  BY <1>2 DEF Packed
<1>5. PackOfOneFreeze'
  BY <1>1, <1>3, <1>4 DEF PackOfOneFreeze
<1>6. GoldTypeOK' /\ FilesOfTheFreeze'
  BY <1>1, QuestionsTyped DEF GoldInv, GoldTypeOK, FilesOfTheFreeze
<1> QED
  BY <1>1, <1>5, <1>6 DEF GoldInv, Freezing

LEMMA GoldStepInv == GoldInv /\ [GoldNext]_goldVars => GoldInv'
<1> SUFFICES ASSUME GoldInv, [GoldNext]_goldVars PROVE GoldInv'
  OBVIOUS
<1>1. CASE StartFreeze
  <2>1. /\ freezes' = freezes + 1 /\ rows' = instances /\ frozen = <<>>
        /\ UNCHANGED <<reference, instances, changes, frozen, executed, goldFiles, pack>>
    BY <1>1 DEF StartFreeze, GoldInv
  <2>2. instances # "none"
    BY VersionsAssumption DEF GoldInv, GoldTypeOK
  <2> QED
    BY <2>1, <2>2 DEF GoldInv, GoldTypeOK, Freezing, FilesOfTheFreeze, PackOfOneFreeze
<1>2. CASE ExecuteReference
  <2>1. /\ executed' \in Versions
        /\ UNCHANGED <<reference, instances, changes, freezes, frozen, rows, goldFiles,
                       pack>>
    <3>1. Question \in QuestionIds
      BY <1>2, QuestionsTyped DEF ExecuteReference, AtQuestion, Question, GoldInv,
         GoldTypeOK
    <3> QED
      BY <1>2, <3>1 DEF ExecuteReference, GoldInv, GoldTypeOK
  <2> QED
    BY <2>1 DEF GoldInv, GoldTypeOK, Freezing, FilesOfTheFreeze, PackOfOneFreeze
<1>3. CASE WriteGold
  BY <1>3, WriteGoldInv
<1>4. CASE WritePack
  BY <1>4, WritePackInv
<1>5. CASE FreezeFails
  BY <1>5, QuestionsTyped DEF FreezeFails, GoldInv, GoldTypeOK, Freezing,
     FilesOfTheFreeze, PackOfOneFreeze
<1>6. CASE ChangeInstances
  BY <1>6 DEF ChangeInstances, GoldInv, GoldTypeOK, Freezing, FilesOfTheFreeze,
     PackOfOneFreeze
<1>7. ASSUME NEW q \in QuestionIds, ChangeReference(q) PROVE GoldInv'
  BY <1>7 DEF ChangeReference, GoldInv, GoldTypeOK, Freezing, FilesOfTheFreeze,
     PackOfOneFreeze
<1>8. CASE UNCHANGED goldVars
  BY <1>8 DEF goldVars, GoldInv, GoldTypeOK, Freezing, FilesOfTheFreeze,
     PackOfOneFreeze
<1> QED
  BY <1>1, <1>2, <1>3, <1>4, <1>5, <1>6, <1>7, <1>8 DEF GoldNext

-----------------------------------------------------------------------------
(* Runs and manifests *)

PublicationInv ==
  /\ GoldInv
  /\ IsFiniteSet(records)
  /\ ManifestNamesTheGold

\* A set with at most one element has just that.
LEMMA AtMostOne ==
  ASSUME NEW S, IsFiniteSet(S), Cardinality(S) <= 1, NEW a \in S, NEW b \in S
  PROVE  a = b
<1>1. {a} \in SUBSET S
  OBVIOUS
<1>2. IsFiniteSet({a}) /\ Cardinality({a}) = 1
  BY FS_Singleton
<1>3. Cardinality({a}) <= Cardinality(S) /\ (Cardinality(S) = Cardinality({a}) => S = {a})
  BY <1>1, FS_Subset
<1>4. Cardinality(S) \in Nat
  BY FS_CardinalityType
<1>5. S = {a}
  BY <1>2, <1>3, <1>4
<1> QED
  BY <1>5

\* With one reference for every question, the manifest names that of every record.
LEMMA BindRunInv == ASSUME PublicationInv, BindRun PROVE ManifestNamesTheGold'
<1>1. PICK dirs \in Directories :
        /\ OneReference(RecordsOf(dirs))
        /\ ManifestComplete(RecordsOf(dirs))
        /\ manifest' = Manifest(dirs)
  BY DEF BindRun
<1>2. UNCHANGED <<goldVars, mode, atStart, trials, loaded, records, published>>
  BY DEF BindRun
<1> DEFINE given == RecordsOf(dirs)
<1>3. IsFiniteSet(given)
  <2>1. given \subseteq records
    BY DEF RecordsOf
  <2> QED
    BY <2>1, FS_Subset DEF PublicationInv
<1>4. \A r \in given : r.reference = Manifest(dirs).gold[r.question]
  <2> SUFFICES ASSUME NEW r \in given PROVE r.reference = Manifest(dirs).gold[r.question]
    OBVIOUS
  <2>1. r.question \in QuestionIds
    BY <1>1 DEF ManifestComplete
  <2> DEFINE S == ReferencesOf(given, r.question)
  <2>2. r.reference \in S
    BY DEF ReferencesOf
  <2>3. IsFiniteSet(S)
    <3> DEFINE T == { s \in given : s.question = r.question }
    <3>1. IsFiniteSet(T)
      BY <1>3, FS_Subset
    <3> DEFINE f == [s \in T |-> s.reference]
    <3>2. f \in Surjection(T, S)
      BY DEF Surjection, ReferencesOf
    <3> HIDE DEF f, T, S
    <3> QED
      BY <3>1, <3>2, FS_Surjection
  <2>4. Cardinality(S) <= 1
    BY <1>1, <2>1 DEF OneReference
  <2>5. Manifest(dirs).gold[r.question] = CHOOSE v \in S : TRUE
    BY <2>1 DEF Manifest
  <2>6. (CHOOSE v \in S : TRUE) \in S
    BY <2>2
  <2> QED
    BY <2>2, <2>3, <2>4, <2>5, <2>6, AtMostOne
<1>5. RecordsOf(manifest.of)' = given
  BY <1>1, <1>2 DEF RecordsOf, Manifest
<1>6. Cardinality(given) = MatrixSize'
  BY <1>1, <1>2 DEF ManifestComplete, MatrixSize, Asked
<1>7. manifest' = Manifest(dirs)
  BY <1>1
<1> HIDE DEF given
<1> QED
  BY <1>4, <1>5, <1>6, <1>7 DEF ManifestNamesTheGold

LEMMA PublicationStepInv == PublicationInv /\ [PublicationNext]_vars => PublicationInv'
<1> SUFFICES ASSUME PublicationInv, [PublicationNext]_vars PROVE PublicationInv'
  OBVIOUS
<1>1. GoldInv'
  <2>1. [GoldNext]_goldVars
    BY DEF PublicationNext, StartRun, ReadGold, Evaluate, TrialRaises, Die, EndTrials,
       BindRun, BindPilot, GiveUp, Publish, vars
  <2> QED
    BY <2>1, GoldStepInv DEF PublicationInv
<1>2. IsFiniteSet(records')
  <2>1. CASE Evaluate
    <3>1. PICK c \in Candidates : records' = records \cup {Record(c)}
      BY <2>1 DEF Evaluate
    <3> QED
      BY <3>1, FS_AddElement DEF PublicationInv
  <2>2. CASE ~ Evaluate
    <3>1. records' = records
      BY <2>2 DEF PublicationNext, StartRun, ReadGold, TrialRaises, Die, EndTrials,
         BindRun, BindPilot, GiveUp, Publish, vars, publicationVars
    <3> QED
      BY <3>1 DEF PublicationInv
  <2> QED
    BY <2>1, <2>2
<1>3. ManifestNamesTheGold'
  <2>1. CASE BindRun
    BY <2>1, BindRunInv
  <2>2. CASE stage' # "bound"
    BY <2>2 DEF ManifestNamesTheGold
  <2>3. CASE ~ BindRun /\ stage' = "bound"
    <3>1. stage = "bound" /\ UNCHANGED publicationVars
      BY <2>3 DEF PublicationNext, StartRun, ReadGold, Evaluate, TrialRaises, Die,
         EndTrials, BindPilot, GiveUp, Publish, AtTrial, vars, publicationVars
    <3> QED
      BY <3>1 DEF PublicationInv, ManifestNamesTheGold, publicationVars, RecordsOf,
         MatrixSize, Asked
  <2> QED
    BY <2>1, <2>2, <2>3
<1> QED
  BY <1>1, <1>2, <1>3 DEF PublicationInv

LEMMA PublicationInitInv == PublicationInit => PublicationInv
BY GoldInitInv, FS_EmptySet DEF PublicationInit, PublicationInv, ManifestNamesTheGold

LEMMA PublicationInvariance == PublicationSpec => []PublicationInv
BY PublicationInitInv, PublicationStepInv, PTL DEF PublicationSpec

-----------------------------------------------------------------------------
(* The matrix *)

LEMMA AskedTyped ==
  /\ Len(Asked) \in Nat \ {0}
  /\ \A i \in 1 .. Len(Asked) : Asked[i] \in QuestionIds
BY QuestionsTyped DEF Asked

LEMMA TargetsTyped ==
  /\ Len(Targets) \in Nat \ {0}
  /\ \A i \in 1 .. Len(Targets) : Targets[i] \in TargetIds
BY TargetsAssumption DEF TargetIds

LEMMA MatrixSizeTyped == MatrixSize \in Nat
<1>1. \A a, b \in Nat : a * b \in Nat
  OBVIOUS
<1> QED
  BY <1>1, AskedTyped, TargetsTyped, RepetitionsAssumption DEF MatrixSize

\* Every ordinal of a trial is a cell of the matrix.
LEMMA CellInMatrix ==
  ASSUME NEW n \in 1 .. MatrixSize
  PROVE  Cell(n) \in Matrix
<1> DEFINE A == Len(Asked)
           T == Len(Targets)
<1>1. /\ A \in Nat \ {0} /\ T \in Nat \ {0} /\ Repetitions \in Nat \ {0}
      /\ n \in Nat \ {0} /\ n <= Repetitions * T * A
  BY AskedTyped, TargetsTyped, MatrixSizeTyped, RepetitionsAssumption DEF MatrixSize
<1>2. ((n - 1) % A) + 1 \in 1 .. A
  <2> HIDE DEF A, T
  <2> QED
    BY <1>1
<1>3. (((n - 1) \div A) % T) + 1 \in 1 .. T
  <2> HIDE DEF A, T
  <2>1. (n - 1) \div A \in Nat
    BY <1>1
  <2> QED
    BY <1>1, <2>1
<1>4. ((n - 1) \div (A * T)) + 1 \in 1 .. Repetitions
  <2> HIDE DEF A, T
  <2>1. A * T \in Nat \ {0}
    BY <1>1
  <2>2. n - 1 < Repetitions * (A * T)
    BY <1>1
  <2>3. (n - 1) \div (A * T) \in Nat /\ (n - 1) \div (A * T) < Repetitions
    <3> DEFINE P == A * T
    <3>1. P \in Nat \ {0} /\ n - 1 \in Nat /\ n - 1 < Repetitions * P
      BY <1>1, <2>1, <2>2
    <3> HIDE DEF P
    <3>2. (n - 1) \div P \in Nat /\ (n - 1) \div P < Repetitions
      BY <1>1, <3>1
    <3> QED
      BY <3>2 DEF P
  <2> QED
    BY <1>1, <2>3
<1> QED
  BY <1>2, <1>3, <1>4, AskedTyped, TargetsTyped DEF Cell, Matrix

-----------------------------------------------------------------------------
(* What a run leaves behind *)

\* Gold files are dated by the freeze that wrote them.
FilesAreDated ==
  /\ Freezing => freezes \in Nat \ {0}
  /\ \A q \in DOMAIN goldFiles : goldFiles[q].at \in 1 .. freezes

\* Whatever is past its start is a run.
RunAtHand == stage # "start" => run \in Nat \ {0}

TypedInv ==
  /\ PublicationInv
  /\ PublicationTypeOK
  /\ FilesAreDated
  /\ RunAtHand

LEMMA FilesStayDated ==
  GoldInv /\ FilesAreDated /\ [GoldNext]_goldVars => FilesAreDated' /\ freezes <= freezes'
<1> SUFFICES ASSUME GoldInv, FilesAreDated, [GoldNext]_goldVars
             PROVE  FilesAreDated' /\ freezes <= freezes'
  OBVIOUS
<1>0. freezes \in Nat
  BY DEF GoldInv, GoldTypeOK
<1>1. CASE StartFreeze
  BY <1>0, <1>1 DEF StartFreeze, FilesAreDated, Freezing
<1>2. CASE WriteGold
  <2>1. /\ goldFiles' = BindGold(goldFiles, Question, Artifact)
        /\ UNCHANGED <<freezes, rows>>
        /\ Freezing /\ Artifact.at = freezes
    BY <1>2 DEF WriteGold, AtQuestion, Artifact
  <2>2. \A q \in DOMAIN goldFiles' :
          goldFiles'[q] = Artifact \/ (q \in DOMAIN goldFiles /\ goldFiles'[q] = goldFiles[q])
    BY <2>1 DEF BindGold
  <2> QED
    BY <1>0, <2>1, <2>2 DEF FilesAreDated, Freezing
<1>3. CASE UNCHANGED <<freezes, goldFiles>> /\ rows' \in {rows, "none"}
  BY <1>0, <1>3 DEF FilesAreDated, Freezing
<1>4. CASE ~ StartFreeze /\ ~ WriteGold
  <2>1. UNCHANGED <<freezes, goldFiles>> /\ rows' \in {rows, "none"}
    BY <1>4 DEF GoldNext, ExecuteReference, WritePack, FreezeFails, ChangeInstances,
       ChangeReference, goldVars
  <2> QED
    BY <1>3, <2>1
<1> QED
  BY <1>1, <1>2, <1>4

LEMMA TypedInit == PublicationInit => TypedInv
<1> SUFFICES ASSUME PublicationInit PROVE TypedInv
  OBVIOUS
<1>1. PublicationTypeOK
  BY MatrixSizeTyped, MaxRunsAssumption, ModesAssumption
  DEF PublicationInit, GoldInit, PublicationTypeOK
<1> QED
  BY <1>1, PublicationInitInv DEF PublicationInit, GoldInit, TypedInv, FilesAreDated,
     Freezing, RunAtHand

\* Nothing is changed of a run while Gold is frozen, and nothing of Gold by a run.
LEMMA TypeStep ==
  ASSUME TypedInv, PublicationInv', [PublicationNext]_vars
  PROVE  PublicationTypeOK'
<1>1. MatrixSize \in Nat /\ freezes \in Nat /\ MaxRuns \in Nat
  BY MatrixSizeTyped, MaxRunsAssumption DEF TypedInv, PublicationInv, GoldInv, GoldTypeOK
<1>2. MatrixSize' = MatrixSize
  BY DEF PublicationNext, StartRun, ReadGold, Evaluate, TrialRaises, Die, EndTrials,
     BindRun, BindPilot, GiveUp, Publish, vars, publicationVars, MatrixSize, Asked
<1>3. DOMAIN goldFiles' \subseteq QuestionIds
  BY DEF PublicationInv, GoldInv
<1>4. CASE [GoldNext]_goldVars /\ UNCHANGED publicationVars
  <2>1. freezes <= freezes' /\ freezes' \in Nat
    BY <1>4, FilesStayDated DEF TypedInv, PublicationInv, GoldInv, GoldTypeOK
  <2> QED
    BY <1>1, <1>2, <1>3, <1>4, <2>1 DEF TypedInv, PublicationTypeOK, publicationVars,
       CellOf, atStart
<1>5. CASE StartRun
  <2>1. /\ run \in Nat /\ run' = run + 1 /\ run < MaxRuns
        /\ trials' = 0 /\ stage' = "trials"
        /\ runId' \in RunNames /\ begun' \in {0, freezes}
        /\ UNCHANGED <<goldVars, mode, loaded, records>>
    BY <1>5 DEF StartRun, TypedInv, PublicationTypeOK
  <2>2. \A r \in records : CellOf(r)' \in Matrix /\ r.dir \in 1 .. run'
    <3> SUFFICES ASSUME NEW r \in records PROVE CellOf(r)' \in Matrix /\ r.dir \in 1 .. run'
      OBVIOUS
    <3>1. CellOf(r)' = CellOf(r)
      BY DEF CellOf
    <3>2. CellOf(r) \in Matrix /\ r.dir \in 1 .. run
      BY DEF TypedInv, PublicationTypeOK
    <3> QED
      BY <2>1, <3>1, <3>2
  <2> QED
    BY <1>1, <1>2, <1>3, <2>1, <2>2 DEF TypedInv, PublicationTypeOK, goldVars, atStart
<1>6. CASE ReadGold
  <2>1. /\ loaded' = goldFiles[TrialCell.question]
        /\ TrialCell.question \in DOMAIN goldFiles
        /\ UNCHANGED <<goldVars, mode, stage, atStart, trials, records>>
    BY <1>6 DEF ReadGold
  <2>2. loaded'.at \in 1 .. freezes'
    BY <2>1 DEF TypedInv, FilesAreDated, goldVars
  <2> QED
    BY <1>2, <1>3, <2>1, <2>2 DEF TypedInv, PublicationTypeOK, goldVars, CellOf, atStart
<1>7. CASE Evaluate
  <2>1. PICK c \in Candidates : records' = records \cup {Record(c)}
    BY <1>7 DEF Evaluate
  <2>2. /\ trials \in 0 .. MatrixSize /\ trials < MatrixSize
        /\ trials' = trials + 1 /\ loaded' = NoGold
        /\ stage = "trials"
        /\ UNCHANGED <<goldVars, mode, stage, atStart>>
    BY <1>7 DEF Evaluate, Forget, AtTrial, TypedInv, PublicationTypeOK
  <2>3. trials + 1 \in 1 .. MatrixSize
    BY <1>1, <2>2
  <2>4. TrialCell \in Matrix
    BY <2>3, CellInMatrix DEF TrialCell
  <2>5. CellOf(Record(c)) = TrialCell
    BY <2>4 DEF CellOf, Record, Matrix
  <2>6. Record(c).dir \in 1 .. run
    BY <2>2 DEF Record, TypedInv, RunAtHand
  <2>7. \A r \in records' : CellOf(r)' \in Matrix /\ r.dir \in 1 .. run
    BY <2>1, <2>4, <2>5, <2>6 DEF TypedInv, PublicationTypeOK, CellOf
  <2> QED
    BY <1>1, <1>2, <1>3, <2>2, <2>7 DEF TypedInv, PublicationTypeOK, goldVars, atStart
<1>8. CASE TrialRaises
  <2>1. trials' \in 0 .. MatrixSize
    BY <1>1, <1>8 DEF TrialRaises, AtTrial, TypedInv, PublicationTypeOK
  <2> QED
    BY <1>2, <1>3, <1>8, <2>1 DEF TrialRaises, TypedInv, PublicationTypeOK, goldVars,
       CellOf, atStart
<1>9. CASE Die \/ EndTrials \/ BindRun \/ BindPilot \/ GiveUp \/ Publish
  <2>1. /\ stage' \in {"start", "closed", "bound", "published", "over"}
        /\ loaded' \in {loaded, NoGold}
        /\ UNCHANGED <<goldVars, mode, atStart, trials, records>>
    BY <1>9 DEF Die, EndTrials, BindRun, BindPilot, GiveUp, Publish
  <2> QED
    BY <1>2, <1>3, <2>1 DEF TypedInv, PublicationTypeOK, goldVars, CellOf, atStart
<1> QED
  BY <1>4, <1>5, <1>6, <1>7, <1>8, <1>9 DEF PublicationNext, vars

LEMMA RunAtHandStep ==
  ASSUME TypedInv, [PublicationNext]_vars PROVE RunAtHand'
<1>1. run \in Nat
  BY DEF TypedInv, PublicationTypeOK
<1>2. CASE StartRun
  BY <1>1, <1>2 DEF StartRun, RunAtHand
<1>3. CASE ~ StartRun
  BY <1>3 DEF PublicationNext, ReadGold, Evaluate, AtTrial, TrialRaises, Die, EndTrials,
     BindRun, BindPilot, GiveUp, Publish, vars, publicationVars, atStart, TypedInv,
     RunAtHand
<1> QED
  BY <1>2, <1>3

LEMMA TypedStep == TypedInv /\ [PublicationNext]_vars => TypedInv'
<1> SUFFICES ASSUME TypedInv, [PublicationNext]_vars PROVE TypedInv'
  OBVIOUS
<1>1. PublicationInv'
  BY PublicationStepInv DEF TypedInv
<1>2. [GoldNext]_goldVars
  BY DEF PublicationNext, StartRun, ReadGold, Evaluate, TrialRaises, Die, EndTrials,
     BindRun, BindPilot, GiveUp, Publish, vars
<1>3. FilesAreDated'
  BY <1>2, FilesStayDated DEF TypedInv, PublicationInv
<1> QED
  BY <1>1, <1>3, TypeStep, RunAtHandStep DEF TypedInv

LEMMA TypedInvariance == PublicationSpec => []TypedInv
BY TypedInit, TypedStep, PTL DEF PublicationSpec

-----------------------------------------------------------------------------
(* A run that no freeze disturbs *)

\* Since the run at hand was started no freeze has been under way.
Undisturbed == stage # "start" /\ begun = freezes

\* Gold is in memory only for the trial at hand.
LoadedForTrial == loaded # NoGold => AtTrial

\* What such a run has loaded is on disk, and what it has scored is in the pack.
ScoredWithThePack ==
  Undisturbed =>
    /\ ~ Freezing
    /\ loaded # NoGold => loaded = goldFiles[TrialCell.question]
    /\ \A r \in records : r.dir = run => r.reference = pack.entries[r.question].file.result

UndisturbedInv ==
  /\ TypedInv
  /\ LoadedForTrial
  /\ ScoredWithThePack
  /\ UndisturbedPackHoldsTheGold

LEMMA UndisturbedInit == PublicationInit => UndisturbedInv
BY TypedInit DEF PublicationInit, UndisturbedInv, LoadedForTrial, ScoredWithThePack,
   Undisturbed, UndisturbedPackHoldsTheGold

LEMMA LoadedStep == ASSUME UndisturbedInv, [PublicationNext]_vars PROVE LoadedForTrial'
<1>1. MatrixSize' = MatrixSize
  BY DEF PublicationNext, StartRun, ReadGold, Evaluate, TrialRaises, Die, EndTrials,
     BindRun, BindPilot, GiveUp, Publish, vars, publicationVars, MatrixSize, Asked
<1>2. trials \in Nat /\ MatrixSize \in Nat
  BY MatrixSizeTyped DEF UndisturbedInv, TypedInv, PublicationTypeOK
<1>3. CASE StartRun
  BY <1>3 DEF StartRun, UndisturbedInv, LoadedForTrial, AtTrial
<1>4. CASE Evaluate \/ TrialRaises \/ Die
  BY <1>4 DEF Evaluate, Forget, TrialRaises, Die, LoadedForTrial
<1>5. CASE EndTrials
  BY <1>2, <1>5 DEF EndTrials, UndisturbedInv, LoadedForTrial, AtTrial
<1>6. CASE ReadGold
  BY <1>1, <1>6 DEF ReadGold, LoadedForTrial, AtTrial
<1>7. CASE BindRun \/ BindPilot \/ GiveUp \/ Publish
  BY <1>7 DEF BindRun, BindPilot, GiveUp, Publish, UndisturbedInv, LoadedForTrial, AtTrial
<1>8. CASE UNCHANGED publicationVars
  BY <1>1, <1>8 DEF publicationVars, UndisturbedInv, LoadedForTrial, AtTrial
<1> QED
  BY <1>3, <1>4, <1>5, <1>6, <1>7, <1>8 DEF PublicationNext, vars

\* While no freeze is under way and none begins, the files and the pack stay.
LEMMA GoldStays ==
  ASSUME ~ Freezing, [GoldNext]_goldVars, freezes \in Nat
  PROVE  \/ freezes' = freezes + 1
         \/ UNCHANGED <<freezes, rows, goldFiles, pack>>
BY DEF GoldNext, StartFreeze, ExecuteReference, WriteGold, AtQuestion, WritePack,
   FreezeFails, ChangeInstances, ChangeReference, goldVars, Freezing

\* A trial is scored with the file that the pack names.
LEMMA EvaluateScores ==
  ASSUME UndisturbedInv, Evaluate, Undisturbed
  PROVE  \A r \in records' : r.dir = run => r.reference = pack.entries[r.question].file.result
<1>1. PICK c \in Candidates : records' = records \cup {Record(c)}
  BY DEF Evaluate
<1>2. Record(c).reference = pack.entries[Record(c).question].file.result
  BY DEF Evaluate, GoldIsPacked, Record, UndisturbedInv, ScoredWithThePack
<1> QED
  BY <1>1, <1>2 DEF UndisturbedInv, ScoredWithThePack

LEMMA ScoredStep == ASSUME UndisturbedInv, [PublicationNext]_vars PROVE ScoredWithThePack'
<1>1. freezes \in Nat /\ begun \in 0 .. freezes /\ run \in Nat
  BY DEF UndisturbedInv, TypedInv, PublicationTypeOK, PublicationInv, GoldInv, GoldTypeOK
<1>2. CASE [GoldNext]_goldVars /\ UNCHANGED publicationVars
  <2> SUFFICES ASSUME Undisturbed' PROVE ScoredWithThePack'
    BY DEF ScoredWithThePack
  <2>1. freezes <= freezes'
    BY <1>2, FilesStayDated DEF UndisturbedInv, TypedInv, PublicationInv
  <2>2. freezes' = freezes /\ Undisturbed
    <3>1. freezes' \in Nat /\ begun = freezes' /\ stage # "start"
      BY <1>1, <1>2 DEF Undisturbed, publicationVars
    <3> QED
      BY <1>1, <2>1, <3>1 DEF Undisturbed
  <2>3. UNCHANGED <<rows, goldFiles, pack>>
    BY <1>1, <1>2, <2>2, GoldStays DEF UndisturbedInv, ScoredWithThePack
  <2> QED
    BY <1>2, <2>2, <2>3 DEF UndisturbedInv, ScoredWithThePack, publicationVars, Freezing,
       TrialCell, Cell, Asked
<1>3. CASE StartRun
  <2>1. /\ begun' = IF Freezing THEN 0 ELSE freezes
        /\ run' = run + 1 /\ stage = "start"
        /\ UNCHANGED <<goldVars, loaded, records>>
    BY <1>3 DEF StartRun
  <2>2. loaded = NoGold
    BY <2>1 DEF UndisturbedInv, LoadedForTrial, AtTrial
  <2>3. \A r \in records : r.dir # run'
    BY <1>1, <2>1 DEF UndisturbedInv, TypedInv, PublicationTypeOK
  <2>4. Undisturbed' => ~ Freezing
    <3>1. Freezing => freezes # 0
      BY DEF UndisturbedInv, TypedInv, FilesAreDated
    <3> QED
      BY <2>1, <3>1 DEF Undisturbed, goldVars
  <2> QED
    BY <2>1, <2>2, <2>3, <2>4 DEF ScoredWithThePack, goldVars, Freezing
<1>4. CASE Evaluate
  <2>1. UNCHANGED <<goldVars, mode, stage, atStart>> /\ loaded' = NoGold
    BY <1>4 DEF Evaluate, Forget
  <2>2. Undisturbed' => Undisturbed
    BY <2>1 DEF Undisturbed, goldVars, atStart
  <2> QED
    BY <1>4, <2>1, <2>2, EvaluateScores DEF UndisturbedInv, ScoredWithThePack, goldVars,
       atStart, Freezing
<1>5. CASE ReadGold
  BY <1>5 DEF ReadGold, UndisturbedInv, ScoredWithThePack, Undisturbed, goldVars, atStart,
     Freezing, TrialCell, Cell, Asked
<1>6. CASE TrialRaises \/ Die
  BY <1>6 DEF TrialRaises, Die, AtTrial, UndisturbedInv, ScoredWithThePack, Undisturbed,
     goldVars, atStart, Freezing
<1>7. CASE EndTrials \/ BindRun \/ BindPilot \/ GiveUp \/ Publish
  <2>1. /\ stage # "start"
        /\ UNCHANGED <<goldVars, mode, atStart, trials, loaded, records>>
    BY <1>7 DEF EndTrials, BindRun, BindPilot, GiveUp, Publish
  <2> QED
    BY <2>1 DEF UndisturbedInv, ScoredWithThePack, Undisturbed, goldVars, atStart,
       Freezing, TrialCell, Cell, Asked
<1>8. CASE UNCHANGED vars
  BY <1>2, <1>8 DEF vars
<1> QED
  BY <1>2, <1>3, <1>4, <1>5, <1>6, <1>7, <1>8 DEF PublicationNext

\* The manifest takes the one result of its records; the records have the pack's.
LEMMA BindUndisturbed ==
  ASSUME UndisturbedInv, BindRun PROVE UndisturbedPackHoldsTheGold'
<1>1. PICK dirs \in Directories :
        ManifestComplete(RecordsOf(dirs)) /\ manifest' = Manifest(dirs)
  BY DEF BindRun
<1>2. stage = "closed" /\ UNCHANGED <<goldVars, atStart>>
  BY DEF BindRun
<1> SUFFICES ASSUME begun = freezes, dirs = {run}, NEW q \in QuestionIds
             PROVE  pack.entries[q].file.result = Manifest(dirs).gold[q]
  BY <1>1, <1>2 DEF UndisturbedPackHoldsTheGold, Manifest, goldVars, atStart
<1>3. \A r \in RecordsOf(dirs) : r.reference = pack.entries[r.question].file.result
  BY <1>2 DEF RecordsOf, UndisturbedInv, ScoredWithThePack, Undisturbed
<1> DEFINE S == ReferencesOf(RecordsOf(dirs), q)
<1>4. S # {}
  BY <1>1 DEF ManifestComplete, ReferencesOf
<1>5. \A v \in S : v = pack.entries[q].file.result
  BY <1>3 DEF ReferencesOf
<1>6. Manifest(dirs).gold[q] = CHOOSE v \in S : TRUE
  BY DEF Manifest
<1> HIDE DEF S
<1> QED
  BY <1>4, <1>5, <1>6

LEMMA HoldsTheGoldStep ==
  ASSUME UndisturbedInv, [PublicationNext]_vars PROVE UndisturbedPackHoldsTheGold'
<1>1. CASE BindRun
  BY <1>1, BindUndisturbed
<1>2. CASE stage' # "bound"
  BY <1>2 DEF UndisturbedPackHoldsTheGold
<1>3. CASE ~ BindRun /\ stage' = "bound"
  <2>1. stage = "bound" /\ UNCHANGED publicationVars /\ [GoldNext]_goldVars
    BY <1>3 DEF PublicationNext, StartRun, ReadGold, Evaluate, AtTrial, TrialRaises, Die,
       EndTrials, BindPilot, GiveUp, Publish, vars, publicationVars
  <2>2. /\ freezes \in Nat /\ freezes' \in Nat /\ freezes <= freezes'
        /\ begun \in 0 .. freezes
    <3>1. freezes <= freezes' /\ GoldInv'
      BY <2>1, FilesStayDated, GoldStepInv DEF UndisturbedInv, TypedInv, PublicationInv
    <3> QED
      BY <3>1 DEF UndisturbedInv, TypedInv, PublicationTypeOK, PublicationInv, GoldInv,
         GoldTypeOK
  <2>3. begun = freezes' => begun = freezes
    BY <2>2
  <2> QED
    BY <2>1, <2>3 DEF UndisturbedInv, UndisturbedPackHoldsTheGold, publicationVars
<1> QED
  BY <1>1, <1>2, <1>3

LEMMA UndisturbedStep == UndisturbedInv /\ [PublicationNext]_vars => UndisturbedInv'
<1> SUFFICES ASSUME UndisturbedInv, [PublicationNext]_vars PROVE UndisturbedInv'
  OBVIOUS
<1>1. TypedInv'
  BY TypedStep DEF UndisturbedInv
<1> QED
  BY <1>1, LoadedStep, ScoredStep, HoldsTheGoldStep DEF UndisturbedInv

LEMMA UndisturbedInvariance == PublicationSpec => []UndisturbedInv
BY UndisturbedInit, UndisturbedStep, PTL DEF PublicationSpec

-----------------------------------------------------------------------------
(* Theorems *)

\* A pack that verifies binds the files of one freeze that came to its end.
THEOREM PacksAreOneFreeze == PublicationSpec => []AcceptedPackIsOneFreeze
<1>1. PublicationInv => AcceptedPackIsOneFreeze
  BY DEF PublicationInv, GoldInv, PackOfOneFreeze, AcceptedPackIsOneFreeze, Verifies,
     EntryVerifies, DigestHolds
<1> QED
  BY <1>1, PublicationInvariance, PTL

\* A manifest names the Gold result every one of its trials was compared with.
THEOREM ManifestsNameTheGold == PublicationSpec => []ManifestNamesTheGold
<1>1. PublicationInv => ManifestNamesTheGold
  BY DEF PublicationInv
<1> QED
  BY <1>1, PublicationInvariance, PTL

\* Whatever is on disk belongs to a run that was started, and to a cell of its
\* matrix; what is compared was written by a freeze.
THEOREM PublicationTypeCorrect == PublicationSpec => []PublicationTypeOK
<1>1. TypedInv => PublicationTypeOK
  BY DEF TypedInv
<1> QED
  BY <1>1, TypedInvariance, PTL

\* If no freeze is under way when a run starts and none begins until it is bound,
\* the pack its manifest names holds the Gold its trials were scored with: what
\* publication_pack refutes takes a freeze behind or beside the run.
THEOREM UndisturbedPacksHold == PublicationSpec => []UndisturbedPackHoldsTheGold
<1>1. UndisturbedInv => UndisturbedPackHoldsTheGold
  BY DEF UndisturbedInv
<1> QED
  BY <1>1, UndisturbedInvariance, PTL
=============================================================================
