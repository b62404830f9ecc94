------------------------------- MODULE GoldPack --------------------------------
(***************************************************************************)
(* The frozen Gold of the representative suite: freeze_representative_pack *)
(* and verify_representative_pack of runner/core/representative_gold.py.   *)
(* Freezing executes the reference SQL of one question after the other and *)
(* writes each Gold file over the one that is there; the pack that binds   *)
(* them is written last.  It may end between any two files, and be run     *)
(* again.                                                                  *)
(*                                                                         *)
(* A version of a reference SQL stands for its text, its digest and the    *)
(* result it yields on the snapshot; no two versions share any of them.    *)
(* The digest of a Gold file is the file with its time of freezing, its    *)
(* identity the file without it.                                           *)
(***************************************************************************)
EXTENDS Integers, Sequences, FiniteSets

CONSTANTS
  Questions,   \* REPRESENTATIVE_QUESTION_IDS, a sequence
  Versions,    \* versions of a reference SQL, and of the question instances
  MaxFreezes,  \* bound: how often Gold is frozen
  MaxChanges   \* bound: changes of the reference SQL and of the instances

ASSUME QuestionsAssumption ==
  /\ Questions \in Seq(STRING) \ {<<>>}
  /\ \A i, j \in DOMAIN Questions : Questions[i] = Questions[j] => i = j
ASSUME VersionsAssumption == Versions # {} /\ "none" \notin Versions
ASSUME FreezesAssumption == MaxFreezes \in Nat
ASSUME ChangesAssumption == MaxChanges \in Nat

VARIABLES
  reference,  \* question -> the version of its reference SQL on disk
  instances,  \* the version of the instances file
  changes,    \* changes of the two so far
  freezes,    \* freezes so far; the number of one is its time
  frozen,     \* the artifacts of the current freeze, in memory
  rows,       \* the version of the instances it has loaded, "none" without one
  executed,   \* the result of the question it is at, "none" before
  goldFiles,  \* question -> its Gold file
  pack        \* pack.json

goldVars == <<reference, instances, changes, freezes, frozen, rows, executed,
              goldFiles, pack>>

QuestionIds == { Questions[i] : i \in DOMAIN Questions }

NoPack == [entries |-> <<>>, instances |-> "none", at |-> 0]

BindGold(f, q, v) == [x \in DOMAIN f \cup {q} |-> IF x = q THEN v ELSE f[x]]

-----------------------------------------------------------------------------
(* Freezing *)

\* _gold_identity_sha256
Identity(gold) == [sql |-> gold.sql, result |-> gold.result, line |-> gold.line]

\* Versions of different files are never compared: all start at one.
Base == CHOOSE v \in Versions : TRUE

GoldInit ==
  /\ reference = [q \in QuestionIds |-> Base]
  /\ instances = Base
  /\ changes = 0
  /\ freezes = 0
  /\ frozen = <<>>
  /\ rows = "none"
  /\ executed = "none"
  /\ goldFiles = <<>>
  /\ pack = NoPack

Freezing == rows # "none"

AtQuestion == Freezing /\ Len(frozen) < Len(Questions)

Question == Questions[Len(frozen) + 1]

\* The snapshot is validated and the instances are loaded.  No lock keeps another
\* freeze from starting meanwhile; that freezes are taken one after the other is an
\* assumption of this module.
StartFreeze ==
  /\ ~ Freezing
  /\ freezes < MaxFreezes
  /\ freezes' = freezes + 1
  /\ rows' = instances
  /\ UNCHANGED <<reference, instances, changes, frozen, executed, goldFiles, pack>>

\* The text of the reference SQL is read and executed.
ExecuteReference ==
  /\ AtQuestion
  /\ executed = "none"
  /\ executed' = reference[Question]
  /\ UNCHANGED <<reference, instances, changes, freezes, frozen, rows, goldFiles,
                 pack>>

\* The digest of the reference SQL is taken from the file, after its execution.
Artifact ==
  [sql |-> reference[Question], result |-> executed, line |-> rows, at |-> freezes]

WriteGold ==
  /\ AtQuestion
  /\ executed # "none"
  /\ goldFiles' = BindGold(goldFiles, Question, Artifact)
  /\ frozen' = Append(frozen, Artifact)
  /\ executed' = "none"
  /\ UNCHANGED <<reference, instances, changes, freezes, rows, pack>>

\* The digest of a file is taken from the disk, its identity from memory.
Packed(i) == [file |-> goldFiles[Questions[i]], identity |-> Identity(frozen[i])]

WritePack ==
  /\ Freezing
  /\ Len(frozen) = Len(Questions)
  /\ pack' = [entries |-> [q \in QuestionIds |->
                 Packed(CHOOSE i \in DOMAIN Questions : Questions[i] = q)],
              instances |-> instances, at |-> freezes]
  /\ frozen' = <<>>
  /\ rows' = "none"
  /\ UNCHANGED <<reference, instances, changes, freezes, executed, goldFiles>>

\* A reference does not fit its contract, a file is missing, the process dies:
\* what has been written stays.
FreezeFails ==
  /\ Freezing
  /\ frozen' = <<>>
  /\ rows' = "none"
  /\ executed' = "none"
  /\ UNCHANGED <<reference, instances, changes, freezes, goldFiles, pack>>

-----------------------------------------------------------------------------
(* Its inputs *)

ChangeReference(q) ==
  /\ changes < MaxChanges
  /\ changes' = changes + 1
  /\ \E v \in Versions \ {reference[q]} : reference' = [reference EXCEPT ![q] = v]
  /\ UNCHANGED <<instances, freezes, frozen, rows, executed, goldFiles, pack>>

ChangeInstances ==
  /\ changes < MaxChanges
  /\ changes' = changes + 1
  /\ instances' \in Versions \ {instances}
  /\ UNCHANGED <<reference, freezes, frozen, rows, executed, goldFiles, pack>>

GoldNext ==
  \/ StartFreeze \/ ExecuteReference \/ WriteGold \/ WritePack \/ FreezeFails
  \/ ChangeInstances
  \/ \E q \in QuestionIds : ChangeReference(q)

-----------------------------------------------------------------------------
(* Verification *)

\* Mutant: the identity of a Gold file is all that is compared.
AnyDigest(q) == TRUE

DigestHolds(q) == goldFiles[q] = pack.entries[q].file

\* The Gold file is the packed one and was made from the inputs of today.
EntryVerifies(q) ==
  /\ DigestHolds(q)
  /\ Identity(goldFiles[q]) = pack.entries[q].identity
  /\ goldFiles[q].line = instances
  /\ goldFiles[q].sql = reference[q]

\* verify_representative_pack does not raise.
Verifies ==
  /\ pack # NoPack
  /\ pack.instances = instances
  /\ \A q \in DOMAIN pack.entries : EntryVerifies(q)

-----------------------------------------------------------------------------
(* Properties *)

\* A pack that verifies is the work of one freeze that came to its end: however
\* often Gold was frozen, given up half-way and frozen again, it binds a file of
\* every question, and no file that another freeze has written.
AcceptedPackIsOneFreeze ==
  Verifies =>
    /\ DOMAIN goldFiles = QuestionIds
    /\ \A q \in QuestionIds : goldFiles[q].at = pack.at
=============================================================================
