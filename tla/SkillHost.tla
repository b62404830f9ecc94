------------------------------- MODULE SkillHost -------------------------------
(***************************************************************************)
(* The skill host: SkillHostAdapter of runner/adapters/skill_host.py.  It  *)
(* discloses a package step by step: its identity when the conversation    *)
(* starts, SKILL.md when the agent activates the skill, and one reference  *)
(* at a time after that.  Every read goes to the disk.                     *)
(***************************************************************************)
EXTENDS NativeAdapter

VARIABLES
  identity,   \* _identity: the package the constructor validated
  activated   \* _activated

skillVars == <<identity, activated>>

Instruction == "SKILL.md"

\* A path that leaves the package, is absolute, or names an evaluator's asset.
Unsafe == "../outside"

-----------------------------------------------------------------------------
(* The package *)

\* _validate_package: SKILL.md is a text with frontmatter, and no member of the
\* package is a symbolic link.  Its identity is the digest of all its files.
ValidPackage(package) ==
  /\ Instruction \in DOMAIN package
  /\ package[Instruction].kind = "text"
  /\ package[Instruction].front
  /\ \A path \in DOMAIN package : package[path].kind # "symlink"

SkillInit == identity = EmptyTree /\ activated = FALSE

\* The factory wants a host revision; the constructor validates the package.  The
\* identity becomes the initial context of the conversation.
SkillCreated ==
  LET ok == configured /\ TreeHashable /\ ValidPackage(disk) IN
  /\ target = "skill"
  /\ Created(ok)
  /\ identity' = IF ok THEN disk ELSE EmptyTree
  /\ UNCHANGED activated

SameIdentity == disk = identity

SkillPreflight ==
  /\ target = "skill"
  /\ Preflighted(ValidPackage(disk) /\ SameIdentity)
  /\ UNCHANGED skillVars

-----------------------------------------------------------------------------
(* Operations *)

Readable(path) == path \in DOMAIN disk /\ disk[path].kind = "text"

Refused(path) ==
  \/ path = Unsafe
  \/ path \in DOMAIN disk /\ disk[path].kind = "symlink"

\* _read_regular: a text is handed over, a missing or binary member is an error,
\* a path outside of the package or a symbolic link a breach of isolation.
ReadMember(op, path) ==
  \/ /\ Readable(path)
     /\ Give(Told(op, path, disk[path], "none"), Told(op, path, disk[path], "none"))
  \/ Refused(path) /\ Breach
  \/ ~ Readable(path) /\ ~ Refused(path) /\ Repairable

\* Mutant: the skill counts as activated before its instructions are read.
ActivatedAnyway == activated' = TRUE

ActivatedOnceRead == activated' = (activated \/ Readable(Instruction))

\* Arguments are refused before anything is read.
Activate ==
  /\ Request("skill.activate")
  /\ \/ Repairable /\ UNCHANGED activated
     \/ ReadMember("skill.activate", Instruction) /\ ActivatedOnceRead
  /\ UNCHANGED identity

ReadInstruction ==
  /\ Request("skill.read_instruction")
  /\ IF activated THEN ReadMember("skill.read_instruction", Instruction)
                  ELSE Repairable
  /\ UNCHANGED skillVars

\* SKILL.md is not a reference.
ReadReference(path) ==
  /\ Request("skill.read_reference")
  /\ IF activated /\ path # Instruction
       THEN ReadMember("skill.read_reference", path)
       ELSE Repairable
  /\ UNCHANGED skillVars

SkillPaths == UNION { DOMAIN tree : tree \in Trees["skill"] } \cup {Unsafe}

SkillRequest ==
  \/ Activate
  \/ ReadInstruction
  \/ \E path \in SkillPaths : ReadReference(path)
=============================================================================
