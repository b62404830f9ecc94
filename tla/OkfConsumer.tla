------------------------------ MODULE OkfConsumer ------------------------------
(***************************************************************************)
(* The consumer of an OKF bundle: OkfNativeConsumer of                     *)
(* runner/core/okf_native_consumer.py.  It lists, reads and searches the   *)
(* Markdown files of the bundle and follows the links between them.  Every *)
(* operation reads the disk anew.  A path is the sequence of its parts, a  *)
(* link the path from the directory of the file that declares it.  A       *)
(* directory that holds no file is an entry of its own.                    *)
(***************************************************************************)
EXTENDS NativeAdapter, SequencesExt

CONSTANT Queries   \* the texts the agent may search for

VARIABLE pendingQuery   \* _pending_query_sha256, "none" for None

Index == <<"index.md">>
Root  == <<>>

-----------------------------------------------------------------------------
(* Paths *)

Leaves(path) == \E i \in DOMAIN path : path[i] = ".."

\* What rglob finds and is_file() admits.
MarkdownFiles == { file \in DOMAIN disk : disk[file].kind # "directory" }

\* is_dir()
IsDirectory(path) ==
  \/ path = Root
  \/ path \in DOMAIN disk \ MarkdownFiles
  \/ \E file \in DOMAIN disk : IsStrictPrefix(path, file)

SymbolicLink(path) == path \in DOMAIN disk /\ disk[path].kind = "symlink"

\* _resolve_path.  A path with "..", an absolute one and a symbolic link are a
\* breach of isolation; what is neither a directory nor a Markdown file is
\* missing.
Resolved(path) ==
  IF Leaves(path) \/ SymbolicLink(path) THEN "breach"
  ELSE IF path \in MarkdownFiles THEN "file"
  ELSE IF IsDirectory(path) THEN "directory"
  ELSE "missing"

\* source.parent / link
LinkTarget(source, link) == Front(source) \o link

\* _markdown_files refuses the bundle if any file is a symbolic link.
Scannable == \A file \in DOMAIN disk : disk[file].kind # "symlink"

FilesUnder(directory) ==
  [file \in { f \in MarkdownFiles : IsPrefix(directory, f) } |-> disk[file]]

-----------------------------------------------------------------------------
(* The checks of the preflight *)

\* validate_frontmatter: a file may go without, the index of the bundle may not.
FrontmatterValid ==
  /\ Scannable
  /\ \A file \in MarkdownFiles : disk[file].front # "malformed"
  /\ Index \in MarkdownFiles => disk[Index].front = "mapping"

\* validate_links
LinksValid ==
  \A file \in MarkdownFiles : \A link \in disk[file].links :
    Resolved(LinkTarget(file, link)) \in {"file", "directory"}

OkfInit == pendingQuery = "none"

\* The constructor wants a directory; it reads no file.
OkfCreated ==
  /\ target = "okf"
  /\ Created(TreeHashable /\ disk # EmptyTree)
  /\ UNCHANGED pendingQuery

OkfPreflight ==
  /\ target = "okf"
  /\ Preflighted(FrontmatterValid /\ LinksValid)
  /\ UNCHANGED pendingQuery

-----------------------------------------------------------------------------
(* Operations *)

GiveList(op, path, directory) ==
  IF Scannable
    THEN Give(Told(op, path, FilesUnder(directory), "none"),
              Told(op, path, FilesUnder(directory), "none"))
    ELSE Repairable

GiveFile(op, path) ==
  Give(Told(op, path, disk[path], "none"), Told(op, path, disk[path], "none"))

ListFiles(prefix) ==
  /\ Request("okf.list_files")
  /\ \/ Resolved(prefix) = "breach" /\ Breach
     \/ Resolved(prefix) = "directory" /\ GiveList("okf.list_files", Root, prefix)
     \/ Resolved(prefix) \in {"file", "missing"} /\ Repairable
  /\ UNCHANGED pendingQuery

ReadFile(path) ==
  /\ Request("okf.read_file")
  /\ \/ Resolved(path) = "breach" /\ Breach
     \/ Resolved(path) = "file" /\ GiveFile("okf.read_file", path)
     \/ Resolved(path) \in {"directory", "missing"} /\ Repairable
  /\ UNCHANGED pendingQuery

\* The link must be one the source declares; a directory is listed.
Follow(path) ==
  \/ Resolved(path) = "breach" /\ Breach
  \/ Resolved(path) = "file" /\ GiveFile("okf.follow_link", path)
  \/ Resolved(path) = "directory" /\ GiveList("okf.follow_link", path, path)
  \/ Resolved(path) = "missing" /\ Repairable

Declares(source, link) == Resolved(source) = "file" /\ link \in disk[source].links

FollowLink(source, link) ==
  /\ Request("okf.follow_link")
  /\ \/ Resolved(source) = "breach" /\ Breach
     \/ Declares(source, link) /\ Follow(LinkTarget(source, link))
     \/ Resolved(source) # "breach" /\ ~ Declares(source, link) /\ Repairable
  /\ UNCHANGED pendingQuery

\* Mutant: a query left over from a search that failed is recorded.
FirstPending(query) == IF pendingQuery = "none" THEN query ELSE pendingQuery

\* The query of this very search replaces what an earlier one may have left.
Pending(query) == query

\* The query is noted before the files are scanned, and taken when the answer is
\* recorded: a scan that raises leaves it behind.
SearchText(query) ==
  /\ Request("okf.search_text")
  /\ IF Scannable
       THEN /\ Give(Told("okf.search_text", Root, EmptyTree, query),
                    Told("okf.search_text", Root, EmptyTree, Pending(query)))
            /\ pendingQuery' = "none"
       ELSE Repairable /\ pendingQuery' = Pending(query)

OkfPaths ==
  UNION { DOMAIN tree : tree \in Trees["okf"] } \cup {Root, <<"..">>}
    \cup { Front(file) : file \in UNION { DOMAIN tree : tree \in Trees["okf"] } }

OkfLinks ==
  UNION { UNION { tree[file].links : file \in DOMAIN tree } : tree \in Trees["okf"] }

OkfRequest ==
  \/ \E path \in OkfPaths : ListFiles(path) \/ ReadFile(path)
  \/ \E source \in OkfPaths, link \in OkfLinks : FollowLink(source, link)
  \/ \E query \in Queries : SearchText(query)
=============================================================================
