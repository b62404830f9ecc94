--------------------------- MODULE MCNativeSurface ----------------------------
(* Small artifact roots for NativeSurface. *)
EXTENDS NativeSurface, TLC

McSql == {[parses |-> TRUE, statements |-> 1, leading |-> TRUE, forbidden |-> FALSE,
           select |-> TRUE]}

(* Skill packages: two versions, one with a symbolic link, one without its
   instructions' frontmatter. *)
SkillText(front, version) == [kind |-> "text", front |-> front, version |-> version]
SkillOther(kind) == [kind |-> kind, front |-> FALSE, version |-> 1]

Package(version) ==
  "SKILL.md" :> SkillText(TRUE, version) @@ "refs/a.md" :> SkillText(FALSE, 1)
    @@ "logo.png" :> SkillOther("binary")

Packages ==
  {Package(1), Package(2),
   Package(1) @@ "refs/b.md" :> SkillOther("symlink"),
   "refs/a.md" :> SkillText(FALSE, 1),
   "SKILL.md" :> SkillText(FALSE, 1)}

(* OKF bundles: one whose links hold, one with a broken link, one whose link only
   holds from the root, one whose link leads to an empty directory, one with a
   symbolic link, one without an index's frontmatter. *)
Other(kind) == [kind |-> kind, front |-> "none", links |-> {}, version |-> 1]

Markdown(front, links, version) ==
  [kind |-> "text", front |-> front, links |-> links, version |-> version]

Bundle(links) ==
  <<"index.md">> :> Markdown("mapping", {<<"tables">>, <<"tables", "t.md">>}, 1)
    @@ <<"tables", "t.md">> :> Markdown("none", links, 1)
    @@ <<"tables", "u.md">> :> Markdown("mapping", {}, 1)

Bundles ==
  {Bundle({<<"u.md">>}), Bundle({<<"v.md">>}), Bundle({<<"tables", "u.md">>}),
   Bundle({<<"notes">>}) @@ <<"tables", "notes">> :> Other("directory"),
   Bundle({}) @@ <<"tables", "w.md">> :> Other("symlink"),
   <<"index.md">> :> Markdown("none", {}, 1)}

(* Ossie documents: two that hold, one with two datasets of a name, one whose
   relationship names a missing column, and one that holds with a dataset whose
   name is the qualified id of another and one with a blank before its name. *)
Dataset(name, fields) ==
  [name |-> name, fields |-> [i \in DOMAIN fields |-> [name |-> fields[i]]],
   keys |-> {fields[1]}]

Id == <<"id">>

Relationship(column) ==
  [name |-> <<"sale_item">>, from |-> <<"sale">>, to |-> <<"item">>,
   fromColumns |-> <<column>>, toColumns |-> <<Id>>]

Net == [name |-> <<"net">>, references |-> {<< <<"sale">>, <<"price">> >>}]

Model(datasets, relationships) ==
  <<[name |-> <<"m">>, datasets |-> datasets, relationships |-> relationships,
     metrics |-> <<Net>>]>>

OssieFile(conforms, models) ==
  ModelFile :> [kind |-> "text", conforms |-> conforms, models |-> models]

Sale == Dataset(<<"sale">>, << Id, <<"price">> >>)
Item == Dataset(<<"item">>, <<Id>>)

Documents ==
  {OssieFile(TRUE, Model(<<Sale, Item>>, <<Relationship(Id)>>)),
   OssieFile(TRUE, Model(<<Sale>>, <<>>)),
   OssieFile(TRUE, Model(<<Sale, Sale>>, <<>>)),
   OssieFile(TRUE, Model(<<Sale, Item>>, <<Relationship(<<"code">>)>>)),
   OssieFile(TRUE, Model(<<Sale, Dataset(<<"m", Slash, "sale">>, <<Id>>),
                           Dataset(<<Blank, "item">>, <<Id>>)>>, <<>>)),
   OssieFile(FALSE, Model(<<Sale>>, <<>>))}

PlainFile == [kind |-> "text"]

McTrees ==
  [blank_context |-> {EmptyTree},
   ddl_only      |-> {EmptyTree, "schema.sql" :> PlainFile},
   metricflow    |-> {"semantic_models" :> PlainFile,
                      "project_configuration.yml" :> PlainFile
                        @@ "semantic_models" :> PlainFile},
   ossie         |-> Documents \cup {EmptyTree},
   okf           |-> Bundles \cup {EmptyTree},
   skill         |-> Packages \cup {EmptyTree}]
=============================================================================
