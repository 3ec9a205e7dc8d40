---------------------------- MODULE MCParseProject ----------------------------
(***************************************************************************)
(* ParseProject on three families of projects: with every configuration,   *)
(* with directories and links that overlap, and with two contract files of *)
(* every content.                                                          *)
(***************************************************************************)
EXTENDS ParseProject

CONSTANTS f1, f2

MCFiles == {f1, f2}
MCPaths == 1..3
MCDirectories == Kind \cup {"shared"}

Unwritten == [written |-> "absent", values |-> <<>>]
Wrong(written) == [written |-> written, values |-> <<>>]
ListOf(directories) == [written |-> "list", values |-> directories]

PlainConfig ==
  [file |-> "mapping", unknown |-> FALSE, name |-> "good", version |-> "absent",
   profile |-> "good", configVersion |-> "good", target |-> "absent",
   report |-> "good", state |-> "absent", paths |-> [k \in Kind |-> Unwritten]]

End(connection, relation, query) ==
  [value |-> "good", connection |-> connection, relation |-> relation,
   query |-> query]
Table == End(TRUE, TRUE, FALSE)

(* A contract; only what differs from a good one is named.                 *)
Good(name) ==
  [shape |-> "mapping", version |-> "good", name |-> "good", called |-> name,
   source |-> Table, target |-> Table, checks |-> "good", unknown |-> FALSE,
   optional |-> TRUE]

Single(entry) == [form |-> "single", version |-> "absent", entries |-> <<entry>>]
Listed(version, entries) ==
  [form |-> "list", version |-> version, entries |-> entries]
Unusable(form) == [form |-> form, version |-> "absent", entries |-> <<>>]

(* One contract file in the default directory.                             *)
PlainProject ==
  [config |-> PlainConfig,
   directories |-> [d \in MCDirectories |->
                      IF d \in {"contract", "shared"}
                        THEN "directory" ELSE "absent"],
   listing |-> [d \in MCDirectories |->
                  IF d = "contract" THEN {1} ELSE {}],
   suffix |-> [p \in MCPaths |-> "yaml"],
   file |-> [p \in MCPaths |-> IF p = 1 THEN f1 ELSE f2],
   content |-> [f \in MCFiles |-> Single(Good(IF f = f1 THEN "a" ELSE "b"))]]

---------------------------------------------------------------------------
ConfigProjects ==
  {[PlainProject EXCEPT !.config = c] : c \in
    {[PlainConfig EXCEPT !.file = f] :
       f \in {"not_found", "unreadable", "undecodable", "bad_yaml",
              "not_mapping", "bad_keys"}}
    \cup {[PlainConfig EXCEPT !.unknown = u, !.name = n, !.profile = v,
                              !.configVersion = w, !.target = t] :
            u \in BOOLEAN, n \in Value, v \in Value,
            w \in {"absent", "bad", "unsupported", "good"}, t \in Value}
    \cup {[PlainConfig EXCEPT !.paths[k] = Wrong(w)] :
            k \in Kind, w \in {"not_list", "bad_item"}}}

(* Two kinds of YAML files and one of SQL files, which may name one more   *)
(* directory or overlap in one; three paths to two files.                  *)
Overlapping ==
  [contract : {Unwritten, ListOf(<<"contract">>), ListOf(<<"shared", "contract">>)},
   check_pack : {Unwritten, ListOf(<<"shared">>)},
   macro_file : {Unwritten, ListOf(<<"contract">>)}]

Listings ==
  {[contract |-> a, shared |-> b] : a \in SUBSET {1, 2}, b \in SUBSET {2, 3}}

DirectoryProjects ==
  {[PlainProject EXCEPT
      !.config.paths = [k \in Kind |-> IF k \in DOMAIN o THEN o[k] ELSE Unwritten],
      !.directories = [d \in MCDirectories |->
        IF d = "contract" THEN s[1] ELSE IF d = "shared" THEN s[2] ELSE s[3]],
      !.listing = [d \in MCDirectories |->
                     IF d \in {"contract", "shared"} THEN l[d] ELSE {}],
      !.suffix[2] = x,
      !.file[3] = f[1],
      !.content[f2].form = f[2]] :
    o \in Overlapping, l \in Listings, x \in {"yaml", "sql"},
    f \in {<<f1, "single">>, <<f2, "single">>, <<f2, "unreadable">>},
    s \in {<<"directory", "directory", "absent">>,
           <<"absent", "directory", "directory">>,
           <<"directory", "absent", "absent">>,
           <<"directory", "file", "file">>}}

(* Contracts that differ from a good one in one field, or in two.          *)
Changed(field, values) == {[Good("a") EXCEPT ![field] = v] : v \in values}

Endpoints ==
  {End(c, r, q) : c \in BOOLEAN, r \in BOOLEAN, q \in BOOLEAN}
    \cup {[Table EXCEPT !.value = v] : v \in {"absent", "null", "bad", "bad_keys"}}

Entries ==
  {Good("a"), Good("b")}
    \cup Changed("version", Value) \cup Changed("name", Value)
    \cup Changed("checks", Value) \cup Changed("unknown", {TRUE})
    \cup Changed("optional", {FALSE})
    \cup Changed("shape", {"not_mapping", "bad_keys"})
    \cup Changed("source", Endpoints) \cup Changed("target", Endpoints)
    \cup {[Good("a") EXCEPT !.name = "null", !.checks = "absent"]}

FewEntries ==
  {Good("a"), Good("b"), [Good("a") EXCEPT !.version = "absent"],
   [Good("b") EXCEPT !.version = "null"],
   [Good("a") EXCEPT !.source.query = TRUE]}

Contents ==
  {Single(e) : e \in Entries}
    \cup {Listed(v, <<e, g>>) : v \in Value, e \in FewEntries, g \in FewEntries}
    \cup {Listed("good", <<>>)}
    \cup {Unusable(form) : form \in {"unreadable", "undecodable", "bad_yaml",
                             "not_mapping", "bad_keys", "mixed", "not_list"}}

FewContents ==
  {Single(Good("a")), Single(Good("b")), Unusable("bad_yaml"),
   Listed("good", <<Good("b"), Good("b")>>)}

(* The second file stands before or after the first one.                   *)
ContentProjects ==
  {[PlainProject EXCEPT !.listing["contract"] = {1, 2},
                        !.file = [p \in MCPaths |-> IF p = x THEN f1 ELSE f2],
                        !.content = [f \in MCFiles |-> IF f = f1 THEN c ELSE d]] :
    c \in Contents, d \in FewContents, x \in {1, 2}}

MCProjects == ConfigProjects \cup DirectoryProjects \cup ContentProjects
=============================================================================
