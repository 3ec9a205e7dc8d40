---------------------------- MODULE AuthoredFiles -----------------------------
(***************************************************************************)
(* The files of a project as its authors may leave them: the project       *)
(* configuration, the directories it names, and the resource files in them.*)
(*                                                                         *)
(* Text is abstracted to what the parser tells apart.  A value is absent,  *)
(* null (the key is there, nothing follows it), bad (of another type, or   *)
(* empty where text is needed) or good.  Paths are numbers in the order of *)
(* their text; links may give one file several paths.                      *)
(***************************************************************************)
EXTENDS Integers, Sequences, FiniteSets

CONSTANTS
  Directories, \* names of directories, the default ones included
  Paths,       \* paths of files, numbers
  Files        \* files behind the paths

(* LOCAL_RESOURCE_KIND_DEFINITIONS, in the order the project paths have.   *)
Kinds == <<"contract", "sample_policy", "tolerance_policy", "schema_policy",
           "check_pack", "macro_file">>
Kind == {Kinds[i] : i \in DOMAIN Kinds}

SuffixOf(kind) == IF kind = "macro_file" THEN "sql" ELSE "yaml"
RequiredByDefault(kind) == kind = "contract"

Value == {"absent", "null", "bad", "good"}

(* A list of directories in the configuration, as it is written.           *)
PathList == [written : {"absent", "not_list", "bad_item", "list"},
             values : Seq(Directories)]

(* recon_project.yml.  Of a file that is no mapping only that is known.    *)
Config ==
  [file : {"not_found", "unreadable", "undecodable", "bad_yaml",
           "not_mapping", "bad_keys", "mapping"},
   unknown : BOOLEAN, \* it has fields that are not allowed
   name : Value, version : Value, profile : Value,
   configVersion : {"absent", "bad", "unsupported", "good"},
   target : Value, report : Value, state : Value,
   paths : [Kind -> PathList]]

(* One end of a contract: which of its fields are text that is not empty.  *)
Endpoint == [value : Value \cup {"bad_keys"},
             connection : BOOLEAN, relation : BOOLEAN, query : BOOLEAN]

(* A contract: `unknown` says it has fields that are not allowed, and      *)
(* `optional` that its optional fields have their types.                   *)
Entry ==
  [shape : {"mapping", "not_mapping", "bad_keys"},
   version : Value, name : Value, called : STRING,
   source : Endpoint, target : Endpoint, checks : Value,
   unknown : BOOLEAN, optional : BOOLEAN]

(* The content of a file: a single contract, a list of contracts with a    *)
(* version of its own ("list"), or something that is neither.              *)
Content ==
  [form : {"unreadable", "undecodable", "bad_yaml", "not_mapping", "bad_keys",
           "single", "mixed", "not_list", "list"},
   version : Value, entries : Seq(Entry)]

Project ==
  [config : Config,
   directories : [Directories -> {"absent", "file", "directory"}],
   listing : [Directories -> SUBSET Paths],
   suffix : [Paths -> {"yaml", "sql"}],
   file : [Paths -> Files],
   content : [Files -> Content]]

ASSUME PathsAssumption == Paths \subseteq Nat /\ IsFiniteSet(Paths)
ASSUME DefaultsAssumption == Kind \subseteq Directories

(* The directories of a kind: those that are written or else the default,  *)
(* which is named after the kind here.                                     *)
DirectoriesOf(config, kind) ==
  IF config.paths[kind].written = "list"
    THEN config.paths[kind].values
    ELSE <<kind>>
=============================================================================
