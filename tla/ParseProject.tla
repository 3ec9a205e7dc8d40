---------------------------- MODULE ParseProject ------------------------------
(***************************************************************************)
(* `recon parse` from the project configuration to the manifest: services/ *)
(* parse.py, project/context.py, project/paths.py, config/project_config.py*)
(* and the modules of parser/.  Every iteration of a loop is a step.  A    *)
(* diagnostic is [code, file], all of them are errors, and only which of   *)
(* them occur is kept; those that belong to no file have NoFile.           *)
(*                                                                         *)
(* An exception that nothing catches ends the process with no result: the  *)
(* stage "crashed", with its cause.                                        *)
(***************************************************************************)
EXTENDS AuthoredFiles

CONSTANTS Projects, \* the projects considered
          NoFile

VARIABLES
  project,     \* the project, never changed
  stage,
  toDiscover,  \* resource_path_entries still to be looked at
  candidates,  \* the files found, in the order they were found
  classified,  \* files whose candidates were compared
  found,       \* resource_files: the path and kind each file is known by
  open,        \* the contract file that is read, and its next entry
  parsed,      \* paths of the contract files that were read
  contracts,   \* the contracts parsed, in their order
  diagnostics,
  manifest,    \* manifest contracts by name
  listed,      \* how many of the contracts were looked at for it
  exit,        \* exit category, "none" while running
  cause        \* what raised, or "none"

discovery == <<toDiscover, candidates, classified, found>>
parsing == <<open, parsed, contracts>>
ending == <<manifest, listed, exit, cause>>
vars == <<project, stage, discovery, parsing, diagnostics, ending>>

ASSUME ProjectsAssumption == Projects \subseteq Project
ASSUME NoFileAssumption == NoFile \notin Files

Nothing == [path |-> -1, next |-> 0]
NoManifest == [name \in {} |-> <<>>]

(* The codes whose condition holds.                                        *)
Codes(conditions) == {c[1] : c \in {d \in conditions : d[2]}}
Report(codes, file) == {[code |-> c, file |-> file] : c \in codes}

Init ==
  /\ project \in Projects
  /\ stage = "config"
  /\ toDiscover = <<>> /\ candidates = <<>> /\ classified = {} /\ found = {}
  /\ open = Nothing /\ parsed = {} /\ contracts = <<>>
  /\ diagnostics = {}
  /\ manifest = NoManifest /\ listed = 0 /\ exit = "none" /\ cause = "none"

Crash(reason) ==
  /\ stage' = "crashed"
  /\ cause' = reason
  /\ UNCHANGED <<project, discovery, parsing, diagnostics, manifest, listed, exit>>

---------------------------------------------------------------------------
(* The configuration.  All of its diagnostics but one have one code.       *)

(* _required_string, _optional_string, _string_with_default                *)
RequiredString(value) == value # "good"
OptionalString(value) == value = "bad"
StringWithDefault(value) == value \in {"null", "bad"}

ConfigDiagnostics(config) == Codes({
  <<"INVALID_PROJECT_YAML", config.file = "bad_yaml">>,
  <<"PROJECT_NOT_FOUND", config.file = "not_found">>,
  <<"INVALID_PROJECT_CONFIG",
    \/ config.file \in {"unreadable", "not_mapping", "bad_keys"}
    \/ /\ config.file = "mapping"
       /\ \/ config.unknown
          \/ RequiredString(config.name)
          \/ OptionalString(config.version) \/ OptionalString(config.profile)
          \/ config.configVersion \in {"bad", "unsupported"}
          \/ \E kind \in Kind :
               config.paths[kind].written \in {"not_list", "bad_item"}
          \/ \E value \in {config.target, config.report, config.state} :
               StringWithDefault(value)>>})

(* _path_list of every kind: its directories and where they came from.     *)
Origin(config, kind) ==
  IF config.paths[kind].written = "absent" THEN "defaulted" ELSE "authored"

EntriesOf(config, kind) ==
  [i \in DOMAIN DirectoriesOf(config, kind) |->
     [dir |-> DirectoriesOf(config, kind)[i], kind |-> kind,
      origin |-> Origin(config, kind)]]

ResourcePathEntries(config) ==
  EntriesOf(config, Kinds[1]) \o EntriesOf(config, Kinds[2])
    \o EntriesOf(config, Kinds[3]) \o EntriesOf(config, Kinds[4])
    \o EntriesOf(config, Kinds[5]) \o EntriesOf(config, Kinds[6])

LoadConfig ==
  /\ stage = "config"
  /\ project.config.file # "undecodable"
  /\ LET codes == ConfigDiagnostics(project.config)
     IN /\ diagnostics' = Report(codes, NoFile)
        /\ IF codes = {}
             THEN /\ stage' = "discover"
                  /\ toDiscover' = ResourcePathEntries(project.config)
                  /\ UNCHANGED exit
             ELSE /\ stage' = "done"
                  /\ exit' = "configuration_error"
                  /\ UNCHANGED toDiscover
  /\ UNCHANGED <<project, candidates, classified, found, parsing, manifest,
                 listed, cause>>

(* Only the YAML loader of resource files expects a UnicodeDecodeError.    *)
ConfigRaises ==
  /\ stage = "config"
  /\ project.config.file = "undecodable"
  /\ Crash("undecodable_config")

---------------------------------------------------------------------------
(* discover_resource_files: the directories.                               *)
Least(S) == CHOOSE n \in S : \A m \in S : n <= m

(* The paths of a finite set in their order.                               *)
Sorted(S) ==
  [i \in 1..Cardinality(S) |->
     CHOOSE n \in S : Cardinality({m \in S : m < n}) = i - 1]

(* Mutant: a missing directory is forgiven if its kind may be missing.     *)
MissingPathIsAllowedByKind(entry) == ~ RequiredByDefault(entry.kind)

(* _missing_path_is_allowed                                                *)
MissingPathIsAllowed(entry) ==
  entry.origin = "defaulted" /\ ~ RequiredByDefault(entry.kind)

(* _iter_resource_files                                                    *)
ResourceFiles(entry) ==
  Sorted({path \in project.listing[entry.dir] :
            project.suffix[path] = SuffixOf(entry.kind)})

DiscoverPath ==
  /\ stage = "discover"
  /\ toDiscover # <<>>
  /\ toDiscover' = Tail(toDiscover)
  /\ LET entry == Head(toDiscover)
         status == project.directories[entry.dir]
         paths == ResourceFiles(entry)
     IN IF status = "directory"
          THEN /\ candidates' = candidates \o
                    [i \in DOMAIN paths |->
                       [path |-> paths[i], kind |-> entry.kind,
                        file |-> project.file[paths[i]]]]
               /\ UNCHANGED diagnostics
          ELSE /\ diagnostics' = diagnostics \cup
                    Report(Codes({<<"RESOURCE_PATH_NOT_FOUND",
                                    \/ status = "file"
                                    \/ ~ MissingPathIsAllowed(entry)>>}), NoFile)
               /\ UNCHANGED candidates
  /\ UNCHANGED <<project, stage, classified, found, parsing, ending>>

AllDiscovered ==
  /\ stage = "discover"
  /\ toDiscover = <<>>
  /\ stage' = "classify"
  /\ UNCHANGED <<project, discovery, parsing, diagnostics, ending>>

---------------------------------------------------------------------------
(* discover_resource_files: the files, in the order they were first found. *)
Unclassified == {i \in DOMAIN candidates : candidates[i].file \notin classified}
FirstCandidate == candidates[Least(Unclassified)]

(* _candidates_by_resource_type                                            *)
CandidateKinds(file) ==
  {candidates[i].kind : i \in {j \in DOMAIN candidates :
                                 candidates[j].file = file}}

Ambiguous(file) == Cardinality(CandidateKinds(file)) > 1

ClassifyFile ==
  /\ stage = "classify"
  /\ Unclassified # {}
  /\ LET file == FirstCandidate.file
     IN /\ Ambiguous(file) \/ project.content[file].form # "unreadable"
        /\ classified' = classified \cup {file}
        /\ IF Ambiguous(file)
             THEN /\ diagnostics' = diagnostics \cup
                       Report({"AMBIGUOUS_RESOURCE_FILE"}, file)
                  /\ UNCHANGED found
             ELSE /\ found' = found \cup {FirstCandidate}
                  /\ UNCHANGED diagnostics
  /\ UNCHANGED <<project, stage, toDiscover, candidates, parsing, ending>>

(* _file_checksum reads the file, whatever its kind.                       *)
ChecksumRaises ==
  /\ stage = "classify"
  /\ Unclassified # {}
  /\ ~ Ambiguous(FirstCandidate.file)
  /\ project.content[FirstCandidate.file].form = "unreadable"
  /\ Crash("unreadable_file")

AllClassified ==
  /\ stage = "classify"
  /\ Unclassified = {}
  /\ stage' = "parse"
  /\ UNCHANGED <<project, discovery, parsing, diagnostics, ending>>

---------------------------------------------------------------------------
(* _parse_contract_files: the contract files in the order of their paths.  *)
FileAt(path) == project.file[path]
ContentAt(path) == project.content[FileAt(path)]

Unparsed == {resource.path : resource \in {r \in found : r.kind = "contract"}}
              \ parsed

(* load_yaml_file and what the parser says of a file as a whole; a list    *)
(* whose version is wrong is read all the same.                            *)
ContentDiagnostics(content) == Codes({
  <<"FILE_READ_ERROR", content.form = "undecodable">>,
  <<"INVALID_YAML", content.form = "bad_yaml">>,
  <<"INVALID_CONTRACT",
    \/ content.form \in {"not_mapping", "bad_keys", "mixed", "not_list"}
    \/ content.form = "list" /\ content.version = "bad">>})

ParseFile ==
  /\ stage = "parse"
  /\ open = Nothing
  /\ Unparsed # {}
  /\ LET path == Least(Unparsed)
     IN /\ parsed' = parsed \cup {path}
        /\ diagnostics' = diagnostics \cup
             Report(ContentDiagnostics(ContentAt(path)), FileAt(path))
        /\ open' = IF ContentAt(path).form \in {"single", "list"}
                     THEN [path |-> path, next |-> 1]
                     ELSE Nothing
  /\ UNCHANGED <<project, stage, discovery, contracts, ending>>

---------------------------------------------------------------------------
(* parse_contract_resource: one contract of the file that is open.         *)

(* _required_endpoint                                                      *)
EndpointDiagnostics(end) == Codes({
  <<"INVALID_CONTRACT", end.value = "bad_keys">>,
  <<"INVALID_ENDPOINT",
    \/ end.value = "bad"
    \/ end.value = "good" /\ (~ end.connection \/ end.relation = end.query)>>})

(* The version of a list is a default for entries without the key.         *)
VersionOf(entry, content) ==
  IF entry.version = "absent" /\ content.form = "list"
       /\ content.version = "good"
    THEN "good"
    ELSE entry.version

RequiredValues(entry, content) ==
  {VersionOf(entry, content), entry.name, entry.source.value,
   entry.target.value, entry.checks}

(* _parse_contract_mapping; fields that are null have no diagnostic.       *)
EntryDiagnostics(entry, content) ==
  IF entry.shape # "mapping"
    THEN {"INVALID_CONTRACT"}
    ELSE EndpointDiagnostics(entry.source) \cup EndpointDiagnostics(entry.target)
           \cup Codes({
             <<"UNKNOWN_FIELD", entry.unknown>>,
             <<"MISSING_REQUIRED_FIELD",
               "absent" \in RequiredValues(entry, content)>>,
             <<"INVALID_CONTRACT",
               \/ "bad" \in {VersionOf(entry, content), entry.name, entry.checks}
               \/ ~ entry.optional>>})

(* The assertions after all fields were read do not hold.                  *)
AssertionFails(entry, content) ==
  /\ EntryDiagnostics(entry, content) = {}
  /\ "null" \in RequiredValues(entry, content)

OpenContent == ContentAt(open.path)
OpenEntry == OpenContent.entries[open.next]
EntryIsOpen == open # Nothing /\ open.next \in DOMAIN OpenContent.entries

ParseEntry ==
  /\ stage = "parse" /\ EntryIsOpen
  /\ ~ AssertionFails(OpenEntry, OpenContent)
  /\ LET codes == EntryDiagnostics(OpenEntry, OpenContent)
     IN /\ diagnostics' = diagnostics \cup Report(codes, FileAt(open.path))
        /\ contracts' =
             IF codes = {}
               THEN Append(contracts, [name |-> OpenEntry.called,
                                       place |-> <<FileAt(open.path), open.next>>])
               ELSE contracts
  /\ open' = [open EXCEPT !.next = open.next + 1]
  /\ UNCHANGED <<project, stage, discovery, parsed, ending>>

AssertionRaises ==
  /\ stage = "parse" /\ EntryIsOpen
  /\ AssertionFails(OpenEntry, OpenContent)
  /\ Crash("null_field")

FileParsed ==
  /\ stage = "parse"
  /\ open # Nothing /\ ~ EntryIsOpen
  /\ open' = Nothing
  /\ UNCHANGED <<project, stage, discovery, parsed, contracts, diagnostics,
                 ending>>

AllParsed ==
  /\ stage = "parse"
  /\ open = Nothing /\ Unparsed = {}
  /\ stage' = "manifest"
  /\ UNCHANGED <<project, discovery, parsing, diagnostics, ending>>

---------------------------------------------------------------------------
(* build_manifest and ManifestWriter.                                      *)

(* Mutant: the last definition of a name wins.                             *)
AddContractAgain ==
  /\ stage = "manifest"
  /\ listed < Len(contracts)
  /\ listed' = listed + 1
  /\ LET contract == contracts[listed + 1]
     IN /\ diagnostics' =
             IF contract.name \in DOMAIN manifest
               THEN diagnostics \cup
                      Report({"DUPLICATE_CONTRACT"}, contract.place[1])
               ELSE diagnostics
        /\ manifest' =
             [name \in DOMAIN manifest \cup {contract.name} |->
                IF name = contract.name THEN contract.place ELSE manifest[name]]
  /\ UNCHANGED <<project, stage, discovery, parsing, exit, cause>>

AddContract ==
  /\ stage = "manifest"
  /\ listed < Len(contracts)
  /\ listed' = listed + 1
  /\ LET contract == contracts[listed + 1]
     IN IF contract.name \in DOMAIN manifest
          THEN /\ diagnostics' = diagnostics \cup
                    Report({"DUPLICATE_CONTRACT"}, contract.place[1])
               /\ UNCHANGED manifest
          ELSE /\ manifest' =
                    [name \in DOMAIN manifest \cup {contract.name} |->
                       IF name = contract.name
                         THEN contract.place ELSE manifest[name]]
               /\ UNCHANGED diagnostics
  /\ UNCHANGED <<project, stage, discovery, parsing, exit, cause>>

Finish(category) ==
  /\ stage = "manifest"
  /\ listed = Len(contracts)
  /\ stage' = "done"
  /\ exit' = category
  /\ UNCHANGED <<project, discovery, parsing, diagnostics, manifest, listed,
                 cause>>

(* The manifest is written, and is what it is with all its diagnostics.    *)
WriteManifest ==
  Finish(IF diagnostics = {} THEN "success" ELSE "validation_error")

WriteFails == Finish("runtime_error")

Next ==
  \/ LoadConfig \/ ConfigRaises
  \/ DiscoverPath \/ AllDiscovered
  \/ ClassifyFile \/ ChecksumRaises \/ AllClassified
  \/ ParseFile \/ ParseEntry \/ AssertionRaises \/ FileParsed \/ AllParsed
  \/ AddContract \/ WriteManifest \/ WriteFails

Spec == Init /\ [][Next]_vars

---------------------------------------------------------------------------
(* Properties.                                                             *)

(* What the command has answered so far.                                   *)
Answered ==
  [exit |-> exit,
   contracts |-> IF exit \in {"success", "validation_error"}
                   THEN manifest ELSE NoManifest]

(* The loops over directories, files, contracts and names together keep    *)
(* the promise of AuthoredProject: nothing is lost or taken twice where    *)
(* directories overlap or links meet, a file of two kinds has none, one    *)
(* wrong contract costs no other contract of its file, and success means   *)
(* that nothing was wrong anywhere.                                        *)
Authored == INSTANCE AuthoredProject WITH outcome <- Answered
AuthoredSpec == Authored!Spec

(* Something of a file is wrong: it is of two kinds, its content or one of *)
(* its contracts is not sound, or a contract of it is not the first one of *)
(* its name.                                                               *)
IllFormed(file) ==
  \/ Cardinality(Authored!KindsOf(file)) > 1
  \/ /\ file \in Authored!ContractFiles
     /\ \/ ~ Authored!SoundContent(project.content[file])
        \/ \E place \in Authored!Definitions :
             /\ place[1] = file
             /\ manifest[Authored!EntryAt(place).called] # place

(* A parse that ends with a manifest has a diagnostic for exactly the files*)
(* in which something is wrong: none is blamed for what another one has,   *)
(* or for what an earlier contract of its own has.                         *)
FilesAreBlamed ==
  exit \in {"success", "validation_error"} =>
    \A file \in Files :
      (\E d \in diagnostics : d.file = file) <=> IllFormed(file)

(* docs/implementation/parser-and-manifest.md: parse-time validation should*)
(* catch "invalid scalar/list/object types" and "missing required contract *)
(* fields".  A field without a value is one or the other.                  *)
NullFieldsAreDiagnosed == cause # "null_field"
=============================================================================
