--------------------------- MODULE AuthoredProject ----------------------------
(***************************************************************************)
(* What `recon parse` promises of the files it finds: one answer, given at *)
(* once, that depends on the project as a whole and not on the order in    *)
(* which its directories, files and contracts are looked at.  Stated from  *)
(* docs/implementation/parser-and-manifest.md and project-resources; that  *)
(* the code keeps it is shown by ParseProject.                             *)
(*                                                                         *)
(* An outcome is [exit, contracts]: the contracts of the manifest, each    *)
(* under its name with the place <<file, index>> of its definition.        *)
(***************************************************************************)
EXTENDS AuthoredFiles

VARIABLES project, outcome

NoContracts == [name \in {} |-> <<>>]
Ended(exit, contracts) == [exit |-> exit, contracts |-> contracts]
NoOutcome == Ended("none", NoContracts)

(* The configuration is a mapping of documented fields of their types.     *)
SoundConfig(config) ==
  /\ config.file = "mapping" /\ ~ config.unknown
  /\ config.name = "good"
  /\ {config.version, config.profile} \subseteq {"absent", "null", "good"}
  /\ config.configVersion \in {"absent", "good"}
  /\ {config.target, config.report, config.state} \subseteq {"absent", "good"}
  /\ \A kind \in Kind : config.paths[kind].written \in {"absent", "list"}

Configured(kind) == LET dirs == DirectoriesOf(project.config, kind)
                    IN {dirs[i] : i \in DOMAIN dirs}

(* A directory has to exist if it is written down, or holds contracts.     *)
DirectoriesExist ==
  \A kind \in Kind : \A dir \in Configured(kind) :
    \/ project.directories[dir] = "directory"
    \/ /\ project.directories[dir] = "absent"
       /\ project.config.paths[kind].written = "absent"
       /\ ~ RequiredByDefault(kind)

(* The kinds through whose directories a file can be reached.              *)
KindsOf(file) ==
  {kind \in Kind :
     \E dir \in Configured(kind) :
       /\ project.directories[dir] = "directory"
       /\ \E path \in project.listing[dir] :
            /\ project.suffix[path] = SuffixOf(kind)
            /\ project.file[path] = file}

ContractFiles == {file \in Files : KindsOf(file) = {"contract"}}

SoundEndpoint(end) ==
  end.value = "good" /\ end.connection /\ end.relation # end.query

(* A contract of a list has the version of the list unless it has its own. *)
SoundEntry(entry, content) ==
  /\ entry.shape = "mapping" /\ ~ entry.unknown /\ entry.optional
  /\ {entry.name, entry.checks} = {"good"}
  /\ SoundEndpoint(entry.source) /\ SoundEndpoint(entry.target)
  /\ \/ entry.version = "good"
     \/ /\ entry.version = "absent"
        /\ content.form = "list" /\ content.version = "good"

SoundContent(content) ==
  /\ content.form \in {"single", "list"}
  /\ content.form = "list" => content.version # "bad"
  /\ \A i \in DOMAIN content.entries : SoundEntry(content.entries[i], content)

(* The places of the contracts that can be used.                           *)
EntryAt(place) == project.content[place[1]].entries[place[2]]

Definitions ==
  {place \in ContractFiles \X UNION {DOMAIN project.content[f].entries :
                                       f \in ContractFiles} :
     LET content == project.content[place[1]]
     IN /\ content.form \in {"single", "list"}
        /\ place[2] \in DOMAIN content.entries
        /\ SoundEntry(content.entries[place[2]], content)}

Names == {EntryAt(place).called : place \in Definitions}

(* Nothing of the project is wrong.                                        *)
SoundProject ==
  /\ DirectoriesExist
  /\ \A file \in Files : Cardinality(KindsOf(file)) <= 1
  /\ \A file \in ContractFiles : SoundContent(project.content[file])
  /\ \A p, q \in Definitions : EntryAt(p).called = EntryAt(q).called => p = q

(* Every contract that can be used, under its name; where several have one *)
(* name, one of them.                                                      *)
KeepsContracts(contracts) ==
  /\ DOMAIN contracts = Names
  /\ \A name \in Names : /\ contracts[name] \in Definitions
                         /\ EntryAt(contracts[name]).called = name

Init == outcome = NoOutcome

(* A wrong configuration is reported before anything else is looked at.    *)
RefuseConfig ==
  /\ ~ SoundConfig(project.config)
  /\ outcome' = Ended("configuration_error", NoContracts)

WriteManifest ==
  /\ SoundConfig(project.config)
  /\ outcome'.exit = IF SoundProject THEN "success" ELSE "validation_error"
  /\ KeepsContracts(outcome'.contracts)

(* The manifest cannot be written.                                         *)
WriteFails ==
  /\ SoundConfig(project.config)
  /\ outcome' = Ended("runtime_error", NoContracts)

Answer ==
  /\ outcome = NoOutcome
  /\ RefuseConfig \/ WriteManifest \/ WriteFails
  /\ UNCHANGED project

Spec == Init /\ [][Answer]_<<project, outcome>>
=============================================================================
