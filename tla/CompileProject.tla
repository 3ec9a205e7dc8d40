--------------------------- MODULE CompileProject ---------------------------
(***************************************************************************)
(* compile_project: the contracts of a project, first their names, then    *)
(* one by one their settings, columns, check packs and metrics, become a   *)
(* compiled contract and its checks, or diagnostics.  Translated from      *)
(* compiler/compile.py, columns.py, policies.py, cdc.py, metrics.py and    *)
(* check_packs.py.                                                         *)
(*                                                                         *)
(* The authored text is read once from front to back, so it is chosen as   *)
(* it is read: every iteration of a loop is a step with the next item.  A  *)
(* diagnostic is its code; all of them are errors, and only which of them  *)
(* occur is kept.  A set of null sentinels is "distinct", or "casing" if   *)
(* two of them differ in their case only; of the normalizations "lower"    *)
(* makes those equal and "trim" does not.                                  *)
(***************************************************************************)
EXTENDS CompiledChecks

CONSTANTS
  ContractNames, \* names a contract may have
  StableNames,   \* names that may be part of an id (is_valid_stable_id_part)
  CaseFold,      \* a function: str.casefold of every contract name
  Worlds         \* bounds on what is authored: sets of names, settings,
                 \* columns, uses and metrics, and how many of each there
                 \* are (maxNames, maxColumns, maxUses, maxMetrics)

Nulls == {"absent", "invalid", "distinct", "casing"}
Policy == {"absent", "invalid", "valid"}
Category == {"exact", "numeric", "timestamp", "string"}
BasicPack == "recon_core.basic_equivalence"

Settings ==
  [grain : {"absent", "invalid", "empty", "keys"},
   sampling : {"full", "named", "invalid"},
   nulls : Nulls,
   cdc : {"absent", "keys", "same_as_grain", "invalid"},
   columns : {"absent", "mapping", "invalid"},
   checks : {"mapping", "more_fields", "invalid"},
   use : {"absent", "list", "invalid"}]

(* A column entry; the key it stands under need not be a category.         *)
Columns ==
  [category : Category \cup {"include", "unknown"}, name : STRING,
   wellFormed : BOOLEAN, timezone : BOOLEAN, tolerance : Policy,
   nulls : Nulls, normalization : {"absent", "invalid", "trim", "lower"}]

Uses == [name : STRING, shape : {"name", "more_fields", "invalid"}]

Metrics ==
  [name : STRING, type : STRING, column : STRING, groups : Seq(STRING),
   shape : {"valid", "more_fields", "invalid"}, tolerance : Policy]

(* What may be written in a contract.                                      *)
AuthoredSettings == UNION {world.settings : world \in Worlds}
AuthoredColumns == UNION {world.columns : world \in Worlds}
AuthoredUses == UNION {world.uses : world \in Worlds}
AuthoredMetrics == UNION {world.metrics : world \in Worlds}

ASSUME NamesAssumption ==
  /\ ContractNames \subseteq STRING /\ StableNames \subseteq STRING
  /\ DOMAIN CaseFold = ContractNames
ASSUME AuthoredAssumption ==
  /\ AuthoredSettings \subseteq Settings /\ AuthoredColumns \subseteq Columns
  /\ AuthoredUses \subseteq Uses /\ AuthoredMetrics \subseteq Metrics

VARIABLES
  stage,     \* what is read next
  projectStable, \* the project name may be part of an id
  names,     \* the contracts found, in the order of their files
  files,     \* the contract that has each case-folded file name
  fatal,     \* diagnostics of the project: nothing is compiled
  artifacts, \* the compiled contracts
  settings, columns, uses, metrics, \* the contract read so far
  seen,      \* seen_names of the loop that runs
  declared,  \* the column registry: name and category
  columnDiagnostics, metricDiagnostics, diagnostics,
  checks     \* checks compiled for the contract so far

inputs == <<settings, columns, uses, metrics>>
project == <<projectStable, names, files, fatal, artifacts>>
contract == <<inputs, seen, declared, columnDiagnostics, metricDiagnostics,
              diagnostics, checks>>
vars == <<stage, project, contract>>

NoSettings ==
  [grain |-> "absent", sampling |-> "full", nulls |-> "absent",
   cdc |-> "absent", columns |-> "absent", checks |-> "mapping",
   use |-> "absent"]

(* What has been read lies within one of the worlds.                       *)
Within(items, known, bound) ==
  Len(items) <= bound /\ \A i \in DOMAIN items : items[i] \in known

InBounds ==
  \E world \in Worlds :
    /\ Within(names, world.names, world.maxNames)
    /\ settings \in world.settings \cup {NoSettings}
    /\ Within(columns, world.columns, world.maxColumns)
    /\ Within(uses, world.uses, world.maxUses)
    /\ Within(metrics, world.metrics, world.maxMetrics)

(* The codes whose condition holds.                                        *)
Diagnosed(conditions) == {c[1] : c \in {d \in conditions : d[2]}}

(* The code of the first condition that holds, as a set.                   *)
FirstDiagnosed(conditions) ==
  LET hits == {i \in DOMAIN conditions : conditions[i][2]}
  IN {conditions[i][1] : i \in {j \in hits : \A k \in hits : j <= k}}

Init ==
  /\ stage = "project"
  /\ projectStable \in BOOLEAN
  /\ names = <<>> /\ files = [f \in {} |-> ""] /\ fatal = {}
  /\ artifacts = <<>>
  /\ settings = NoSettings /\ columns = <<>> /\ uses = <<>> /\ metrics = <<>>
  /\ seen = {} /\ declared = {} /\ checks = <<>>
  /\ columnDiagnostics = {} /\ metricDiagnostics = {} /\ diagnostics = {}

---------------------------------------------------------------------------
(* The project.                                                            *)

(* Mutant: file names are compared as they are written.                    *)
FindContractByName ==
  /\ stage = "project"
  /\ \E name \in ContractNames :
       /\ names' = Append(names, name)
       /\ fatal' = fatal \cup Diagnosed({
            <<"INVALID_STABLE_ID_PART", name \notin StableNames>>,
            <<"DUPLICATE_CONTRACT", name \in {names[i] : i \in DOMAIN names}>>})
       /\ UNCHANGED files
  /\ UNCHANGED <<stage, projectStable, artifacts, contract>>
  /\ InBounds'

(* The three loops over the names, which do not depend on each other.  A   *)
(* colliding contract does not take the place of the one found before it.  *)
FindContract ==
  /\ stage = "project"
  /\ \E name \in ContractNames :
       LET key == CaseFold[name]
           collides == key \in DOMAIN files /\ files[key] # name
       IN /\ names' = Append(names, name)
          /\ fatal' = fatal \cup Diagnosed({
               <<"INVALID_STABLE_ID_PART", name \notin StableNames>>,
               <<"DUPLICATE_CONTRACT",
                 name \in {names[i] : i \in DOMAIN names}>>,
               <<"COMPILED_ARTIFACT_FILENAME_COLLISION", collides>>})
          /\ files' = IF collides
                        THEN files
                        ELSE [k \in DOMAIN files \cup {key} |->
                                IF k = key THEN name ELSE files[k]]
  /\ UNCHANGED <<stage, projectStable, artifacts, contract>>
  /\ InBounds'

(* Mutant: what was found out about the names is forgotten.                *)
ProjectFoundAnyway ==
  /\ stage = "project"
  /\ fatal' = fatal \cup Diagnosed({
       <<"INVALID_STABLE_ID_PART", ~ projectStable>>,
       <<"NO_CONTRACTS_FOUND", names = <<>> >>})
  /\ stage' = IF projectStable /\ names # <<>> THEN "settings" ELSE "done"
  /\ UNCHANGED <<projectStable, names, files, artifacts, contract>>

(* All names are known; a project with any diagnostic compiles nothing.    *)
ProjectFound ==
  /\ stage = "project"
  /\ fatal' = fatal \cup Diagnosed({
       <<"INVALID_STABLE_ID_PART", ~ projectStable>>,
       <<"NO_CONTRACTS_FOUND", names = <<>> >>})
  /\ stage' = IF fatal' = {} THEN "settings" ELSE "done"
  /\ UNCHANGED <<projectStable, names, files, artifacts, contract>>

---------------------------------------------------------------------------
(* The settings of a contract.                                             *)

(* _grain_keys: an invalid grain has no keys.                              *)
GrainKeys(s) == IF s.grain = "keys" THEN <<"id">> ELSE <<>>

(* Policies with different flaws have one code here, that of their shape.  *)
SettingsDiagnostics(s) == Diagnosed({
  <<"INVALID_GRAIN_KEYS", s.grain = "invalid">>,
  <<"INVALID_SAMPLING", s.sampling = "invalid">>,
  <<"INVALID_NULL_POLICY", s.nulls = "invalid">>,
  <<"INVALID_CDC_KEYS",
    \/ s.cdc = "invalid"
    \/ s.cdc = "same_as_grain" /\ GrainKeys(s) = <<>> >>})

(* The next contract is begun.                                             *)
ReadSettings ==
  /\ stage = "settings"
  /\ stage' = "columns"
  /\ settings' \in AuthoredSettings
  /\ diagnostics' = SettingsDiagnostics(settings')
  /\ columnDiagnostics' =
       Diagnosed({<<"INVALID_COLUMN_DECLARATION", settings'.columns = "invalid">>})
  /\ UNCHANGED <<project, columns, uses, metrics, seen, declared,
                 metricDiagnostics, checks>>
  /\ InBounds'

---------------------------------------------------------------------------
(* Its columns.                                                            *)

(* Two sentinels become the same string.                                   *)
Collide(nulls, normalization) == nulls = "casing" /\ normalization = "lower"

IsColumn(entry) == entry.category \in Category /\ entry.wellFormed

(* _column_field_diagnostics and _column_policy_diagnostics.               *)
PolicyDiagnostics(entry) == Diagnosed({
  <<"INVALID_COLUMN_DECLARATION", entry.timezone>>,
  <<"INVALID_TOLERANCE", entry.tolerance = "invalid">>,
  <<"INVALID_NULL_POLICY", entry.nulls = "invalid">>,
  <<"INVALID_NORMALIZATION", entry.normalization = "invalid">>,
  <<"INCOMPATIBLE_COLUMN_TYPE",
    \/ entry.tolerance = "valid" /\ entry.category # "numeric"
    \/ /\ entry.category # "string"
       /\ \/ entry.nulls \in {"distinct", "casing"}
          \/ entry.normalization \in {"trim", "lower"} >>,
  <<"INVALID_NULL_SENTINEL",
    entry.category = "string" /\ Collide(entry.nulls, entry.normalization)>>})

(* validate_columns, for one entry.  One that is malformed, or stands      *)
(* under a key that is no category, has one diagnostic and no name.        *)
ColumnDiagnostics(entry, names0) ==
  IF IsColumn(entry)
    THEN PolicyDiagnostics(entry) \cup Diagnosed({
           <<"INVALID_COLUMN_SELECTION", entry.name = "*">>,
           <<"DUPLICATE_COLUMN_NAME", entry.name \in names0>>})
    ELSE {IF entry.category = "include" /\ entry.name = "*"
            THEN "INVALID_COLUMN_SELECTION" ELSE "INVALID_COLUMN_DECLARATION"}

Declares(entry, names0) ==
  IsColumn(entry) /\ entry.name # "*" /\ entry.name \notin names0

(* A category occurs once in the mapping, with all of its entries.         *)
MayFollow(entry) ==
  \A i \in DOMAIN columns :
    columns[i].category = entry.category =>
      \A j \in i..Len(columns) : columns[j].category = entry.category

(* Mutant: the names seen are those of the category.                       *)
ReadColumnByCategory ==
  /\ stage = "columns" /\ settings.columns = "mapping"
  /\ \E entry \in AuthoredColumns :
       LET before == {d.name : d \in {c \in declared : c.category = entry.category}}
       IN /\ MayFollow(entry)
          /\ columns' = Append(columns, entry)
          /\ columnDiagnostics' =
               columnDiagnostics \cup ColumnDiagnostics(entry, before)
          /\ seen' = IF Declares(entry, before)
                       THEN seen \cup {entry.name} ELSE seen
          /\ declared' = IF Declares(entry, before)
               THEN declared \cup {[name |-> entry.name,
                                    category |-> entry.category]}
               ELSE declared
  /\ UNCHANGED <<stage, project, settings, uses, metrics, metricDiagnostics,
                 diagnostics, checks>>
  /\ InBounds'

ReadColumn ==
  /\ stage = "columns" /\ settings.columns = "mapping"
  /\ \E entry \in AuthoredColumns :
       /\ MayFollow(entry)
       /\ columns' = Append(columns, entry)
       /\ columnDiagnostics' =
            columnDiagnostics \cup ColumnDiagnostics(entry, seen)
       /\ IF Declares(entry, seen)
            THEN /\ seen' = seen \cup {entry.name}
                 /\ declared' = declared \cup {[name |-> entry.name,
                                                category |-> entry.category]}
            ELSE UNCHANGED <<seen, declared>>
  /\ UNCHANGED <<stage, project, settings, uses, metrics, metricDiagnostics,
                 diagnostics, checks>>
  /\ InBounds'

(* Mutant: a column inherits the sentinels only if it declares none, and   *)
(* is then not checked.                                                    *)
ColumnsReadWithoutNulls ==
  /\ stage = "columns"
  /\ stage' = "packs"
  /\ diagnostics' = diagnostics \cup columnDiagnostics
  /\ seen' = {}
  /\ UNCHANGED <<project, inputs, declared, columnDiagnostics,
                 metricDiagnostics, checks>>

(* The sentinels of the contract are those of every normalized string      *)
(* column without its own; asked only if both were valid by themselves.    *)
ColumnsRead ==
  /\ stage = "columns"
  /\ stage' = "packs"
  /\ diagnostics' = diagnostics \cup columnDiagnostics \cup Diagnosed({
       <<"INVALID_NULL_SENTINEL",
         /\ settings.nulls \in {"distinct", "casing"}
         /\ columnDiagnostics = {}
         /\ \E i \in DOMAIN columns :
              /\ columns[i].category = "string" /\ columns[i].nulls = "absent"
              /\ Collide(settings.nulls, columns[i].normalization)>>})
  /\ seen' = {}
  /\ UNCHANGED <<project, inputs, declared, columnDiagnostics,
                 metricDiagnostics, checks>>

---------------------------------------------------------------------------
(* Its check packs.                                                        *)

(* One item of `checks.use`, and the expansion of a pack that it adds.     *)
Invokes(use) == use.shape = "name" /\ use.name \notin seen
Expands(use) == Invokes(use) /\ use.name = BasicPack /\ GrainKeys(settings) # <<>>

UseDiagnostics(use) == Diagnosed({
  <<"INVALID_CHECK_PACK_USE", use.shape = "invalid">>,
  <<"UNSUPPORTED_CHECK_PACK_CONFIG", use.shape = "more_fields">>,
  <<"DUPLICATE_CHECK_PACK_INVOCATION", use.shape = "name" /\ use.name \in seen>>,
  <<"UNKNOWN_CHECK_PACK", Invokes(use) /\ use.name # BasicPack>>,
  <<"CHECK_PACK_REQUIRES_GRAIN_KEYS",
    Invokes(use) /\ use.name = BasicPack /\ GrainKeys(settings) = <<>> >>})

UseCheckPack ==
  /\ stage = "packs" /\ settings.checks # "invalid" /\ settings.use = "list"
  /\ \E use \in AuthoredUses :
       /\ uses' = Append(uses, use)
       /\ diagnostics' = diagnostics \cup UseDiagnostics(use)
       /\ seen' = IF Invokes(use) THEN seen \cup {use.name} ELSE seen
       /\ checks' = IF Expands(use)
            THEN checks \o BasicEquivalence(GrainKeys(settings), settings.sampling)
            ELSE checks
  /\ UNCHANGED <<stage, project, settings, columns, metrics, declared,
                 columnDiagnostics, metricDiagnostics>>
  /\ InBounds'

CheckPacksUsed ==
  /\ stage = "packs"
  /\ stage' = "metrics"
  /\ diagnostics' = diagnostics \cup Diagnosed({
       <<"INVALID_CHECK_PACK_USE",
         settings.checks # "invalid" /\ settings.use = "invalid">>,
       <<"UNSUPPORTED_EXPLICIT_CHECKS", settings.checks # "mapping">>})
  /\ seen' = {}
  /\ UNCHANGED <<project, inputs, declared, columnDiagnostics,
                 metricDiagnostics, checks>>

---------------------------------------------------------------------------
(* Its metrics.                                                            *)

(* The columns a metric must choose from; there is no registry if the      *)
(* contract declares no columns, or if they were not all valid.            *)
HasRegistry == settings.columns = "mapping" /\ columnDiagnostics = {}

References(metric) ==
  {metric.column} \cup {metric.groups[i] : i \in DOMAIN metric.groups}

Undeclared(metric) ==
  HasRegistry /\ ~ References(metric) \subseteq {d.name : d \in declared}

NotNumeric(metric) ==
  /\ HasRegistry
  /\ \E d \in declared : d.name = metric.column /\ d.category # "numeric"

(* The loop of compile_metrics ends an iteration with the first of these.  *)
MetricDiagnostics(metric) == FirstDiagnosed(<<
  <<"UNKNOWN_METRIC_FIELD", metric.shape = "more_fields">>,
  <<"INVALID_METRIC", metric.shape = "invalid">>,
  <<"DUPLICATE_METRIC_NAME", metric.name \in seen>>,
  <<"INVALID_STABLE_ID_PART", metric.name \notin StableNames>>,
  <<"UNSUPPORTED_METRIC_TYPE", metric.type # "sum">>,
  <<"INVALID_TOLERANCE", metric.tolerance = "invalid">>,
  <<"INVALID_COLUMN_SELECTION", "*" \in References(metric)>>,
  <<"UNDECLARED_COLUMN_REFERENCE", Undeclared(metric)>>,
  <<"INCOMPATIBLE_COLUMN_TYPE", NotNumeric(metric)>> >>)

ReadMetric ==
  /\ stage = "metrics"
  /\ \E metric \in AuthoredMetrics :
       /\ metrics' = Append(metrics, metric)
       /\ metricDiagnostics' = metricDiagnostics \cup MetricDiagnostics(metric)
       /\ seen' = IF metric.shape = "valid" THEN seen \cup {metric.name} ELSE seen
  /\ UNCHANGED <<stage, project, settings, columns, uses, declared,
                 columnDiagnostics, diagnostics, checks>>
  /\ InBounds'

(* Either every metric is compiled or none.                                *)
MetricsRead ==
  /\ stage = "metrics"
  /\ stage' = "compiled"
  /\ diagnostics' = diagnostics \cup metricDiagnostics
  /\ checks' = IF metricDiagnostics = {}
       THEN checks \o [i \in DOMAIN metrics |->
                         MetricCheck(metrics[i], settings.sampling)]
       ELSE checks
  /\ UNCHANGED <<project, inputs, seen, declared, columnDiagnostics,
                 metricDiagnostics>>

---------------------------------------------------------------------------
(* The artifacts of the contract.                                          *)

DuplicateNames(compiled) ==
  \E i, j \in DOMAIN compiled : i # j /\ compiled[i].name = compiled[j].name

Artifact(codes, compiled) ==
  [name |-> names[Len(artifacts) + 1], grainKeys |-> GrainKeys(settings),
   settings |-> settings, columns |-> columns, uses |-> uses,
   metrics |-> metrics, diagnostics |-> codes, checks |-> compiled]

NextContract(artifact) ==
  /\ artifacts' = Append(artifacts, artifact)
  /\ stage' = IF Len(artifacts') = Len(names) THEN "done" ELSE "settings"
  /\ settings' = NoSettings
  /\ columns' = <<>> /\ uses' = <<>> /\ metrics' = <<>>
  /\ seen' = {} /\ declared' = {} /\ checks' = <<>>
  /\ columnDiagnostics' = {} /\ metricDiagnostics' = {} /\ diagnostics' = {}
  /\ UNCHANGED <<projectStable, names, files, fatal>>

(* Mutant: the second of two checks with one name goes without a word.     *)
ContractCompiledSilently ==
  /\ stage = "compiled"
  /\ LET kept == SelectSeq(checks, LAMBDA check :
                   \A i \in DOMAIN checks : checks[i].name = check.name =>
                     check = checks[CHOOSE j \in DOMAIN checks :
                                      /\ checks[j].name = check.name
                                      /\ \A k \in 1..(j - 1) :
                                           checks[k].name # check.name])
         codes == diagnostics \cup Diagnosed({
           <<"NO_COMPILED_CHECKS", checks = <<>> /\ diagnostics = {}>>})
     IN NextContract(Artifact(codes, IF codes = {} THEN kept ELSE <<>>))

(* Mutant: a contract with diagnostics keeps the checks it has.            *)
ContractCompiledPartly ==
  /\ stage = "compiled"
  /\ LET codes == diagnostics \cup Diagnosed({
           <<"DUPLICATE_COMPILED_CHECK", DuplicateNames(checks)>>,
           <<"NO_COMPILED_CHECKS", checks = <<>> /\ diagnostics = {}>>})
     IN NextContract(Artifact(codes, checks))

(* _deduplicate_checks, whose result is used only if there was no          *)
(* duplicate; a contract with any diagnostic has no checks.                *)
ContractCompiled ==
  /\ stage = "compiled"
  /\ LET codes == diagnostics \cup Diagnosed({
           <<"DUPLICATE_COMPILED_CHECK", DuplicateNames(checks)>>,
           <<"NO_COMPILED_CHECKS", checks = <<>> /\ diagnostics = {}>>})
     IN NextContract(Artifact(codes, IF codes = {} THEN checks ELSE <<>>))

Next ==
  \/ FindContract \/ ProjectFound \/ ReadSettings \/ ReadColumn \/ ColumnsRead
  \/ UseCheckPack \/ CheckPacksUsed \/ ReadMetric \/ MetricsRead
  \/ ContractCompiled

Spec == Init /\ [][Next]_vars

---------------------------------------------------------------------------
(* Properties.                                                             *)

Contracts == {artifacts[i] : i \in DOMAIN artifacts}

ChecksOf(artifact) == {artifact.checks[i] : i \in DOMAIN artifact.checks}

(* A reference definition of the contracts that compile, without the loops *)
(* and the order in which the compiler looks at them.                      *)
EffectiveNulls(authored, column) ==
  IF column.nulls = "absent" THEN authored.settings.nulls ELSE column.nulls

WellFormedColumns(authored) ==
  LET entries == authored.columns
  IN \A i \in DOMAIN entries :
       LET entry == entries[i]
       IN /\ entry.category \in Category /\ entry.wellFormed /\ ~ entry.timezone
          /\ entry.name # "*"
          /\ \A j \in DOMAIN entries : entries[j].name = entry.name => i = j
          /\ \/ entry.tolerance = "absent"
             \/ entry.tolerance = "valid" /\ entry.category = "numeric"
          /\ \/ entry.nulls = "absent" /\ entry.normalization = "absent"
             \/ /\ entry.category = "string"
                /\ "invalid" \notin {entry.nulls, entry.normalization}

WellFormedMetrics(authored) ==
  \A i \in DOMAIN authored.metrics :
    LET metric == authored.metrics[i]
    IN /\ metric.shape = "valid" /\ metric.type = "sum"
       /\ metric.name \in StableNames /\ metric.tolerance # "invalid"
       /\ "*" \notin References(metric)
       /\ \A j \in DOMAIN authored.metrics :
            authored.metrics[j].name = metric.name => i = j
       /\ authored.settings.columns = "mapping" =>
            \A name \in References(metric) : \E k \in DOMAIN authored.columns :
              /\ authored.columns[k].name = name
              /\ name = metric.column => authored.columns[k].category = "numeric"

PackNames ==
  {BasicEquivalence(<<"id">>, "full")[i].name : i \in 1..7}

WellFormedChecks(authored) ==
  LET s == authored.settings
      packs == IF s.use = "list" THEN authored.uses ELSE <<>>
  IN /\ s.checks = "mapping" /\ s.use # "invalid"
     /\ packs \in {<<>>, <<[name |-> BasicPack, shape |-> "name"]>>}
     /\ packs # <<>> =>
          /\ s.grain = "keys"
          /\ \A i \in DOMAIN authored.metrics :
               authored.metrics[i].name \notin PackNames
     /\ packs # <<>> \/ authored.metrics # <<>>

WellFormed(authored) ==
  LET s == authored.settings
  IN /\ "invalid" \notin {s.grain, s.sampling, s.nulls, s.cdc, s.columns}
     /\ s.cdc = "same_as_grain" => s.grain = "keys"
     /\ WellFormedColumns(authored)
     /\ \A i \in DOMAIN authored.columns :
          ~ Collide(EffectiveNulls(authored, authored.columns[i]),
                    authored.columns[i].normalization)
     /\ WellFormedMetrics(authored)
     /\ WellFormedChecks(authored)

(* A contract has diagnostics exactly if it is not well formed: what the   *)
(* compiler skips after an earlier diagnostic, the registry it withholds   *)
(* from metrics and the names it forgets never let an error through, and   *)
(* none of it invents one.                                                 *)
DiagnosedIffIllFormed ==
  \A authored \in Contracts : authored.diagnostics = {} <=> WellFormed(authored)

(* A contract is compiled as a whole or not at all: one check for every    *)
(* metric and seven for the pack, each with the sampling of the contract,  *)
(* and no check if there is any diagnostic.                                *)
ChecksAreComplete ==
  \A authored \in Contracts :
    IF authored.diagnostics # {}
      THEN authored.checks = <<>>
      ELSE LET expected ==
                 {authored.metrics[i].name : i \in DOMAIN authored.metrics}
                   \cup (IF authored.uses = <<>> THEN {} ELSE PackNames)
           IN /\ {check.name : check \in ChecksOf(authored)} = expected
              /\ Len(authored.checks) = Cardinality(expected)
              /\ \A check \in ChecksOf(authored) :
                   check.sampling = authored.settings.sampling

(* Whatever compile writes, run can read and use: no typed operation is    *)
(* invalid, the loader accepts every check, the plan of every check of the *)
(* pack is the one the runtime executes for the grain of its contract, and *)
(* the renderer finds what every comparison needs.                         *)
CompiledChecksAreAccepted ==
  \A authored \in Contracts : \A check \in ChecksOf(authored) :
    /\ \A operation \in Operations(check) : ValidTypedOperation(operation)
    /\ LoadableCheck(check)
    /\ \/ check.type \in {"sum_diff", "grouped_aggregate_diff"}
       \/ ExecutablePlan(check, authored.grainKeys)
    /\ RenderablePlan(check)

(* No two contracts share a compiled file, on a file system that compares  *)
(* names without their case, and so none of their checks share an id.      *)
FilesAreDistinct ==
  \A i, j \in DOMAIN artifacts :
    i # j => CaseFold[artifacts[i].name] # CaseFold[artifacts[j].name]

(* In a contract that compiles, every string column keeps its sentinels    *)
(* apart after normalization, its own or those it inherits.                *)
SentinelsStayDistinct ==
  \A authored \in Contracts : authored.diagnostics = {} =>
    \A i \in DOMAIN authored.columns :
      ~ Collide(EffectiveNulls(authored, authored.columns[i]),
                authored.columns[i].normalization)

(* A project with fatal diagnostics compiles nothing, and any other one    *)
(* all of its contracts, in their order.                                   *)
EveryContractIsCompiled ==
  stage = "done" =>
    IF fatal # {}
      THEN artifacts = <<>>
      ELSE [i \in DOMAIN artifacts |-> artifacts[i].name] = names
=============================================================================
