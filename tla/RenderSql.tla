----------------------------- MODULE RenderSql ------------------------------
(***************************************************************************)
(* recon compile --render-sql, from the compiled contracts to the          *)
(* rendering metadata of their checks: the adapters of the selected        *)
(* connections are resolved one by one, then contract by contract and      *)
(* check by check SQL is rendered in memory, and only if nothing was wrong *)
(* anywhere is it written.  Translated from services/compile.py,           *)
(* _compile_adapter_setup.py, _compile_render_sql.py,                      *)
(* _compile_rendering_metadata.py, adapters/rendering.py and               *)
(* artifacts/compiled_sql_writer.py.                                       *)
(*                                                                         *)
(* Adapters are plug-ins: whatever is asked of one may raise.  What they   *)
(* answer is chosen when it is asked.  A diagnostic is its code, and every *)
(* code but FACTORY_WARNING, which stands for what a factory reports with  *)
(* less than an error, is an error.  A connection is its adapter type and  *)
(* its configuration.  Redaction of diagnostics is left out.               *)
(***************************************************************************)
EXTENDS Naturals, Sequences

CONSTANTS
  Connections, \* names of connections
  Profiles,    \* what may be configured: functions from Connections to
               \* [type, config]
  Projects,    \* what may have been compiled: sequences of contracts
  CaseFold     \* a function: str.casefold of every check name

ASSUME ProfilesAssumption ==
  Profiles \subseteq [Connections -> [type : STRING, config : STRING]]

(* What compile_project hands over: contracts of different names, each     *)
(* with the distinct names of its checks.                                  *)
ASSUME ProjectsAssumption ==
  \A contracts \in Projects :
    /\ contracts \in Seq([name : STRING, source : Connections,
                          target : Connections, checks : Seq(STRING),
                          endpoints : {"relations", "query", "invalid"}])
    /\ \A i, j \in DOMAIN contracts :
         contracts[i].name = contracts[j].name => i = j
    /\ \A i \in DOMAIN contracts : \A k, l \in DOMAIN contracts[i].checks :
         contracts[i].checks[k] = contracts[i].checks[l] => k = l

VARIABLES
  profile,    \* the selected connections
  contracts,  \* the compiled contracts
  compileDiagnosed, \* one of them has compile diagnostics
  stage,      \* what happens next
  unresolved, \* connections without an answer from the registry
  setup,      \* the setup diagnostics of every connection
  adapters,   \* connections that have an adapter
  at,         \* the contract that is rendered
  done,       \* how many of its checks are
  results,    \* results_by_check_id: the diagnostics of every result
  diagnostics,\* those of render_compiled_sql_in_memory
  attempted,  \* history: checks whose plan the renderer was given
  status, reasons, \* rendering status and diagnostics of the compiled checks
  exit

given == <<profile, contracts, compileDiagnosed>>
resolved == <<unresolved, setup, adapters>>
rendered == <<at, done, results, diagnostics, attempted>>
metadata == <<status, reasons>>
vars == <<given, stage, resolved, rendered, metadata, exit>>

ErrorCodes ==
  {"RESOLUTION_FAILED", "METADATA_INVALID", "TYPE_MISMATCH",
   "API_VERSION_UNSUPPORTED", "MIXED_ADAPTER_TYPES_UNSUPPORTED",
   "CONNECTION_CONTEXT_UNSUPPORTED", "CAPABILITY_UNSUPPORTED",
   "RENDERER_TYPE_MISMATCH", "QUERY_ENDPOINT_UNSUPPORTED",
   "INVALID_RELATION", "CAPABILITY_DECLARATION_FAILED",
   "OPERATION_RENDER_FAILED", "RENDERED_SQL_EMPTY",
   "RENDERING_OUTPUT_SUPPRESSED", "RENDERING_BLOCKED_BY_COMPILE_DIAGNOSTICS"}
Codes == ErrorCodes \cup {"FACTORY_WARNING"}

(* build_check_id.                                                         *)
Id(contract, k) == <<contract.name, contract.checks[k]>>
ChecksOf(contract) == {Id(contract, k) : k \in DOMAIN contract.checks}
Checks == UNION {ChecksOf(contracts[i]) : i \in DOMAIN contracts}

(* The code of the first condition that holds, as a set.                   *)
First(conditions) ==
  LET hits == {i \in DOMAIN conditions : conditions[i][2]}
  IN {conditions[i][1] : i \in {j \in hits : \A k \in hits : j <= k}}

Init ==
  /\ profile \in Profiles /\ contracts \in Projects
  /\ compileDiagnosed \in BOOLEAN
  /\ stage = "compiled" /\ exit = "none"
  /\ unresolved = Connections /\ adapters = {}
  /\ setup = [n \in Connections |-> {}]
  /\ at = 1 /\ done = 0 /\ results = [id \in {} |-> {}]
  /\ diagnostics = {} /\ attempted = {}
  /\ status = [id \in Checks |-> "not_rendered"]
  /\ reasons = [id \in Checks |-> {}]

End(category) == stage' = "end" /\ exit' = category

---------------------------------------------------------------------------
(* Before the adapters.                                                    *)

(* apply_compile_diagnostic_render_block_metadata: no adapter is asked.    *)
BlockedByCompile ==
  /\ stage = "compiled" /\ compileDiagnosed
  /\ status' = [id \in Checks |-> "blocked"]
  /\ reasons' = [id \in Checks |-> {"RENDERING_BLOCKED_BY_COMPILE_DIAGNOSTICS"}]
  /\ End("validation_error")
  /\ UNCHANGED <<given, resolved, rendered>>

ProfileFails ==
  /\ stage = "compiled" /\ ~ compileDiagnosed
  /\ End("configuration_error")
  /\ UNCHANGED <<given, resolved, rendered, metadata>>

(* The profile has every connection that a contract refers to.             *)
LoadProfile ==
  /\ stage = "compiled" /\ ~ compileDiagnosed
  /\ stage' = "adapters"
  /\ UNCHANGED <<given, resolved, rendered, metadata, exit>>

---------------------------------------------------------------------------
(* resolve_render_sql_adapters.                                            *)

(* The registry has no creator for the type, the creator raises or returns *)
(* nonsense ("fails"), it reports errors or warnings and no adapter, or it *)
(* returns an adapter; that declares a type, or raises, and a version.     *)
Resolution == {"fails", "warns", "adapter"}

SetupDiagnostics(connection, resolution, type, compatible) == First(<<
  <<"RESOLUTION_FAILED", resolution = "fails">>,
  <<"FACTORY_WARNING", resolution = "warns">>,
  <<"METADATA_INVALID", type = "raises">>,
  <<"TYPE_MISMATCH", type # connection.type>>,
  <<"API_VERSION_UNSUPPORTED", ~ compatible>> >>)

ResolveAdapter(n) ==
  /\ stage = "adapters"
  /\ \E resolution \in Resolution, compatible \in BOOLEAN :
       \E type \in {profile[m].type : m \in Connections} \cup {"raises"} :
         LET codes == SetupDiagnostics(profile[n], resolution, type, compatible)
         IN /\ setup' = [setup EXCEPT ![n] = codes]
            /\ adapters' = IF resolution = "adapter" /\ codes = {}
                            THEN adapters \cup {n} ELSE adapters
  /\ unresolved' = unresolved \ {n}
  /\ UNCHANGED <<given, stage, rendered, metadata, exit>>

AdaptersResolved ==
  /\ stage = "adapters" /\ unresolved = {}
  /\ stage' = "contracts"
  /\ UNCHANGED <<given, resolved, rendered, metadata, exit>>

---------------------------------------------------------------------------
(* render_compiled_sql_in_memory: one iteration per contract and, inside   *)
(* it, one per check.                                                      *)

Contract == contracts[at]
Endpoints(contract) == {contract.source, contract.target}

(* Mutant: the setup diagnostics of every connection block every contract. *)
AnySetup(contract) == UNION {setup[n] : n \in Connections}

(* _adapter_diagnostics_for_contract_connections.                          *)
OwnSetup(contract) == UNION {setup[n] : n \in Endpoints(contract)}

(* Mutant: a contract between two connections of one type is rendered.     *)
BlockersByType(contract, readable) ==
  LET source == profile[contract.source]
      target == profile[contract.target]
  IN IF OwnSetup(contract) # {}
       THEN OwnSetup(contract)
       ELSE First(<<
              <<"METADATA_INVALID", ~ readable>>,
              <<"MIXED_ADAPTER_TYPES_UNSUPPORTED", source.type # target.type>>,
              <<"CAPABILITY_UNSUPPORTED", source.type # "duckdb">> >>)

(* What stops the rendering of a contract, unless an adapter is missing.   *)
(* An adapter has the type of its connection, or raises if asked again.    *)
Blockers(contract, readable) ==
  LET source == profile[contract.source]
      target == profile[contract.target]
  IN IF OwnSetup(contract) # {}
       THEN OwnSetup(contract)
       ELSE First(<<
              <<"METADATA_INVALID", ~ readable>>,
              <<"MIXED_ADAPTER_TYPES_UNSUPPORTED", source.type # target.type>>,
              <<"CONNECTION_CONTEXT_UNSUPPORTED", source.config # target.config>>,
              <<"CAPABILITY_UNSUPPORTED", source.type # "duckdb">> >>)

(* results_by_check_id with the same diagnostics for all of `ids`.         *)
WithResults(ids, codes) ==
  [id \in DOMAIN results \cup ids |-> IF id \in ids THEN codes ELSE results[id]]

(* A contract whose connections have neither an adapter nor a diagnostic   *)
(* is passed over without a result, and one without checks has none.       *)
RenderContract ==
  /\ stage = "contracts" /\ at <= Len(contracts) /\ done = 0
  /\ \E readable \in BOOLEAN :
       LET codes == Blockers(Contract, readable)
           missing == OwnSetup(Contract) = {}
                        /\ ~ Endpoints(Contract) \subseteq adapters
       IN IF codes = {} /\ ~ missing /\ Contract.checks # <<>>
            THEN stage' = "checks" /\ UNCHANGED <<at, results, diagnostics>>
            ELSE /\ at' = at + 1
                 /\ IF missing
                      THEN UNCHANGED <<results, diagnostics>>
                      ELSE /\ results' = WithResults(ChecksOf(Contract), codes)
                           /\ diagnostics' = diagnostics \cup codes
                 /\ UNCHANGED stage
  /\ UNCHANGED <<given, resolved, done, attempted, metadata, exit>>

(* render_check_sql.  The steps that the renderer returns may need more    *)
(* capabilities than the plan did, which the adapter does not have         *)
(* ("demanding") or cannot say ("unreadable").                             *)
Output == {"raises", "invalid", "empty", "unreadable", "demanding", "sql"}
Capabilities == {"raises", "invalid", "unsupported", "full"}

BeforeRenderer(contract, readable, compatible, capabilities) == First(<<
  <<"METADATA_INVALID", ~ readable>>,
  <<"API_VERSION_UNSUPPORTED", ~ compatible>>,
  <<"RENDERER_TYPE_MISMATCH", profile[contract.source].type # "duckdb">>,
  <<"QUERY_ENDPOINT_UNSUPPORTED", contract.endpoints = "query">>,
  <<"INVALID_RELATION", contract.endpoints = "invalid">>,
  <<"CAPABILITY_DECLARATION_FAILED", capabilities \in {"raises", "invalid"}>>,
  <<"CAPABILITY_UNSUPPORTED", capabilities = "unsupported">> >>)

OfRenderer(output) == First(<<
  <<"OPERATION_RENDER_FAILED", output \in {"raises", "invalid"}>>,
  <<"RENDERED_SQL_EMPTY", output = "empty">>,
  <<"CAPABILITY_DECLARATION_FAILED", output = "unreadable">>,
  <<"CAPABILITY_UNSUPPORTED", output = "demanding">> >>)

LastCheck == done + 1 = Len(Contract.checks)

RenderCheck ==
  /\ stage = "checks"
  /\ LET id == Id(Contract, done + 1)
     IN \E readable, compatible \in BOOLEAN, capabilities \in Capabilities,
          output \in Output :
          LET before == BeforeRenderer(Contract, readable, compatible, capabilities)
              codes == IF before # {} THEN before ELSE OfRenderer(output)
          IN /\ results' = WithResults({id}, codes)
             /\ diagnostics' = diagnostics \cup codes
             /\ attempted' = IF before = {} THEN attempted \cup {id} ELSE attempted
  /\ IF LastCheck
       THEN stage' = "contracts" /\ at' = at + 1 /\ done' = 0
       ELSE done' = done + 1 /\ UNCHANGED <<stage, at>>
  /\ UNCHANGED <<given, resolved, metadata, exit>>

---------------------------------------------------------------------------
(* The end of an invocation.                                               *)

(* Mutant: what an adapter fails to say counts as a failure of rendering.  *)
FailureStatusOfAnswers(codes) ==
  IF codes \cap {"OPERATION_RENDER_FAILED", "RENDERED_SQL_EMPTY",
                 "METADATA_INVALID", "CAPABILITY_DECLARATION_FAILED"} # {}
    THEN "failed" ELSE "blocked"

(* _render_failure_status.                                                 *)
FailureStatus(codes) ==
  IF codes \cap {"OPERATION_RENDER_FAILED", "RENDERED_SQL_EMPTY"} # {}
    THEN "failed" ELSE "blocked"

(* Those that no diagnostic is about are blocked for the others' sake.     *)
Reasons(id) ==
  IF id \in DOMAIN results /\ results[id] # {}
    THEN results[id] ELSE {"RENDERING_OUTPUT_SUPPRESSED"}

Rendered == stage = "contracts" /\ at > Len(contracts)
Diagnosed == diagnostics # {} \/ \E n \in Connections : setup[n] # {}

(* Mutant: only the checks that have a result are looked at.               *)
OutputSuppressedForResults ==
  /\ Rendered /\ Diagnosed
  /\ reasons' = [id \in Checks |->
       IF id \in DOMAIN results THEN results[id] ELSE {}]
  /\ status' = [id \in Checks |->
       IF reasons'[id] # {} THEN FailureStatus(reasons'[id]) ELSE "not_rendered"]
  /\ End("configuration_error")
  /\ UNCHANGED <<given, resolved, rendered>>

(* apply_render_failure_metadata.                                          *)
OutputSuppressed ==
  /\ Rendered /\ Diagnosed
  /\ reasons' = [id \in Checks |-> Reasons(id)]
  /\ status' = [id \in Checks |-> FailureStatus(Reasons(id))]
  /\ End("configuration_error")
  /\ UNCHANGED <<given, resolved, rendered>>

(* The directory of the SQL of a check, as a file system compares it that  *)
(* does not know case.                                                     *)
Directory(id) == <<id[1], CaseFold[id[2]]>>

Collision == \E a, b \in DOMAIN results : a # b /\ Directory(a) = Directory(b)

(* write_compiled_sql_artifacts: everything is looked at before the first  *)
(* file is written.  A check without a result is left as it was.           *)
SqlRefused ==
  /\ Rendered /\ ~ Diagnosed /\ Collision
  /\ End("runtime_error")
  /\ UNCHANGED <<given, resolved, rendered, metadata>>

(* apply_rendered_sql_metadata, after the SQL has been written.            *)
SqlWritten ==
  /\ Rendered /\ ~ Diagnosed /\ ~ Collision
  /\ status' = [id \in Checks |->
       IF id \in DOMAIN results THEN "rendered" ELSE status[id]]
  /\ End("success")
  /\ UNCHANGED <<given, resolved, rendered, reasons>>

(* The metadata of the checks are written with their YAML, and after the   *)
(* SQL.  A file of either cannot be written: what there is of both is      *)
(* discarded, and so are the metadata.                                     *)
WriteFails ==
  /\ \/ stage = "compiled" /\ compileDiagnosed
     \/ Rendered /\ (Diagnosed \/ ~ Collision)
  /\ End("runtime_error")
  /\ UNCHANGED <<given, resolved, rendered, metadata>>

Next ==
  \/ BlockedByCompile \/ ProfileFails \/ LoadProfile
  \/ \E n \in unresolved : ResolveAdapter(n)
  \/ AdaptersResolved \/ RenderContract \/ RenderCheck
  \/ OutputSuppressed \/ SqlRefused \/ SqlWritten \/ WriteFails

Spec == Init /\ [][Next]_vars
---------------------------------------------------------------------------
(* Properties.                                                             *)

(* All checks are rendered in one step and the command succeeds, or none   *)
(* is and every one says why, or the command failed before or after: no    *)
(* plug-in, whatever it answers or raises, leaves a mixture, and none is   *)
(* passed over for want of an adapter without a word.                      *)
Batch == INSTANCE RenderBatch
BatchSpec == Batch!Spec

(* SQL runs in one database: a rendered check compares relations that two  *)
(* DuckDB connections with the same configuration read.                    *)
OnlyMatchingConnections ==
  \A i \in DOMAIN contracts : \A id \in ChecksOf(contracts[i]) :
    status[id] = "rendered" =>
      /\ profile[contracts[i].source] = profile[contracts[i].target]
      /\ profile[contracts[i].source].type = "duckdb"
      /\ contracts[i].endpoints = "relations"

(* What is wrong with the adapter of a connection is told to all checks of *)
(* the contracts that use the connection, and to no other check.           *)
SetupCodes == {"RESOLUTION_FAILED", "FACTORY_WARNING", "TYPE_MISMATCH"}

SetupStaysLocal ==
  exit = "configuration_error" =>
    \A i \in DOMAIN contracts : \A id \in ChecksOf(contracts[i]) :
      /\ reasons[id] \cap SetupCodes \subseteq
           setup[contracts[i].source] \cup setup[contracts[i].target]
      /\ setup[contracts[i].source] \cup setup[contracts[i].target] \subseteq
           reasons[id]

(* Only a check whose plan the renderer was given is `failed` or           *)
(* `rendered`, and of those that are `blocked` only such a check, rendered *)
(* without a complaint, says that its output was suppressed.  A check that *)
(* is `blocked` or `failed` has an error, without which the loader of      *)
(* compiled checks refuses it, unless a factory gave a warning only.       *)
StatusesMeanWhatTheySay ==
  /\ \A id \in Checks :
       status[id] \in {"failed", "rendered"} => id \in attempted
  /\ exit = "configuration_error" => \A id \in Checks :
       "RENDERING_OUTPUT_SUPPRESSED" \in reasons[id] =>
         id \in attempted /\ results[id] = {}
  /\ \A id \in Checks :
       status[id] \in {"blocked", "failed"} =>
         reasons[id] \cap ErrorCodes # {} \/ "FACTORY_WARNING" \in reasons[id]
=============================================================================
