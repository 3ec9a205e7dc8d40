----------------------------- MODULE RunService -----------------------------
(***************************************************************************)
(* RunService.execute (services/run.py): one `recon run` from the project  *)
(* configuration to the exit category.  It decides from the compiled       *)
(* checks and contracts alone which adapters to prepare and open, hands    *)
(* the prepared adapters to the check engine, and closes what it opened.   *)
(*                                                                         *)
(* The check engine appears here as what PrerequisiteVerdicts promises of  *)
(* it (CheckEngine is shown to implement that), with the outcome of an     *)
(* evaluated check given by RuntimeRouting.                                *)
(*                                                                         *)
(* Connection names are numbers: the code sorts them.  Faults are choices: *)
(* loading, profile, adapter setup, connect(), a query and close() may     *)
(* each fail, and the state of a database file when the scan guard looks   *)
(* at it is any state (another process may be changing it).                *)
(***************************************************************************)
EXTENDS RuntimeRouting, FiniteSets

CONSTANTS CheckIds,    \* ids of the loaded checks
          Connections, \* connection names, numbers
          LoadedProjects
            \* records [checks, contracts, profile, prerequisites]: functions
            \* from CheckIds to its checks, from contract names to its
            \* contracts, from Connections to [type, database], and from
            \* CheckIds to their prerequisite lists

ASSUME ConnectionsAssumption == Connections \subseteq Nat

(* Every check names a contract whose ends have a kind the loader admits.  *)
ASSUME ContractsAssumption ==
  \A loaded \in LoadedProjects, c \in CheckIds :
    LET contract == loaded.contracts[loaded.checks[c].contract]
    IN  {contract.source.endpoint, contract.target.endpoint} \subseteq Endpoint

VARIABLES
  checks, contracts, profile, prerequisites, \* the project, never changed
  phase,
  decisions, \* scan budget decisions by check, for the checks that have one
  setup,     \* adapter_setup_required_check_ids
  scanSafe,  \* checks whose scan guard found a bounded local scan
  context,   \* the execution context handed to the engine
  toOpen,    \* connections whose adapter is still to be opened
  opened,    \* opened_adapters, in the order of opening
  connected, \* connections whose adapter holds a database connection
  touched,   \* connections whose adapter was asked to connect
  results,   \* results by check, as in PrerequisiteVerdicts
  queries,   \* checks whose query was sent, with the connection it went to
  verdict,   \* how the part before the closing of the adapters ended
  closeFailed,
  exit       \* exit category, "none" while running

project == <<checks, contracts, profile, prerequisites>>
planning == <<decisions, setup, scanSafe>>
adapters == <<toOpen, opened, connected, touched>>
engine == <<results, queries>>
ending == <<verdict, closeFailed, exit>>
vars == <<project, phase, planning, context, adapters, engine, ending>>

Ids == CheckIds
Executed(status) == [status |-> status, executed |-> TRUE,
                     reason |-> NoReason, blockedBy |-> {}]
OwnOutcomes == {Executed("pass"), Executed("fail"), RuntimeError}
                 \cup {NotExecutable(r) : r \in NotExecutableReason}

Verdicts == INSTANCE PrerequisiteVerdicts
Unresolved == Verdicts!Unresolved

ContractOf(c) == contracts[checks[c].contract]
SourceOf(c) == ContractOf(c).source.connection
TargetOf(c) == ContractOf(c).target.connection

---------------------------------------------------------------------------
(* Which checks need what, before anything is opened.                      *)

(* _runtime_execution_candidates                                           *)
RuntimeCandidates ==
  {c \in CheckIds : /\ checks[c].rendering \notin BlockingRendering
                    /\ SupportedShape(checks[c])}

HasKeySafetyChecks == \E c \in CheckIds : IsKeySafety(checks[c])

RelationBacked(contract) == ~ HasQueryEndpoint(contract)

RequiresProfile(check, contract) ==
  \/ IsRowCount(check)
  \/ /\ IdentityMatchesContract(check)
     /\ ~ MalformedRelation(contract)

(* _relation_backed_runtime_candidates                                     *)
ProfileCandidates ==
  {c \in RuntimeCandidates : /\ RelationBacked(ContractOf(c))
                             /\ RequiresProfile(checks[c], ContractOf(c))}

(* Mutant: the profile is loaded for the sources only.                     *)
ReferencedSources == {SourceOf(c) : c \in ProfileCandidates}

ReferencedConnections ==
  UNION {{SourceOf(c), TargetOf(c)} : c \in ProfileCandidates}

(* _adapter_required_runtime_candidates                                    *)
AdapterCandidates ==
  {c \in ProfileCandidates :
     \/ ~ IsKeySafety(checks[c])
     \/ c \in setup
     \/ c \in DOMAIN decisions /\ decisions[c].allowed}

(* The connections of _required_capabilities_by_connection.                *)
RequiredConnections ==
  UNION {{SourceOf(c), TargetOf(c)} : c \in AdapterCandidates}

(* Mutant: opens the adapter of the target.                                *)
ConnectionsToOpenTarget ==
  {TargetOf(c) : c \in {d \in AdapterCandidates :
     /\ RelationBacked(ContractOf(d))
     /\ SameConnectionContext(profile[SourceOf(d)], profile[TargetOf(d)])
     /\ profile[SourceOf(d)].type = "duckdb"}}

(* _connection_names_to_open, of the type _open_runtime_adapters opens     *)
ConnectionsToOpen ==
  {SourceOf(c) : c \in {d \in AdapterCandidates :
     /\ RelationBacked(ContractOf(d))
     /\ SameConnectionContext(profile[SourceOf(d)], profile[TargetOf(d)])
     /\ profile[SourceOf(d)].type = "duckdb"}}

---------------------------------------------------------------------------
(* The scan guard.  A status is [localDev, bounded, openFailed].           *)
GuardStatus(localDev, bounded, openFailed) ==
  [localDev |-> localDev, bounded |-> bounded, openFailed |-> openFailed]

(* What the guard may find for a contract.  Only a file inside the project *)
(* is looked into: it may be too large, have a sidecar, hold views or not  *)
(* open at all; :memory: and files elsewhere are never bounded.            *)
GuardStatuses(contract) ==
  LET source == profile[contract.source.connection]
      target == profile[contract.target.connection]
  IN  IF \/ source.type # "duckdb"
         \/ ~ SameConnectionContext(source, target)
        THEN {GuardStatus(FALSE, FALSE, FALSE)}
        ELSE {GuardStatus(TRUE, FALSE, FALSE)} \cup
             {s \in {GuardStatus(TRUE, TRUE, FALSE),
                     GuardStatus(TRUE, FALSE, TRUE)} :
                source.database # ":memory:" /\ ~ MalformedRelation(contract)}

(* Mutant: a local database is taken to be bounded.                        *)
DecisionIgnoringBound(contract, status) ==
  ClassifyScanBudget(RelationBacked(contract) /\ status.localDev,
                     RelationBacked(contract), TRUE, "unknown")

(* _scan_budget_decision_for_key_safety                                    *)
DecisionWith(contract, status) ==
  ClassifyScanBudget(RelationBacked(contract) /\ status.localDev,
                     RelationBacked(contract), status.bounded, "unknown")

RequiresSetup(contract, status) ==
  /\ RelationBacked(contract) /\ status.localDev
  /\ status.openFailed
  /\ ~ DecisionWith(contract, status).allowed

---------------------------------------------------------------------------
NoDecision == [c \in {} |-> Allowed]

ContextWith(prepared) ==
  [present |-> TRUE, adapters |-> prepared,
   connections |-> ReferencedConnections,
   renderers |-> {"duckdb"}, decisions |-> decisions]

(* CheckExecutionContext without adapters, and no context at all.          *)
ContextWithoutAdapters ==
  [present |-> TRUE, adapters |-> {}, connections |-> {}, renderers |-> {},
   decisions |-> NoDecision]
NoContext == [ContextWithoutAdapters EXCEPT !.present = FALSE]

Init ==
  /\ \E loaded \in LoadedProjects :
       /\ checks = loaded.checks
       /\ contracts = loaded.contracts
       /\ profile = loaded.profile
       /\ prerequisites = loaded.prerequisites
  /\ phase = "project"
  /\ decisions = NoDecision /\ setup = {} /\ scanSafe = {}
  /\ context = NoContext
  /\ toOpen = {} /\ opened = <<>> /\ connected = {} /\ touched = {}
  /\ results = [c \in CheckIds |-> Unresolved]
  /\ queries = {}
  /\ verdict = "none" /\ closeFailed = FALSE /\ exit = "none"

(* Return a result without having opened anything.                         *)
Fail(category) ==
  /\ phase' = "exited"
  /\ exit' = category
  /\ UNCHANGED <<project, planning, context, adapters, engine, verdict,
                 closeFailed>>

Goto(next) ==
  /\ phase' = next
  /\ UNCHANGED <<project, planning, context, adapters, engine, ending>>

LoadProject ==
  /\ phase = "project"
  /\ Goto("artifacts") \/ Fail("configuration_error")

(* Compiled checks, then the compiled contracts they name.                 *)
LoadArtifacts ==
  /\ phase = "artifacts"
  /\ Goto("plan") \/ Fail("runtime_error")

(* No check can use an adapter: the engine runs without.                   *)
PlanWithoutAdapters ==
  /\ phase = "plan"
  /\ ProfileCandidates = {}
  /\ phase' = "engine"
  /\ context' = IF RuntimeCandidates = {} /\ ~ HasKeySafetyChecks
                  THEN NoContext
                  ELSE ContextWithoutAdapters
  /\ UNCHANGED <<project, planning, adapters, engine, ending>>

LoadProfile ==
  /\ phase = "plan"
  /\ ProfileCandidates # {}
  /\ Goto("scan") \/ Fail("configuration_error")

(* One look at the database per key-safety check.                          *)
ClassifyScans ==
  /\ phase = "scan"
  /\ phase' = "prepare"
  /\ LET scanned == {c \in ProfileCandidates : IsKeySafety(checks[c])}
     IN  \E status \in [scanned -> UNION {GuardStatuses(ContractOf(c)) :
                                            c \in scanned}] :
           /\ \A c \in scanned : status[c] \in GuardStatuses(ContractOf(c))
           /\ decisions' = [c \in scanned |->
                              DecisionWith(ContractOf(c), status[c])]
           /\ setup' = {c \in scanned :
                          RequiresSetup(ContractOf(c), status[c])}
           /\ scanSafe' = {c \in scanned : status[c].bounded}
  /\ UNCHANGED <<project, context, adapters, engine, ending>>

(* Every adapter is prepared; if one cannot be, none is opened.            *)
PrepareAdapters ==
  /\ phase = "prepare"
  /\ \/ /\ RequiredConnections # {}
        /\ Fail("configuration_error")
     \/ /\ phase' = "open"
        /\ toOpen' = ConnectionsToOpen
        /\ UNCHANGED <<project, planning, context, opened, connected, touched,
                       engine, ending>>

FirstToOpen == CHOOSE n \in toOpen : \A m \in toOpen : n <= m

OpenAdapter ==
  /\ phase = "open"
  /\ toOpen # {}
  /\ toOpen' = toOpen \ {FirstToOpen}
  /\ opened' = Append(opened, FirstToOpen)
  /\ connected' = connected \cup {FirstToOpen}
  /\ touched' = touched \cup {FirstToOpen}
  /\ UNCHANGED <<project, phase, planning, context, engine, ending>>

(* Mutant: connect() raises and the run returns at once.                   *)
OpenAdapterFailsAtOnce ==
  /\ phase = "open"
  /\ toOpen # {}
  /\ phase' = "exited"
  /\ exit' = "runtime_error"
  /\ verdict' = "connection_failed"
  /\ touched' = touched \cup {FirstToOpen}
  /\ UNCHANGED <<project, planning, context, toOpen, opened, connected, engine,
                 closeFailed>>

(* Mutant: a connection that fails is reported as a setup that fails.      *)
OpenAdapterFailsAsSetup ==
  /\ phase = "open"
  /\ toOpen # {}
  /\ phase' = "exited"
  /\ exit' = "configuration_error"
  /\ verdict' = "connection_failed"
  /\ touched' = touched \cup {FirstToOpen}
  /\ UNCHANGED <<project, planning, context, toOpen, opened, connected, engine,
                 closeFailed>>

(* connect() raises: the adapters opened before it are closed.             *)
OpenAdapterFails ==
  /\ phase = "open"
  /\ toOpen # {}
  /\ phase' = "close"
  /\ verdict' = "connection_failed"
  /\ touched' = touched \cup {FirstToOpen}
  /\ UNCHANGED <<project, planning, context, toOpen, opened, connected, engine,
                 closeFailed, exit>>

AllOpened ==
  /\ phase = "open"
  /\ toOpen = {}
  /\ phase' = "engine"
  /\ context' = ContextWith(RequiredConnections)
  /\ UNCHANGED <<project, planning, adapters, engine, ending>>

---------------------------------------------------------------------------
(* The engine at work.                                                     *)
RouteOf(c) == Route(c, checks[c], ContractOf(c), profile, context)

ReadyToEvaluate(c) ==
  /\ phase = "engine"
  /\ \A id \in Verdicts!Direct(c) : Verdicts!Satisfied(id)

(* A check that is not executed.                                           *)
ReportCheck(c) ==
  /\ ReadyToEvaluate(c)
  /\ RouteOf(c) # Query
  /\ Verdicts!Record(c, RouteOf(c))
  /\ UNCHANGED <<project, phase, planning, context, adapters, queries, ending>>

(* Rendering the query fails, or something raises on the way.              *)
RenderingFails(c) ==
  /\ ReadyToEvaluate(c)
  /\ RouteOf(c) = Query
  /\ Verdicts!Record(c, RuntimeError)
  /\ UNCHANGED <<project, phase, planning, context, adapters, queries, ending>>

(* adapter.execute: without a connection it raises; with one it raises,    *)
(* returns rows that are refused, or a count that is zero or not.          *)
QueryCheck(c) ==
  /\ ReadyToEvaluate(c)
  /\ RouteOf(c) = Query
  /\ \E r \in IF SourceOf(c) \in connected
                THEN {RuntimeError, Executed("pass"), Executed("fail")}
                ELSE {RuntimeError} : Verdicts!Record(c, r)
  /\ queries' = queries \cup {[check |-> c, connection |-> SourceOf(c)]}
  /\ UNCHANGED <<project, phase, planning, context, adapters, ending>>

(* Mutant: no cycle detection.                                             *)
BlockCheckNoCycles(c) ==
  /\ phase = "engine"
  /\ Verdicts!Block(c)
  /\ UNCHANGED <<project, phase, planning, context, adapters, queries, ending>>

(* Blocked by prerequisites, or part of a cycle.                           *)
BlockCheck(c) ==
  /\ phase = "engine"
  /\ Verdicts!Block(c) \/ Verdicts!Reject(c)
  /\ UNCHANGED <<project, phase, planning, context, adapters, queries, ending>>

EngineReturns ==
  /\ phase = "engine"
  /\ \A c \in CheckIds : results[c] # Unresolved
  /\ phase' = "close"
  /\ verdict' = "returned"
  /\ UNCHANGED <<project, planning, context, adapters, engine, closeFailed,
                 exit>>

EngineRaises ==
  /\ phase = "engine"
  /\ phase' = "close"
  /\ verdict' = "engine_failed"
  /\ UNCHANGED <<project, planning, context, adapters, engine, closeFailed,
                 exit>>

---------------------------------------------------------------------------
(* Close the adapter opened last; a close that raises still drops the      *)
(* connection, and leaves a diagnostic.                                    *)
CloseAdapter ==
  /\ phase = "close"
  /\ opened # <<>>
  /\ connected' = connected \ {opened[Len(opened)]}
  /\ opened' = [i \in 1..(Len(opened) - 1) |-> opened[i]]
  /\ closeFailed' \in {closeFailed, TRUE}
  /\ UNCHANGED <<project, phase, planning, context, toOpen, touched, engine,
                 verdict, exit>>

(* Mutant: the status of the run is that of the checks that executed.      *)
RunStatusOfExecuted ==
  AggregateStatuses({results[c].status :
                       c \in {d \in CheckIds : results[d].executed}})

RunStatusOf == AggregateStatuses({results[c].status : c \in CheckIds})

(* Mutant: a close failure only matters to a run that succeeded.           *)
ExitKeepingFailures ==
  /\ phase = "close"
  /\ opened = <<>>
  /\ phase' = "exited"
  /\ exit' = IF /\ verdict = "returned"
                /\ ~ closeFailed \/ ExitCategory(RunStatusOf) # "success"
               THEN ExitCategory(RunStatusOf)
               ELSE "runtime_error"
  /\ UNCHANGED <<project, planning, context, adapters, engine, verdict,
                 closeFailed>>

Exit ==
  /\ phase = "close"
  /\ opened = <<>>
  /\ phase' = "exited"
  /\ exit' = IF verdict = "returned" /\ ~ closeFailed
               THEN ExitCategory(RunStatusOf)
               ELSE "runtime_error"
  /\ UNCHANGED <<project, planning, context, adapters, engine, verdict,
                 closeFailed>>

EngineStep(c) ==
  ReportCheck(c) \/ RenderingFails(c) \/ QueryCheck(c) \/ BlockCheck(c)

Progress ==
  \/ LoadProject \/ LoadArtifacts \/ PlanWithoutAdapters \/ LoadProfile
  \/ ClassifyScans \/ PrepareAdapters
  \/ OpenAdapter \/ AllOpened
  \/ \E c \in CheckIds : EngineStep(c)
  \/ EngineReturns
  \/ CloseAdapter \/ Exit

Next == Progress \/ OpenAdapterFails \/ EngineRaises

Spec == Init /\ [][Next]_vars

(* The service is one thread that waits for nothing but its adapters, whose*)
(* calls return or raise.  No fault has to happen for a run to go on.      *)
FairSpec == Spec /\ WF_vars(Progress)

---------------------------------------------------------------------------
(* Properties.                                                             *)

(* A query is only ever sent through an adapter that holds its database    *)
(* open: the filters that choose what to open (services/run.py) and the    *)
(* guards that choose what to execute (check_engine) are written apart,    *)
(* and whatever the latter let through the former must have opened.        *)
RunnableChecksHaveOpenAdapters ==
  phase = "engine" =>
    \A c \in CheckIds : RouteOf(c) = Query => SourceOf(c) \in connected

(* A key-safety query, which scans its tables, is only sent when the scan  *)
(* guard found a bounded local scan for that very check, and no query is   *)
(* sent that would compare two databases, or tables named by a malformed   *)
(* relation or a query.                                                    *)
QueriesAreSafe ==
  \A q \in queries :
    LET contract == ContractOf(q.check)
    IN  /\ IsKeySafety(checks[q.check]) => q.check \in scanSafe
        /\ profile[contract.target.connection] = profile[q.connection]
        /\ {contract.source.endpoint, contract.target.endpoint} = {"relation"}

(* A check this version can execute on the project at hand: a plan of the  *)
(* expected shape, that rendered, over two relations of one DuckDB         *)
(* database, and for key safety with the grain of the contract and a       *)
(* bounded scan.                                                           *)
Executable(c) ==
  LET contract == ContractOf(c)
  IN  /\ SupportedShape(checks[c])
      /\ checks[c].rendering \notin BlockingRendering
      /\ contract.source.endpoint = "relation"
      /\ contract.target.endpoint = "relation"
      /\ profile[contract.source.connection].type = "duckdb"
      /\ profile[contract.source.connection] =
           profile[contract.target.connection]
      /\ IsKeySafety(checks[c]) => checks[c].grain /\ c \in scanSafe

(* No check that can be executed is reported as one that cannot: not by a  *)
(* filter that left it without an adapter, nor by a guard of another       *)
(* check's (a shared connection, a sibling that is not allowed).           *)
NothingExecutableIsDropped ==
  phase \in {"engine", "close", "exited"} =>
    \A c \in CheckIds : Executable(c) => results[c].status # "not_executable"

(* The guards of runtime.py and those of execute_key_safety_check are two  *)
(* copies in different orders: whatever adapters, connections and decision *)
(* a context holds, a check the first copy lets through is stopped by no   *)
(* guard of the second but the one on the adapter type, which only the     *)
(* second has.                                                             *)
KeySafetyGuardsAgree ==
  phase = "project" =>
    \A c \in CheckIds, prepared, loaded \in SUBSET Connections,
       decision \in {Allowed, MissingScanBudgetDecision} :
      LET handed == [ContextWithoutAdapters EXCEPT
                       !.adapters = prepared, !.connections = loaded,
                       !.renderers = {"duckdb"}]
          guards == KeySafetyGuards(checks[c], ContractOf(c), profile, handed,
                                    decision)
          renderer == RendererBlocked(ContractOf(c), profile, handed)
      IN  (\A i \in DOMAIN guards : ~ guards[i].holds) =>
            ExecuteKeySafety(checks[c], ContractOf(c), profile, handed,
                             decision)
              = IF renderer.holds THEN renderer.outcome ELSE Query

(* However a run ends, no adapter it opened is left open: a later adapter  *)
(* that does not connect, an engine that raises and a close() that raises  *)
(* included.                                                               *)
NothingLeftOpen == phase = "exited" => connected = {} /\ opened = <<>>

(* A run that ends as a configuration error has asked no adapter to        *)
(* connect and sent no query, whatever was wrong and however late it was   *)
(* found.                                                                  *)
ConfigurationErrorsTouchNothing ==
  exit = "configuration_error" => touched = {} /\ queries = {}

(* The exit category tells what happened.  Success: every check has a      *)
(* result, none is a failure of any kind, and every adapter closed         *)
(* cleanly.  check_failure: some data check really ran and failed, no      *)
(* check errored, and cleanup worked, never a broken run.                  *)
ExitTellsTheTruth ==
  /\ exit = "success" =>
       /\ CheckIds # {}
       /\ \A c \in CheckIds : results[c].status \in {"pass", "warn", "skipped"}
  /\ exit = "check_failure" =>
       /\ \E q \in queries : results[q.check] = Executed("fail")
       /\ \A c \in CheckIds : results[c].status # "error"
  /\ exit \in {"success", "check_failure"} =>
       verdict = "returned" /\ ~ closeFailed

(* Every run exits.                                                        *)
Exits == <>(phase = "exited")

(* docs/implementation/check-engine.md: a key-safety check whose scan      *)
(* guard fails, "metadata inspection failures" included, fails closed      *)
(* before adapter setup, and no adapter is opened for a check that is not  *)
(* in a supported execution shape.                                         *)
UnsafeScansOpenNoAdapter ==
  \A n \in touched :
    \E c \in ProfileCandidates :
      /\ SourceOf(c) = n
      /\ IsRowCount(checks[c]) \/ decisions[c].allowed
=============================================================================
