# recon-core: TLA+ models, checks and proofs

This directory holds TLA+ models of `recon-core` (the Python package under
`src/src/recon_core`), the TLC configurations that check them on small
instances, and TLAPS proofs of the results that matter most, for instances of
every size. Paths below are relative to `src/src/recon_core` unless they start
with `docs/` or `tests/`.

`recon-core` compares a source and a target dataset. Users write contracts
(YAML); `recon compile` turns them into compiled artifacts under `target/` (one
contract file, one checks file and optionally SQL per contract); `recon run`
loads those artifacts, connects to the databases through adapters, evaluates
the checks and reports a status that ends up in the exit code. Every command is
one synchronous process. Commands share nothing but the file system, and take
no lock on it.

```
 authored YAML --> parser, manifest --> compiler --> [SQL rendering] --> target/
 AuthoredFiles     ParseProject       CompileProject    RenderSql           |
                   AuthoredProject    CompiledChecks    RenderBatch         |
                                                                  ArtifactPublication
                                                                            |
 exit code <-- RunService <-- check engine <-- routing, executors <--  loaders
               RunService     CheckEngine      RuntimeRouting
                              PrerequisiteVerdicts    |
                                           queries on a DuckDB file
                                         Reconciliation, DuckDbQueries
```

## Inventory

| component | state it keeps | operations | what is hard about it | what makes it correct |
|---|---|---|---|---|
| check engine (`check_engine/engine.py`, `prerequisites.py`, `models.py`) | memo of results, chain of calls | evaluate a check, resolve its prerequisites, aggregate | recursion over any dependency graph, cycles, ids that do not exist, two levels of aggregation | nothing executes above an unsafe prerequisite; a blocked check names its root cause; no failure disappears in the aggregate; it terminates |
| routing and executors (`dispatch.py`, `runtime.py`, `execution.py`, `key_safety.py`, `scan_budget.py`) | none: a chain of decisions per check | classify, guard, render, execute, interpret | guards written twice in different orders, a scan decision taken earlier | no query without a bounded scan and two relations of one open database; nothing that can execute is dropped |
| run service (`services/run.py`, `adapters/runtime_setup.py`, `adapters/duckdb/*`) | prepared and opened adapters, scan decisions | load, select candidates, prepare, open, run, close | a failure at any step with adapters already open; filters that open and guards that execute written apart | all that was opened is closed; the adapter a check needs is open when it executes; the exit category tells the truth |
| publication (`services/compile.py`, `_compile_artifacts.py`, `artifacts/*`) | files under `target/` | clear, write, discard, load | failing clean-up, a kill between two writes, a run that reads while a compile writes | no files of two compiles beside each other; a run loads all or nothing and never joins checks with an older contract; a failed compile leaves nothing to run |
| compiler (`compiler/*`) | contracts, registries of columns and names, diagnostics | settings, columns, packs, metrics, duplicates | validations skipped after an earlier diagnostic; inheritance of policies | diagnosed exactly if ill formed; all checks of a contract or none; every check is accepted by all its readers; no two contracts share a file |
| SQL rendering (`services/_compile_render_sql.py`, `_compile_adapter_setup.py`, `_compile_rendering_metadata.py`, `adapters/rendering.py`) | setup diagnostics per connection, results per check | resolve adapters, render a contract, a check, annotate | plug-ins that answer anything or raise; one diagnostic suppresses the output of all | all checks are rendered or each says why not; the right check is told |
| adapter registry (`adapters/registry.py`) | creators by type | register, resolve | creators are plug-ins | whatever a creator does is a resolution with or without an adapter |
| profiles (`profiles/*`) | selected target and connections | select, render environment variables, validate | partial rendering of the selected part only | every referenced connection is there, or a configuration error |
| queries on DuckDB (`adapters/duckdb/*`, the query halves of `execution.py` and `key_safety.py`) | one connection to a file that other processes use | scan guard, connect, one query per check, close | NULLs, repeated keys and types in joins; a file that is rewritten between guard and query | a verdict is true of the file; a passing pack means equal keys; scans stay within the budget the guard allowed |
| parser, manifest and configuration (`parser/*`, `config/*`, `project/*`, `services/parse.py`, `artifacts/manifest_writer.py`) | candidates by real path, contracts, manifest | configure, discover, classify, read, validate, list | overlapping directories and links, one wrong entry among many, duplicates, fields that are null | the answer does not depend on the order of anything; what is wrong is reported, in the file where it is wrong, and costs nothing else |
| redaction (`adapters/*redaction*`) | known sensitive values | rewrite texts of diagnostics | texts that overlap | no known value is left in a text |
| `init`, CLI (`services/init.py`, `cli/*`) | none | write a skeleton, map exit categories | none that involves order | |

The hazards these components are exposed to, each at its line and with the
property that covers it, are listed in `PROJECT.json`.

## Modules

Each state machine has one action per iteration, handler or file operation of
the code, with the failures of that step as alternatives. Faults (an adapter
that raises, a file that cannot be written, a process that is killed) are
choices that need not happen.

### Parsing: `AuthoredFiles`, `AuthoredProject`, `ParseProject`

`AuthoredFiles` is what authors may leave behind: a configuration, the
directories it names or leaves to their defaults, and files reached by one or
several paths. A value is absent, null, bad or good; paths are numbers in the
order of their text, which is all the code uses of them.

`AuthoredProject` is what `recon parse` promises, in one step and without any
loop: a wrong configuration is refused before anything else is looked at;
otherwise the manifest has each contract that can be used under its name, and
the command succeeds exactly if nothing in the project is wrong.

`ParseProject` is the code: `LoadConfig` (`load_project_context`,
`load_project_config`), `DiscoverPath` and `ClassifyFile` (the two loops of
`discover_resource_files`), `ParseFile` and `ParseEntry` (the loops over contract
files and over the contracts of one), `AddContract` (`build_manifest`),
`WriteManifest` and `WriteFails`. Exceptions that nothing catches are actions of
their own (`ConfigRaises`, `ChecksumRaises`, `AssertionRaises`) and end in the
stage "crashed". `Authored == INSTANCE AuthoredProject WITH outcome <- Answered`
is the refinement: the answer is the pair of exit category and manifest once
there is one.

### The check engine: `ResultModel`, `PrerequisiteVerdicts`, `CheckEngine`

`ResultModel` holds the statuses, the reasons, the constructor checks of
`CheckResult` and the aggregation (`_aggregate_statuses`), as operators on sets
of statuses: the code only asks which ones occur.

`PrerequisiteVerdicts` is what the engine promises, without the recursion: every
check gets one result for good; it is evaluated when all its prerequisites let
it (`Evaluate`), blocked when all are known and some stand in its way, by exactly
those (`Block`), or rejected unevaluated only when it really depends on itself
(`Reject`).

`CheckEngine` is the code: `results` is `check_results_by_id` and a frame of
`stack` a call of `_result_for_check`, with the prerequisite it looks at and the
blockers it has collected; `active_check_ids` is the set of checks on the stack.
`CallCheck` and `TakeCheckResult` are the loop of `CheckEngine.run`;
`NoteMissing`, `NotePrerequisite`, `DetectCycle` and `ResolvePrerequisite` are
the branches of the prerequisite loop, `ReturnBlocked` and `ReturnEvaluated` the
returns, `FinishContract` and `FinishRun` the aggregation. The result of a check
that is evaluated is any of `OwnOutcomes`; the recursion cannot depend on which.

### A run: `RuntimeRouting`, `RunService`

`RuntimeRouting` translates the chains of early returns of `dispatch.py`,
`runtime.py`, `execution.py`, `key_safety.py` and `scan_budget.py` as sequences
of guards, in the order of the code; `FirstOutcome` takes the first that holds.
The outcome `Query` means that a query is sent.

`RunService` is `RunService.execute`: loading, candidates, profile, scan
decisions, preparing, opening adapter by adapter, the engine, closing in
reverse, the exit category. It composes `RuntimeRouting` (what happens to a
check) with `PrerequisiteVerdicts` (in which order checks may happen), which
`CheckEngine` implements. The scan guard looks at a database that another
process may be changing: its verdict is any. Queries return any status, refuse
or raise; `connect()` and `close()` may raise.

### Queries: `DuckDbQueries`, `Reconciliation`

`DuckDbQueries` gives each query of `adapters/duckdb/renderer_operations.py` as
what it returns: null keys, duplicate keys, missing keys with their static type
check, counts, sums, groups and the full outer join of two groupings. A table is
the types of its columns and its rows, in no order and with NULLs and
repetitions.

`Reconciliation` composes them with the basic pack of `CompiledChecks`, the scan
guard, the adapter's lifecycle and another process that opens, rewrites and
closes the same file whenever DuckDB's lock lets it: `MeasureFile` and
`ReadCatalog` per key-safety check, `Connect`, `QueryCheck` per check, `Close`.
The guard asks for the size of a file by its name and opens it afterwards, so
that what it reads the catalog of need not be what it measured. `RunService` models the same
part of a run with every fault and no data; here the data are there and the
faults are one kind (`ScanBreaks`, `ConnectFails`, `QueryBreaks`). `fresh` is
history: the checks whose file the guard has measured since it was last written.

### Artifacts on disk: `ArtifactPublication`

A compile clears `contracts/`, `checks/` and `sql/`, then writes contract by
contract: SQL first for the whole batch, then each contract file and its checks
file, each opened (truncated) and filled in two steps. A write that fails leads
to discarding, whose own failures the code suppresses. A run lists the checks,
reads them, then reads their contracts. Steps of the compile and the run
interleave freely, and the compile may be killed between any two. A file is who
wrote it and whether it is whole. `before` and `disturbed` are history: what
could be loaded when the last compile began, and whether a compile took a step
since the run began.

### Compiling: `CompiledChecks`, `CompileProject`

`CompiledChecks` holds the checks that the compiler builds (the basic pack and
the two metric types) as records with the fields their dictionaries have, and
what each reader asks of them: the typed operation model, the loader, the
runtime's plan shapes, the renderer's plan shapes.

`CompileProject` is `compile_project`. What is authored is chosen as it is read:
`FindContract` is the naming pass over all contracts, `ProjectFound` the fatal
return, `ReadSettings`, `ReadColumn`, `ColumnsRead`, `UseCheckPack`,
`CheckPacksUsed`, `ReadMetric`, `MetricsRead` and `ContractCompiled` are the
passes over one contract. `WellFormed` is a reference definition of the contracts
that compile, in one formula and without the order in which the compiler looks.

### Rendering: `RenderBatch`, `RenderSql`

`RenderBatch` is the promise of `recon compile --render-sql`: in one step all
checks are rendered and the command succeeds, or none is and each has a reason,
or the command gives up and changes nothing.

`RenderSql` is the code: `ResolveAdapter` for every connection, `RenderContract`
and `RenderCheck` for the two loops of `render_compiled_sql_in_memory`,
`BlockedByCompile`, `ProfileFails`, `OutputSuppressed`, `SqlRefused` and
`SqlWritten` for the ends; wherever one of these writes YAML or SQL, `WriteFails`
may happen instead.
Whatever an adapter is asked it answers anything or raises, also when it
answered before. A diagnostic is its code. `First` is a chain of early returns.

## Runs

`CHECK_DEADLOCK FALSE` stands in every configuration because every command ends.

| run | states | what it shows |
|---|---|---|
| `parse_project` | 96,960 | Configurations with each field wrong in each way, directories that are missing, files, or shared by two kinds, links that give a file two paths, contents of every form, and contracts with each field wrong in each way beside others that are right. The parser implements `AuthoredProject`, and a manifest has a diagnostic for exactly the files in which something is wrong. |
| `null_fields` | violation | See Divergences. |
| `check_engine` | 213,642 | Every graph of three checks with at most two prerequisites each, one id of which no artifact holds: self loops, cycles of two and three, diamonds and missing ids. Two contracts with an empty one between them. Results respect prerequisites, blocked checks name the dominant root cause however deep it is, results pass the constructor checks, the two-level aggregate is that of all checks, the engine implements `PrerequisiteVerdicts` and terminates. |
| `run_service` | 312,988 | Two checks of one or two contracts over two connections (two names of one file, two files, two adapter types), and one check with every combination of what its route depends on, with every fault. Adapters are open for what executes, all are closed in the end, configuration errors touch nothing, `success` and `check_failure` mean what they say, queries are safe, nothing executable is dropped, and the two copies of the key-safety guards agree in every context. |
| `run_exits` | 18,495 | Under fairness every run exits. Fewer projects than above, because a liveness check costs more. |
| `run_unsafe_scan_setup` | violation | See Divergences. |
| `reconciliation` | 8,064,359 | The seven checks of the basic pack with a key of two columns on every pair of tables of up to two rows, and some of three, out of seven rows with NULLs in either key column and in the amount; a key of another type, views, missing tables, a file that is too large; up to two visits or breakdowns. Verdicts are true of the file, a passing pack means equal keys, scans stay in the budget, and the rendered comparison of groups has one row for each group, with the sums of its rows. |
| `artifact_publication` | 4,493,295 | Two contracts, two compiles, one run. Files of two compiles never stand together, undisturbed runs load all or nothing, joins are sound, contracts are never older than checks, failed compiles leave nothing, rendered checks have SQL. |
| `failed_write_cleanup` | violation | See Divergences. |
| `diagnosed_contract_runs` | violation | See Divergences. |
| `compile_project` | 1,303,201 | Three worlds in one run. Contracts of up to three column entries of 29 kinds with one metric over them: null sentinels stay apart after normalization. Contracts of up to two pack uses and two metrics: all of their checks or none, each accepted by the loader, the runtime and the renderer. Projects of up to four contracts whose names repeat, differ in case only or may not be part of an id: no two share a file, all are compiled or none. In all of them a contract compiles exactly if it is well formed. |
| `render_sql` | 156,114 | Three connections in one or two databases or of another type; one contract of every kind, or two that share a connection; checks whose names differ in case only. `RenderSql` implements `RenderBatch`, only relations of one DuckDB database are rendered, setup failures reach the right checks only, statuses mean what they say. |

Why the bounds are enough to meet the interesting cases. Three checks are needed
for a cycle that is not the whole graph and for a cause two levels above a
dependent; two contracts and an empty one for aggregates of aggregates. Two
connections are needed for a later one to fail with an earlier one open. Two
compiles and one run are the least in which files of different generations can
meet and a compile can overtake a run; two contracts the least in which one is
written and one is not. A third column is needed for one that repeats a name
after another that was rejected. Three connections are the least in which a
failing one is shared by two contracts and another belongs to one only. Two
files with two entries each are the least in which a name repeats within a file
and across files, and two paths of one file the least for a link. Two rows are
the least for a key that repeats, three for one that repeats beside one that
does not; two key columns the least for a NULL in one of them only. Two
disturbances are enough for a rewrite between guard and query and a breakdown,
or for two rewrites.
`MaxCompiles`, `MaxRuns`, `MaxDisturbances` and the `max` fields of `Worlds`
bound loops of the environment, not of the code; the theorems hold for every
value of them.

Fairness. `CheckEngine` has `WF_vars(Next)`: it is one synchronous call without
blocking operations. That it terminates rests on the ids of the calls in progress,
which every call hands down: where they are lost, a cycle is evaluated without
end. `FairSpec` of `RunService` has `WF_vars(Progress)`, where
`Progress` leaves out the faults: the service is one thread that waits for
nothing but its adapters, whose calls return or raise. The other modules claim
safety only.

## Divergences

Four runs violate what the repository's documents say. `PROJECT.json` quotes
the lines.

- `null_fields`: a required field of a contract that is present and null passes
  both validations, neither missing nor of a wrong type, and reaches the
  assertions of `parser/contracts.py:244`; `recon parse` ends in an uncaught
  `AssertionError` where `docs/implementation/parser-and-manifest.md` promises a
  diagnostic. `ParseProject` makes it a crash; the other properties are about
  parses that answer.
- `run_unsafe_scan_setup`: a key-safety check whose scan guard could not open
  the database (`metadata_open_failed`) still has its adapter prepared and
  connected (`services/run.py:690`), although
  `docs/implementation/check-engine.md` says that metadata inspection failures
  fail closed before adapter setup. The scan itself is refused:
  `QueriesAreSafe` holds, and is proved.
- `failed_write_cleanup`: `docs/compatibility/compatibility-matrix.md` says that
  a failed write leaves no partial YAML; the clean-up suppresses its own errors
  (`services/_compile_artifacts.py:94`, `:101`), so a clean-up that fails too
  leaves it.
- `diagnosed_contract_runs`: `docs/architecture/diagnostics-and-errors.md` says
  that error diagnostics prevent `run`; the loader refuses only when no contract
  at all has checks, and runs the others. A test of the service confirms that the
  code means it.

One observation is not a run of its own. A factory may report a warning and no
adapter; its checks are then `blocked` without an error diagnostic, which
`artifacts/compiled_check_loader.py:318` refuses. `StatusesMeanWhatTheySay`
shows that this is the only way a blocked or failed check can lack an error.

`ParseProject` meets two more uncaught exceptions that no document speaks of: a
configuration that is not UTF-8 (`config/project_config.py:115` expects only
`OSError`, unlike the YAML loader of resources) and a resource file that cannot
be read, whose checksum is taken first (`parser/files.py:298`).

In the rendered comparison of groups a group of one side only has NULLs for the
other side's group and sum, and so has the group of NULLs with a sum over
nothing: the rows are all there (`GroupedComparisonIsComplete`) but do not say
which case they are. Nothing executes this query yet.

Two hazards follow from the model and no document says otherwise: a compile
killed after some of its contracts leaves what looks like a complete smaller
project, and a checks file cut short at a line that ends a check parses. No file
says how many contracts or checks there should be, so the properties about
complete runs are stated for published compiles and for compiles that did not
get beyond clearing.

## Proofs

All theorems are proved by TLAPS from the named assumptions on the constants
that the modules declare. TLC evaluates the same assumptions in the runs. Every
safety invariant and every refinement that a passing run checks is stated by a
theorem, so each holds for every value of the constants that satisfies the
assumptions.

Assumptions that say more than the type of a constant:

- `IdsAssumption` (`CheckEngine`): the loaded checks are among the ids.
- `OwnOutcomesAssumption` (`CheckEngine`): what an executor returns is a result
  that the constructor of `CheckResult` let through (`check_engine/models.py`
  raises otherwise, in the executor), and is not `blocked`. `ResultsAreValid` is
  therefore about the results that the engine builds itself.
- `ContractsAssumption` (`RunService`): the ends of a contract have a kind that
  the loader admits.
- `ProjectsAssumption` (`RenderSql`): contracts have different names and so have
  the checks of each, which is what `CompileProjectProofs` proves of the compiler.
- `NullAssumption` (`DuckDbQueries`): NULL is no number.
- `AmountsAssumption` (`Reconciliation`): a metric column of a numeric type holds
  integers or NULL. Sums are exact then; those of FLOAT and DOUBLE columns, which
  round and depend on the order of the rows, are left out.

| module | theorems | argument |
|---|---|---|
| `CheckEngineProofs` | `TypeCorrect`, `CallsInProgressHolds`, `ExecutedAfterPrerequisites`, `BrokenNeverExecute`, `Refinement`, `RootCausesAreReported`, `ResultsAreValid`, `RunStatusIsFlat` | See below. |
| `RuntimeRoutingProofs` (lemmas) | | If the outcome of a chain is `Query`, every guard before it is false. `RouteQuery` collects what a query has passed; `RouteToQuery` is the converse, what a check needs to be queried; `KeySafetyCopiesAgree` compares the two copies of the key-safety guards; `RouteKnown` says that every chain ends in an outcome the engine knows. |
| `RunServiceProofs` | `QueriesHaveOpenAdapters`, `SentQueriesAreSafe`, `AdaptersAreClosed`, `ConfigurationErrorsComeFirst`, `ExitIsTruthful`, `ExecutableChecksAreKept`, `KeySafetyGuardsAlwaysAgree` | See below. |
| `ReconciliationProofs` | `VerdictsHold`, `PassingPackIsEquivalence`, `BudgetHolds`, `GroupedComparisonHolds` | See below. |
| `ArtifactPublicationProofs` | `TypeCorrect`, `FilesOfOneCompile`, `EverythingOrNothing`, `JoinsAreSound`, `ContractsNeverOlder`, `NothingIsLeft`, `SqlIsThere` | `DiskInv` says for every phase of a compile, and so for wherever it is killed, which files are there: cleared directories stay empty, contracts behind the loop are complete, the one in the loop has its contract before its checks. `RunInv` adds what a run has read: if no compile stepped in, what is on disk; otherwise contracts that are no older than the checks. |
| `CompileProjectProofs` | `FilesNeverCollide`, `AllOrNoContracts`, `SentinelsNeverMerge`, `DiagnosticsAreExact`, `CompiledAsAWhole`, `ReadersAcceptEveryCheck` | See below. |
| `RenderSqlProofs` | `Refinement`, `OnlyMatchingConnectionsHold`, `SetupIsToldWhereItBelongs`, `StatusesAreMeant` | See below. |
| `ParseProjectProofs` | `FilesAreBlamedRightly`, `ParseKeepsItsPromise` | See below. |

**The engine.** The invariant describes the stack: calls are distinct and
unresolved (`CallsDistinct`), each is reachable from those below it
(`CallsReachable`), and each has collected exactly the unsafe ones of the ids it
has looked at (`CallsCollected`). The last one holds although results keep
arriving while a call waits, because a result is never changed
(`VerdictStable`). A call that returns then has all the verdicts its promise is
about, and a cycle that is found is one, because the stack is a path. That
nothing executes above a missing id or a cycle needs no induction on depth: the
cleared checks are a set closed under prerequisites (`SatisfiedIsClosed`), and
what can be reached is the least such set. Root causes go the other way:
`ResultsExplained` says that the reason of a blocked check is the reason of some
cause below it. That no cause below it has a more severe one is again a closed
set: nothing worse than the reason of a blocked check is among its prerequisites
or below them, because a blocked prerequisite stands for its own
(`NothingWorseBelow`).
The run status is the most severe of the most severe of each contract
(`BuiltInv`, `AggregateOfParts`); `no_checks`, the status of an empty contract,
counts for nothing beside any other.

**The run.** `ContextInv` ties the filters to the guards: while opening, what
has to be opened is still to be opened or connected, and the engine has either
no adapter or all of those. `RouteQuery` shows that a check with a query is one
the filters selected. `AdaptersInv` says that what is connected is on the list
that is closed. `RunInv` adds what the exit is read off: a failure is there only
with the query that was sent for it (`ResultsInv`), an exit that is no error is
that of the results after a clean closing (`VerdictInv`), and a check that can
be executed meets no guard that holds (`PlanInv`). That the two copies of the
key-safety guards agree needs no invariant: it is a lemma about the two chains
over all contexts.

**Queries.** While checks are queried the adapter holds the file, so nobody
writes it (`OpenInv`), and every verdict is what its query answers on the file
as it is (`ResultsInv`). What a query answers is then compared with what its
check is named for, check by check: a count is zero exactly if the set it counts
is empty. That a passing pack makes the keys equal combines the seven verdicts.
Only a row count or a check that the guard has allowed has a verdict
(`AllowedInv`), and a file that was not written since the guard measured it is
still small and, if the check was allowed, still has base tables (`FreshInv`).
The second needs the first: that a check the guard has not come to is not allowed
yet is what lets a file be measured before its catalog is read. The
comparison of groups is a fact about tables: the sums of the model are a
recursive function that takes the rows of a set in an order of its own. That the
function exists, that any element may be taken first and that the sum of a union
of disjoint parts is the sum of their sums is proved by taking a smallest set
for which it fails (`SumExists`, `SumIsSum`). The full join has one row
for each group of either table, because a group has one row on each side and the
NULL-safe comparison joins it with nothing else.

**The compiler.** `files` maps every folded name to the one contract that has
it, and the compiled contracts are a prefix of the names. A column whose
sentinels merge leaves a diagnostic when it is read or when all are, and no
later step takes a diagnostic away. `ContractInv` describes a contract that is
being read: the diagnostics are empty exactly as long as everything read so far
is fine (`ColumnsJudged`, `MetricsJudged`, `Judged`), although later stages are
skipped after an earlier diagnostic; `Remembered` says which names the loops
remember and, as long as no column is wrong, which columns metrics may use; and the checks so far are those of
the settings, the pack uses and the metrics (`ChecksBuilt`). `CompileInv` adds
that every finished contract keeps its promises. Whether the checks of a pack
and of a metric are accepted by the loader, the runtime and the renderer is then
a fact about these checks, for grains of every length.

**Rendering.** When rendering begins every connection has an adapter or a
diagnostic (`Answered`), so the `continue` that passes over a contract without a
result is never taken (`NoAdapterIsMissing`); what has been passed has results
(`Passed`), so all checks are rendered when any is. `Matched` says that a result
without a diagnostic is about two relations of one DuckDB database. `Reported`
says for every check where its codes come from: those about adapters from the
two of its contract, and codes of the renderer only if the renderer was asked.
Statuses and reasons are given in one last step, so what they say is read off
`Reported`.

**The parser.** `IInv` says of every loop that what it did and what it still has
to do are together all there is to do. Discovery: the candidates found and those
of the directories to come are those of all directories. Classification: every
file that was taken is known by one candidate, unless it is of several kinds, in
whatever order its paths come. Reading: the contracts are the sound entries of
the files read so far, each once. The manifest: it has the first of every name
among the contracts that were listed. In all stages a file has a diagnostic
exactly if something was found wrong in it so far (`IsWrong`). When the loops
are done this is `IllFormed`, and the only step that sets the exit is a step of
`AuthoredProject`; all others stutter.

What is model-checked only: `Terminates` of `CheckEngine` and `Exits` of
`RunService`, which are liveness under fairness and need `ENABLED`; and the four
properties that the code violates. What a recursive definition computes is
proved only where a smallest counterexample can be taken in a set (the sums
above): the library's induction theorems take an operator as a parameter. No
module here declares a `RECURSIVE` operator.

## What is not modelled

- The text of SQL, of diagnostics and of files, and redaction, which rewrites
  texts: no model carries them. That DuckDB evaluates the SQL as `DuckDbQueries`
  says is assumed: the operators are read off the SQL that the renderer writes.
- Row-count queries of the run that go through the same adapter as other
  contracts: `Reconciliation` has one contract.
- Named sampling at run time: the executors ignore it, as the documents say.
- Scalars that PyYAML itself cannot construct (a date that does not exist raises
  `ValueError`, which is no `YAMLError`).
- The values of policies (numbers, regular expressions, sentinels): they appear
  as valid, invalid or, for sentinels, as sets that case folding merges.
- Profiles: selection of a target and rendering of environment variables appear
  as their outcome, a profile that has the connections or a command that stops.
- Two compiles at the same time: no lock excludes them and nothing in the code
  notices, so nothing could be claimed of what they leave.
- A run that is killed: it leaves nothing behind but what the operating system
  closes.
- Python's recursion limit, which a chain of prerequisites longer than it would
  meet: the stack of `CheckEngine` is as deep as the graph.
- `init`, the CLI and the data classes of diagnostics.

## Plan

Done, in this order: the check engine; routing and the run service; publication;
the compiler; rendering; the parser; the queries. Next:

1. Profiles: selection of a target and the rendering of the selected connections
   only, as the source of the profiles of `RunService` and `RenderSql`.
2. `CheckEngine` with `RuntimeRouting` and the run's exit category in one
   composition, in place of `PrerequisiteVerdicts` inside `RunService`.
3. Proofs about these two, and that `CheckEngine` inside a run keeps what
   `PrerequisiteVerdicts` promises there.
