---------------------------- MODULE Reconciliation ----------------------------
(***************************************************************************)
(* The basic_equivalence checks of one contract against the DuckDB file    *)
(* that holds both of its tables, as `recon run` executes them: the scan   *)
(* guard looks into the file once per key-safety check and closes it, the  *)
(* adapter opens it for good, every check sends one query, and the adapter *)
(* closes.  RunService says when that happens and what else may fail; here *)
(* the file has content, the queries count its rows (DuckDbQueries), and   *)
(* another process opens, rewrites and closes the same file in between.    *)
(*                                                                         *)
(* DuckDB lets one process at a time have a file open for writing, and     *)
(* nobody read it then.  A query or a look that breaks is a disturbance,   *)
(* like a visit of the other process.                                      *)
(***************************************************************************)
EXTENDS DuckDbQueries

CONSTANTS GrainKeys,  \* the grain keys of the contract
          Sampling,   \* its sampling strategy, which no query uses
          Files,      \* what the file may hold at first
          Rewrites,   \* what the other process may leave in it
          MetricColumn, \* the column that its metric sums
          GroupBy,    \* the columns that its metric groups by
          MaxDisturbances

ASSUME GrainKeysAssumption == GrainKeys # <<>> /\ GrainKeys \in Seq(STRING)
ASSUME DisturbancesAssumption == MaxDisturbances \in Nat

(* The rows of a table are a sequence.                                     *)
ASSUME FilesAssumption ==
  \A f \in Files \cup Rewrites : \A table \in {f.source, f.target} :
    Len(table.rows) \in Nat /\ DOMAIN table.rows = 1..Len(table.rows)

(* Numbers are exact: the metric sums integers, or multiples of the step of*)
(* a DECIMAL.  The sums of FLOAT and DOUBLE columns round and are left out.*)
ASSUME AmountsAssumption ==
  \A f \in Files \cup Rewrites : \A table \in {f.source, f.target} :
    table.types[MetricColumn] \in Numeric =>
      \A i \in DOMAIN table.rows : table.rows[i][MetricColumn] \in Int \cup {Null}

VARIABLES
  file,      \* [source, target, small]: two tables; small: at most 64 MB and
             \* no .wal or .tmp file beside it
  other,     \* the other process: "away", "open" or "wrote"
  phase,     \* of the run: "scan", "connect", "query", "close", "closed"
  position,  \* the next check of the pack
  measured,  \* the guard has found the file small and will open it next
  decisions, \* scan budget decision by check: TRUE if its scan is allowed
  connected, \* the adapter has the file open
  results,   \* by check, [status, count]
  fresh,     \* checks whose look began since the file was last written
  disturbances

world == <<file, other>>
vars == <<file, other, phase, position, measured, decisions, connected, results,
          fresh, disturbances>>

Pack == BasicEquivalence(GrainKeys, Sampling)
Indices == DOMAIN Pack
IsRowCount(i) == Pack[i].type = "row_count_diff"

Result(status, count) == [status |-> status, count |-> count]
Unresolved == Result("unresolved", 0)
Refused == Result("not_executable", 0)
QueryError == Result("error", 0)
Executed(result) == result.status \in {"pass", "fail"}

BaseTable(table) == table.kind = "base"

(* Mutant: only the source has to be a base table.                         *)
SourceIsBaseTable(f) == BaseTable(f.source)

BaseTables(f) == BaseTable(f.source) /\ BaseTable(f.target)

(* The tables that the query of a check names.                             *)
TablesRead(check, f) ==
  IF check.type \in {"row_count_diff", "missing_keys", "extra_keys"}
    THEN {f.source, f.target}
    ELSE {SideRelation(check.operations[1].side, f.source, f.target)}

(* The difference of the counts, or the number of failures.                *)
Count(check, f) ==
  IF check.type = "row_count_diff"
    THEN Counted(CompareCounts(f.source, f.target).diff)
    ELSE FailureCount(check.operations[1], f.source, f.target)

(* A query on the file: the verdict of _parse_row_count_result and of      *)
(* _parse_key_safety_count_result, or an error of DuckDB.                  *)
Answer(check, f) ==
  IF \E table \in TablesRead(check, f) : table.kind = "missing"
    THEN QueryError
    ELSE LET counted == Count(check, f)
         IN  IF counted.failed
               THEN QueryError
               ELSE Result(IF counted.count = 0 THEN "pass" ELSE "fail",
                           counted.count)

---------------------------------------------------------------------------
Init ==
  /\ file \in Files
  /\ other = "away"
  /\ phase = "scan"
  /\ position = 1
  /\ measured = FALSE
  /\ decisions = [i \in Indices |-> FALSE]
  /\ connected = FALSE
  /\ results = [i \in Indices |-> Unresolved]
  /\ fresh = {}
  /\ disturbances = 0

Disturb ==
  /\ disturbances < MaxDisturbances
  /\ disturbances' = disturbances + 1

(* The run goes on to the next check, or after the last one to what comes  *)
(* next.                                                                   *)
NextCheck(next) ==
  /\ position' = IF position = Len(Pack) THEN 1 ELSE position + 1
  /\ phase' = IF position = Len(Pack) THEN next ELSE phase

(* _is_bounded_local_file, which looks at the file by its name: a file that*)
(* is too large is not opened, and its scan is refused.                    *)
MeasureFile ==
  /\ phase = "scan" /\ ~ measured
  /\ ~ IsRowCount(position)
  /\ IF file.small
       THEN /\ measured' = TRUE
            /\ fresh' = fresh \cup {position}
            /\ UNCHANGED <<position, phase>>
       ELSE NextCheck("connect") /\ UNCHANGED <<measured, fresh>>
  /\ UNCHANGED <<world, decisions, connected, results, disturbances>>

(* _duckdb_relations_are_local_base_tables, of whatever the file is now:   *)
(* it is opened read only, nobody writes it while its catalog is read, and *)
(* it is closed.  If it cannot be opened, the scan is refused.             *)
ReadCatalog ==
  /\ phase = "scan" /\ measured
  /\ measured' = FALSE
  /\ decisions' = [decisions EXCEPT
                     ![position] = other = "away" /\ BaseTables(file)]
  /\ NextCheck("connect")
  /\ UNCHANGED <<world, connected, results, fresh, disturbances>>

(* A row count needs no decision.                                          *)
SkipScan ==
  /\ phase = "scan"
  /\ IsRowCount(position)
  /\ NextCheck("connect")
  /\ UNCHANGED <<world, measured, decisions, connected, results, fresh,
                 disturbances>>

(* The look at the file breaks, at either step: the scan is refused.       *)
ScanBreaks ==
  /\ phase = "scan"
  /\ ~ IsRowCount(position)
  /\ Disturb
  /\ measured' = FALSE
  /\ NextCheck("connect")
  /\ UNCHANGED <<world, decisions, connected, results, fresh>>

(* DuckDbAdapter.connect; the row count always asks for it.                *)
Connect ==
  /\ phase = "connect"
  /\ other = "away"
  /\ phase' = "query"
  /\ connected' = TRUE
  /\ UNCHANGED <<world, position, measured, decisions, results, fresh,
                 disturbances>>

(* The file is in use, or does not open: the run ends.                     *)
ConnectFails ==
  /\ phase = "connect"
  /\ \/ other # "away" /\ UNCHANGED disturbances
     \/ other = "away" /\ Disturb
  /\ phase' = "closed"
  /\ UNCHANGED <<world, position, measured, decisions, connected, results,
                 fresh>>

Resolve(result) ==
  /\ results' = [results EXCEPT ![position] = result]
  /\ NextCheck("close")
  /\ UNCHANGED <<file, other, measured, decisions, connected, fresh>>

(* Mutant: an adapter that opens the file for each query.                  *)
QueryCheckAndDisconnect ==
  /\ phase = "query"
  /\ IsRowCount(position) \/ decisions[position]
  /\ results' = [results EXCEPT ![position] = Answer(Pack[position], file)]
  /\ NextCheck("close")
  /\ connected' = FALSE
  /\ UNCHANGED <<file, other, measured, decisions, fresh, disturbances>>

QueryCheck ==
  /\ phase = "query"
  /\ IsRowCount(position) \/ decisions[position]
  /\ Resolve(Answer(Pack[position], file))
  /\ UNCHANGED disturbances

QueryBreaks ==
  /\ phase = "query"
  /\ IsRowCount(position) \/ decisions[position]
  /\ Disturb
  /\ Resolve(QueryError)

RefuseCheck ==
  /\ phase = "query"
  /\ ~ IsRowCount(position) /\ ~ decisions[position]
  /\ Resolve(Refused)
  /\ UNCHANGED disturbances

Close ==
  /\ phase = "close"
  /\ phase' = "closed"
  /\ connected' = FALSE
  /\ UNCHANGED <<world, position, measured, decisions, results, fresh,
                 disturbances>>

Run == \/ MeasureFile \/ ReadCatalog \/ SkipScan \/ ScanBreaks
       \/ Connect \/ ConnectFails
       \/ QueryCheck \/ QueryBreaks \/ RefuseCheck
       \/ Close

(* The other process, which opens the file for writing.                    *)
run == <<phase, position, measured, decisions, connected, results>>

OtherOpens ==
  /\ phase # "closed"
  /\ other = "away"
  /\ ~ connected
  /\ Disturb
  /\ other' = "open"
  /\ UNCHANGED <<run, file, fresh>>

OtherWrites ==
  /\ other = "open"
  /\ other' = "wrote"
  /\ file' \in Rewrites
  /\ fresh' = {}
  /\ UNCHANGED <<run, disturbances>>

OtherCloses ==
  /\ other # "away"
  /\ other' = "away"
  /\ UNCHANGED <<run, file, fresh, disturbances>>

Next == Run \/ OtherOpens \/ OtherWrites \/ OtherCloses

Spec == Init /\ [][Next]_vars

---------------------------------------------------------------------------
(* Properties.  Keys are compared as the contract means them: column by    *)
(* column, a NULL identifying nothing.                                     *)

Keys == {GrainKeys[i] : i \in DOMAIN GrainKeys}

Answering == phase \in {"query", "close"}

SameKey(left, i, right, j) ==
  \A c \in Keys : left.rows[i][c] = right.rows[j][c]

Identified(table, i) == \A c \in Keys : table.rows[i][c] # Null

(* Every identified row of the one table has its key in the other.         *)
Covered(left, right) ==
  \A i \in DOMAIN left.rows :
    Identified(left, i) =>
      \E j \in DOMAIN right.rows : SameKey(left, i, right, j)

KeysOfOneType(f) == \A c \in Keys : f.source.types[c] = f.target.types[c]

UniqueKeys(table) ==
  \A i, j \in DOMAIN table.rows :
    Identified(table, i) /\ SameKey(table, i, table, j) => i = j

(* What a check is named for, of the file as it is.                        *)
Holds(name, f) ==
  CASE name = "row_count_diff" -> Len(f.source.rows) = Len(f.target.rows)
    [] name = "missing_keys" -> Covered(f.source, f.target)
    [] name = "extra_keys" -> Covered(f.target, f.source)
    [] name = "null_source_keys" ->
         \A i \in DOMAIN f.source.rows : Identified(f.source, i)
    [] name = "null_target_keys" ->
         \A i \in DOMAIN f.target.rows : Identified(f.target, i)
    [] name = "duplicate_source_keys" -> UniqueKeys(f.source)
    [] name = "duplicate_target_keys" -> UniqueKeys(f.target)

(* A verdict of a run is true of the file for as long as the run goes on   *)
(* querying it: passed, if and only if what the check is named for holds,  *)
(* whatever NULLs, repeated keys and types there are, and whoever wrote    *)
(* the file after the checks were decided on.                              *)
VerdictsAreTrue ==
  Answering =>
    \A i \in Indices :
      Executed(results[i]) =>
        /\ results[i].status = "pass" <=> Holds(Pack[i].name, file)
        /\ Pack[i].name \in {"missing_keys", "extra_keys"} => KeysOfOneType(file)

(* When all checks of the pack pass, the keys of both tables are the same, *)
(* row by row: each row of one has exactly one row of the other with its   *)
(* key, and none is without.                                               *)
RowsCorrespond(left, right) ==
  \A i \in DOMAIN left.rows :
    /\ Identified(left, i)
    /\ \E j \in DOMAIN right.rows :
         /\ SameKey(left, i, right, j)
         /\ \A k \in DOMAIN right.rows : SameKey(left, i, right, k) => k = j

PassingPackMeansEqualKeys ==
  Answering /\ (\A i \in Indices : results[i].status = "pass") =>
    /\ KeysOfOneType(file)
    /\ RowsCorrespond(file.source, file.target)
    /\ RowsCorrespond(file.target, file.source)

(* A key-safety query scans only base tables of a bounded file, both of    *)
(* them, unless somebody has written the file after the guard measured it  *)
(* for that check: the guard opens the file only after that, and does not  *)
(* keep it open.                                                           *)
ScansStayInBudget ==
  Answering =>
    \A i \in fresh :
      Executed(results[i]) =>
        file.small /\ \A table \in {file.source, file.target} : BaseTable(table)

(* The comparison that a grouped metric is rendered as, on the file as the *)
(* run finds it: each group of either table has one row, no group is left  *)
(* out, split or merged, the NULL group included, the row holds the sums   *)
(* of that group's rows, and these add up to what the same metric without  *)
(* groups compares.                                                        *)
GroupOf(joined) ==
  IF joined.sourceGroup = Absent(GroupBy).group
    THEN joined.targetGroup
    ELSE joined.sourceGroup

GroupedComparisonIsComplete ==
  LET rows == CompareGroupedAggregates(file.source, file.target,
                                       MetricColumn, GroupBy)
      groups == Groups(file.source, GroupBy) \cup Groups(file.target, GroupBy)
      Sum(table, g) == SumOf(table, GroupRows(table, g, GroupBy), MetricColumn)
      Total(side) ==
        LET valued == {r \in rows : r[side] # Null}
        IN  IF valued = {} THEN Null
                           ELSE MapThenSumSet(LAMBDA r : r[side], valued)
  IN  /\ phase = "scan" /\ position = 1
      /\ SameTypes(file.source, file.target, GroupBy \cup {MetricColumn})
      /\ file.source.types[MetricColumn] \in Numeric
      => /\ Cardinality(rows) = Cardinality(groups)
         /\ \A g \in groups :
              \E r \in rows : /\ GroupOf(r) = g
                             /\ r.source = Sum(file.source, g)
                             /\ r.target = Sum(file.target, g)
         /\ \A r \in CompareAggregates(file.source, file.target, MetricColumn) :
              r.source = Total("source") /\ r.target = Total("target")
=============================================================================
