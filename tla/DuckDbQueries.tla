---------------------------- MODULE DuckDbQueries -----------------------------
(***************************************************************************)
(* The SQL that the DuckDB renderer writes, as what it returns: one        *)
(* operator per query of adapters/duckdb/renderer_operations.py, over      *)
(* tables with NULLs, repeated rows and typed columns.                     *)
(*                                                                         *)
(* A table is [types, rows]: the type of every column, and a sequence of   *)
(* rows, functions from columns to values, whose order means nothing.  The *)
(* value of another type is another value.  A query that calls error()     *)
(* returns Failed.                                                         *)
(***************************************************************************)
EXTENDS CompiledChecks, Integers, FiniteSetsExt

CONSTANTS Null, \* the value NULL
          Numeric \* types that `sum` takes (_DUCKDB_NUMERIC_SUM_TYPES, DECIMAL)

ASSUME NullAssumption == Null \notin Int

Failed == [failed |-> TRUE, count |-> 0]
Counted(n) == [failed |-> FALSE, count |-> n]

RowIds(table) == DOMAIN table.rows
SideRelation(side, source, target) == IF side = "source" THEN source ELSE target

KeyColumns(operation) ==
  {operation.identity.keys[i] : i \in DOMAIN operation.identity.keys}

KeyOf(table, row, columns) == [c \in columns |-> table.rows[row][c]]

(* Rows none of whose key columns is NULL.                                 *)
IdentifiedRows(table, columns) ==
  {row \in RowIds(table) : \A c \in columns : table.rows[row][c] # Null}

DistinctKeys(table, columns) ==
  {KeyOf(table, row, columns) : row \in IdentifiedRows(table, columns)}

(* render_type_check_cte: the static types of the columns, rows or not.    *)
SameTypes(left, right, columns) ==
  \A c \in columns : left.types[c] = right.types[c]

---------------------------------------------------------------------------
(* The key queries, inside of select count( * ) as failure_count.          *)

(* render_null_key: one row for every row with a NULL in its key.          *)
NullKeys(table, columns) == RowIds(table) \ IdentifiedRows(table, columns)

(* Mutant: rows with a NULL in their key are grouped as well.              *)
DuplicateKeysWithNulls(table, columns) ==
  {key \in {KeyOf(table, row, columns) : row \in RowIds(table)} :
     \E i, j \in RowIds(table) :
       i # j /\ KeyOf(table, i, columns) = key /\ KeyOf(table, j, columns) = key}

(* render_duplicate_key: one row for every key of several rows.            *)
DuplicateKeys(table, columns) ==
  {key \in DistinctKeys(table, columns) :
     \E i, j \in IdentifiedRows(table, columns) :
       i # j /\ KeyOf(table, i, columns) = key /\ KeyOf(table, j, columns) = key}

(* render_key_diff: one row for every key of the left side that the right  *)
(* side does not have.                                                     *)
MissingKeys(left, right, columns) ==
  DistinctKeys(left, columns) \ DistinctKeys(right, columns)

RenderKeyDiff(operation, source, target) ==
  LET forward == operation.direction = "source_minus_target"
      left == IF forward THEN source ELSE target
      right == IF forward THEN target ELSE source
  IN  IF SameTypes(left, right, KeyColumns(operation))
        THEN Counted(Cardinality(MissingKeys(left, right, KeyColumns(operation))))
        ELSE Failed

(* render_operation of a key-safety check, counted.                        *)
FailureCount(operation, source, target) ==
  CASE operation.type = "null_key" ->
         Counted(Cardinality(NullKeys(
           SideRelation(operation.side, source, target), KeyColumns(operation))))
    [] operation.type = "duplicate_key" ->
         Counted(Cardinality(DuplicateKeys(
           SideRelation(operation.side, source, target), KeyColumns(operation))))
    [] operation.type = "key_diff" -> RenderKeyDiff(operation, source, target)

(* render_compare_counts.                                                  *)
CompareCounts(source, target) ==
  LET sourceCount == Len(source.rows)
      targetCount == Len(target.rows)
  IN  [source |-> sourceCount, target |-> targetCount,
       diff |-> sourceCount - targetCount]

---------------------------------------------------------------------------
(* The aggregate queries.  An arithmetic with NULL is NULL.                *)

Minus(a, b) == IF Null \in {a, b} THEN Null ELSE a - b

(* sum(column) of some rows: NULL if there is no value at all.             *)
SumOf(table, rows, column) ==
  LET valued == {row \in rows : table.rows[row][column] # Null}
  IN  IF valued = {}
        THEN Null
        ELSE MapThenSumSet(LAMBDA row : table.rows[row][column], valued)

(* The type checks that come before every comparison of aggregates; the    *)
(* type of a sum is that of its column.                                    *)
AggregateTypesMatch(source, target, column) ==
  SameTypes(source, target, {column}) /\ source.types[column] \in Numeric

(* render_compare_aggregates: one row, or an error.                        *)
CompareAggregates(source, target, column) ==
  IF AggregateTypesMatch(source, target, column)
    THEN LET s == SumOf(source, RowIds(source), column)
             t == SumOf(target, RowIds(target), column)
         IN  {[source |-> s, target |-> t, diff |-> Minus(s, t)]}
    ELSE {}

(* group by: NULLs are one group.                                          *)
Groups(table, columns) ==
  {KeyOf(table, row, columns) : row \in RowIds(table)}

GroupRows(table, group, columns) ==
  {row \in RowIds(table) : KeyOf(table, row, columns) = group}

(* render_grouped_aggregate.                                               *)
GroupedAggregates(table, column, columns) ==
  {[group |-> group, value |-> SumOf(table, GroupRows(table, group, columns), column)] :
     group \in Groups(table, columns)}

(* Mutant: groups are joined with `=`.                                     *)
PlainEquality(columns, left, right) ==
  \A c \in columns : left[c] = right[c] /\ left[c] # Null

(* strict_null_safe_equality of all columns, whose types were checked.     *)
StrictNullSafeEquality(columns, left, right) ==
  \A c \in columns : left[c] = right[c]

Absent(columns) == [group |-> [c \in columns |-> Null], value |-> Null]

Joined(s, t) ==
  [sourceGroup |-> s.group, targetGroup |-> t.group,
   source |-> s.value, target |-> t.value, diff |-> Minus(s.value, t.value)]

(* render_compare_grouped_aggregates: a full outer join of both sides.     *)
CompareGroupedAggregates(source, target, column, columns) ==
  LET left == GroupedAggregates(source, column, columns)
      right == GroupedAggregates(target, column, columns)
      Matches(s, t) == StrictNullSafeEquality(columns, s.group, t.group)
  IN  IF /\ SameTypes(source, target, columns)
         /\ AggregateTypesMatch(source, target, column)
        THEN {Joined(m[1], m[2]) : m \in {p \in left \X right :
                                            Matches(p[1], p[2])}}
             \cup {Joined(s, Absent(columns)) :
                     s \in {l \in left : \A t \in right : ~ Matches(l, t)}}
             \cup {Joined(Absent(columns), t) :
                     t \in {r \in right : \A s \in left : ~ Matches(s, r)}}
        ELSE {}
=============================================================================
