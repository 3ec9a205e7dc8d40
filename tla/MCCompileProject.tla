-------------------------- MODULE MCCompileProject --------------------------
(***************************************************************************)
(* Three small worlds: contracts that differ in their columns and policies,*)
(* contracts that differ in their check packs and metrics, and projects    *)
(* that differ in the names of their contracts.                            *)
(***************************************************************************)
EXTENDS CompileProject

OneName == {"orders"}
SomeNames == {"orders", "Orders", "items", "bad-name"}
Stable == {"orders", "Orders", "items", "total", "row_count_diff", "missing_keys"}
Folded(authoredNames) ==
  [name \in authoredNames |-> IF name = "Orders" THEN "orders" ELSE name]
FoldSome == Folded(SomeNames)

With(field, values) == {[NoSettings EXCEPT ![field] = v] : v \in values}
Plain == [NoSettings EXCEPT !.grain = "keys", !.use = "list"]

(* Columns are declared, with every null policy of the contract, and every *)
(* setting that concerns no column is invalid once.                        *)
ColumnSettings ==
  {[NoSettings EXCEPT !.columns = "mapping", !.nulls = n] : n \in Nulls}
    \cup With("columns", {"absent", "invalid"})
    \cup With("sampling", {"named", "invalid"})
    \cup With("grain", {"invalid", "empty"})
    \cup {[NoSettings EXCEPT !.grain = g, !.cdc = c] :
            g \in {"keys", "empty"}, c \in {"keys", "same_as_grain", "invalid"}}

Column(category, name) ==
  [category |-> category, name |-> name, wellFormed |-> TRUE, timezone |-> FALSE,
   tolerance |-> "absent", nulls |-> "absent", normalization |-> "absent"]

SomeColumns ==
  {Column("numeric", "amount"), Column("string", "amount"),
   Column("exact", "id"), Column("timestamp", "id"), Column("numeric", "*"),
   Column("include", "*"), Column("unknown", "id"),
   [Column("exact", "id") EXCEPT !.wellFormed = FALSE],
   [Column("timestamp", "id") EXCEPT !.timezone = TRUE],
   [Column("numeric", "amount") EXCEPT !.tolerance = "valid"],
   [Column("numeric", "amount") EXCEPT !.tolerance = "invalid"],
   [Column("exact", "id") EXCEPT !.tolerance = "valid"],
   [Column("exact", "id") EXCEPT !.nulls = "distinct"]}
  \cup {[Column("string", "note") EXCEPT !.nulls = n, !.normalization = z] :
          n \in Nulls, z \in {"absent", "invalid", "trim", "lower"}}

FewColumns == {Column("numeric", "amount"), Column("exact", "id"),
               Column("include", "*")}

Metric(name, column, groups) ==
  [name |-> name, type |-> "sum", column |-> column, groups |-> groups,
   shape |-> "valid", tolerance |-> "absent"]

FewMetrics ==
  {Metric("total", "amount", <<>>), Metric("total", "id", <<"amount">>),
   Metric("missing_keys", "amount", <<"id">>)}

SomeMetrics == FewMetrics \cup
  {Metric("bad-name", "amount", <<>>), Metric("row_count_diff", "*", <<>>),
   [Metric("total", "amount", <<>>) EXCEPT !.type = "avg"],
   [Metric("total", "amount", <<>>) EXCEPT !.shape = "more_fields"],
   [Metric("total", "amount", <<>>) EXCEPT !.shape = "invalid"],
   [Metric("row_count_diff", "amount", <<"id">>) EXCEPT !.tolerance = "valid"],
   [Metric("total", "amount", <<>>) EXCEPT !.tolerance = "invalid"]}

OneMetric == {Metric("total", "amount", <<>>)}

Use(name, shape) == [name |-> name, shape |-> shape]
BasicUse == {Use(BasicPack, "name")}
SomeUses == {Use(BasicPack, "name"), Use("vendor.pack", "name"),
             Use(BasicPack, "more_fields"), Use(BasicPack, "invalid")}

(* Check packs, metrics and a column surface for the metrics to refer to.  *)
CheckSettings ==
  {[Plain EXCEPT !.columns = c] : c \in {"absent", "mapping"}}
    \cup {[Plain EXCEPT !.grain = g] : g \in {"absent", "invalid", "empty"}}
    \cup {[Plain EXCEPT !.checks = c] : c \in {"more_fields", "invalid"}}
    \cup {[Plain EXCEPT !.use = u] : u \in {"absent", "invalid"}}
    \cup {[Plain EXCEPT !.sampling = "named"]}

ColumnWorld ==
  [names |-> OneName, settings |-> ColumnSettings, columns |-> SomeColumns,
   uses |-> {}, metrics |-> FewMetrics,
   maxNames |-> 1, maxColumns |-> 3, maxUses |-> 0, maxMetrics |-> 1]

CheckWorld ==
  [names |-> OneName, settings |-> CheckSettings, columns |-> FewColumns,
   uses |-> SomeUses, metrics |-> SomeMetrics,
   maxNames |-> 1, maxColumns |-> 2, maxUses |-> 2, maxMetrics |-> 2]

NameWorld ==
  [names |-> SomeNames, settings |-> {Plain}, columns |-> {},
   uses |-> BasicUse, metrics |-> OneMetric,
   maxNames |-> 4, maxColumns |-> 0, maxUses |-> 1, maxMetrics |-> 1]

MCWorlds == {ColumnWorld, CheckWorld, NameWorld}
=============================================================================
