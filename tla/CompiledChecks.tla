--------------------------- MODULE CompiledChecks ---------------------------
(***************************************************************************)
(* Compiled checks: the ones that the compiler builds (check_packs.py,     *)
(* metrics.py), and what each reader of a check asks of its plan: the      *)
(* typed operation model, the loader of `recon run`, the runtime's plan    *)
(* shapes and the SQL renderer.                                            *)
(*                                                                         *)
(* A typed operation is a record of the fields it really has: its type and *)
(* whatever else to_dict writes, so that DOMAIN says which fields those    *)
(* are.  A check is [name, type, identity, operations, capabilities,       *)
(* sampling]; its id adds the names of the project and the contract.       *)
(***************************************************************************)
EXTENDS Sequences, FiniteSets, Naturals

Side == {"source", "target"}
Direction == {"source_minus_target", "target_minus_source"}

Identity(kind, keys) == [kind |-> kind, keys |-> keys]
NoIdentity == Identity("none", <<>>)
Grain(keys) == Identity("grain", keys)

(* TypedOperation.to_dict of the operations that the compiler makes.       *)
RowCount(side) == [type |-> "row_count", side |-> side]
Compare(type) == [type |-> type]
SideKey(type, side, keys) ==
  [type |-> type, side |-> side, identity |-> Grain(keys)]

(* Mutant: one of the two directions for both.                             *)
KeyDiffOneWay(direction, keys) ==
  [type |-> "key_diff", direction |-> "source_minus_target",
   identity |-> Grain(keys)]

KeyDiff(direction, keys) ==
  [type |-> "key_diff", direction |-> direction, identity |-> Grain(keys)]
Aggregate(side, metric) ==
  [type |-> "aggregate", side |-> side,
   aggregate |-> metric.type, column |-> metric.column]
GroupedAggregate(side, metric) ==
  [type |-> "grouped_aggregate", side |-> side, aggregate |-> metric.type,
   column |-> metric.column, group_by |-> metric.groups]

Check(name, type, identity, capability, operations, sampling) ==
  [name |-> name, type |-> type, identity |-> identity,
   capabilities |-> {capability}, operations |-> operations,
   sampling |-> sampling]

---------------------------------------------------------------------------
(* The checks that the compiler builds.                                    *)

(* The key-safety checks of a contract: their names are their types.       *)
KeySafety(type, capability, operation, keys, sampling) ==
  Check(type, type, Grain(keys), capability, <<operation>>, sampling)

(* Mutant: rows without a key are left to the key differences.             *)
BasicEquivalenceWithoutNullKeys(keys, sampling) == <<
  Check("row_count_diff", "row_count_diff", NoIdentity, "row_count",
        <<RowCount("source"), RowCount("target"), Compare("compare_counts")>>,
        sampling),
  KeySafety("missing_keys", "key_diff",
            KeyDiff("source_minus_target", keys), keys, sampling),
  KeySafety("extra_keys", "key_diff",
            KeyDiff("target_minus_source", keys), keys, sampling),
  KeySafety("duplicate_source_keys", "duplicate_key",
            SideKey("duplicate_key", "source", keys), keys, sampling),
  KeySafety("duplicate_target_keys", "duplicate_key",
            SideKey("duplicate_key", "target", keys), keys, sampling) >>

(* expand_basic_equivalence, for grain keys that are not empty.            *)
BasicEquivalence(keys, sampling) == <<
  Check("row_count_diff", "row_count_diff", NoIdentity, "row_count",
        <<RowCount("source"), RowCount("target"), Compare("compare_counts")>>,
        sampling),
  KeySafety("missing_keys", "key_diff",
            KeyDiff("source_minus_target", keys), keys, sampling),
  KeySafety("extra_keys", "key_diff",
            KeyDiff("target_minus_source", keys), keys, sampling),
  KeySafety("null_source_keys", "null_key",
            SideKey("null_key", "source", keys), keys, sampling),
  KeySafety("null_target_keys", "null_key",
            SideKey("null_key", "target", keys), keys, sampling),
  KeySafety("duplicate_source_keys", "duplicate_key",
            SideKey("duplicate_key", "source", keys), keys, sampling),
  KeySafety("duplicate_target_keys", "duplicate_key",
            SideKey("duplicate_key", "target", keys), keys, sampling) >>

(* Mutant: every metric is compiled as a grouped one.                      *)
MetricCheckAlwaysGrouped(metric, sampling) ==
  Check(metric.name, "grouped_aggregate_diff", NoIdentity, "grouped_aggregate",
        <<GroupedAggregate("source", metric), GroupedAggregate("target", metric),
          Compare("compare_grouped_aggregates")>>, sampling)

(* _compile_metric: a metric without groups compares two aggregates.       *)
MetricCheck(metric, sampling) ==
  IF metric.groups = <<>>
    THEN Check(metric.name, "sum_diff", NoIdentity, "aggregate",
               <<Aggregate("source", metric), Aggregate("target", metric),
                 Compare("compare_aggregates")>>, sampling)
    ELSE Check(metric.name, "grouped_aggregate_diff", NoIdentity,
               "grouped_aggregate",
               <<GroupedAggregate("source", metric),
                 GroupedAggregate("target", metric),
                 Compare("compare_grouped_aggregates")>>, sampling)

---------------------------------------------------------------------------
(* What the readers of a check ask of it.                                  *)

(* typed_operation_payload_fields.                                         *)
PayloadFields(type) ==
  CASE type = "row_count" -> {"side"}
    [] type \in {"null_key", "duplicate_key"} -> {"side", "identity"}
    [] type = "key_diff" -> {"direction", "identity"}
    [] type = "aggregate" -> {"side", "aggregate", "column"}
    [] type = "grouped_aggregate" -> {"side", "aggregate", "column", "group_by"}
    [] OTHER -> {}

KnownTypes ==
  {"row_count", "compare_counts", "key_diff", "null_key", "duplicate_key",
   "aggregate", "grouped_aggregate", "compare_aggregates",
   "compare_grouped_aggregates"}

HasKeys(operation) ==
  "identity" \in DOMAIN operation /\ operation.identity.keys # <<>>

(* TypedOperation._validate, which raises ValueError in the compiler.  An  *)
(* empty group_by is none.                                                 *)
ValidTypedOperation(operation) ==
  LET type == operation.type
      fields == DOMAIN operation \ {"type"}
  IN /\ type \in KnownTypes
     /\ fields \subseteq PayloadFields(type)
     /\ PayloadFields(type) \ {"identity"} \subseteq fields
     /\ "identity" \in PayloadFields(type) => HasKeys(operation)
     /\ type = "grouped_aggregate" => operation.group_by # <<>>

(* _validate_known_operation_shape of the loader: a plan that it refuses   *)
(* stops `recon run` as a whole.  No operation carries reserved metadata.  *)
LoadableOperation(operation) ==
  LET fields == DOMAIN operation \ {"type"}
  IN /\ fields \subseteq PayloadFields(operation.type)
     /\ "side" \in PayloadFields(operation.type) =>
          "side" \in fields /\ operation.side \in Side
     /\ operation.type = "key_diff" =>
          "direction" \in fields /\ operation.direction \in Direction
     /\ "identity" \in PayloadFields(operation.type) =>
          HasKeys(operation) /\ operation.identity.kind \in {"none", "grain", "cdc"}
     /\ "aggregate" \in PayloadFields(operation.type) =>
          {"aggregate", "column"} \subseteq fields
     /\ operation.type = "grouped_aggregate" =>
          "group_by" \in fields /\ operation.group_by # <<>>

Operations(check) == {check.operations[i] : i \in DOMAIN check.operations}

LoadableCheck(check) ==
  /\ check.operations # <<>>
  /\ \A operation \in Operations(check) : LoadableOperation(operation)

(* _EXPECTED_ROW_COUNT_PLAN and _EXPECTED_KEY_OPERATION_BY_CHECK_TYPE.     *)
ExpectedRowCountPlan ==
  << [type |-> "row_count", side |-> "source"],
     [type |-> "row_count", side |-> "target"], [type |-> "compare_counts"] >>

ExpectedKeyOperation ==
  [null_source_keys      |-> [type |-> "null_key", side |-> "source"],
   null_target_keys      |-> [type |-> "null_key", side |-> "target"],
   duplicate_source_keys |-> [type |-> "duplicate_key", side |-> "source"],
   duplicate_target_keys |-> [type |-> "duplicate_key", side |-> "target"],
   missing_keys |-> [type |-> "key_diff", direction |-> "source_minus_target"],
   extra_keys   |-> [type |-> "key_diff", direction |-> "target_minus_source"]]

(* What `recon run` executes: is_supported_row_count_plan_shape, and       *)
(* is_supported_key_safety_plan_shape with the grain keys of the contract. *)
ExecutableKeyOperation(operation, expected, grainKeys) ==
  /\ DOMAIN operation = DOMAIN expected \cup {"identity"}
  /\ \A field \in DOMAIN expected : operation[field] = expected[field]
  /\ grainKeys # <<>> /\ operation.identity = Grain(grainKeys)

ExecutablePlan(check, grainKeys) ==
  \/ check.type = "row_count_diff" /\ check.operations = ExpectedRowCountPlan
  \/ /\ check.type \in DOMAIN ExpectedKeyOperation
     /\ Len(check.operations) = 1
     /\ ExecutableKeyOperation(check.operations[1],
                               ExpectedKeyOperation[check.type], grainKeys)

(* DuckDbSqlRenderer.render_plan raises for a comparison without the       *)
(* aggregates of both sides, alike but for the side, before it.            *)
RenderablePlan(check) ==
  \A i \in DOMAIN check.operations :
    \A type \in {"aggregate", "grouped_aggregate"} :
      check.operations[i].type =
          (IF type = "aggregate" THEN "compare_aggregates"
                                 ELSE "compare_grouped_aggregates")
        => \E s, t \in 1..(i - 1) :
             /\ check.operations[s].type = type
             /\ check.operations[s].side = "source"
             /\ check.operations[t] =
                  [check.operations[s] EXCEPT !.side = "target"]
=============================================================================
