--------------------------- MODULE RuntimeRouting ---------------------------
(***************************************************************************)
(* What `recon run` does with one check once its prerequisites let it: the *)
(* chains of early returns of check_engine/dispatch.py, runtime.py,        *)
(* execution.py, key_safety.py and scan_budget.py.  A chain is a sequence  *)
(* of guards in the order of the code; its outcome is that of the first    *)
(* guard that holds.                                                       *)
(*                                                                         *)
(* A check is [type, plan, reserved, capability, rendering, grain,         *)
(* contract]: `plan` says whether its typed operations are those expected  *)
(* of its type, `reserved` which reserved fields they carry, `capability`  *)
(* whether the plan requires any, `grain` whether the identity keys are    *)
(* those of the contract.  The six key-safety types take the same path and *)
(* are one.  A contract is [source, target], each end [connection,         *)
(* endpoint]; the contract loader admits exactly one of relation and query,*)
(* and a relation name that does not parse is "malformed".                 *)
(*                                                                         *)
(* The contract loader has found the contract of every check, so the       *)
(* "contract is None" returns of the code are not taken.                   *)
(***************************************************************************)
EXTENDS ResultModel, Sequences

CheckType == {"row_count_diff", "key_safety", "later_phase", "unknown"}
Plan == {"expected", "unexpected", "unknown_operation"}
ReservedField == {"placement", "materialization"}
Rendering == {"none", "rendered", "blocked", "failed"}
Endpoint == {"relation", "malformed", "query"}

BlockingRendering == {"blocked", "failed"}

(* Outcomes that are not results: the code goes on to the next module, or  *)
(* sends the query.                                                        *)
Outcome(status, reason) == [status |-> status, executed |-> FALSE,
                            reason |-> reason, blockedBy |-> {}]
Declined == Outcome("declined", NoReason)
Query == Outcome("query", NoReason)

NotExecutable(reason) == Outcome("not_executable", reason)
UnsupportedOperation == NotExecutable("unsupported_typed_operation")
UnsupportedPlacement == NotExecutable("unsupported_execution_placement")
RuntimeError == Outcome("error", NoReason)

Guard(condition, outcome) == [holds |-> condition, outcome |-> outcome]

FirstOutcome(chain) ==
  chain[CHOOSE i \in DOMAIN chain :
          chain[i].holds /\ \A j \in 1..(i - 1) : ~ chain[j].holds].outcome

---------------------------------------------------------------------------
(* Helpers on checks and contracts.                                        *)
IsKeySafety(check) == check.type = "key_safety"
IsRowCount(check) == check.type = "row_count_diff"

SupportedRowCountShape(check) ==
  check.plan = "expected" /\ check.reserved = {}

SupportedKeySafetyShape(check) ==
  IsKeySafety(check) /\ check.plan = "expected" /\ check.reserved = {}

SupportedShape(check) ==
  \/ IsRowCount(check) /\ SupportedRowCountShape(check)
  \/ SupportedKeySafetyShape(check)

(* The identity keys of the operation are the grain keys of the contract.  *)
IdentityMatchesContract(check) == IsKeySafety(check) /\ check.grain

HasQueryEndpoint(contract) ==
  "query" \in {contract.source.endpoint, contract.target.endpoint}

MalformedRelation(contract) ==
  "malformed" \in {contract.source.endpoint, contract.target.endpoint}

SameConnectionContext(left, right) == left = right

---------------------------------------------------------------------------
(* CheckDispatcher.dispatch: nothing is executable by itself.              *)
Dispatch(check) == FirstOutcome(<<
  Guard(check.type = "unknown", NotExecutable("unsupported_check_type")),
  Guard(check.plan = "unknown_operation", UnsupportedOperation),
  Guard("placement" \in check.reserved, UnsupportedPlacement),
  Guard("materialization" \in check.reserved,
        NotExecutable("unsupported_materialization_policy")),
  Guard(check.capability, NotExecutable("missing_engine_capability")),
  Guard(TRUE, NotExecutable("not_implemented_in_current_phase"))>>)

DispatchHardBlocking ==
  {"unsupported_check_type", "unsupported_typed_operation",
   "unsupported_execution_placement", "unsupported_materialization_policy"}

(* rendering_blocked_result_if_needed                                      *)
RenderingBlocked(check) ==
  check.rendering \in BlockingRendering /\ SupportedShape(check)

---------------------------------------------------------------------------
(* classify_scan_budget: a decision is [allowed, reason].                  *)
Allowed == [allowed |-> TRUE, reason |-> NoReason]
Refused(reason) == [allowed |-> FALSE, reason |-> reason]

ClassifyScanBudget(localDev, relationBacked, bounded, estimate) ==
  FirstOutcome(<<
    Guard(estimate = "unsafe_preflight", Refused("unsafe_scan_preflight")),
    Guard(estimate = "over_budget", Refused("scan_budget_exceeded")),
    Guard(localDev /\ relationBacked /\ bounded, Allowed),
    Guard(localDev, Refused("bounded_local_scan_required")),
    Guard(estimate = "unknown", Refused("scan_estimate_unknown")),
    Guard(estimate \in {"unavailable", "unsupported", "malformed"},
          Refused("scan_estimate_unsupported")),
    Guard(TRUE, Refused("bounded_local_scan_required"))>>)

MissingScanBudgetDecision == ClassifyScanBudget(FALSE, TRUE, FALSE, "unknown")

---------------------------------------------------------------------------
(* The guards of both executors.  The execution context is [adapters,      *)
(* connections, renderers, decisions]: the connections with a prepared     *)
(* adapter, the loaded connections, the adapter types with a renderer and  *)
(* the scan decisions by check.  `profile` gives a connection's type and   *)
(* configuration; an adapter has the connection it was created for.        *)
ReservedMetadata(check) ==
  Guard(check.reserved # {},
        IF "placement" \in check.reserved
          THEN UnsupportedPlacement
          ELSE NotExecutable("unsupported_materialization_policy"))

ContextBlocked(contract, profile, context) ==
  LET source == contract.source.connection
      target == contract.target.connection
  IN  /\ source # target
      /\ \/ {source, target} \ context.connections # {}
         \/ ~ SameConnectionContext(profile[source], profile[target])

RendererBlocked(contract, profile, context) ==
  LET type == profile[contract.source.connection].type
  IN  Guard(type \notin context.renderers \/ type # "duckdb",
            IF type = "duckdb"
              THEN RuntimeError
              ELSE UnsupportedPlacement)

ExecuteRowCount(check, contract, profile, context) == FirstOutcome(<<
  Guard(~ IsRowCount(check), NotExecutable("unsupported_check_type")),
  ReservedMetadata(check),
  Guard(~ SupportedRowCountShape(check), UnsupportedOperation),
  Guard(HasQueryEndpoint(contract), UnsupportedPlacement),
  Guard(ContextBlocked(contract, profile, context), UnsupportedPlacement),
  Guard(MalformedRelation(contract), RuntimeError),
  RendererBlocked(contract, profile, context),
  Guard(TRUE, Query)>>)

ExecuteKeySafety(check, contract, profile, context, decision) ==
  FirstOutcome(<<
    Guard(~ IsKeySafety(check), NotExecutable("unsupported_check_type")),
    ReservedMetadata(check),
    Guard(~ SupportedKeySafetyShape(check), UnsupportedOperation),
    Guard(~ IdentityMatchesContract(check), UnsupportedOperation),
    Guard(HasQueryEndpoint(contract), UnsupportedPlacement),
    Guard(ContextBlocked(contract, profile, context), UnsupportedPlacement),
    Guard(MalformedRelation(contract), RuntimeError),
    Guard(~ decision.allowed, NotExecutable(decision.reason)),
    RendererBlocked(contract, profile, context),
    Guard(TRUE, Query)>>)

---------------------------------------------------------------------------
(* check_engine/runtime.py: the guards before the executors.               *)
HasAdapter(contract, context) ==
  contract.source.connection \in context.adapters

RouteRowCount(check, contract, profile, context) == FirstOutcome(<<
  Guard(~ IsRowCount(check), Declined),
  Guard(Dispatch(check).reason \in DispatchHardBlocking, Declined),
  Guard(~ SupportedRowCountShape(check), Declined),
  Guard(HasQueryEndpoint(contract), UnsupportedPlacement),
  Guard(~ HasAdapter(contract, context), Declined),
  Guard(TRUE, ExecuteRowCount(check, contract, profile, context))>>)

DecisionFor(id, context) ==
  IF id \in DOMAIN context.decisions
    THEN context.decisions[id]
    ELSE MissingScanBudgetDecision

(* Mutant: the grain of the contract is left to the executor.              *)
KeySafetyGuardsWithoutGrain(check, contract, profile, context, decision) == <<
  Guard(~ IsKeySafety(check), Declined),
  Guard(Dispatch(check).reason \in DispatchHardBlocking, Declined),
  Guard(~ SupportedKeySafetyShape(check), UnsupportedOperation),
  Guard(HasQueryEndpoint(contract), UnsupportedPlacement),
  Guard(MalformedRelation(contract), RuntimeError),
  Guard(ContextBlocked(contract, profile, context), UnsupportedPlacement),
  Guard(~ decision.allowed, NotExecutable(decision.reason)),
  Guard(~ HasAdapter(contract, context), Declined)>>

(* The guards of the key-safety route that come before the executor is     *)
(* called.                                                                 *)
KeySafetyGuards(check, contract, profile, context, decision) == <<
  Guard(~ IsKeySafety(check), Declined),
  Guard(Dispatch(check).reason \in DispatchHardBlocking, Declined),
  Guard(~ SupportedKeySafetyShape(check), UnsupportedOperation),
  Guard(~ IdentityMatchesContract(check), UnsupportedOperation),
  Guard(HasQueryEndpoint(contract), UnsupportedPlacement),
  Guard(MalformedRelation(contract), RuntimeError),
  Guard(ContextBlocked(contract, profile, context), UnsupportedPlacement),
  Guard(~ decision.allowed, NotExecutable(decision.reason)),
  Guard(~ HasAdapter(contract, context), Declined)>>

RouteKeySafety(check, contract, profile, context, decision) ==
  LET guards == KeySafetyGuards(check, contract, profile, context, decision)
  IN  IF \E i \in DOMAIN guards : guards[i].holds
        THEN FirstOutcome(guards)
        ELSE ExecuteKeySafety(check, contract, profile, context, decision)

(* runtime_execution_result_if_available: one of the two routes, or none.  *)
RuntimeOutcome(id, check, contract, profile, context) ==
  IF ~ context.present
    THEN Declined
    ELSE LET rowCount == RouteRowCount(check, contract, profile, context)
         IN  IF rowCount # Declined
               THEN rowCount
               ELSE RouteKeySafety(check, contract, profile, context,
                                   DecisionFor(id, context))

(* CheckEngine._result_for_check after the prerequisites: the rendering    *)
(* status, then what the runtime offers, or else the dispatcher's result.  *)
Route(id, check, contract, profile, context) ==
  LET offered == RuntimeOutcome(id, check, contract, profile, context)
  IN  IF RenderingBlocked(check) THEN RuntimeError
      ELSE IF offered # Declined THEN offered ELSE Dispatch(check)
=============================================================================
