---------------------------- MODULE ResultModel ----------------------------
(***************************************************************************)
(* The result vocabulary of the check engine: statuses, reasons, the       *)
(* constructor checks of CheckResult, and the aggregation of check results *)
(* into contract and run statuses.  Translated from                        *)
(* check_engine/models.py and the exit mapping of services/run.py.         *)
(*                                                                         *)
(* A collection of statuses is abstracted to the set of its members: the   *)
(* code only asks which statuses occur.                                    *)
(***************************************************************************)
EXTENDS Naturals

CheckStatus == {"pass", "fail", "warn", "error", "skipped", "blocked",
                "not_executable"}

RunStatus == CheckStatus \cup {"no_checks"}

(* Statuses whose result carries executed=True, and statuses that must     *)
(* explain why nothing was executed.                                       *)
ExecutedOutcome == {"pass", "fail", "warn"}
NonExecutedReasoned == {"skipped", "blocked", "not_executable"}

PrerequisiteReason == {"prerequisite_failed", "prerequisite_error",
                       "prerequisite_missing", "prerequisite_not_executable"}

NotExecutableReason ==
  {"unsupported_check_type", "unsupported_typed_operation",
   "missing_engine_capability", "unsupported_execution_placement",
   "unsupported_materialization_policy", "scan_estimate_unknown",
   "scan_estimate_unsupported", "scan_budget_exceeded",
   "unsafe_scan_preflight", "bounded_local_scan_required",
   "not_implemented_in_current_phase"}

SkippedReason == {"skipped_by_policy", "selected_out"}

CheckReason == PrerequisiteReason \cup NotExecutableReason \cup SkippedReason

NoReason == "none"

(* _REASON_REQUIRED_STATUS: the one status each reason may explain.        *)
ReasonRequiresStatus(reason) ==
  CASE reason \in PrerequisiteReason  -> "blocked"
    [] reason \in NotExecutableReason -> "not_executable"
    [] OTHER                          -> "skipped"

(* CheckResult.__post_init__: the results the constructor accepts.         *)
ValidResult(r) ==
  /\ r.status \in ExecutedOutcome => r.executed
  /\ r.status \in NonExecutedReasoned => ~ r.executed
  /\ r.status \in NonExecutedReasoned => r.reason # NoReason
  /\ r.reason # NoReason => r.status = ReasonRequiresStatus(r.reason)
  /\ r.status = "blocked" <=> r.blockedBy # {}

---------------------------------------------------------------------------
(* _AGGREGATE_PRECEDENCE, the most severe status first.                    *)
Precedence == <<"error", "fail", "blocked", "not_executable", "warn",
                "pass", "skipped">>

(* _aggregate_statuses: the first status of the precedence that occurs;    *)
(* no_checks only when nothing else occurs.                                *)
AggregateStatuses(statuses) ==
  LET present == {i \in 1..7 : Precedence[i] \in statuses}
  IN  IF present = {}
        THEN "no_checks"
        ELSE Precedence[CHOOSE i \in present : \A j \in present : i <= j]

(* The exit category of `recon run` before the adapters are closed.        *)
ExitCategory(runStatus) ==
  CASE runStatus \in {"pass", "warn", "skipped"} -> "success"
    [] runStatus = "fail"                        -> "check_failure"
    [] OTHER                                     -> "runtime_error"
===========================================================================
