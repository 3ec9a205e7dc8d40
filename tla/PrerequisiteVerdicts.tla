------------------------ MODULE PrerequisiteVerdicts ------------------------
(***************************************************************************)
(* What the check engine promises about prerequisites, without saying how  *)
(* it gets there: every check receives one result, for good; a check is    *)
(* evaluated only when all its prerequisites let it; it is blocked only    *)
(* once every prerequisite is known, by exactly those that stand in its    *)
(* way; and a check is rejected unevaluated only when it really depends on *)
(* itself.                                                                 *)
(***************************************************************************)
EXTENDS ResultModel, Sequences, FiniteSets

CONSTANTS CheckIds,      \* ids of the loaded checks
          Ids,           \* every id a prerequisite list may name
          OwnOutcomes    \* results a check can have once it is evaluated

VARIABLES prerequisites, \* [CheckIds -> Seq(Ids)], as loaded, never changed
          results        \* [CheckIds -> result or Unresolved]

vars == <<prerequisites, results>>

Result == [status : CheckStatus, executed : BOOLEAN,
           reason : CheckReason \cup {NoReason}, blockedBy : SUBSET Ids]

Unresolved == [status |-> "unresolved", executed |-> FALSE,
               reason |-> NoReason, blockedBy |-> {}]

InternalError == [status |-> "error", executed |-> FALSE,
                  reason |-> NoReason, blockedBy |-> {}]

(* Statuses of a prerequisite that stop the checks that depend on it.      *)
Blocking == {"fail", "error", "blocked", "not_executable"}

Direct(c) == {prerequisites[c][i] : i \in DOMAIN prerequisites[c]}

Resolved(id) == id \in CheckIds /\ results[id] # Unresolved

(* id is known not to stand in the way of a dependent check.               *)
Satisfied(id) == Resolved(id) /\ results[id].status \notin Blocking

(* id is known to stand in the way of a dependent check.                   *)
Unsafe(id) ==
  \/ id \notin CheckIds
  \/ Resolved(id) /\ results[id].status \in Blocking

(* Sets of ids that hold the prerequisites of all the checks in them.      *)
Closed(S) == \A c \in S \cap CheckIds : Direct(c) \subseteq S

(* The prerequisites of c, their prerequisites, and so on.                 *)
Reaches(c) == {id \in Ids : \A S \in SUBSET Ids :
                              Closed(S) /\ Direct(c) \subseteq S => id \in S}

OnCycle(c) == c \in Reaches(c)

(* Why an unsafe prerequisite blocks.                                      *)
ReasonFor(id) ==
  IF id \notin CheckIds THEN "prerequisite_missing"
  ELSE CASE results[id].status = "fail"  -> "prerequisite_failed"
         [] results[id].status = "error" -> "prerequisite_error"
         [] results[id].status = "not_executable" ->
              "prerequisite_not_executable"
         [] OTHER -> IF results[id].reason \in PrerequisiteReason
                       THEN results[id].reason
                       ELSE "prerequisite_error"

ReasonPrecedence == <<"prerequisite_error", "prerequisite_failed",
                      "prerequisite_not_executable", "prerequisite_missing">>

(* The reason of the precedence that occurs first.                         *)
Dominant(reasons) ==
  IF reasons = {} THEN "prerequisite_error"
  ELSE ReasonPrecedence[CHOOSE i \in 1..4 :
         /\ ReasonPrecedence[i] \in reasons
         /\ \A j \in 1..(i - 1) : ReasonPrecedence[j] \notin reasons]

BlockedBy(ids) == [status |-> "blocked", executed |-> FALSE,
                   reason |-> Dominant({ReasonFor(id) : id \in ids}),
                   blockedBy |-> ids]
---------------------------------------------------------------------------
Init ==
  /\ prerequisites \in [CheckIds -> Seq(Ids)]
  /\ results = [c \in CheckIds |-> Unresolved]

Record(c, r) ==
  /\ results[c] = Unresolved
  /\ results' = [results EXCEPT ![c] = r]
  /\ UNCHANGED prerequisites

(* All prerequisites are satisfied: the check has its own outcome.         *)
Evaluate(c) ==
  /\ \A id \in Direct(c) : Satisfied(id)
  /\ \E r \in OwnOutcomes : Record(c, r)

(* All prerequisites are known and some are unsafe: exactly these block.   *)
Block(c) ==
  /\ \A id \in Direct(c) : Satisfied(id) \/ Unsafe(id)
  /\ \E id \in Direct(c) : Unsafe(id)
  /\ Record(c, BlockedBy({id \in Direct(c) : Unsafe(id)}))

(* The check depends on itself.                                            *)
Reject(c) ==
  /\ OnCycle(c)
  /\ Record(c, InternalError)

Next == \E c \in CheckIds : Evaluate(c) \/ Block(c) \/ Reject(c)

Spec == Init /\ [][Next]_vars
===========================================================================
