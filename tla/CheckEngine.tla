---------------------------- MODULE CheckEngine ----------------------------
(***************************************************************************)
(* CheckEngine.run (check_engine/engine.py) and the prerequisite resolver  *)
(* it calls back into (check_engine/prerequisites.py): a depth-first       *)
(* evaluation of the loaded checks, memoised in check_results_by_id, with  *)
(* the chain of calls in progress (active_check_ids) used to detect        *)
(* cycles.                                                                 *)
(*                                                                         *)
(* The recursion is explicit: `stack` holds one frame per call of          *)
(* _result_for_check in progress, the innermost last.  A call that returns *)
(* has stored its result, so its caller finds it in `results` when it      *)
(* looks at the same prerequisite again.                                   *)
(***************************************************************************)
EXTENDS ResultModel, Sequences, FiniteSets

CONSTANTS CheckIds,          \* ids of the loaded checks
          Ids,               \* every id a prerequisite list may name
          PrerequisiteLists, \* prerequisite lists the loaded checks may have
          OwnOutcomes,       \* results of an evaluated check
          Artifacts          \* loaded check ids, one sequence per contract

ASSUME IdsAssumption == CheckIds \subseteq Ids
ASSUME ListsAssumption == PrerequisiteLists \subseteq Seq(Ids)
ASSUME ArtifactsAssumption == Artifacts \in Seq(Seq(CheckIds))

VARIABLES
  prerequisites,  \* LoadedCompiledCheck.prerequisites of every check
  results,        \* check_results_by_id
  stack,          \* calls of _result_for_check in progress
  artifact,       \* index of the artifact being run
  position,       \* index of the check of it whose result is due
  contractStatus, \* statuses of the contract results built so far
  runStatus       \* status of the run result, "none" until it is built

vars == <<prerequisites, results, stack, artifact, position, contractStatus,
          runStatus>>

Verdicts == INSTANCE PrerequisiteVerdicts

Result == Verdicts!Result
Unresolved == Verdicts!Unresolved

(* An evaluated check hands over a CheckResult, so one its constructor     *)
(* accepts: a constructor that raises ends in _internal_error_result.      *)
ASSUME OwnOutcomesAssumption ==
  OwnOutcomes \subseteq {r \in Result : r.status # "blocked" /\ ValidResult(r)}

Frame == [check : CheckIds, next : Nat \ {0},
          blockers : SUBSET [id : Ids, reason : PrerequisiteReason]]

Top == stack[Len(stack)]
Active == {stack[i].check : i \in DOMAIN stack}

(* The prerequisite the innermost call looks at, when there is one left.   *)
HasMore == Top.next <= Len(prerequisites[Top.check])
Current == prerequisites[Top.check][Top.next]

(* Mutant: a call starts with its second prerequisite.                     *)
PushOffByOne(c) ==
  stack' = Append(stack, [check |-> c, next |-> 2, blockers |-> {}])

Push(c) ==
  stack' = Append(stack, [check |-> c, next |-> 1, blockers |-> {}])

Advance(blockers) ==
  stack' = [stack EXCEPT ![Len(stack)] =
              [check |-> Top.check, next |-> Top.next + 1,
               blockers |-> Top.blockers \cup blockers]]

(* Store the result of the innermost call and return from it.              *)
Return(r) ==
  /\ results' = [results EXCEPT ![Top.check] = r]
  /\ stack' = [i \in 1..(Len(stack) - 1) |-> stack[i]]

Outer == <<artifact, position, contractStatus, runStatus>>
---------------------------------------------------------------------------
Init ==
  /\ prerequisites \in [CheckIds -> PrerequisiteLists]
  /\ results = [c \in CheckIds |-> Unresolved]
  /\ stack = <<>>
  /\ artifact = 1
  /\ position = 1
  /\ contractStatus = <<>>
  /\ runStatus = "none"

AtCheck ==
  /\ stack = <<>>
  /\ artifact <= Len(Artifacts)
  /\ position <= Len(Artifacts[artifact])

(* Mutant: the memo is not consulted.                                      *)
CallCheckAgain ==
  /\ AtCheck
  /\ Push(Artifacts[artifact][position])
  /\ UNCHANGED <<prerequisites, results, Outer>>

(* The loop over artifact.checks calls _result_for_check ...               *)
CallCheck ==
  /\ AtCheck
  /\ LET c == Artifacts[artifact][position]
     IN  results[c] = Unresolved /\ Push(c)
  /\ UNCHANGED <<prerequisites, results, Outer>>

(* ... which answers from the memo when the check has a result.            *)
TakeCheckResult ==
  /\ AtCheck
  /\ results[Artifacts[artifact][position]] # Unresolved
  /\ position' = position + 1
  /\ UNCHANGED <<prerequisites, results, stack, artifact, contractStatus,
                 runStatus>>

(* Mutant: a prerequisite that was not executable lets its dependents run. *)
NotePrerequisiteForgetsNotExecutable ==
  /\ stack # <<>> /\ HasMore
  /\ Current \in CheckIds
  /\ results[Current] # Unresolved
  /\ Advance(IF results[Current].status \in {"fail", "error", "blocked"}
               THEN {[id |-> Current, reason |-> Verdicts!ReasonFor(Current)]}
               ELSE {})
  /\ UNCHANGED <<prerequisites, results, Outer>>

(* Mutant: the reason of a blocked prerequisite is not handed up.          *)
NotePrerequisiteFlattensReason ==
  /\ stack # <<>> /\ HasMore
  /\ Current \in CheckIds
  /\ results[Current] # Unresolved
  /\ Advance(CASE results[Current].status = "blocked" ->
                     {[id |-> Current, reason |-> "prerequisite_error"]}
              [] results[Current].status \in Verdicts!Blocking \ {"blocked"} ->
                     {[id |-> Current, reason |-> Verdicts!ReasonFor(Current)]}
              [] OTHER -> {})
  /\ UNCHANGED <<prerequisites, results, Outer>>

(* A prerequisite with a result: it becomes a blocker or it does not.      *)
NotePrerequisite ==
  /\ stack # <<>> /\ HasMore
  /\ Current \in CheckIds
  /\ results[Current] # Unresolved
  /\ Advance(IF results[Current].status \in Verdicts!Blocking
               THEN {[id |-> Current, reason |-> Verdicts!ReasonFor(Current)]}
               ELSE {})
  /\ UNCHANGED <<prerequisites, results, Outer>>

(* Mutant: an id no artifact holds is passed over.                         *)
NoteMissingIgnored ==
  /\ stack # <<>> /\ HasMore
  /\ Current \notin CheckIds
  /\ Advance({})
  /\ UNCHANGED <<prerequisites, results, Outer>>

(* A prerequisite no artifact holds.                                       *)
NoteMissing ==
  /\ stack # <<>> /\ HasMore
  /\ Current \notin CheckIds
  /\ Advance({[id |-> Current, reason |-> "prerequisite_missing"]})
  /\ UNCHANGED <<prerequisites, results, Outer>>

(* Mutant: a prerequisite in progress is assumed to be fine.               *)
DetectCycleOptimistic ==
  /\ stack # <<>> /\ HasMore
  /\ Current \in Active
  /\ results[Current] = Unresolved
  /\ Advance({})
  /\ UNCHANGED <<prerequisites, results, Outer>>

(* Mutant: the ids of the calls in progress are lost on the way down, so   *)
(* that a cycle is not seen and one of them is made once more, and so on.  *)
(* The calls from the first one of that check on, which nobody will return *)
(* to, are left out.                                                       *)
DetectCycleNever ==
  /\ stack # <<>> /\ HasMore
  /\ Current \in Active
  /\ results[Current] = Unresolved
  /\ \E n \in DOMAIN stack :
       /\ stack[n].check = Current
       /\ stack' = [i \in 1..n |->
                      IF i < n THEN stack[i]
                      ELSE [check |-> Current, next |-> 1, blockers |-> {}]]
  /\ UNCHANGED <<prerequisites, results, Outer>>

(* A prerequisite whose evaluation is in progress: a cycle.  The check at  *)
(* hand gets the internal error at once, blockers found so far are lost.   *)
DetectCycle ==
  /\ stack # <<>> /\ HasMore
  /\ Current \in Active
  /\ results[Current] = Unresolved
  /\ Return(Verdicts!InternalError)
  /\ UNCHANGED <<prerequisites, Outer>>

(* Any other prerequisite is evaluated first.                              *)
ResolvePrerequisite ==
  /\ stack # <<>> /\ HasMore
  /\ Current \in CheckIds \ Active
  /\ results[Current] = Unresolved
  /\ Push(Current)
  /\ UNCHANGED <<prerequisites, results, Outer>>

(* Mutant: the first blocker ends the loop.                                *)
ReturnBlockedEarly ==
  /\ stack # <<>>
  /\ Top.blockers # {}
  /\ Return([status |-> "blocked", executed |-> FALSE,
             reason |-> Verdicts!Dominant({b.reason : b \in Top.blockers}),
             blockedBy |-> {b.id : b \in Top.blockers}])
  /\ UNCHANGED <<prerequisites, Outer>>

(* Mutant: the blocked result does not say by what.                        *)
ReturnBlockedUnnamed ==
  /\ stack # <<>> /\ ~ HasMore
  /\ Top.blockers # {}
  /\ Return([status |-> "blocked", executed |-> FALSE,
             reason |-> Verdicts!Dominant({b.reason : b \in Top.blockers}),
             blockedBy |-> {}])
  /\ UNCHANGED <<prerequisites, Outer>>

(* All prerequisites seen and some block.                                  *)
ReturnBlocked ==
  /\ stack # <<>> /\ ~ HasMore
  /\ Top.blockers # {}
  /\ Return([status |-> "blocked", executed |-> FALSE,
             reason |-> Verdicts!Dominant({b.reason : b \in Top.blockers}),
             blockedBy |-> {b.id : b \in Top.blockers}])
  /\ UNCHANGED <<prerequisites, Outer>>

(* All prerequisites seen and none blocks: the result comes from the       *)
(* rendering metadata, the dispatcher, the runtime or, when one of them    *)
(* raises, from _internal_error_result.                                    *)
ReturnEvaluated ==
  /\ stack # <<>> /\ ~ HasMore
  /\ Top.blockers = {}
  /\ \E r \in OwnOutcomes : Return(r)
  /\ UNCHANGED <<prerequisites, Outer>>

(* Mutant: the next contract starts before its first check.                *)
FinishContractFromZero ==
  /\ stack = <<>>
  /\ artifact <= Len(Artifacts)
  /\ position > Len(Artifacts[artifact])
  /\ contractStatus' = Append(contractStatus,
       AggregateStatuses({results[Artifacts[artifact][i]].status :
                            i \in DOMAIN Artifacts[artifact]}))
  /\ artifact' = artifact + 1
  /\ position' = 0
  /\ UNCHANGED <<prerequisites, results, stack, runStatus>>

(* ContractResult.from_check_results over the checks of one artifact.      *)
FinishContract ==
  /\ stack = <<>>
  /\ artifact <= Len(Artifacts)
  /\ position > Len(Artifacts[artifact])
  /\ contractStatus' = Append(contractStatus,
       AggregateStatuses({results[Artifacts[artifact][i]].status :
                            i \in DOMAIN Artifacts[artifact]}))
  /\ artifact' = artifact + 1
  /\ position' = 1
  /\ UNCHANGED <<prerequisites, results, stack, runStatus>>

(* Mutant: the status of the first contract is the status of the run.      *)
FinishRunFirstContract ==
  /\ artifact > Len(Artifacts)
  /\ runStatus = "none"
  /\ runStatus' = AggregateStatuses({contractStatus[i] :
                                       i \in DOMAIN contractStatus \cap {1}})
  /\ UNCHANGED <<prerequisites, results, stack, artifact, position,
                 contractStatus>>

(* RunResult.from_contract_results.                                        *)
FinishRun ==
  /\ artifact > Len(Artifacts)
  /\ runStatus = "none"
  /\ runStatus' = AggregateStatuses({contractStatus[i] :
                                       i \in DOMAIN contractStatus})
  /\ UNCHANGED <<prerequisites, results, stack, artifact, position,
                 contractStatus>>

Next ==
  \/ CallCheck \/ TakeCheckResult
  \/ NotePrerequisite \/ NoteMissing \/ DetectCycle \/ ResolvePrerequisite
  \/ ReturnBlocked \/ ReturnEvaluated
  \/ FinishContract \/ FinishRun

(* The engine is one synchronous call: it keeps running until it returns.  *)
Spec == Init /\ [][Next]_vars /\ WF_vars(Next)
---------------------------------------------------------------------------
Resolved(id) == Verdicts!Resolved(id)

TypeOK ==
  /\ prerequisites \in [CheckIds -> PrerequisiteLists]
  /\ results \in [CheckIds -> Result \cup {Unresolved}]
  /\ stack \in Seq(Frame)
  /\ artifact \in 1..(Len(Artifacts) + 1)
  /\ position \in Nat \ {0}
  /\ contractStatus \in Seq(RunStatus)
  /\ runStatus \in RunStatus \cup {"none"}

(* The ids the call at depth i has looked at.                              *)
Seen(i) == {prerequisites[stack[i].check][k] : k \in 1..(stack[i].next - 1)}

(* No check is being evaluated twice, and none that is has a result.       *)
CallsDistinct ==
  /\ \A i, j \in DOMAIN stack : stack[i].check = stack[j].check => i = j
  /\ \A i \in DOMAIN stack : results[stack[i].check] = Unresolved

(* Each call in progress was made for the sake of those below it.          *)
CallsReachable ==
  \A i, j \in DOMAIN stack :
    i < j => stack[j].check \in Verdicts!Reaches(stack[i].check)

(* A call has collected exactly the unsafe ones of the ids it looked at,   *)
(* for the reason they still have.                                         *)
CollectedAt(i) ==
  /\ stack[i].next <= Len(prerequisites[stack[i].check]) + 1
  /\ \A id \in Seen(i) : Verdicts!Satisfied(id) \/ Verdicts!Unsafe(id)
  /\ stack[i].blockers = {[id |-> id, reason |-> Verdicts!ReasonFor(id)] :
                             id \in {d \in Seen(i) : Verdicts!Unsafe(d)}}

CallsCollected == \A i \in DOMAIN stack : CollectedAt(i)

(* The calls of _result_for_check in progress: the chain active_check_ids  *)
(* stands for, with what each has found so far.                            *)
CallsInProgress == CallsDistinct /\ CallsReachable /\ CallsCollected

(* A check that executed, or whose result lets others execute.             *)
Cleared(c) == results[c].executed \/ Verdicts!Satisfied(c)

(* A check executes, or lets its dependents execute, only when every       *)
(* prerequisite it names has a result that lets it (_result_for_check      *)
(* after blocked_result_if_needed).                                        *)
ExecutedOnlyAfterPrerequisites ==
  \A c \in CheckIds : Cleared(c) =>
    \A id \in Verdicts!Direct(c) : Verdicts!Satisfied(id)

(* A check that depends, however far down, on an id no artifact holds or   *)
(* on a check that depends on itself never executes.                       *)
BrokenDependenciesNeverExecute ==
  \A c \in CheckIds : Cleared(c) =>
    \A id \in Verdicts!Reaches(c) : id \in CheckIds /\ ~ Verdicts!OnCycle(id)

(* The reason a blocked check reports is the dominant one among the root   *)
(* causes below it: the unsafe prerequisites, direct or not, that are not  *)
(* themselves blocked (_blocked_prerequisite_reason hands reasons up).     *)
BlockedForDominantRootCause ==
  \A c \in CheckIds : results[c].status = "blocked" =>
    results[c].reason = Verdicts!Dominant(
      {Verdicts!ReasonFor(id) :
         id \in {d \in Verdicts!Reaches(c) :
                  /\ Verdicts!Unsafe(d)
                  /\ d \in CheckIds => results[d].status # "blocked"}})

(* Every result the engine builds passes the checks of CheckResult, so its *)
(* constructor never raises where no handler catches it.                   *)
ResultsValid ==
  \A c \in CheckIds : Resolved(c) => ValidResult(results[c])

(* The status of the run is the aggregate of the statuses of all checks,   *)
(* however they are spread over contracts, empty contracts included.       *)
RunStatusIsFlatAggregate ==
  runStatus # "none" =>
    runStatus = AggregateStatuses(
      {results[c].status : c \in UNION {{Artifacts[a][i] : i \in DOMAIN Artifacts[a]} :
                                         a \in DOMAIN Artifacts}})

(* The engine keeps the promise of PrerequisiteVerdicts.                   *)
ImplementsVerdicts == Verdicts!Spec

(* The engine returns a run result, whatever the prerequisites.            *)
Terminates == <>(runStatus # "none")
===========================================================================
