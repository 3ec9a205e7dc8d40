------------------------ MODULE CheckEngineProofs ------------------------
(***************************************************************************)
(* What CheckEngine keeps for every number of checks, every prerequisite   *)
(* list and every split into contracts.                                    *)
(***************************************************************************)
EXTENDS CheckEngine, TLAPS

(* A collection of statuses aggregates to a status (_aggregate_statuses).  *)
LEMMA AggregateType ==
  ASSUME NEW S
  PROVE  AggregateStatuses(S) \in RunStatus
<1> DEFINE present == {i \in 1..7 : Precedence[i] \in S}
<1>1. CASE present = {}
  BY <1>1 DEF AggregateStatuses, RunStatus
<1>2. CASE present # {}
  <2>1. \E i \in present : \A j \in present : i <= j
    BY <1>2
  <2>2. (CHOOSE i \in present : \A j \in present : i <= j) \in 1..7
    BY <2>1
  <2>3. \A i \in 1..7 : Precedence[i] \in RunStatus
    BY DEF Precedence, RunStatus, CheckStatus
  <2> QED BY <1>2, <2>2, <2>3 DEF AggregateStatuses
<1> QED BY <1>1, <1>2

(* The dominant reason is a prerequisite reason.                           *)
LEMMA DominantType ==
  ASSUME NEW R \in SUBSET PrerequisiteReason
  PROVE  Verdicts!Dominant(R) \in PrerequisiteReason
<1> DEFINE P == Verdicts!ReasonPrecedence
           Best(i) == P[i] \in R /\ \A j \in 1..(i - 1) : P[j] \notin R
<1>1. \A i \in 1..4 : P[i] \in PrerequisiteReason
  BY DEF Verdicts!ReasonPrecedence, PrerequisiteReason
<1>2. CASE R = {}
  BY <1>2 DEF Verdicts!Dominant, PrerequisiteReason
<1>3. CASE R # {}
  <2>1. \E i \in 1..4 : P[i] \in R
    <3>1. /\ P[1] = "prerequisite_error" /\ P[2] = "prerequisite_failed"
          /\ P[3] = "prerequisite_not_executable"
          /\ P[4] = "prerequisite_missing"
      BY DEF Verdicts!ReasonPrecedence
    <3>2. PICK r \in PrerequisiteReason : r \in R
      BY <1>3
    <3> HIDE DEF P
    <3> QED BY <3>1, <3>2 DEF PrerequisiteReason
  <2> HIDE DEF P
  <2>2. \E i \in 1..4 : Best(i)
    BY <2>1
  <2>3. (CHOOSE i \in 1..4 : Best(i)) \in 1..4
    BY <2>2
  <2> QED BY <1>1, <1>3, <2>3 DEF Verdicts!Dominant, P
<1> QED BY <1>2, <1>3

(* An unsafe prerequisite has a prerequisite reason.                       *)
LEMMA ReasonForType ==
  ASSUME NEW id
  PROVE  Verdicts!ReasonFor(id) \in PrerequisiteReason
BY DEF Verdicts!ReasonFor, PrerequisiteReason, Verdicts!PrerequisiteReason

---------------------------------------------------------------------------
(* The innermost call, and what the stack looks like after it moves on,    *)
(* returns, or makes a call of its own.                                    *)
LEMMA TopType ==
  ASSUME TypeOK, stack # <<>>
  PROVE  /\ Len(stack) \in Nat \ {0}
         /\ Top \in Frame
         /\ Top.check \in CheckIds
         /\ Top.next \in Nat \ {0}
         /\ Top.blockers \in SUBSET [id : Ids, reason : PrerequisiteReason]
<1>1. Len(stack) \in Nat \ {0}
  BY DEF TypeOK
<1>2. Top \in Frame
  BY <1>1 DEF TypeOK, Top
<1> QED BY <1>1, <1>2 DEF Frame

LEMMA CurrentType ==
  ASSUME TypeOK, stack # <<>>, HasMore
  PROVE  /\ Top.next \in DOMAIN prerequisites[Top.check]
         /\ Current \in Verdicts!Direct(Top.check)
         /\ Current \in Ids
<1>1. prerequisites[Top.check] \in Seq(Ids)
  BY TopType, ListsAssumption DEF TypeOK
<1>2. Top.next \in DOMAIN prerequisites[Top.check]
  BY <1>1, TopType DEF HasMore
<1> QED BY <1>1, <1>2 DEF Current, Verdicts!Direct

LEMMA PushShape ==
  ASSUME TypeOK, NEW c \in CheckIds, Push(c)
  PROVE  /\ stack' \in Seq(Frame)
         /\ Len(stack') = Len(stack) + 1
         /\ \A i \in 1..Len(stack) : stack'[i] = stack[i]
         /\ stack'[Len(stack) + 1] = [check |-> c, next |-> 1, blockers |-> {}]
BY DEF TypeOK, Push, Frame

LEMMA AdvanceShape ==
  ASSUME TypeOK, stack # <<>>,
         NEW B \in SUBSET [id : Ids, reason : PrerequisiteReason], Advance(B)
  PROVE  /\ stack' \in Seq(Frame)
         /\ Len(stack') = Len(stack)
         /\ \A i \in 1..(Len(stack) - 1) : stack'[i] = stack[i]
         /\ stack'[Len(stack)] = [check |-> Top.check, next |-> Top.next + 1,
                                  blockers |-> Top.blockers \cup B]
<1> DEFINE n == Len(stack)
           f == [check |-> Top.check, next |-> Top.next + 1,
                 blockers |-> Top.blockers \cup B]
<1>1. n \in Nat \ {0} /\ Top \in Frame
  BY TopType
<1>2. f \in Frame
  BY TopType DEF Frame
<1>3. stack' = [stack EXCEPT ![n] = f]
  BY DEF Advance
<1> QED BY <1>1, <1>2, <1>3 DEF TypeOK

LEMMA ReturnShape ==
  ASSUME TypeOK, stack # <<>>, NEW r, Return(r)
  PROVE  /\ stack' \in Seq(Frame)
         /\ Len(stack') = Len(stack) - 1
         /\ \A i \in 1..(Len(stack) - 1) : stack'[i] = stack[i]
         /\ results' = [results EXCEPT ![Top.check] = r]
<1> DEFINE n == Len(stack)
<1>1. n \in Nat \ {0} /\ \A i \in 1..(n - 1) : stack[i] \in Frame
  BY TopType DEF TypeOK
<1> QED BY <1>1 DEF Return

(* The result of a blocked check is a result.                              *)
LEMMA BlockedType ==
  ASSUME TypeOK, stack # <<>>
  PROVE  [status |-> "blocked", executed |-> FALSE,
          reason |-> Verdicts!Dominant({b.reason : b \in Top.blockers}),
          blockedBy |-> {b.id : b \in Top.blockers}] \in Result
<1>1. {b.reason : b \in Top.blockers} \in SUBSET PrerequisiteReason
  BY TopType
<1>2. {b.id : b \in Top.blockers} \in SUBSET Ids
  BY TopType
<1> QED BY <1>1, <1>2, DominantType
        DEF Result, Verdicts!Result, Verdicts!CheckStatus, Verdicts!CheckReason,
            Verdicts!PrerequisiteReason, PrerequisiteReason

LEMMA InternalErrorType == Verdicts!InternalError \in Result
BY DEF Verdicts!InternalError, Result, Verdicts!Result, Verdicts!CheckStatus,
       Verdicts!NoReason

(* TypeOK: every variable keeps its type, whatever the checks name.        *)
THEOREM TypeCorrect == Spec => []TypeOK
<1>1. Init => TypeOK
  BY ArtifactsAssumption DEF Init, TypeOK
<1>2. TypeOK /\ [Next]_vars => TypeOK'
  <2> SUFFICES ASSUME TypeOK, [Next]_vars PROVE TypeOK'
    OBVIOUS
  <2>1. CASE CallCheck
    <3>1. Artifacts[artifact][position] \in CheckIds
      BY <2>1, ArtifactsAssumption DEF CallCheck, AtCheck, TypeOK
    <3> QED BY <2>1, <3>1, PushShape DEF CallCheck, Outer, TypeOK
  <2>2. CASE TakeCheckResult
    BY <2>2 DEF TakeCheckResult, TypeOK
  <2>3. CASE NotePrerequisite
    <3>1. [id |-> Current, reason |-> Verdicts!ReasonFor(Current)]
            \in [id : Ids, reason : PrerequisiteReason]
      BY <2>3, CurrentType, ReasonForType DEF NotePrerequisite
    <3> QED BY <2>3, <3>1, AdvanceShape DEF NotePrerequisite, Outer, TypeOK
  <2>4. CASE NoteMissing
    <3>1. [id |-> Current, reason |-> "prerequisite_missing"]
            \in [id : Ids, reason : PrerequisiteReason]
      BY <2>4, CurrentType DEF NoteMissing, PrerequisiteReason
    <3> QED BY <2>4, <3>1, AdvanceShape DEF NoteMissing, Outer, TypeOK
  <2>5. CASE DetectCycle
    <3>1. Return(Verdicts!InternalError) /\ stack # <<>>
      BY <2>5 DEF DetectCycle
    <3>2. /\ stack' \in Seq(Frame)
          /\ results' = [results EXCEPT ![Top.check] = Verdicts!InternalError]
      BY <3>1, ReturnShape
    <3> QED BY <2>5, <3>1, <3>2, TopType, InternalErrorType
            DEF DetectCycle, Outer, TypeOK
  <2>6. CASE ResolvePrerequisite
    BY <2>6, PushShape DEF ResolvePrerequisite, Outer, TypeOK
  <2>7. CASE ReturnBlocked
    <3>1. PICK r \in Result : Return(r)
      BY <2>7, BlockedType DEF ReturnBlocked
    <3>2. stack # <<>>
      BY <2>7 DEF ReturnBlocked
    <3>3. /\ stack' \in Seq(Frame)
          /\ results' = [results EXCEPT ![Top.check] = r]
      BY <3>1, <3>2, ReturnShape
    <3> QED BY <2>7, <3>2, <3>3, TopType DEF ReturnBlocked, Outer, TypeOK
  <2>8. CASE ReturnEvaluated
    <3>1. PICK r \in Result : Return(r)
      BY <2>8, OwnOutcomesAssumption DEF ReturnEvaluated
    <3>2. stack # <<>>
      BY <2>8 DEF ReturnEvaluated
    <3>3. /\ stack' \in Seq(Frame)
          /\ results' = [results EXCEPT ![Top.check] = r]
      BY <3>1, <3>2, ReturnShape
    <3> QED BY <2>8, <3>2, <3>3, TopType DEF ReturnEvaluated, Outer, TypeOK
  <2>9. CASE FinishContract
    BY <2>9, AggregateType, ArtifactsAssumption DEF FinishContract, TypeOK
  <2>10. CASE FinishRun
    BY <2>10, AggregateType DEF FinishRun, TypeOK
  <2>11. CASE UNCHANGED vars
    BY <2>11 DEF vars, TypeOK
  <2> QED BY <2>1, <2>2, <2>3, <2>4, <2>5, <2>6, <2>7, <2>8, <2>9, <2>10,
             <2>11 DEF Next
<1> QED BY <1>1, <1>2, PTL DEF Spec

---------------------------------------------------------------------------
(* Reachability through prerequisites: direct, one step further, and back. *)
LEMMA ReachesDirect ==
  ASSUME NEW c, NEW d \in Ids, d \in Verdicts!Direct(c)
  PROVE  d \in Verdicts!Reaches(c)
BY DEF Verdicts!Reaches

LEMMA ReachesStep ==
  ASSUME NEW c, NEW t \in CheckIds, t \in Verdicts!Reaches(c),
         NEW d \in Ids, d \in Verdicts!Direct(t)
  PROVE  d \in Verdicts!Reaches(c)
BY DEF Verdicts!Reaches, Verdicts!Closed

LEMMA ReachesTransitive ==
  ASSUME NEW c, NEW t \in CheckIds, t \in Verdicts!Reaches(c),
         NEW d, d \in Verdicts!Reaches(t)
  PROVE  d \in Verdicts!Reaches(c)
BY DEF Verdicts!Reaches, Verdicts!Closed

LEMMA ReachesStable ==
  ASSUME UNCHANGED prerequisites, NEW c
  PROVE  Verdicts!Reaches(c)' = Verdicts!Reaches(c)
<1>1. \A x : Verdicts!Direct(x)' = Verdicts!Direct(x)
  BY DEF Verdicts!Direct
<1>2. \A S : Verdicts!Closed(S)' = Verdicts!Closed(S)
  BY <1>1 DEF Verdicts!Closed
<1> QED BY <1>1, <1>2 DEF Verdicts!Reaches

(* A prerequisite whose verdict is known keeps it when a check without a   *)
(* result receives one.                                                    *)
LEMMA VerdictStable ==
  ASSUME TypeOK, NEW c \in CheckIds, results[c] = Unresolved, NEW r,
         results' = [results EXCEPT ![c] = r],
         NEW id, Verdicts!Satisfied(id) \/ Verdicts!Unsafe(id)
  PROVE  /\ Verdicts!Satisfied(id)' = Verdicts!Satisfied(id)
         /\ Verdicts!Unsafe(id)' = Verdicts!Unsafe(id)
         /\ Verdicts!ReasonFor(id)' = Verdicts!ReasonFor(id)
<1>1. id \in CheckIds => id # c
  BY DEF Verdicts!Satisfied, Verdicts!Unsafe, Verdicts!Resolved, Unresolved
<1>2. id \in CheckIds => results'[id] = results[id]
  BY <1>1 DEF TypeOK
<1>3. Verdicts!Resolved(id)' = Verdicts!Resolved(id)
  BY <1>2 DEF Verdicts!Resolved
<1>4. /\ Verdicts!Satisfied(id)' = Verdicts!Satisfied(id)
      /\ Verdicts!Unsafe(id)' = Verdicts!Unsafe(id)
  BY <1>2, <1>3 DEF Verdicts!Satisfied, Verdicts!Unsafe, Verdicts!Resolved
<1>5. Verdicts!ReasonFor(id)' = Verdicts!ReasonFor(id)
  BY <1>2 DEF Verdicts!ReasonFor
<1> QED BY <1>4, <1>5

(* The same when no result changes.                                        *)
LEMMA VerdictUnchanged ==
  ASSUME UNCHANGED results, NEW id
  PROVE  /\ Verdicts!Satisfied(id)' = Verdicts!Satisfied(id)
         /\ Verdicts!Unsafe(id)' = Verdicts!Unsafe(id)
         /\ Verdicts!ReasonFor(id)' = Verdicts!ReasonFor(id)
BY DEF Verdicts!Satisfied, Verdicts!Unsafe, Verdicts!Resolved,
       Verdicts!ReasonFor

(* What a call has collected depends on its frame and on the verdicts of   *)
(* the ids it has seen only.                                               *)
LEMMA CollectedStable ==
  ASSUME NEW i, CollectedAt(i), stack'[i] = stack[i], UNCHANGED prerequisites,
         \A id \in Seen(i) :
           /\ Verdicts!Satisfied(id)' = Verdicts!Satisfied(id)
           /\ Verdicts!Unsafe(id)' = Verdicts!Unsafe(id)
           /\ Verdicts!ReasonFor(id)' = Verdicts!ReasonFor(id)
  PROVE  CollectedAt(i)'
<1>1. Seen(i)' = Seen(i)
  BY DEF Seen
<1>2. \A id \in Seen(i)' : Verdicts!Satisfied(id)' \/ Verdicts!Unsafe(id)'
  BY <1>1 DEF CollectedAt
<1>3. {d \in Seen(i)' : Verdicts!Unsafe(d)'} = {d \in Seen(i) : Verdicts!Unsafe(d)}
  BY <1>1
<1>4. stack'[i].blockers =
        {[id |-> id, reason |-> Verdicts!ReasonFor(id)'] :
           id \in {d \in Seen(i)' : Verdicts!Unsafe(d)'}}
  BY <1>3 DEF CollectedAt
<1> QED BY <1>2, <1>4 DEF CollectedAt

(* A call made for a check that has no result and is not being evaluated.  *)
LEMMA CallsPushed ==
  ASSUME TypeOK, CallsInProgress, NEW c \in CheckIds, Push(c),
         results[c] = Unresolved, c \notin Active,
         stack # <<>> => c \in Verdicts!Direct(Top.check),
         UNCHANGED <<prerequisites, results>>
  PROVE  CallsInProgress'
<1>0. PICK n \in Nat : n = Len(stack)
  BY DEF TypeOK
<1>1. /\ n \in Nat /\ DOMAIN stack = 1..n /\ stack' \in Seq(Frame)
      /\ Len(stack') = n + 1 /\ DOMAIN stack' = 1..(n + 1)
      /\ \A i \in 1..n : stack'[i] = stack[i]
      /\ stack'[n + 1] = [check |-> c, next |-> 1, blockers |-> {}]
      /\ \A i \in 1..n : stack[i] \in Frame /\ stack[i].check # c
  <2>1. /\ stack' \in Seq(Frame) /\ Len(stack') = n + 1
        /\ \A i \in 1..n : stack'[i] = stack[i]
        /\ stack'[n + 1] = [check |-> c, next |-> 1, blockers |-> {}]
    BY <1>0, PushShape
  <2>2. DOMAIN stack = 1..n /\ \A i \in 1..n : stack[i] \in Frame
    BY <1>0 DEF TypeOK
  <2>3. \A i \in 1..n : stack[i].check # c
    BY <2>2 DEF Active
  <2> QED BY <2>1, <2>2, <2>3
<1>2. CallsDistinct'
  BY <1>1 DEF CallsInProgress, CallsDistinct
<1>3. CallsReachable'
  <2> SUFFICES ASSUME NEW i \in 1..(n + 1), NEW j \in 1..(n + 1), i < j
               PROVE  stack'[j].check \in Verdicts!Reaches(stack'[i].check)
    BY <1>1, ReachesStable DEF CallsReachable
  <2>1. CASE j <= n
    BY <2>1, <1>1 DEF CallsInProgress, CallsReachable
  <2>2. CASE j = n + 1
    <3>1. /\ stack # <<>> /\ Top = stack[n] /\ Top.check \in CheckIds
          /\ c \in Verdicts!Direct(Top.check) /\ c \in Ids
      BY <2>2, <1>1, <1>0, TopType, IdsAssumption DEF Top
    <3>2. i = n \/ Top.check \in Verdicts!Reaches(stack[i].check)
      BY <3>1, <2>2, <1>1 DEF CallsInProgress, CallsReachable
    <3>3. c \in Verdicts!Reaches(stack[i].check)
      BY <3>1, <3>2, ReachesDirect, ReachesStep
    <3> QED BY <3>3, <2>2, <1>1
  <2> QED BY <2>1, <2>2, <1>1
<1>4. CallsCollected'
  <2>1. ASSUME NEW i \in 1..n PROVE CollectedAt(i)'
    BY <1>1, CollectedStable, VerdictUnchanged DEF CallsInProgress, CallsCollected
  <2>2. CollectedAt(n + 1)'
    <3>1. Seen(n + 1)' = {}
      BY <1>1 DEF Seen
    <3>2. prerequisites[c] \in Seq(Ids)
      BY ListsAssumption DEF TypeOK
    <3> QED BY <1>1, <3>1, <3>2 DEF CollectedAt
  <2> QED BY <1>1, <2>1, <2>2 DEF CallsCollected
<1> QED BY <1>2, <1>3, <1>4 DEF CallsInProgress

(* A call takes note of a prerequisite whose verdict is known.             *)
LEMMA CallsAdvanced ==
  ASSUME TypeOK, CallsInProgress, stack # <<>>, HasMore,
         Verdicts!Satisfied(Current) \/ Verdicts!Unsafe(Current),
         NEW B, Advance(B),
         B = IF Verdicts!Unsafe(Current)
               THEN {[id |-> Current, reason |-> Verdicts!ReasonFor(Current)]}
               ELSE {},
         UNCHANGED <<prerequisites, results>>
  PROVE  CallsInProgress'
<1>0. PICK n \in Nat : n = Len(stack)
  BY DEF TypeOK
<1> DEFINE f == [check |-> Top.check, next |-> Top.next + 1,
                 blockers |-> Top.blockers \cup B]
<1>1. B \in SUBSET [id : Ids, reason : PrerequisiteReason]
  BY CurrentType, ReasonForType
<1>2. /\ n \in Nat \ {0} /\ Top = stack[n] /\ Top \in Frame
      /\ DOMAIN stack = 1..n /\ \A i \in 1..n : stack[i] \in Frame
  BY <1>0, TopType DEF TypeOK, Top
<1>3. /\ stack' \in Seq(Frame) /\ Len(stack') = n
      /\ \A i \in 1..(n - 1) : stack'[i] = stack[i]
      /\ stack'[n] = f
  BY <1>0, <1>1, AdvanceShape
<1>4. DOMAIN stack' = 1..n /\ \A i \in 1..n : stack'[i].check = stack[i].check
  BY <1>2, <1>3
<1>5. CallsDistinct'
  BY <1>2, <1>4 DEF CallsInProgress, CallsDistinct
<1>6. CallsReachable'
  BY <1>2, <1>4, ReachesStable DEF CallsInProgress, CallsReachable
<1>7. CallsCollected'
  <2>1. ASSUME NEW i \in 1..(n - 1) PROVE CollectedAt(i)'
    BY <1>2, <1>3, CollectedStable, VerdictUnchanged
       DEF CallsInProgress, CallsCollected
  <2>2. CollectedAt(n)'
    <3>1. Top.next \in Nat \ {0} /\ Current = prerequisites[Top.check][Top.next]
      BY TopType DEF Current
    <3>2. Seen(n) = {prerequisites[Top.check][k] : k \in 1..(Top.next - 1)}
      BY <1>2 DEF Seen
    <3>3. Seen(n)' = {prerequisites[Top.check][k] : k \in 1..Top.next}
      BY <1>3, <3>1 DEF Seen
    <3>4. Seen(n)' = Seen(n) \cup {Current}
      BY <3>1, <3>2, <3>3
    <3>5. Top.next + 1 <= Len(prerequisites[Top.check]) + 1
      <4>1. prerequisites[Top.check] \in Seq(Ids)
        BY ListsAssumption, TopType DEF TypeOK
      <4> QED BY <4>1, <3>1 DEF HasMore
    <3>6. CollectedAt(n)
      BY <1>2 DEF CallsInProgress, CallsCollected
    <3>7. Top.blockers \cup B =
            {[id |-> id, reason |-> Verdicts!ReasonFor(id)] :
               id \in {d \in Seen(n) \cup {Current} : Verdicts!Unsafe(d)}}
      BY <1>2, <3>6 DEF CollectedAt
    <3>8. \A id \in Seen(n) \cup {Current} :
            Verdicts!Satisfied(id) \/ Verdicts!Unsafe(id)
      BY <3>6 DEF CollectedAt
    <3>9. f.blockers = {[id |-> id, reason |-> Verdicts!ReasonFor(id)'] :
                          id \in {d \in Seen(n)' : Verdicts!Unsafe(d)'}}
      BY <3>4, <3>7, VerdictUnchanged
    <3>10. \A id \in Seen(n)' : Verdicts!Satisfied(id)' \/ Verdicts!Unsafe(id)'
      BY <3>4, <3>8, VerdictUnchanged
    <3> QED BY <1>3, <3>5, <3>9, <3>10 DEF CollectedAt
  <2>3. \A i \in 1..n : i = n \/ i \in 1..(n - 1)
    BY <1>2
  <2> QED BY <1>4, <2>1, <2>2, <2>3 DEF CallsCollected
<1> QED BY <1>5, <1>6, <1>7 DEF CallsInProgress

(* A call returns with a result.                                           *)
LEMMA CallsReturned ==
  ASSUME TypeOK, CallsInProgress, stack # <<>>, NEW r, Return(r),
         UNCHANGED prerequisites
  PROVE  CallsInProgress'
<1>0. PICK n \in Nat : n = Len(stack)
  BY DEF TypeOK
<1>1. /\ n \in Nat \ {0} /\ Top = stack[n] /\ Top.check \in CheckIds
      /\ DOMAIN stack = 1..n /\ \A i \in 1..n : stack[i] \in Frame
  BY <1>0, TopType DEF TypeOK, Top
<1>2. /\ stack' \in Seq(Frame) /\ Len(stack') = n - 1
      /\ \A i \in 1..(n - 1) : stack'[i] = stack[i]
      /\ results' = [results EXCEPT ![Top.check] = r]
  BY <1>0, ReturnShape
<1>3. /\ DOMAIN stack' = 1..(n - 1)
      /\ \A i \in 1..(n - 1) : i \in 1..n /\ stack[i].check \in CheckIds
  BY <1>1, <1>2 DEF Frame
<1>4. \A i, j \in 1..n : stack[i].check = stack[j].check => i = j
  BY <1>1 DEF CallsInProgress, CallsDistinct
<1>5. \A i \in 1..n : results[stack[i].check] = Unresolved
  BY <1>1 DEF CallsInProgress, CallsDistinct
<1>6. \A i \in 1..(n - 1) : stack[i].check # Top.check
  BY <1>1, <1>3, <1>4
<1>7. CallsDistinct'
  <2>1. \A i, j \in 1..(n - 1) : stack'[i].check = stack'[j].check => i = j
    BY <1>2, <1>3, <1>4
  <2>2. \A i \in 1..(n - 1) : results'[stack'[i].check] = Unresolved
    BY <1>2, <1>3, <1>5, <1>6 DEF TypeOK
  <2> QED BY <1>3, <2>1, <2>2 DEF CallsDistinct, Unresolved
<1>8. CallsReachable'
  BY <1>1, <1>2, <1>3, ReachesStable DEF CallsInProgress, CallsReachable
<1>9. CallsCollected'
  <2>1. ASSUME NEW i \in 1..(n - 1) PROVE CollectedAt(i)'
    <3>1. CollectedAt(i)
      BY <1>1, <1>3 DEF CallsInProgress, CallsCollected
    <3>2. \A id \in Seen(i) : Verdicts!Satisfied(id) \/ Verdicts!Unsafe(id)
      BY <3>1 DEF CollectedAt
    <3>3. \A id \in Seen(i) :
            /\ Verdicts!Satisfied(id)' = Verdicts!Satisfied(id)
            /\ Verdicts!Unsafe(id)' = Verdicts!Unsafe(id)
            /\ Verdicts!ReasonFor(id)' = Verdicts!ReasonFor(id)
      <4>1. results[Top.check] = Unresolved
        BY <1>1, <1>5
      <4> QED BY <1>1, <1>2, <3>2, <4>1, VerdictStable
    <3> QED BY <1>2, <3>1, <3>3, CollectedStable
  <2> QED BY <1>3, <2>1 DEF CallsCollected
<1> QED BY <1>7, <1>8, <1>9 DEF CallsInProgress

---------------------------------------------------------------------------
(* A call that has looked at all its prerequisites has seen all of them.   *)
LEMMA AllSeen ==
  ASSUME TypeOK, CallsInProgress, stack # <<>>, ~ HasMore
  PROVE  /\ \A id \in Verdicts!Direct(Top.check) :
              Verdicts!Satisfied(id) \/ Verdicts!Unsafe(id)
         /\ Top.blockers = {[id |-> id, reason |-> Verdicts!ReasonFor(id)] :
                              id \in {d \in Verdicts!Direct(Top.check) :
                                        Verdicts!Unsafe(d)}}
         /\ results[Top.check] = Unresolved
<1>0. PICK n \in Nat : n = Len(stack)
  BY DEF TypeOK
<1>1. n \in DOMAIN stack /\ Top = stack[n] /\ Top.next \in Nat
  BY <1>0, TopType DEF TypeOK, Top
<1>2. CollectedAt(n) /\ results[stack[n].check] = Unresolved
  BY <1>1 DEF CallsInProgress, CallsCollected, CallsDistinct
<1>3. prerequisites[Top.check] \in Seq(Ids)
  BY ListsAssumption, TopType DEF TypeOK
<1>4. Top.next = Len(prerequisites[Top.check]) + 1
  BY <1>1, <1>2, <1>3 DEF HasMore, CollectedAt
<1>5. Seen(n) = Verdicts!Direct(Top.check)
  BY <1>1, <1>3, <1>4 DEF Seen, Verdicts!Direct
<1> QED BY <1>1, <1>2, <1>5 DEF CollectedAt

(* Unsafe and satisfied exclude each other.                                *)
LEMMA UnsafeNotSatisfied ==
  ASSUME NEW id, Verdicts!Satisfied(id)
  PROVE  ~ Verdicts!Unsafe(id)
BY DEF Verdicts!Satisfied, Verdicts!Unsafe, Verdicts!Resolved

LEMMA EvaluatedIsSatisfied ==
  ASSUME TypeOK, CallsInProgress, ReturnEvaluated
  PROVE  \A id \in Verdicts!Direct(Top.check) : Verdicts!Satisfied(id)
BY AllSeen DEF ReturnEvaluated

(* A result that stands in the way of others, and did not execute.         *)
Stopped(r) == ~ r.executed /\ r.status \in Verdicts!Blocking

(* A verdict that has let a check execute is never revised.                *)
LEMMA ClearedStable ==
  ASSUME TypeOK, NEW c \in CheckIds, results[c] = Unresolved, NEW r \in Result,
         results' = [results EXCEPT ![c] = r], NEW d \in CheckIds, Cleared(d)'
  PROVE  (d # c /\ Cleared(d)) \/ (d = c /\ ~ Stopped(r))
<1>1. CASE d = c
  BY <1>1 DEF Cleared, Stopped, Verdicts!Satisfied, Verdicts!Resolved, TypeOK
<1>2. CASE d # c
  <2>1. results'[d] = results[d]
    BY <1>2 DEF TypeOK
  <2> QED BY <1>2, <2>1 DEF Cleared, Verdicts!Satisfied, Verdicts!Resolved
<1> QED BY <1>1, <1>2

LEMMA ExecutedStable ==
  ASSUME TypeOK, ExecutedOnlyAfterPrerequisites, UNCHANGED prerequisites,
         NEW c \in CheckIds, results[c] = Unresolved, NEW r \in Result,
         results' = [results EXCEPT ![c] = r],
         Stopped(r) \/ \A id \in Verdicts!Direct(c) : Verdicts!Satisfied(id)
  PROVE  ExecutedOnlyAfterPrerequisites'
<1>1. \A d : Verdicts!Direct(d)' = Verdicts!Direct(d)
  BY DEF Verdicts!Direct
<1> SUFFICES ASSUME NEW d \in CheckIds, Cleared(d)',
                    NEW id \in Verdicts!Direct(d)
             PROVE  Verdicts!Satisfied(id)'
  BY <1>1 DEF ExecutedOnlyAfterPrerequisites
<1>2. Verdicts!Satisfied(id)
  BY ClearedStable DEF ExecutedOnlyAfterPrerequisites
<1> QED BY <1>2, VerdictStable

(* The checks that are satisfied hold all they depend on, and a check      *)
(* without a result is not among them: it cannot depend on itself.         *)
LEMMA SatisfiedIsClosed ==
  ASSUME TypeOK, ExecutedOnlyAfterPrerequisites, NEW c \in CheckIds,
         \A id \in Verdicts!Direct(c) : Verdicts!Satisfied(id)
  PROVE  \A id \in Verdicts!Reaches(c) : Verdicts!Satisfied(id)
<1> DEFINE S == {id \in CheckIds : Verdicts!Satisfied(id)}
<1>1. S \in SUBSET Ids
  BY IdsAssumption
<1>2. Verdicts!Direct(c) \subseteq S
  BY DEF Verdicts!Satisfied, Verdicts!Resolved
<1>3. \A d \in S \cap CheckIds : Verdicts!Direct(d) \subseteq S
  BY DEF ExecutedOnlyAfterPrerequisites, Cleared, Verdicts!Satisfied,
         Verdicts!Resolved
<1>4. Verdicts!Closed(S)
  BY <1>3 DEF Verdicts!Closed
<1> QED BY <1>1, <1>2, <1>4 DEF Verdicts!Reaches

LEMMA BrokenStable ==
  ASSUME TypeOK, ExecutedOnlyAfterPrerequisites, BrokenDependenciesNeverExecute,
         \A d \in CheckIds : Verdicts!Satisfied(d) => ~ Verdicts!OnCycle(d),
         UNCHANGED prerequisites,
         NEW c \in CheckIds, results[c] = Unresolved, NEW r \in Result,
         results' = [results EXCEPT ![c] = r],
         Stopped(r) \/ \A id \in Verdicts!Direct(c) : Verdicts!Satisfied(id)
  PROVE  /\ BrokenDependenciesNeverExecute'
         /\ \A d \in CheckIds : Verdicts!Satisfied(d)' => ~ Verdicts!OnCycle(d)'
<1>1. \A x : /\ Verdicts!Reaches(x)' = Verdicts!Reaches(x)
             /\ Verdicts!OnCycle(x)' = Verdicts!OnCycle(x)
  BY ReachesStable DEF Verdicts!OnCycle
<1>2. ASSUME ~ Stopped(r)
      PROVE  /\ ~ Verdicts!OnCycle(c)
             /\ \A id \in Verdicts!Reaches(c) :
                  id \in CheckIds /\ ~ Verdicts!OnCycle(id)
  <2>1. \A id \in Verdicts!Reaches(c) : Verdicts!Satisfied(id)
    BY <1>2, SatisfiedIsClosed
  <2>2. ~ Verdicts!Satisfied(c)
    BY DEF Verdicts!Satisfied, Verdicts!Resolved, Unresolved
  <2> QED BY <2>1, <2>2 DEF Verdicts!OnCycle, Verdicts!Satisfied, Verdicts!Resolved
<1>3. BrokenDependenciesNeverExecute'
  BY <1>1, <1>2, ClearedStable DEF BrokenDependenciesNeverExecute
<1>4. ASSUME NEW d \in CheckIds, Verdicts!Satisfied(d)'
      PROVE  ~ Verdicts!OnCycle(d)'
  <2>1. CASE d = c
    <3>1. ~ Stopped(r)
      BY <1>4, <2>1 DEF Stopped, Verdicts!Satisfied, TypeOK
    <3> QED BY <1>1, <1>2, <2>1, <3>1
  <2>2. CASE d # c
    <3>1. results'[d] = results[d]
      BY <2>2 DEF TypeOK
    <3>2. Verdicts!Satisfied(d)
      BY <1>4, <3>1 DEF Verdicts!Satisfied, Verdicts!Resolved
    <3> QED BY <1>1, <3>2
  <2> QED BY <2>1, <2>2
<1> QED BY <1>3, <1>4

(* The strengthening that is inductive: an executed check was safe to run  *)
(* because every call in progress knows exactly what it has seen.          *)
Broken ==
  /\ BrokenDependenciesNeverExecute
  /\ \A d \in CheckIds : Verdicts!Satisfied(d) => ~ Verdicts!OnCycle(d)

IInv == TypeOK /\ CallsInProgress /\ ExecutedOnlyAfterPrerequisites /\ Broken

LEMMA InvariantStep == IInv /\ TypeOK' /\ [Next]_vars => IInv'
<1> SUFFICES ASSUME IInv, TypeOK', [Next]_vars
             PROVE  /\ CallsInProgress'
                    /\ ExecutedOnlyAfterPrerequisites' /\ Broken'
  BY DEF IInv
<1> USE DEF IInv
<1>0. ASSUME UNCHANGED <<prerequisites, results>>
      PROVE  ExecutedOnlyAfterPrerequisites' /\ Broken'
  <2>1. \A x : /\ Verdicts!Direct(x)' = Verdicts!Direct(x)
               /\ Cleared(x)' = Cleared(x)
               /\ Verdicts!OnCycle(x)' = Verdicts!OnCycle(x)
    BY <1>0, VerdictUnchanged, ReachesStable
       DEF Verdicts!Direct, Cleared, Verdicts!OnCycle
  <2> QED BY <1>0, <2>1, VerdictUnchanged, ReachesStable
          DEF ExecutedOnlyAfterPrerequisites, Broken,
              BrokenDependenciesNeverExecute
<1>00. ASSUME UNCHANGED <<prerequisites, results, stack>>
       PROVE  CallsInProgress'
  <2>1. CallsDistinct' /\ CallsReachable'
    BY <1>00, ReachesStable DEF CallsInProgress, CallsDistinct, CallsReachable
  <2>2. \A i \in DOMAIN stack : CollectedAt(i)'
    BY <1>00, CollectedStable, VerdictUnchanged DEF CallsInProgress, CallsCollected
  <2> QED BY <1>00, <2>1, <2>2 DEF CallsInProgress, CallsCollected
<1>1. CASE CallCheck
  <2>1. Artifacts[artifact][position] \in CheckIds
    BY <1>1, ArtifactsAssumption DEF CallCheck, AtCheck, TypeOK
  <2>2. Active = {}
    BY <1>1 DEF CallCheck, AtCheck, Active
  <2> QED BY <1>0, <1>1, <2>1, <2>2, CallsPushed DEF CallCheck, AtCheck
<1>2. CASE TakeCheckResult
  BY <1>0, <1>00, <1>2 DEF TakeCheckResult
<1>3. CASE NotePrerequisite
  <2> DEFINE B == IF results[Current].status \in Verdicts!Blocking
                    THEN {[id |-> Current, reason |-> Verdicts!ReasonFor(Current)]}
                    ELSE {}
  <2>1. /\ stack # <<>> /\ HasMore /\ Advance(B)
        /\ UNCHANGED <<prerequisites, results>>
        /\ Current \in CheckIds /\ results[Current] # Unresolved
    BY <1>3 DEF NotePrerequisite
  <2>2. /\ Verdicts!Unsafe(Current) <=> results[Current].status \in Verdicts!Blocking
        /\ Verdicts!Satisfied(Current) \/ Verdicts!Unsafe(Current)
    BY <2>1 DEF Verdicts!Unsafe, Verdicts!Satisfied, Verdicts!Resolved, Unresolved
  <2>3. B = IF Verdicts!Unsafe(Current)
              THEN {[id |-> Current, reason |-> Verdicts!ReasonFor(Current)]}
              ELSE {}
    BY <2>2
  <2> HIDE DEF B
  <2> QED BY <1>0, <2>1, <2>2, <2>3, CallsAdvanced
<1>4. CASE NoteMissing
  <2> DEFINE B == {[id |-> Current, reason |-> "prerequisite_missing"]}
  <2>1. /\ stack # <<>> /\ HasMore /\ Advance(B)
        /\ UNCHANGED <<prerequisites, results>>
        /\ Current \notin CheckIds
    BY <1>4 DEF NoteMissing
  <2>2. /\ Verdicts!Unsafe(Current)
        /\ Verdicts!ReasonFor(Current) = "prerequisite_missing"
    BY <2>1 DEF Verdicts!Unsafe, Verdicts!ReasonFor
  <2>3. B = IF Verdicts!Unsafe(Current)
              THEN {[id |-> Current, reason |-> Verdicts!ReasonFor(Current)]}
              ELSE {}
    BY <2>2
  <2> HIDE DEF B
  <2> QED BY <1>0, <2>1, <2>2, <2>3, CallsAdvanced
<1>5. CASE DetectCycle
  <2>1. /\ stack # <<>> /\ UNCHANGED prerequisites
        /\ Return(Verdicts!InternalError)
    BY <1>5 DEF DetectCycle
  <2>2. /\ results' = [results EXCEPT ![Top.check] = Verdicts!InternalError]
        /\ Top.check \in CheckIds /\ results[Top.check] = Unresolved
    BY <2>1, ReturnShape, TopType DEF CallsInProgress, CallsDistinct, Top, TypeOK
  <2>3. Stopped(Verdicts!InternalError)
    BY DEF Verdicts!InternalError, Stopped, Verdicts!Blocking
  <2> QED BY <2>1, <2>2, <2>3, CallsReturned, ExecutedStable, BrokenStable,
             InternalErrorType DEF Broken
<1>6. CASE ResolvePrerequisite
  <2>1. Current \in Verdicts!Direct(Top.check)
    BY <1>6, CurrentType DEF ResolvePrerequisite
  <2> QED BY <1>0, <1>6, <2>1, CallsPushed DEF ResolvePrerequisite
<1>7. CASE ReturnBlocked
  <2>1. PICK r \in Result : Return(r) /\ Stopped(r)
    BY <1>7, BlockedType DEF ReturnBlocked, Stopped, Verdicts!Blocking
  <2>2. stack # <<>> /\ ~ HasMore /\ UNCHANGED prerequisites
    BY <1>7 DEF ReturnBlocked
  <2>3. /\ results' = [results EXCEPT ![Top.check] = r]
        /\ Top.check \in CheckIds /\ results[Top.check] = Unresolved
    BY <2>1, <2>2, ReturnShape, TopType, AllSeen
  <2> QED BY <2>1, <2>2, <2>3, CallsReturned, ExecutedStable, BrokenStable
          DEF Broken
<1>8. CASE ReturnEvaluated
  <2>1. PICK r \in Result : Return(r)
    BY <1>8, OwnOutcomesAssumption DEF ReturnEvaluated
  <2>2. stack # <<>> /\ ~ HasMore /\ UNCHANGED prerequisites
    BY <1>8 DEF ReturnEvaluated
  <2>3. /\ results' = [results EXCEPT ![Top.check] = r]
        /\ Top.check \in CheckIds /\ results[Top.check] = Unresolved
    BY <2>1, <2>2, ReturnShape, TopType, AllSeen
  <2> QED BY <1>8, <2>1, <2>2, <2>3, CallsReturned, ExecutedStable,
             BrokenStable, EvaluatedIsSatisfied DEF Broken
<1>9. CASE FinishContract
  BY <1>0, <1>00, <1>9 DEF FinishContract
<1>10. CASE FinishRun
  BY <1>0, <1>00, <1>10 DEF FinishRun
<1>11. CASE UNCHANGED vars
  BY <1>0, <1>00, <1>11 DEF vars
<1> QED BY <1>1, <1>2, <1>3, <1>4, <1>5, <1>6, <1>7, <1>8, <1>9, <1>10,
           <1>11 DEF Next

LEMMA Invariance == Spec => []IInv
<1>1. Init /\ TypeOK => IInv
  BY DEF Init, IInv, CallsInProgress, CallsDistinct, CallsReachable,
         CallsCollected, ExecutedOnlyAfterPrerequisites, Broken,
         BrokenDependenciesNeverExecute, Cleared, Verdicts!Satisfied,
         Verdicts!Resolved, Unresolved, Verdicts!Unresolved
<1> QED BY <1>1, TypeCorrect, InvariantStep, PTL DEF Spec

(* CallsInProgress: the calls of _result_for_check in progress are         *)
(* distinct, each is a prerequisite of those below it, and each knows      *)
(* exactly which of the ids it has seen are unsafe.                        *)
THEOREM CallsInProgressHolds == Spec => []CallsInProgress
BY Invariance, PTL DEF IInv

(* ExecutedOnlyAfterPrerequisites: no check executes before every          *)
(* prerequisite it names has a result that lets it.                        *)
THEOREM ExecutedAfterPrerequisites == Spec => []ExecutedOnlyAfterPrerequisites
BY Invariance, PTL DEF IInv

(* BrokenDependenciesNeverExecute: nothing executes above a missing check  *)
(* or a cycle, however far down it is.                                     *)
THEOREM BrokenNeverExecute == Spec => []BrokenDependenciesNeverExecute
BY Invariance, PTL DEF IInv, Broken

---------------------------------------------------------------------------
(* Every step of the engine is a step of PrerequisiteVerdicts or changes   *)
(* nothing it sees.                                                        *)
LEMMA StepRefines ==
  IInv /\ [Next]_vars => [Verdicts!Next]_(Verdicts!vars)
<1> SUFFICES ASSUME IInv, [Next]_vars
             PROVE  Verdicts!Next \/ UNCHANGED Verdicts!vars
  OBVIOUS
<1> USE DEF IInv
<1>1. ASSUME stack # <<>>, NEW r \in Result, Return(r),
             results[Top.check] = Unresolved, UNCHANGED prerequisites
      PROVE  Top.check \in CheckIds /\ Verdicts!Record(Top.check, r)
  BY <1>1, ReturnShape, TopType DEF Verdicts!Record, Unresolved
<1>2. CASE DetectCycle
  <2>1. /\ stack # <<>> /\ HasMore /\ Return(Verdicts!InternalError)
        /\ UNCHANGED prerequisites /\ Current \in Active
    BY <1>2 DEF DetectCycle
  <2>2. PICK n \in Nat : n = Len(stack)
    BY DEF TypeOK
  <2>3. /\ n \in DOMAIN stack /\ Top = stack[n] /\ Top.check \in CheckIds
        /\ DOMAIN stack = 1..n
    BY <2>1, <2>2, TopType DEF TypeOK, Top
  <2>4. results[Top.check] = Unresolved
    BY <2>3 DEF CallsInProgress, CallsDistinct
  <2>5. PICK i \in DOMAIN stack : stack[i].check = Current
    BY <2>1 DEF Active
  <2>6. Current \in CheckIds
    <3>1. stack[i] \in Frame
      BY <2>3, <2>5 DEF TypeOK
    <3> QED BY <3>1, <2>5 DEF Frame
  <2>7. Current \in Verdicts!Reaches(Top.check)
    BY <2>1, CurrentType, ReachesDirect
  <2>8. i = n \/ Top.check \in Verdicts!Reaches(Current)
    BY <2>3, <2>5 DEF CallsInProgress, CallsReachable
  <2>9. Verdicts!OnCycle(Top.check)
    BY <2>3, <2>5, <2>6, <2>7, <2>8, ReachesTransitive DEF Verdicts!OnCycle
  <2>10. Verdicts!Reject(Top.check)
    BY <1>1, <2>1, <2>4, <2>9, InternalErrorType DEF Verdicts!Reject
  <2> QED BY <2>3, <2>10 DEF Verdicts!Next
<1>3. CASE ReturnBlocked
  <2> DEFINE D == Verdicts!Direct(Top.check)
             U == {id \in D : Verdicts!Unsafe(id)}
             r == [status |-> "blocked", executed |-> FALSE,
                   reason |-> Verdicts!Dominant({b.reason : b \in Top.blockers}),
                   blockedBy |-> {b.id : b \in Top.blockers}]
  <2>1. /\ stack # <<>> /\ ~ HasMore /\ Top.blockers # {} /\ Return(r)
        /\ UNCHANGED prerequisites
    BY <1>3 DEF ReturnBlocked
  <2>2. /\ \A id \in D : Verdicts!Satisfied(id) \/ Verdicts!Unsafe(id)
        /\ Top.blockers = {[id |-> id, reason |-> Verdicts!ReasonFor(id)] : id \in U}
        /\ results[Top.check] = Unresolved
    BY <2>1, AllSeen
  <2>3. \E id \in D : Verdicts!Unsafe(id)
    BY <2>1, <2>2
  <2>11. \A b \in Top.blockers :
           \E id \in U : b.id = id /\ b.reason = Verdicts!ReasonFor(id)
    BY <2>2
  <2>12. \A id \in U :
           \E b \in Top.blockers : b.id = id /\ b.reason = Verdicts!ReasonFor(id)
    <3> SUFFICES ASSUME NEW id \in U
                 PROVE  \E b \in Top.blockers :
                          b.id = id /\ b.reason = Verdicts!ReasonFor(id)
      OBVIOUS
    <3> DEFINE b0 == [id |-> id, reason |-> Verdicts!ReasonFor(id)]
    <3>1. b0 \in Top.blockers
      BY <2>2
    <3>2. b0.id = id /\ b0.reason = Verdicts!ReasonFor(id)
      OBVIOUS
    <3> QED BY <3>1, <3>2
  <2> HIDE DEF U
  <2>4. {b.reason : b \in Top.blockers} = {Verdicts!ReasonFor(id) : id \in U}
    BY <2>11, <2>12
  <2>5. {b.id : b \in Top.blockers} = U
    BY <2>11, <2>12
  <2>6. r = Verdicts!BlockedBy(U)
    BY <2>4, <2>5 DEF Verdicts!BlockedBy
  <2>7. r \in Result
    BY <2>1, BlockedType
  <2> HIDE DEF r
  <2>8. Top.check \in CheckIds /\ Verdicts!Record(Top.check, r)
    BY <1>1, <2>1, <2>2, <2>7
  <2>9. Verdicts!Block(Top.check)
    BY <2>2, <2>3, <2>6, <2>8 DEF Verdicts!Block, U
  <2> QED BY <2>8, <2>9 DEF Verdicts!Next
<1>4. CASE ReturnEvaluated
  <2>1. PICK r \in OwnOutcomes : Return(r)
    BY <1>4 DEF ReturnEvaluated
  <2>2. stack # <<>> /\ ~ HasMore /\ UNCHANGED prerequisites
    BY <1>4 DEF ReturnEvaluated
  <2>3. r \in Result
    BY OwnOutcomesAssumption
  <2>4. Top.check \in CheckIds /\ Verdicts!Record(Top.check, r)
    BY <1>1, <2>1, <2>2, <2>3, AllSeen
  <2>5. Verdicts!Evaluate(Top.check)
    BY <1>4, <2>1, <2>4, EvaluatedIsSatisfied DEF Verdicts!Evaluate
  <2> QED BY <2>4, <2>5 DEF Verdicts!Next
<1>5. CASE ~ (DetectCycle \/ ReturnBlocked \/ ReturnEvaluated)
  BY <1>5 DEF Next, vars, Verdicts!vars, CallCheck, TakeCheckResult,
             NotePrerequisite, NoteMissing, ResolvePrerequisite,
             FinishContract, FinishRun
<1> QED BY <1>2, <1>3, <1>4, <1>5

(* ImplementsVerdicts: the engine, calls, memo and all, does nothing that  *)
(* PrerequisiteVerdicts does not allow.                                    *)
THEOREM Refinement == Spec => ImplementsVerdicts
<1>1. Init => Verdicts!Init
  BY ListsAssumption DEF Init, Verdicts!Init, Unresolved
<1> QED BY <1>1, StepRefines, Invariance, PTL
        DEF Spec, ImplementsVerdicts, Verdicts!Spec
---------------------------------------------------------------------------
(* How severe a reason is: its place in the precedence.                    *)
Severity(reason) ==
  CASE reason = "prerequisite_error"          -> 1
    [] reason = "prerequisite_failed"         -> 2
    [] reason = "prerequisite_not_executable" -> 3
    [] OTHER                                  -> 4

(* The dominant reason occurs and none that occurs is more severe.         *)
LEMMA DominantIsMostSevere ==
  ASSUME NEW R \in SUBSET PrerequisiteReason, R # {}
  PROVE  /\ Verdicts!Dominant(R) \in R
         /\ \A r \in R : Severity(Verdicts!Dominant(R)) <= Severity(r)
<1> DEFINE P == Verdicts!ReasonPrecedence
           Best(i) == P[i] \in R /\ \A j \in 1..(i - 1) : P[j] \notin R
           best == CHOOSE i \in 1..4 : Best(i)
<1>1. /\ P[1] = "prerequisite_error" /\ P[2] = "prerequisite_failed"
      /\ P[3] = "prerequisite_not_executable" /\ P[4] = "prerequisite_missing"
  BY DEF Verdicts!ReasonPrecedence
<1>2. Verdicts!Dominant(R) = P[best]
  BY DEF Verdicts!Dominant
<1> HIDE DEF P
<1>3. \A r \in R : \E i \in 1..4 : r = P[i] /\ Severity(r) = i
  BY <1>1 DEF PrerequisiteReason, Severity
<1>4. \A i \in 1..4 : Severity(P[i]) = i
  BY <1>1 DEF Severity
<1>5. \E i \in 1..4 : Best(i)
  <2>1. \E i \in 1..4 : P[i] \in R
    BY <1>3
  <2> QED BY <2>1
<1>6. best \in 1..4 /\ Best(best)
  BY <1>5
<1> HIDE DEF best
<1> QED BY <1>2, <1>3, <1>4, <1>6

(* Nothing else has both.                                                  *)
LEMMA MostSevereIsDominant ==
  ASSUME NEW R \in SUBSET PrerequisiteReason, NEW m \in R,
         \A r \in R : Severity(m) <= Severity(r)
  PROVE  Verdicts!Dominant(R) = m
<1>1. Verdicts!Dominant(R) \in R
  BY DominantIsMostSevere
<1>2. Severity(Verdicts!Dominant(R)) = Severity(m)
  <2>1. /\ Severity(Verdicts!Dominant(R)) <= Severity(m)
        /\ Severity(m) <= Severity(Verdicts!Dominant(R))
    BY <1>1, DominantIsMostSevere
  <2>2. \A r : Severity(r) \in Nat
    BY DEF Severity
  <2> QED BY <2>1, <2>2
<1>3. \A r, s \in PrerequisiteReason : Severity(r) = Severity(s) => r = s
  BY DEF PrerequisiteReason, Severity
<1> QED BY <1>1, <1>2, <1>3

---------------------------------------------------------------------------
(* What the result of a check says of its prerequisites, once and for all. *)
UnsafeOf(c) == {id \in Verdicts!Direct(c) : Verdicts!Unsafe(id)}

BlockedRightly(c) ==
  results[c].status = "blocked" =>
    /\ \A id \in Verdicts!Direct(c) :
         Verdicts!Satisfied(id) \/ Verdicts!Unsafe(id)
    /\ UnsafeOf(c) # {}
    /\ results[c] = Verdicts!BlockedBy(UnsafeOf(c))

EvaluatedRightly(c) ==
  results[c].status \notin {"blocked", "error"} /\ Verdicts!Resolved(c) =>
    \A id \in Verdicts!Direct(c) : Verdicts!Satisfied(id)

(* An unsafe id that is not blocked itself.                                *)
RootCause(id) ==
  /\ Verdicts!Unsafe(id)
  /\ id \in CheckIds => results[id].status # "blocked"

(* The reason a blocked check reports is that of some root cause below it. *)
HasRootCause(c) ==
  results[c].status = "blocked" =>
    \E id \in Verdicts!Reaches(c) :
      RootCause(id) /\ Verdicts!ReasonFor(id) = results[c].reason

ResultsExplained ==
  \A c \in CheckIds : /\ BlockedRightly(c) /\ EvaluatedRightly(c)
                      /\ HasRootCause(c)

LEMMA DirectType ==
  ASSUME TypeOK, NEW c \in CheckIds
  PROVE  Verdicts!Direct(c) \in SUBSET Ids
<1>1. prerequisites[c] \in Seq(Ids)
  BY ListsAssumption DEF TypeOK
<1> QED BY <1>1 DEF Verdicts!Direct

(* A blocked result as such.                                               *)
LEMMA BlockedByShape ==
  ASSUME NEW U, U # {}
  PROVE  /\ Verdicts!BlockedBy(U).status = "blocked"
         /\ Verdicts!BlockedBy(U).reason \in PrerequisiteReason
         /\ \E id \in U : Verdicts!ReasonFor(id) = Verdicts!BlockedBy(U).reason
         /\ \A id \in U : Severity(Verdicts!BlockedBy(U).reason)
                            <= Severity(Verdicts!ReasonFor(id))
         /\ ValidResult(Verdicts!BlockedBy(U))
<1> DEFINE R == {Verdicts!ReasonFor(id) : id \in U}
<1>1. R \in SUBSET PrerequisiteReason /\ R # {}
  BY ReasonForType
<1>2. /\ Verdicts!Dominant(R) \in R
      /\ \A r \in R : Severity(Verdicts!Dominant(R)) <= Severity(r)
  BY <1>1, DominantIsMostSevere
<1>3. /\ Verdicts!BlockedBy(U).status = "blocked"
      /\ Verdicts!BlockedBy(U).reason = Verdicts!Dominant(R)
      /\ ~ Verdicts!BlockedBy(U).executed
      /\ Verdicts!BlockedBy(U).blockedBy = U
  BY DEF Verdicts!BlockedBy
<1>4. ValidResult(Verdicts!BlockedBy(U))
  <2>1. Verdicts!Dominant(R) \in PrerequisiteReason
    BY <1>1, <1>2
  <2>2. ReasonRequiresStatus(Verdicts!Dominant(R)) = "blocked"
    BY <2>1 DEF ReasonRequiresStatus, PrerequisiteReason, NotExecutableReason
  <2>3. Verdicts!Dominant(R) # NoReason
    BY <2>1 DEF PrerequisiteReason, NoReason
  <2> QED BY <1>3, <2>2, <2>3 DEF ValidResult, ExecutedOutcome,
             NonExecutedReasoned
<1> QED BY <1>1, <1>2, <1>3, <1>4

(* A step of PrerequisiteVerdicts gives one check without a result one of  *)
(* the three kinds of result.                                              *)
LEMMA StepRecords ==
  ASSUME TypeOK, Verdicts!Next
  PROVE  \E c \in CheckIds :
           \E r \in Result :
             /\ results[c] = Unresolved
             /\ results' = [results EXCEPT ![c] = r]
             /\ UNCHANGED prerequisites
             /\ ValidResult(r) /\ r # Unresolved
             /\ \/ /\ r \in OwnOutcomes
                   /\ \A id \in Verdicts!Direct(c) : Verdicts!Satisfied(id)
                \/ /\ r = Verdicts!BlockedBy(UnsafeOf(c))
                   /\ UnsafeOf(c) # {}
                   /\ \A id \in Verdicts!Direct(c) :
                        Verdicts!Satisfied(id) \/ Verdicts!Unsafe(id)
                \/ r = Verdicts!InternalError
<1>1. PICK c \in CheckIds : \/ Verdicts!Evaluate(c) \/ Verdicts!Block(c)
                            \/ Verdicts!Reject(c)
  BY DEF Verdicts!Next
<1>2. \A r \in Result : r # Unresolved
  BY DEF Result, Verdicts!Result, Unresolved, Verdicts!Unresolved,
         Verdicts!CheckStatus
<1>3. CASE Verdicts!Evaluate(c)
  <2>1. PICK r \in OwnOutcomes : Verdicts!Record(c, r)
    BY <1>3 DEF Verdicts!Evaluate
  <2>2. r \in Result /\ ValidResult(r)
    BY OwnOutcomesAssumption
  <2> QED BY <1>2, <1>3, <2>1, <2>2
          DEF Verdicts!Evaluate, Verdicts!Record, Unresolved
<1>4. CASE Verdicts!Block(c)
  <2>1. Verdicts!Record(c, Verdicts!BlockedBy(UnsafeOf(c))) /\ UnsafeOf(c) # {}
    BY <1>4 DEF Verdicts!Block, UnsafeOf
  <2>2. Verdicts!BlockedBy(UnsafeOf(c)) \in Result
    <3>1. UnsafeOf(c) \in SUBSET Ids
      BY DirectType DEF UnsafeOf
    <3>2. {Verdicts!ReasonFor(id) : id \in UnsafeOf(c)} \in SUBSET PrerequisiteReason
      BY ReasonForType
    <3> QED BY <3>1, <3>2, DominantType
            DEF Verdicts!BlockedBy, Result, Verdicts!Result,
                Verdicts!CheckStatus, Verdicts!CheckReason,
                Verdicts!PrerequisiteReason, PrerequisiteReason
  <2>3. ValidResult(Verdicts!BlockedBy(UnsafeOf(c)))
    BY <2>1, BlockedByShape
  <2> QED BY <1>2, <1>4, <2>1, <2>2, <2>3
          DEF Verdicts!Block, Verdicts!Record, Unresolved
<1>5. CASE Verdicts!Reject(c)
  <2>1. ValidResult(Verdicts!InternalError)
    BY DEF Verdicts!InternalError, ValidResult, ExecutedOutcome,
           NonExecutedReasoned, NoReason, Verdicts!NoReason
  <2> QED BY <1>2, <1>5, <2>1, InternalErrorType
          DEF Verdicts!Reject, Verdicts!Record, Unresolved
<1> QED BY <1>1, <1>3, <1>4, <1>5

(* What a step leaves of the verdicts known before it.                     *)
LEMMA RecordKeeps ==
  ASSUME TypeOK, NEW c \in CheckIds, results[c] = Unresolved, NEW r \in Result,
         results' = [results EXCEPT ![c] = r], UNCHANGED prerequisites
  PROVE  /\ \A d : /\ Verdicts!Direct(d)' = Verdicts!Direct(d)
                   /\ Verdicts!Reaches(d)' = Verdicts!Reaches(d)
         /\ results'[c] = r
         /\ \A d \in CheckIds \ {c} : results'[d] = results[d]
         /\ \A id : Verdicts!Satisfied(id) => Verdicts!Satisfied(id)'
         /\ \A id : Verdicts!Unsafe(id) =>
                      /\ Verdicts!Unsafe(id)'
                      /\ Verdicts!ReasonFor(id)' = Verdicts!ReasonFor(id)
         /\ \A id : RootCause(id) =>
                      /\ RootCause(id)'
                      /\ Verdicts!ReasonFor(id)' = Verdicts!ReasonFor(id)
<1>1. \A d : /\ Verdicts!Direct(d)' = Verdicts!Direct(d)
             /\ Verdicts!Reaches(d)' = Verdicts!Reaches(d)
  BY ReachesStable DEF Verdicts!Direct
<1>2. results'[c] = r /\ \A d \in CheckIds \ {c} : results'[d] = results[d]
  BY DEF TypeOK
<1>3. ASSUME NEW id, RootCause(id)
      PROVE  /\ RootCause(id)'
             /\ Verdicts!ReasonFor(id)' = Verdicts!ReasonFor(id)
  <2>1. id \in CheckIds => id # c
    BY <1>3 DEF RootCause, Verdicts!Unsafe, Verdicts!Resolved, Unresolved
  <2> QED BY <1>2, <1>3, <2>1, VerdictStable DEF RootCause
<1> QED BY <1>1, <1>2, <1>3, VerdictStable

(* A check whose prerequisites all have a known verdict keeps the same     *)
(* unsafe ones, and so the result that names them.                         *)
LEMMA UnsafeOfKept ==
  ASSUME TypeOK, NEW c \in CheckIds, results[c] = Unresolved, NEW r \in Result,
         results' = [results EXCEPT ![c] = r], UNCHANGED prerequisites,
         NEW d, \A id \in Verdicts!Direct(d) :
                  Verdicts!Satisfied(id) \/ Verdicts!Unsafe(id)
  PROVE  /\ UnsafeOf(d)' = UnsafeOf(d)
         /\ Verdicts!BlockedBy(UnsafeOf(d))' = Verdicts!BlockedBy(UnsafeOf(d))
<1>1. Verdicts!Direct(d)' = Verdicts!Direct(d)
  BY DEF Verdicts!Direct
<1>2. \A id \in Verdicts!Direct(d) :
        /\ Verdicts!Unsafe(id)' = Verdicts!Unsafe(id)
        /\ Verdicts!ReasonFor(id)' = Verdicts!ReasonFor(id)
  BY VerdictStable
<1>3. UnsafeOf(d)' = UnsafeOf(d)
  BY <1>1, <1>2 DEF UnsafeOf
<1>4. {Verdicts!ReasonFor(id)' : id \in UnsafeOf(d)'}
        = {Verdicts!ReasonFor(id) : id \in UnsafeOf(d)}
  BY <1>2, <1>3 DEF UnsafeOf
<1> QED BY <1>3, <1>4 DEF Verdicts!BlockedBy

LEMMA BlockedIsCaused ==
  ASSUME TypeOK, ResultsExplained, NEW c \in CheckIds, UnsafeOf(c) # {}
  PROVE  \E id \in Verdicts!Reaches(c) :
           /\ RootCause(id)
           /\ Verdicts!ReasonFor(id) = Verdicts!BlockedBy(UnsafeOf(c)).reason
<1>1. PICK id \in UnsafeOf(c) :
        Verdicts!ReasonFor(id) = Verdicts!BlockedBy(UnsafeOf(c)).reason
  BY BlockedByShape
<1>2. id \in Verdicts!Reaches(c) /\ Verdicts!Unsafe(id)
  BY <1>1, DirectType, ReachesDirect DEF UnsafeOf
<1>3. CASE RootCause(id)
  BY <1>1, <1>2, <1>3
<1>4. CASE ~ RootCause(id)
  <2>1. id \in CheckIds /\ results[id].status = "blocked"
    BY <1>2, <1>4 DEF RootCause
  <2>2. PICK root \in Verdicts!Reaches(id) :
          RootCause(root) /\ Verdicts!ReasonFor(root) = results[id].reason
    BY <2>1 DEF ResultsExplained, HasRootCause
  <2>3. Verdicts!ReasonFor(id) = results[id].reason
    <3>1. results[id].reason \in PrerequisiteReason
      BY <2>1, BlockedByShape DEF ResultsExplained, BlockedRightly
    <3> QED BY <2>1, <3>1
            DEF Verdicts!ReasonFor, Verdicts!PrerequisiteReason, PrerequisiteReason
  <2>4. root \in Verdicts!Reaches(c)
    BY <1>2, <2>1, <2>2, ReachesTransitive
  <2> QED BY <1>1, <2>2, <2>3, <2>4
<1> QED BY <1>3, <1>4

LEMMA ExplainedStep ==
  ASSUME TypeOK, ResultsExplained, Verdicts!Next
  PROVE  ResultsExplained'
<1>1. PICK c \in CheckIds, r \in Result :
        /\ results[c] = Unresolved
        /\ results' = [results EXCEPT ![c] = r]
        /\ UNCHANGED prerequisites
        /\ \/ /\ r \in OwnOutcomes
              /\ \A id \in Verdicts!Direct(c) : Verdicts!Satisfied(id)
           \/ /\ r = Verdicts!BlockedBy(UnsafeOf(c))
              /\ UnsafeOf(c) # {}
              /\ \A id \in Verdicts!Direct(c) :
                   Verdicts!Satisfied(id) \/ Verdicts!Unsafe(id)
           \/ r = Verdicts!InternalError
  BY StepRecords
<1>0. /\ \A d : /\ Verdicts!Direct(d)' = Verdicts!Direct(d)
                /\ Verdicts!Reaches(d)' = Verdicts!Reaches(d)
      /\ results'[c] = r
      /\ \A d \in CheckIds \ {c} : results'[d] = results[d]
      /\ \A id : Verdicts!Satisfied(id) => Verdicts!Satisfied(id)'
      /\ \A id : Verdicts!Unsafe(id) => Verdicts!Unsafe(id)'
      /\ \A id : RootCause(id) =>
                   /\ RootCause(id)'
                   /\ Verdicts!ReasonFor(id)' = Verdicts!ReasonFor(id)
  BY <1>1, RecordKeeps
<1> SUFFICES ASSUME NEW d \in CheckIds
             PROVE  /\ BlockedRightly(d)' /\ EvaluatedRightly(d)'
                    /\ HasRootCause(d)'
  BY DEF ResultsExplained
<1>2. CASE d # c
  <2>1. results'[d] = results[d]
    BY <1>0, <1>2
  <2>2. BlockedRightly(d) /\ EvaluatedRightly(d) /\ HasRootCause(d)
    BY DEF ResultsExplained
  <2>3. BlockedRightly(d)'
    BY <1>0, <1>1, <2>1, <2>2, UnsafeOfKept DEF BlockedRightly
  <2>4. EvaluatedRightly(d)'
    BY <1>0, <2>1, <2>2 DEF EvaluatedRightly, Verdicts!Resolved
  <2>5. HasRootCause(d)'
    <3> SUFFICES ASSUME results[d].status = "blocked"
                 PROVE  \E id \in Verdicts!Reaches(d)' :
                          /\ RootCause(id)'
                          /\ Verdicts!ReasonFor(id)' = results[d].reason
      BY <2>1 DEF HasRootCause
    <3>1. PICK id \in Verdicts!Reaches(d) :
            RootCause(id) /\ Verdicts!ReasonFor(id) = results[d].reason
      BY <2>2 DEF HasRootCause
    <3> QED BY <1>0, <3>1
  <2> QED BY <2>3, <2>4, <2>5
<1>3. CASE d = c
  <2>1. results'[c] = r
    BY <1>0
  <2>2. CASE r \in OwnOutcomes /\ \A id \in Verdicts!Direct(c) : Verdicts!Satisfied(id)
    <3>1. r.status # "blocked"
      BY <2>2, OwnOutcomesAssumption
    <3> QED BY <1>0, <1>3, <2>1, <2>2, <3>1
            DEF BlockedRightly, EvaluatedRightly, HasRootCause
  <2>3. CASE /\ r = Verdicts!BlockedBy(UnsafeOf(c)) /\ UnsafeOf(c) # {}
             /\ \A id \in Verdicts!Direct(c) :
                  Verdicts!Satisfied(id) \/ Verdicts!Unsafe(id)
    <3>1. r.status = "blocked"
      BY <2>3, BlockedByShape
    <3>2. BlockedRightly(c)'
      BY <1>0, <1>1, <2>1, <2>3, UnsafeOfKept DEF BlockedRightly
    <3>3. EvaluatedRightly(c)'
      BY <2>1, <3>1 DEF EvaluatedRightly
    <3>4. HasRootCause(c)'
      <4>1. PICK id \in Verdicts!Reaches(c) :
              RootCause(id) /\ Verdicts!ReasonFor(id) = r.reason
        BY <2>3, BlockedIsCaused
      <4> QED BY <1>0, <2>1, <4>1 DEF HasRootCause
    <3> QED BY <1>3, <3>2, <3>3, <3>4
  <2>4. CASE r = Verdicts!InternalError
    <3>1. r.status = "error"
      BY <2>4 DEF Verdicts!InternalError
    <3> QED BY <1>3, <2>1, <3>1
            DEF BlockedRightly, EvaluatedRightly, HasRootCause
  <2> QED BY <1>1, <2>2, <2>3, <2>4
<1> QED BY <1>2, <1>3

LEMMA Explained == Spec => []ResultsExplained
<1>1. Init => ResultsExplained
  BY DEF Init, ResultsExplained, BlockedRightly, EvaluatedRightly,
         HasRootCause, Unresolved, Verdicts!Unresolved, Verdicts!Resolved
<1>2. IInv /\ ResultsExplained /\ [Next]_vars => ResultsExplained'
  <2> SUFFICES ASSUME IInv, ResultsExplained, [Next]_vars
               PROVE  ResultsExplained'
    OBVIOUS
  <2>1. CASE Verdicts!Next
    BY <2>1, ExplainedStep DEF IInv
  <2>2. CASE UNCHANGED <<prerequisites, results>>
    <3>1. \A d : /\ Verdicts!Direct(d)' = Verdicts!Direct(d)
                 /\ Verdicts!Reaches(d)' = Verdicts!Reaches(d)
                 /\ Verdicts!Resolved(d)' = Verdicts!Resolved(d)
                 /\ RootCause(d)' = RootCause(d)
                 /\ UnsafeOf(d)' = UnsafeOf(d)
      BY <2>2, ReachesStable, VerdictUnchanged
         DEF Verdicts!Direct, RootCause, UnsafeOf, Verdicts!Resolved
    <3>2. \A U : Verdicts!BlockedBy(U)' = Verdicts!BlockedBy(U)
      BY <2>2, VerdictUnchanged DEF Verdicts!BlockedBy
    <3> QED BY <2>2, <3>1, <3>2, VerdictUnchanged
            DEF ResultsExplained, BlockedRightly, EvaluatedRightly, HasRootCause
  <2> QED BY <2>1, <2>2, StepRefines DEF Verdicts!vars
<1> QED BY <1>1, <1>2, Invariance, PTL DEF Spec

(* Nothing below a blocked check is worse than the reason it reports: an   *)
(* error outranks everything; short of an error all prerequisites of all   *)
(* checks below are known, and the reasons were handed up.                 *)
LEMMA NothingWorseBelow ==
  ASSUME TypeOK, ResultsExplained, NEW c \in CheckIds,
         results[c].status = "blocked",
         NEW root \in Verdicts!Reaches(c), RootCause(root)
  PROVE  Severity(results[c].reason) <= Severity(Verdicts!ReasonFor(root))
<1> DEFINE worst == Severity(results[c].reason)
           Bearable(id) == Verdicts!Unsafe(id) =>
                             worst <= Severity(Verdicts!ReasonFor(id))
           S == {id \in Ids : /\ Verdicts!Satisfied(id) \/ Verdicts!Unsafe(id)
                              /\ Bearable(id)}
<1>1. \A r : Severity(r) \in Nat \ {0}
  BY DEF Severity
<1>2. CASE worst = 1
  BY <1>1, <1>2
<1>3. CASE worst # 1
  <2>1. \A d \in CheckIds :
          results[d].status = "blocked" /\ worst <= Severity(results[d].reason)
            => Verdicts!Direct(d) \subseteq S
    <3> SUFFICES ASSUME NEW d \in CheckIds, results[d].status = "blocked",
                        worst <= Severity(results[d].reason),
                        NEW id \in Verdicts!Direct(d)
                 PROVE  id \in S
      OBVIOUS
    <3>1. /\ Verdicts!Satisfied(id) \/ Verdicts!Unsafe(id)
          /\ UnsafeOf(d) # {} /\ results[d] = Verdicts!BlockedBy(UnsafeOf(d))
      BY DEF ResultsExplained, BlockedRightly
    <3>2. Verdicts!Unsafe(id) =>
            Severity(results[d].reason) <= Severity(Verdicts!ReasonFor(id))
      BY <3>1, BlockedByShape DEF UnsafeOf
    <3>3. id \in Ids
      BY DirectType
    <3> QED BY <1>1, <3>1, <3>2, <3>3
  <2>2. \A d \in CheckIds :
          Verdicts!Resolved(d) /\ results[d].status \notin {"blocked", "error"}
            => Verdicts!Direct(d) \subseteq S
    <3> SUFFICES ASSUME NEW d \in CheckIds, Verdicts!Resolved(d),
                        results[d].status \notin {"blocked", "error"},
                        NEW id \in Verdicts!Direct(d)
                 PROVE  id \in S
      OBVIOUS
    <3>1. Verdicts!Satisfied(id)
      BY DEF ResultsExplained, EvaluatedRightly
    <3>2. id \in Ids
      BY DirectType
    <3> QED BY <3>1, <3>2, UnsafeNotSatisfied
  <2>3. ASSUME NEW d \in S, d \in CheckIds
        PROVE  Verdicts!Direct(d) \subseteq S
    <3>1. Verdicts!Resolved(d)
      BY <2>3 DEF Verdicts!Satisfied, Verdicts!Unsafe
    <3>2. CASE results[d].status \notin {"blocked", "error"}
      BY <2>2, <2>3, <3>1, <3>2
    <3>3. CASE results[d].status = "error"
      <4>1. /\ Verdicts!Unsafe(d)
            /\ Verdicts!ReasonFor(d) = "prerequisite_error"
        BY <2>3, <3>1, <3>3
           DEF Verdicts!Unsafe, Verdicts!Blocking, Verdicts!ReasonFor
      <4>2. worst <= 1
        BY <4>1 DEF Severity
      <4> QED BY <1>1, <1>3, <4>2
    <3>4. CASE results[d].status = "blocked"
      <4>1. /\ UnsafeOf(d) # {} /\ results[d] = Verdicts!BlockedBy(UnsafeOf(d))
        BY <2>3, <3>4 DEF ResultsExplained, BlockedRightly
      <4>2. results[d].reason \in PrerequisiteReason
        BY <4>1, BlockedByShape
      <4>3. Verdicts!Unsafe(d) /\ Verdicts!ReasonFor(d) = results[d].reason
        BY <2>3, <3>1, <3>4, <4>2
           DEF Verdicts!Unsafe, Verdicts!Blocking, Verdicts!ReasonFor,
               Verdicts!PrerequisiteReason, PrerequisiteReason
      <4> QED BY <2>1, <2>3, <3>4, <4>3
    <3> QED BY <3>2, <3>3, <3>4
  <2> HIDE DEF S
  <2>4. S \in SUBSET Ids /\ Verdicts!Closed(S)
    BY <2>3 DEF Verdicts!Closed, S
  <2>5. Verdicts!Direct(c) \subseteq S
    BY <1>1, <2>1
  <2>6. root \in S
    BY <2>4, <2>5 DEF Verdicts!Reaches
  <2> QED BY <2>6 DEF S, RootCause
<1> QED BY <1>2, <1>3

(* BlockedForDominantRootCause: the reason of a blocked check is the       *)
(* dominant one of the root causes below it, however many blocked checks   *)
(* lie between (_blocked_prerequisite_reason, prerequisites.py).           *)
THEOREM RootCausesAreReported == Spec => []BlockedForDominantRootCause
<1>1. IInv /\ ResultsExplained => BlockedForDominantRootCause
  <2> SUFFICES ASSUME IInv, ResultsExplained, NEW c \in CheckIds,
                      results[c].status = "blocked"
               PROVE  results[c].reason = Verdicts!Dominant(
                        {Verdicts!ReasonFor(id) :
                           id \in {d \in Verdicts!Reaches(c) :
                                    /\ Verdicts!Unsafe(d)
                                    /\ d \in CheckIds =>
                                         results[d].status # "blocked"}})
    BY DEF BlockedForDominantRootCause
  <2> DEFINE roots == {d \in Verdicts!Reaches(c) :
                         /\ Verdicts!Unsafe(d)
                         /\ d \in CheckIds => results[d].status # "blocked"}
             R == {Verdicts!ReasonFor(id) : id \in roots}
  <2>1. \A id : id \in roots <=> id \in Verdicts!Reaches(c) /\ RootCause(id)
    BY DEF RootCause
  <2> HIDE DEF roots
  <2>2. R \in SUBSET PrerequisiteReason
    BY ReasonForType
  <2>3. results[c].reason \in R
    <3>1. PICK id \in Verdicts!Reaches(c) :
            RootCause(id) /\ Verdicts!ReasonFor(id) = results[c].reason
      BY DEF ResultsExplained, HasRootCause
    <3> QED BY <2>1, <3>1
  <2>4. \A r \in R : Severity(results[c].reason) <= Severity(r)
    BY <2>1, NothingWorseBelow DEF IInv
  <2>5. results[c].reason = Verdicts!Dominant(R)
    BY <2>2, <2>3, <2>4, MostSevereIsDominant
  <2> QED BY <2>5 DEF roots
<1> QED BY <1>1, Invariance, Explained, PTL

(* ResultsValid: every result passes the checks of CheckResult, whichever  *)
(* way it came about.                                                      *)
THEOREM ResultsAreValid == Spec => []ResultsValid
<1>1. Init => ResultsValid
  BY DEF Init, ResultsValid, Resolved, Verdicts!Resolved, Unresolved
<1>2. IInv /\ ResultsValid /\ [Next]_vars => ResultsValid'
  <2> SUFFICES ASSUME IInv, ResultsValid, [Next]_vars
               PROVE  ResultsValid'
    OBVIOUS
  <2>1. CASE Verdicts!Next
    <3>1. PICK c \in CheckIds, r \in Result :
            /\ results' = [results EXCEPT ![c] = r]
            /\ ValidResult(r)
      BY <2>1, StepRecords DEF IInv
    <3>2. results'[c] = r /\ \A d \in CheckIds \ {c} : results'[d] = results[d]
      BY <3>1 DEF IInv, TypeOK
    <3> QED BY <3>1, <3>2 DEF ResultsValid, Resolved, Verdicts!Resolved
  <2>2. CASE UNCHANGED results
    BY <2>2 DEF ResultsValid, Resolved, Verdicts!Resolved
  <2> QED BY <2>1, <2>2, StepRefines DEF Verdicts!vars
<1> QED BY <1>1, <1>2, Invariance, PTL DEF Spec

---------------------------------------------------------------------------
(* The aggregate of a set of statuses is the first of the precedence that  *)
(* occurs in it, and no_checks when none does (_aggregate_statuses).       *)
LEMMA AggregateIsFirst ==
  ASSUME NEW S
  PROVE  /\ (\A i \in 1..7 : Precedence[i] \notin S) =>
              AggregateStatuses(S) = "no_checks"
         /\ \A k \in 1..7 :
              /\ Precedence[k] \in S
              /\ \A i \in 1..7 : Precedence[i] \in S => k <= i
              => AggregateStatuses(S) = Precedence[k]
         /\ \/ AggregateStatuses(S) = "no_checks"
            \/ AggregateStatuses(S) \in S
<1> DEFINE present == {i \in 1..7 : Precedence[i] \in S}
           first == CHOOSE i \in present : \A j \in present : i <= j
<1>1. AggregateStatuses(S) = IF present = {} THEN "no_checks" ELSE Precedence[first]
  BY DEF AggregateStatuses
<1>2. ASSUME present # {}
      PROVE  first \in present /\ \A j \in present : first <= j
  <2>1. \E i \in present : \A j \in present : i <= j
    BY <1>2
  <2> QED BY <2>1
<1>3. ASSUME NEW k \in 1..7, Precedence[k] \in S,
             \A i \in 1..7 : Precedence[i] \in S => k <= i
      PROVE  AggregateStatuses(S) = Precedence[k]
  <2>1. k \in present /\ \A j \in present : k <= j
    BY <1>3
  <2>2. first \in present /\ \A j \in present : first <= j
    BY <1>2, <2>1
  <2> HIDE DEF first
  <2>3. first = k
    BY <2>1, <2>2
  <2> QED BY <1>1, <2>1, <2>3
<1> HIDE DEF first
<1> QED BY <1>1, <1>2, <1>3

LEMMA NoChecksHasNoPrecedence == \A i \in 1..7 : Precedence[i] # "no_checks"
BY DEF Precedence

(* Aggregating part by part gives what aggregating everything gives, empty *)
(* parts included.                                                         *)
LEMMA AggregateOfParts ==
  ASSUME NEW parts, NEW D
  PROVE  AggregateStatuses({AggregateStatuses(parts[a]) : a \in D})
           = AggregateStatuses(UNION {parts[a] : a \in D})
<1> DEFINE whole == UNION {parts[a] : a \in D}
           aggregates == {AggregateStatuses(parts[a]) : a \in D}
           Occurs(i) == Precedence[i] \in whole
<1>1. \A i \in 1..7 : Precedence[i] \in aggregates => Occurs(i)
  <2> SUFFICES ASSUME NEW i \in 1..7, NEW a \in D,
                      Precedence[i] = AggregateStatuses(parts[a])
               PROVE  Precedence[i] \in whole
    OBVIOUS
  <2> QED BY AggregateIsFirst, NoChecksHasNoPrecedence
<1>2. CASE \A i \in 1..7 : ~ Occurs(i)
  BY <1>1, <1>2, AggregateIsFirst
<1>3. CASE \E i \in 1..7 : Occurs(i)
  <2>1. PICK k \in 1..7 : Occurs(k) /\ \A i \in 1..7 : Occurs(i) => k <= i
    <3> HIDE DEF Occurs
    <3> QED BY <1>3
  <2>2. PICK a \in D : Precedence[k] \in parts[a]
    BY <2>1
  <2>3. \A i \in 1..7 : Precedence[i] \in parts[a] => Occurs(i)
    OBVIOUS
  <2>4. AggregateStatuses(parts[a]) = Precedence[k]
    BY <2>1, <2>2, <2>3, AggregateIsFirst
  <2>5. /\ Precedence[k] \in aggregates
        /\ \A i \in 1..7 : Precedence[i] \in aggregates => k <= i
    BY <1>1, <2>1, <2>4
  <2>6. AggregateStatuses(aggregates) = Precedence[k]
    BY <2>5, AggregateIsFirst
  <2>7. AggregateStatuses(whole) = Precedence[k]
    BY <2>1, AggregateIsFirst
  <2> QED BY <2>6, <2>7
<1> QED BY <1>2, <1>3

---------------------------------------------------------------------------
(* The contract results built so far, the results they were built from,    *)
(* and the results the artifact at hand already has.                       *)
StatusesOf(a) == {results[Artifacts[a][i]].status : i \in DOMAIN Artifacts[a]}

Finished(a) == \A i \in DOMAIN Artifacts[a] : results[Artifacts[a][i]] # Unresolved

ContractsBuilt ==
  /\ Len(contractStatus) = artifact - 1
  /\ \A a \in 1..(artifact - 1) :
       Finished(a) /\ contractStatus[a] = AggregateStatuses(StatusesOf(a))
  /\ artifact <= Len(Artifacts) =>
       /\ runStatus = "none"
       /\ \A i \in DOMAIN Artifacts[artifact] :
            i < position => results[Artifacts[artifact][i]] # Unresolved

BuiltInv == ContractsBuilt /\ RunStatusIsFlatAggregate

AllStatuses ==
  {results[c].status : c \in UNION {{Artifacts[a][i] : i \in DOMAIN Artifacts[a]} :
                                     a \in DOMAIN Artifacts}}

(* A result, once there, stays.                                            *)
LEMMA ResultsStay ==
  ASSUME IInv, [Next]_vars, NEW c \in CheckIds, results[c] # Unresolved
  PROVE  results'[c] = results[c]
<1>1. CASE Verdicts!Next
  <2>1. PICK d \in CheckIds, r \in Result :
          results[d] = Unresolved /\ results' = [results EXCEPT ![d] = r]
    BY <1>1, StepRecords DEF IInv
  <2> QED BY <2>1 DEF IInv, TypeOK
<1> QED BY <1>1, StepRefines DEF Verdicts!vars

LEMMA ArtifactType ==
  ASSUME NEW a \in DOMAIN Artifacts, NEW i \in DOMAIN Artifacts[a]
  PROVE  Artifacts[a][i] \in CheckIds
BY ArtifactsAssumption

LEMMA FinishedStays ==
  ASSUME IInv, [Next]_vars, NEW a \in DOMAIN Artifacts, Finished(a)
  PROVE  Finished(a)' /\ StatusesOf(a)' = StatusesOf(a)
<1>1. \A i \in DOMAIN Artifacts[a] :
        results'[Artifacts[a][i]] = results[Artifacts[a][i]]
  BY ArtifactType, ResultsStay DEF Finished
<1>2. Unresolved' = Unresolved
  BY DEF Unresolved, Verdicts!Unresolved
<1> QED BY <1>1, <1>2 DEF Finished, StatusesOf

LEMMA AllIsUnion ==
  AllStatuses = UNION {[b \in DOMAIN Artifacts |-> StatusesOf(b)][a] :
                         a \in DOMAIN Artifacts}
BY DEF AllStatuses, StatusesOf

LEMMA LengthsType ==
  ASSUME TypeOK
  PROVE  /\ Len(Artifacts) \in Nat /\ DOMAIN Artifacts = 1..Len(Artifacts)
         /\ artifact \in 1..(Len(Artifacts) + 1)
         /\ Len(contractStatus) \in Nat
         /\ DOMAIN contractStatus = 1..Len(contractStatus)
         /\ \A a \in DOMAIN Artifacts :
              Len(Artifacts[a]) \in Nat /\ DOMAIN Artifacts[a] = 1..Len(Artifacts[a])
BY ArtifactsAssumption DEF TypeOK

(* Once the run has a status, every check of every contract has a result.  *)
LEMMA AllStatusesStay ==
  ASSUME IInv, ContractsBuilt, [Next]_vars, artifact > Len(Artifacts)
  PROVE  AllStatuses' = AllStatuses
<1>1. \A a \in DOMAIN Artifacts : Finished(a)
  BY LengthsType DEF ContractsBuilt, IInv
<1>2. \A a \in DOMAIN Artifacts : StatusesOf(a)' = StatusesOf(a)
  BY <1>1, FinishedStays
<1>3. AllStatuses = UNION {StatusesOf(a) : a \in DOMAIN Artifacts}
  BY DEF AllStatuses, StatusesOf
<1>4. AllStatuses' = UNION {StatusesOf(a)' : a \in DOMAIN Artifacts}
  BY DEF AllStatuses, StatusesOf
<1> QED BY <1>2, <1>3, <1>4

(* What was built stays true while nothing is added to it.                 *)
LEMMA BuiltStays ==
  ASSUME IInv, ContractsBuilt, [Next]_vars,
         UNCHANGED <<artifact, contractStatus, runStatus>>,
         artifact <= Len(Artifacts) =>
           \A i \in DOMAIN Artifacts[artifact] :
             i < position' => results[Artifacts[artifact][i]] # Unresolved
  PROVE  ContractsBuilt'
<1>1. \A a \in 1..(artifact - 1) : a \in DOMAIN Artifacts
  BY LengthsType DEF IInv
<1>2. \A a \in 1..(artifact - 1) :
        Finished(a)' /\ contractStatus[a] = AggregateStatuses(StatusesOf(a)')
  BY <1>1, FinishedStays DEF ContractsBuilt
<1>3. ASSUME artifact <= Len(Artifacts), NEW i \in DOMAIN Artifacts[artifact],
             i < position'
      PROVE  results'[Artifacts[artifact][i]] # Unresolved
  <2>1. artifact \in DOMAIN Artifacts
    BY <1>3, LengthsType DEF IInv
  <2>2. results[Artifacts[artifact][i]] # Unresolved
    BY <1>3
  <2> QED BY <2>1, <2>2, ArtifactType, ResultsStay
<1>4. Unresolved' = Unresolved
  BY DEF Unresolved, Verdicts!Unresolved
<1> QED BY <1>2, <1>3, <1>4 DEF ContractsBuilt

LEMMA BuiltStep == IInv /\ BuiltInv /\ [Next]_vars => BuiltInv'
<1> SUFFICES ASSUME IInv, ContractsBuilt, RunStatusIsFlatAggregate, [Next]_vars
             PROVE  ContractsBuilt' /\ RunStatusIsFlatAggregate'
  BY DEF BuiltInv
<1>0. ASSUME UNCHANGED runStatus
      PROVE  RunStatusIsFlatAggregate'
  <2> SUFFICES ASSUME runStatus # "none"
               PROVE  runStatus = AggregateStatuses(AllStatuses')
    BY <1>0 DEF RunStatusIsFlatAggregate, AllStatuses
  <2>1. artifact > Len(Artifacts)
    BY LengthsType DEF ContractsBuilt, IInv
  <2> QED BY <2>1, AllStatusesStay DEF RunStatusIsFlatAggregate, AllStatuses
<1>1. CASE TakeCheckResult
  <2>1. \A i \in DOMAIN Artifacts[artifact] :
          i < position + 1 => i < position \/ i = position
    BY <1>1, LengthsType DEF IInv, TypeOK, TakeCheckResult, AtCheck
  <2>2. artifact <= Len(Artifacts) =>
          \A i \in DOMAIN Artifacts[artifact] :
            i < position' => results[Artifacts[artifact][i]] # Unresolved
    BY <1>1, <2>1 DEF TakeCheckResult, ContractsBuilt
  <2> QED BY <1>0, <1>1, <2>2, BuiltStays DEF TakeCheckResult
<1>2. CASE FinishContract
  <2>1. /\ artifact \in DOMAIN Artifacts /\ artifact <= Len(Artifacts)
        /\ artifact \in Nat \ {0}
        /\ position > Len(Artifacts[artifact]) /\ position \in Nat
        /\ artifact' = artifact + 1 /\ position' = 1
        /\ contractStatus' = Append(contractStatus,
                                    AggregateStatuses(StatusesOf(artifact)))
        /\ UNCHANGED <<results, runStatus>>
    BY <1>2, LengthsType DEF FinishContract, StatusesOf, IInv, TypeOK
  <2>2. Finished(artifact)
    BY <2>1, LengthsType DEF ContractsBuilt, Finished, IInv
  <2>3. \A a \in 1..artifact : Finished(a)' /\ StatusesOf(a)' = StatusesOf(a)
    <3>1. \A a \in 1..artifact : a \in DOMAIN Artifacts
      BY <2>1, LengthsType DEF IInv
    <3>2. \A a \in 1..artifact : a \in 1..(artifact - 1) \/ a = artifact
      BY <2>1
    <3> QED BY <2>2, <3>1, <3>2, FinishedStays DEF ContractsBuilt
  <2>4. /\ Len(contractStatus') = artifact
        /\ \A a \in 1..(artifact - 1) : contractStatus'[a] = contractStatus[a]
        /\ contractStatus'[artifact] = AggregateStatuses(StatusesOf(artifact))
    BY <2>1 DEF ContractsBuilt, IInv, TypeOK
  <2>5. \A a \in 1..artifact : contractStatus'[a] = AggregateStatuses(StatusesOf(a)')
    BY <2>1, <2>3, <2>4 DEF ContractsBuilt
  <2>6. artifact' <= Len(Artifacts) => runStatus' = "none"
    BY <2>1 DEF ContractsBuilt
  <2>7. \A i \in DOMAIN Artifacts[artifact'] : artifact' <= Len(Artifacts) => ~ i < position'
    BY <2>1, LengthsType DEF IInv
  <2>8. ContractsBuilt'
    BY <2>1, <2>3, <2>4, <2>5, <2>6, <2>7 DEF ContractsBuilt
  <2> QED BY <1>0, <2>1, <2>8
<1>3. CASE FinishRun
  <2> DEFINE parts == [a \in DOMAIN Artifacts |-> StatusesOf(a)]
  <2>1. /\ artifact > Len(Artifacts)
        /\ runStatus' = AggregateStatuses({contractStatus[i] :
                                             i \in DOMAIN contractStatus})
        /\ UNCHANGED <<prerequisites, results, stack, artifact, position,
                       contractStatus>>
    BY <1>3 DEF FinishRun
  <2>2. DOMAIN contractStatus = DOMAIN Artifacts
    BY <2>1, LengthsType DEF ContractsBuilt, IInv
  <2>3. \A a \in DOMAIN Artifacts : contractStatus[a] = AggregateStatuses(parts[a])
    BY <2>1, LengthsType DEF ContractsBuilt, IInv
  <2>4. runStatus' = AggregateStatuses({AggregateStatuses(parts[a]) :
                                          a \in DOMAIN Artifacts})
    BY <2>1, <2>2, <2>3
  <2>5. runStatus' = AggregateStatuses(AllStatuses)
    <3>1. AllStatuses = UNION {parts[a] : a \in DOMAIN Artifacts}
      BY AllIsUnion
    <3> HIDE DEF parts
    <3>2. AggregateStatuses({AggregateStatuses(parts[a]) : a \in DOMAIN Artifacts})
            = AggregateStatuses(UNION {parts[a] : a \in DOMAIN Artifacts})
      BY Zenon, AggregateOfParts
    <3> QED BY <2>4, <3>1, <3>2
  <2>6. RunStatusIsFlatAggregate'
    BY <2>1, <2>5 DEF RunStatusIsFlatAggregate, AllStatuses
  <2>7. ContractsBuilt'
    <3>1. \A a \in 1..(artifact - 1) : Finished(a)' /\ StatusesOf(a)' = StatusesOf(a)
      <4>1. \A a \in 1..(artifact - 1) : a \in DOMAIN Artifacts
        BY LengthsType DEF IInv
      <4> QED BY <4>1, FinishedStays DEF ContractsBuilt
    <3>2. ~ artifact <= Len(Artifacts)
      BY <2>1, LengthsType DEF IInv
    <3> QED BY <2>1, <3>1, <3>2 DEF ContractsBuilt
  <2> QED BY <2>6, <2>7
<1>4. CASE UNCHANGED Outer
  <2>1. UNCHANGED <<artifact, position, contractStatus, runStatus>>
    BY <1>4 DEF Outer
  <2> QED BY <1>0, <2>1, BuiltStays DEF ContractsBuilt
<1> QED BY <1>1, <1>2, <1>3, <1>4 DEF Next, vars, Outer, CallCheck,
           NotePrerequisite, NoteMissing, DetectCycle, ResolvePrerequisite,
           ReturnBlocked, ReturnEvaluated

(* RunStatusIsFlatAggregate: the status of the run is the aggregate of the *)
(* statuses of all checks, however they are spread over contracts          *)
(* (ContractResult.from_check_results, RunResult.from_contract_results).   *)
THEOREM RunStatusIsFlat == Spec => []RunStatusIsFlatAggregate
<1>1. Init => BuiltInv
  BY LengthsType DEF Init, BuiltInv, ContractsBuilt, RunStatusIsFlatAggregate
<1> QED BY <1>1, BuiltStep, Invariance, PTL DEF Spec, BuiltInv
===========================================================================
