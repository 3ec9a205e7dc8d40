-------------------------- MODULE RenderSqlProofs --------------------------
(***************************************************************************)
(* For all connections, profiles and compiled projects, and whatever the   *)
(* adapters answer: rendering decides about all checks at once, what it    *)
(* renders compares relations of one database, and statuses and reasons    *)
(* are those of the check that has them.                                   *)
(***************************************************************************)
EXTENDS RenderSql, WellFoundedInduction, TLAPS

(* If no code is reported then no condition holds.                         *)
LEMMA FirstFindsAny ==
  ASSUME NEW n \in Nat, NEW conditions, DOMAIN conditions = 1..n,
         NEW i \in 1..n, conditions[i][2]
  PROVE  First(conditions) # {}
<1> DEFINE hits == {j \in DOMAIN conditions : conditions[j][2]}
<1>1. hits \in SUBSET Nat /\ hits # {}
  OBVIOUS
<1> HIDE DEF hits
<1>2. PICK k \in hits : \A j \in hits : k <= j
  <2> DEFINE R == OpToRel(<, Nat)
  <2>1. IsWellFoundedOn(R, Nat)
    BY NatLessThanWellFounded
  <2>2. \A a, b \in Nat : <<a, b>> \in R <=> a < b
    BY DEF OpToRel
  <2> HIDE DEF R
  <2>3. PICK k \in hits : \A j \in hits : ~ (<<j, k>> \in R)
    BY <1>1, <2>1, WFMin
  <2>4. ASSUME NEW j \in hits
        PROVE  k <= j
    <3>1. k \in Nat /\ j \in Nat
      BY <1>1
    <3>2. ~ (j < k)
      BY <2>2, <2>3, <3>1
    <3> QED BY <3>1, <3>2
  <2> QED BY <2>4
<1>3. conditions[k][1] \in First(conditions)
  BY <1>2 DEF First, hits
<1> QED BY <1>3

(* What a project is made of, wherever its contracts are used.             *)
ContractFacts(i) ==
  /\ contracts[i].source \in Connections /\ contracts[i].target \in Connections
  /\ contracts[i].endpoints \in {"relations", "query", "invalid"}
  /\ contracts[i].checks \in Seq(STRING)
  /\ Len(contracts[i].checks) \in Nat
  /\ DOMAIN contracts[i].checks = 1..Len(contracts[i].checks)

LEMMA ProjectFacts ==
  ASSUME contracts \in Projects
  PROVE  /\ Len(contracts) \in Nat /\ DOMAIN contracts = 1..Len(contracts)
         /\ \A i \in DOMAIN contracts : ContractFacts(i)
<1> DEFINE C == [name : STRING, source : Connections, target : Connections,
                 checks : Seq(STRING),
                 endpoints : {"relations", "query", "invalid"}]
<1>1. contracts \in Seq(C)
  BY ProjectsAssumption
<1>2. Len(contracts) \in Nat /\ DOMAIN contracts = 1..Len(contracts)
  BY <1>1
<1>3. \A i \in DOMAIN contracts : contracts[i] \in C
  <2> HIDE DEF C
  <2> QED BY <1>1
<1>4. ASSUME NEW i \in DOMAIN contracts
      PROVE  ContractFacts(i)
  <2>1. contracts[i] \in C
    BY <1>3
  <2>2. contracts[i].checks \in Seq(STRING)
    BY <2>1
  <2> QED BY <2>1, <2>2 DEF ContractFacts
<1> QED BY <1>2, <1>4

(* No two contracts have a check id in common.                             *)
LEMMA IdsAreApart ==
  ASSUME contracts \in Projects, NEW i \in DOMAIN contracts,
         NEW j \in DOMAIN contracts, NEW id,
         id \in ChecksOf(contracts[i]), id \in ChecksOf(contracts[j])
  PROVE  i = j
<1>1. contracts[i].name = id[1] /\ contracts[j].name = id[1]
  BY DEF ChecksOf, Id
<1> QED BY <1>1, ProjectsAssumption

LEMMA ResultsDomain ==
  ASSUME NEW ids, NEW codes
  PROVE  /\ DOMAIN WithResults(ids, codes) = DOMAIN results \cup ids
         /\ \A id \in ids : WithResults(ids, codes)[id] = codes
         /\ \A id \in DOMAIN results \ ids : WithResults(ids, codes)[id] = results[id]
BY DEF WithResults
---------------------------------------------------------------------------
(* The invariant.                                                          *)

(* Every connection has an adapter, a diagnostic or no answer yet, and     *)
(* rendering starts when all have one.                                     *)
Answered ==
  /\ setup = [n \in Connections |-> setup[n]]
  /\ unresolved \subseteq Connections
  /\ \A n \in Connections : n \in unresolved \cup adapters \/ setup[n] # {}
  /\ stage \in {"contracts", "checks"} => unresolved = {}

(* What has been passed has results.                                       *)
Passed ==
  /\ at \in Nat /\ at >= 1 /\ done \in Nat
  /\ stage \in {"compiled", "adapters", "contracts"} => done = 0
  /\ stage = "checks" =>
       at \in DOMAIN contracts /\ done < Len(contracts[at].checks)
  /\ \A i \in DOMAIN contracts :
       i < at => ChecksOf(contracts[i]) \subseteq DOMAIN results
  /\ stage = "checks" =>
       \A k \in 1..done : Id(contracts[at], k) \in DOMAIN results

(* Nothing is decided about any check before the end.                      *)
NothingDecided ==
  stage # "end" => /\ status = [id \in Checks |-> "not_rendered"]
                   /\ reasons = [id \in Checks |-> {}]
                   /\ exit = "none"

Given == profile \in Profiles /\ contracts \in Projects

IInv == Given /\ Answered /\ Passed /\ NothingDecided

LEMMA InitIInv == Init => IInv
<1> SUFFICES ASSUME Init PROVE IInv
  OBVIOUS
<1> USE DEF Init
<1>1. Given
  BY DEF Given
<1>2. Answered
  BY DEF Answered
<1>3. Passed
  <2>1. Len(contracts) \in Nat /\ DOMAIN contracts = 1..Len(contracts)
    BY ProjectFacts
  <2> QED BY <2>1 DEF Passed
<1>4. NothingDecided
  BY DEF NothingDecided
<1> QED BY <1>1, <1>2, <1>3, <1>4 DEF IInv

(* Every action answers, passes or decides no more than the invariant says;*)
(* those that end the invocation leave nothing to be said.                 *)
LEMMA EndStep ==
  ASSUME IInv, stage' = "end", UNCHANGED <<given, resolved, rendered>>
  PROVE  IInv'
<1> USE DEF given, resolved, rendered
<1>1. Given'
  BY DEF IInv, Given
<1>2. Answered'
  BY DEF IInv, Answered
<1>3. Passed'
  BY DEF IInv, Passed, ChecksOf, Id
<1>4. NothingDecided'
  BY DEF NothingDecided
<1> QED BY <1>1, <1>2, <1>3, <1>4 DEF IInv

LEMMA UndecidedStep ==
  ASSUME NothingDecided, stage # "end", UNCHANGED <<given, metadata, exit>>
  PROVE  NothingDecided'
BY DEF NothingDecided, given, metadata, Checks, ChecksOf, Id

LEMMA LoadProfileStep ==
  ASSUME IInv, LoadProfile
  PROVE  IInv'
<1> USE DEF LoadProfile, given, resolved, rendered
<1>1. Given'
  BY DEF IInv, Given
<1>2. Answered'
  BY DEF IInv, Answered
<1>3. Passed'
  BY DEF IInv, Passed, ChecksOf, Id
<1>4. NothingDecided'
  BY UndecidedStep DEF IInv
<1> QED BY <1>1, <1>2, <1>3, <1>4 DEF IInv

LEMMA AdaptersResolvedStep ==
  ASSUME IInv, AdaptersResolved
  PROVE  IInv'
<1> USE DEF AdaptersResolved, given, resolved, rendered
<1>1. Given'
  BY DEF IInv, Given
<1>2. Answered'
  BY DEF IInv, Answered
<1>3. Passed'
  BY DEF IInv, Passed, ChecksOf, Id
<1>4. NothingDecided'
  BY UndecidedStep DEF IInv
<1> QED BY <1>1, <1>2, <1>3, <1>4 DEF IInv

(* A connection whose resolution is no adapter has a diagnostic.           *)
LEMMA NoAdapterIsDiagnosed ==
  ASSUME NEW connection, NEW resolution \in Resolution, NEW type,
         NEW compatible \in BOOLEAN, resolution # "adapter"
  PROVE  SetupDiagnostics(connection, resolution, type, compatible) # {}
<1> DEFINE conditions == <<
      <<"RESOLUTION_FAILED", resolution = "fails">>,
      <<"FACTORY_WARNING", resolution = "warns">>,
      <<"METADATA_INVALID", type = "raises">>,
      <<"TYPE_MISMATCH", type # connection.type>>,
      <<"API_VERSION_UNSUPPORTED", ~ compatible>> >>
<1>1. DOMAIN conditions = 1..5
  OBVIOUS
<1>2. conditions[1][2] = (resolution = "fails")
      /\ conditions[2][2] = (resolution = "warns")
  OBVIOUS
<1>3. SetupDiagnostics(connection, resolution, type, compatible) = First(conditions)
  BY DEF SetupDiagnostics
<1> HIDE DEF conditions
<1>4. conditions[1][2] \/ conditions[2][2]
  BY <1>2 DEF Resolution
<1>5. 5 \in Nat /\ 1 \in 1..5 /\ 2 \in 1..5
  OBVIOUS
<1>6. First(conditions) # {}
  BY ONLY <1>1, <1>4, <1>5, FirstFindsAny
<1> QED BY <1>3, <1>6

LEMMA ResolveAdapterStep ==
  ASSUME IInv, NEW n \in unresolved, ResolveAdapter(n)
  PROVE  IInv'
<1>1. Given'
  BY DEF ResolveAdapter, given, IInv, Given
<1>2. Answered'
  <2>1. PICK resolution \in Resolution, compatible \in BOOLEAN :
          \E type \in {profile[m].type : m \in Connections} \cup {"raises"} :
            LET codes == SetupDiagnostics(profile[n], resolution, type, compatible)
            IN /\ setup' = [setup EXCEPT ![n] = codes]
               /\ adapters' = IF resolution = "adapter" /\ codes = {}
                               THEN adapters \cup {n} ELSE adapters
    BY DEF ResolveAdapter
  <2>2. PICK type \in {profile[m].type : m \in Connections} \cup {"raises"} :
            LET codes == SetupDiagnostics(profile[n], resolution, type, compatible)
            IN /\ setup' = [setup EXCEPT ![n] = codes]
               /\ adapters' = IF resolution = "adapter" /\ codes = {}
                               THEN adapters \cup {n} ELSE adapters
    BY <2>1
  <2> DEFINE codes == SetupDiagnostics(profile[n], resolution, type, compatible)
  <2>3. /\ setup' = [setup EXCEPT ![n] = codes]
        /\ adapters' = IF resolution = "adapter" /\ codes = {}
                        THEN adapters \cup {n} ELSE adapters
    BY <2>2
  <2>4. resolution # "adapter" => codes # {}
    BY NoAdapterIsDiagnosed
  <2> HIDE DEF codes
  <2>5. unresolved' = unresolved \ {n} /\ stage' = "adapters"
    BY DEF ResolveAdapter
  <2>6. n \in adapters' \/ setup'[n] # {}
    BY <2>3, <2>4 DEF IInv, Answered
  <2>7. \A m \in Connections \ {n} : setup'[m] = setup[m]
    BY <2>3 DEF IInv, Answered
  <2>8. setup' = [m \in Connections |-> setup'[m]]
    BY <2>3 DEF IInv, Answered
  <2>9. adapters \subseteq adapters'
    BY <2>3
  <2> QED BY <2>5, <2>6, <2>7, <2>8, <2>9 DEF IInv, Answered
<1>3. Passed'
  BY DEF ResolveAdapter, given, rendered, IInv, Passed, ChecksOf, Id
<1>4. NothingDecided'
  BY UndecidedStep DEF ResolveAdapter, IInv
<1> QED BY <1>1, <1>2, <1>3, <1>4 DEF IInv

(* Rendering finds an adapter for both connections of every contract.      *)
LEMMA NoAdapterIsMissing ==
  ASSUME IInv, stage = "contracts", NEW i \in DOMAIN contracts,
         OwnSetup(contracts[i]) = {}
  PROVE  Endpoints(contracts[i]) \subseteq adapters
<1>1. ContractFacts(i)
  BY ProjectFacts DEF IInv, Given
<1>2. \A n \in Connections : n \in adapters \/ setup[n] # {}
  BY DEF IInv, Answered
<1>3. \A n \in Endpoints(contracts[i]) : setup[n] = {}
  BY DEF OwnSetup
<1> QED BY <1>1, <1>2, <1>3 DEF ContractFacts, Endpoints

(* So a contract is rendered check by check, or all of its checks get the  *)
(* same result at once.                                                    *)
ContractEntered ==
  /\ Contract.checks # <<>> /\ stage' = "checks"
  /\ UNCHANGED <<at, results, diagnostics>>

ContractPassed(codes) ==
  /\ at' = at + 1 /\ UNCHANGED stage
  /\ results' = WithResults(ChecksOf(Contract), codes)
  /\ diagnostics' = diagnostics \cup codes

LEMMA RenderContractCases ==
  ASSUME IInv, RenderContract
  PROVE  /\ at \in DOMAIN contracts /\ done = 0 /\ stage = "contracts"
         /\ \E readable \in BOOLEAN :
              \/ Blockers(Contract, readable) = {} /\ ContractEntered
              \/ /\ \/ Blockers(Contract, readable) # {}
                    \/ Contract.checks = <<>>
                 /\ ContractPassed(Blockers(Contract, readable))
<1>1. at \in DOMAIN contracts /\ done = 0 /\ stage = "contracts"
  <2>1. at \in Nat /\ at <= Len(contracts) /\ done = 0 /\ stage = "contracts"
    BY DEF RenderContract, IInv, Passed
  <2>2. Len(contracts) \in Nat /\ DOMAIN contracts = 1..Len(contracts)
    BY ProjectFacts DEF IInv, Given
  <2>3. at >= 1
    BY DEF IInv, Passed
  <2> QED BY <2>1, <2>2, <2>3
<1>2. OwnSetup(Contract) = {} => Endpoints(Contract) \subseteq adapters
  BY <1>1, NoAdapterIsMissing DEF Contract
<1>3. PICK readable \in BOOLEAN :
       LET codes == Blockers(Contract, readable)
       IN IF codes = {} /\ Contract.checks # <<>>
            THEN stage' = "checks" /\ UNCHANGED <<at, results, diagnostics>>
            ELSE /\ at' = at + 1
                 /\ results' = WithResults(ChecksOf(Contract), codes)
                 /\ diagnostics' = diagnostics \cup codes
                 /\ UNCHANGED stage
  BY <1>2 DEF RenderContract
<1> QED BY <1>1, <1>3 DEF ContractEntered, ContractPassed

LEMMA RenderContractStep ==
  ASSUME IInv, RenderContract
  PROVE  IInv'
<1>1. Given'
  BY DEF RenderContract, given, IInv, Given
<1>2. at \in DOMAIN contracts /\ done = 0 /\ stage = "contracts"
  BY RenderContractCases
<1>3. ContractEntered \/ \E codes : ContractPassed(codes)
  BY RenderContractCases
<1>4. Answered'
  BY <1>2, <1>3
     DEF RenderContract, resolved, ContractEntered, ContractPassed, IInv, Answered
<1>5. contracts' = contracts /\ done' = 0
  BY <1>2 DEF RenderContract, given
<1>6. Passed'
  <2>1. CASE ContractEntered
    <3>1. ContractFacts(at)
      BY <1>2, ProjectFacts DEF IInv, Given
    <3>2. 0 < Len(contracts[at].checks)
      BY <2>1, <3>1 DEF ContractFacts, ContractEntered, Contract
    <3> QED BY <1>2, <1>5, <2>1, <3>2
            DEF ContractEntered, IInv, Passed, ChecksOf, Id
  <2>2. ASSUME NEW codes, ContractPassed(codes)
        PROVE  Passed'
    <3>1. DOMAIN results' = DOMAIN results \cup ChecksOf(contracts[at])
      BY <2>2, ResultsDomain DEF ContractPassed, Contract
    <3>2. at' = at + 1 /\ at \in Nat /\ stage' = "contracts"
      BY <1>2, <2>2 DEF ContractPassed, IInv, Passed
    <3>3. \A i \in DOMAIN contracts : i < at + 1 => i < at \/ i = at
      <4>1. DOMAIN contracts \subseteq Nat
        BY ProjectFacts DEF IInv, Given
      <4> QED BY <3>2, <4>1
    <3>4. \A i \in DOMAIN contracts :
            i < at' => ChecksOf(contracts[i]) \subseteq DOMAIN results'
      BY <3>1, <3>2, <3>3 DEF IInv, Passed
    <3>5. \A i \in DOMAIN contracts : ChecksOf(contracts[i])' = ChecksOf(contracts[i])
      BY <1>5 DEF ChecksOf, Id
    <3>6. \A i \in DOMAIN contracts' :
            i < at' => ChecksOf(contracts[i])' \subseteq DOMAIN results'
      BY <1>5, <3>4, <3>5
    <3>7. at' \in Nat /\ at' >= 1 /\ done' \in Nat
      BY <1>5, <3>2
    <3> QED BY <1>5, <3>2, <3>6, <3>7 DEF Passed, ChecksOf
  <2> QED BY <1>3, <2>1, <2>2
<1>7. NothingDecided'
  BY UndecidedStep DEF RenderContract, IInv
<1> QED BY <1>1, <1>4, <1>6, <1>7 DEF IInv

LEMMA RenderCheckStep ==
  ASSUME IInv, RenderCheck
  PROVE  IInv'
<1>1. stage = "checks" /\ contracts' = contracts /\ profile' = profile
  BY DEF RenderCheck, given
<1>2. Given'
  BY <1>1 DEF IInv, Given
<1>3. Answered'
  BY <1>1 DEF RenderCheck, resolved, IInv, Answered
<1>4. DOMAIN results' = DOMAIN results \cup {Id(contracts[at], done + 1)}
  <2>1. \E codes : results' = WithResults({Id(Contract, done + 1)}, codes)
    BY DEF RenderCheck
  <2> QED BY <2>1, ResultsDomain DEF Contract
<1>5. /\ at \in Nat /\ at >= 1 /\ done \in Nat
      /\ at \in DOMAIN contracts /\ done < Len(contracts[at].checks)
      /\ \A k \in 1..done : Id(contracts[at], k) \in DOMAIN results
  BY <1>1 DEF IInv, Passed
<1>6. \A k \in 1..(done + 1) : Id(contracts[at], k) \in DOMAIN results'
  <2>1. \A k \in 1..(done + 1) : k \in 1..done \/ k = done + 1
    BY <1>5
  <2> QED BY <1>4, <1>5, <2>1
<1>7. \A i \in DOMAIN contracts :
        i < at => ChecksOf(contracts[i]) \subseteq DOMAIN results'
  BY <1>4 DEF IInv, Passed
<1>8. \A i \in DOMAIN contracts : ChecksOf(contracts[i])' = ChecksOf(contracts[i])
  BY <1>1 DEF ChecksOf, Id
<1>9. Passed'
  <2>1. CASE LastCheck
    <3>1. stage' = "contracts" /\ at' = at + 1 /\ done' = 0
      BY <2>1 DEF RenderCheck
    <3>2. ChecksOf(contracts[at]) \subseteq DOMAIN results'
      <4>1. ContractFacts(at)
        BY <1>5, ProjectFacts DEF IInv, Given
      <4>2. DOMAIN contracts[at].checks = 1..(done + 1)
        BY <2>1, <4>1 DEF LastCheck, ContractFacts, Contract
      <4> QED BY <1>6, <4>2 DEF ChecksOf
    <3>3. \A i \in DOMAIN contracts : i < at + 1 => i < at \/ i = at
      <4>1. DOMAIN contracts \subseteq Nat
        BY ProjectFacts DEF IInv, Given
      <4> QED BY <1>5, <4>1
    <3>4. \A i \in DOMAIN contracts' :
            i < at' => ChecksOf(contracts[i])' \subseteq DOMAIN results'
      BY <1>1, <1>7, <1>8, <3>1, <3>2, <3>3
    <3>5. at' \in Nat /\ at' >= 1 /\ done' \in Nat
      BY <1>5, <3>1
    <3> QED BY <1>1, <3>1, <3>4, <3>5 DEF Passed, ChecksOf
  <2>2. CASE ~ LastCheck
    <3>1. stage' = "checks" /\ at' = at /\ done' = done + 1
      BY <1>1, <2>2 DEF RenderCheck
    <3>2. done + 1 < Len(contracts[at].checks)
      <4>1. Len(contracts[at].checks) \in Nat
        BY <1>5, ProjectFacts DEF IInv, Given, ContractFacts
      <4> QED BY <1>5, <2>2, <4>1 DEF LastCheck, Contract
    <3>3. \A i \in DOMAIN contracts' :
            i < at' => ChecksOf(contracts[i])' \subseteq DOMAIN results'
      BY <1>1, <1>7, <1>8, <3>1
    <3>4. \A k \in 1..done' : Id(contracts'[at'], k) \in DOMAIN results'
      BY <1>1, <1>6, <3>1 DEF Id
    <3>5. at' \in Nat /\ at' >= 1 /\ done' \in Nat
      BY <1>5, <3>1
    <3> QED BY <1>1, <1>5, <3>1, <3>2, <3>3, <3>4, <3>5 DEF Passed, ChecksOf, Id
  <2> QED BY <2>1, <2>2
<1>10. NothingDecided'
  <2>1. stage # "end" /\ UNCHANGED <<given, metadata, exit>>
    BY <1>1 DEF RenderCheck
  <2> QED BY <2>1, UndecidedStep DEF IInv
<1> QED BY <1>2, <1>3, <1>9, <1>10 DEF IInv

LEMMA StepIInv == IInv /\ [Next]_vars => IInv'
<1> SUFFICES ASSUME IInv, [Next]_vars PROVE IInv'
  OBVIOUS
<1>1. CASE BlockedByCompile
  BY <1>1, EndStep DEF BlockedByCompile, End
<1>2. CASE ProfileFails
  BY <1>2, EndStep DEF ProfileFails, End
<1>3. CASE LoadProfile
  BY <1>3, LoadProfileStep
<1>4. ASSUME NEW n \in unresolved, ResolveAdapter(n)
      PROVE  IInv'
  BY <1>4, ResolveAdapterStep
<1>5. CASE AdaptersResolved
  BY <1>5, AdaptersResolvedStep
<1>6. CASE RenderContract
  BY <1>6, RenderContractStep
<1>7. CASE RenderCheck
  BY <1>7, RenderCheckStep
<1>8. CASE OutputSuppressed
  BY <1>8, EndStep DEF OutputSuppressed, End
<1>9. CASE SqlRefused
  BY <1>9, EndStep DEF SqlRefused, End
<1>10. CASE SqlWritten
  BY <1>10, EndStep DEF SqlWritten, End
<1>11. CASE WriteFails
  BY <1>11, EndStep DEF WriteFails, End
<1>12. CASE UNCHANGED vars
  <2> USE <1>12 DEF vars, given, resolved, rendered, metadata
  <2>1. Given'
    BY DEF IInv, Given
  <2>2. Answered'
    BY DEF IInv, Answered
  <2>3. Passed'
    BY DEF IInv, Passed, ChecksOf, Id
  <2>4. NothingDecided'
    BY DEF IInv, NothingDecided, Checks, ChecksOf, Id
  <2> QED BY <2>1, <2>2, <2>3, <2>4 DEF IInv
<1> QED BY <1>1, <1>2, <1>3, <1>4, <1>5, <1>6, <1>7, <1>8, <1>9, <1>10,
           <1>11, <1>12 DEF Next

LEMMA SpecIInv == Spec => []IInv
BY InitIInv, StepIInv, PTL DEF Spec
---------------------------------------------------------------------------
(* The refinement.                                                         *)

LEMMA UndecidedBatch ==
  ASSUME IInv, stage # "end"
  PROVE  /\ Batch!Undecided
         /\ DOMAIN status = Checks /\ DOMAIN reasons = Checks
         /\ status = [id \in Checks |-> "not_rendered"]
BY DEF IInv, NothingDecided, Batch!Undecided, Batch!checks

(* When every contract has been passed every check has a result.           *)
LEMMA RenderedAll ==
  ASSUME IInv, Rendered
  PROVE  Checks \subseteq DOMAIN results
<1>1. at \in Nat /\ at > Len(contracts)
  BY DEF IInv, Passed, Rendered
<1>2. Len(contracts) \in Nat /\ DOMAIN contracts = 1..Len(contracts)
  BY ProjectFacts DEF IInv, Given
<1>3. \A i \in DOMAIN contracts : i < at
  BY <1>1, <1>2
<1> QED BY <1>3 DEF IInv, Passed, Checks

LEMMA StepRefines == IInv /\ [Next]_vars => [Batch!Next]_(Batch!vars)
<1> SUFFICES ASSUME IInv, [Next]_vars PROVE [Batch!Next]_(Batch!vars)
  OBVIOUS
<1> USE DEF Batch!vars, metadata
<1>1. CASE BlockedByCompile
  <2>1. Batch!Undecided /\ DOMAIN status = Checks
    BY <1>1, UndecidedBatch DEF BlockedByCompile
  <2>2. /\ status' = [id \in Checks |-> "blocked"]
        /\ reasons' = [id \in Checks |-> {"RENDERING_BLOCKED_BY_COMPILE_DIAGNOSTICS"}]
        /\ exit' = "validation_error"
    BY <1>1 DEF BlockedByCompile, End
  <2>3. Batch!RefuseAll
    BY <2>1, <2>2 DEF Batch!RefuseAll, Batch!checks
  <2> QED BY <2>3 DEF Batch!Next
<1>2. CASE ProfileFails
  <2>1. Batch!Undecided
    BY <1>2, UndecidedBatch DEF ProfileFails
  <2>2. Batch!GiveUp
    BY <1>2, <2>1 DEF ProfileFails, End, Batch!GiveUp
  <2> QED BY <2>2 DEF Batch!Next
<1>3. CASE LoadProfile
  BY <1>3 DEF LoadProfile
<1>4. ASSUME NEW n \in unresolved, ResolveAdapter(n)
      PROVE  [Batch!Next]_(Batch!vars)
  BY <1>4 DEF ResolveAdapter
<1>5. CASE AdaptersResolved
  BY <1>5 DEF AdaptersResolved
<1>6. CASE RenderContract
  BY <1>6 DEF RenderContract
<1>7. CASE RenderCheck
  BY <1>7 DEF RenderCheck
<1>8. CASE OutputSuppressed
  <2>1. Batch!Undecided /\ DOMAIN status = Checks
    BY <1>8, UndecidedBatch DEF OutputSuppressed, Rendered
  <2>2. /\ status' = [id \in Checks |-> FailureStatus(Reasons(id))]
        /\ reasons' = [id \in Checks |-> Reasons(id)]
        /\ exit' = "configuration_error"
    BY <1>8 DEF OutputSuppressed, End
  <2>3. \A id \in Checks : /\ FailureStatus(Reasons(id)) \in {"blocked", "failed"}
                           /\ Reasons(id) # {}
    BY DEF FailureStatus, Reasons
  <2>4. Batch!RefuseAll
    BY <2>1, <2>2, <2>3 DEF Batch!RefuseAll, Batch!checks
  <2> QED BY <2>4 DEF Batch!Next
<1>9. CASE SqlRefused
  <2>1. Batch!Undecided
    BY <1>9, UndecidedBatch DEF SqlRefused, Rendered
  <2>2. Batch!GiveUp
    BY <1>9, <2>1 DEF SqlRefused, End, Batch!GiveUp
  <2> QED BY <2>2 DEF Batch!Next
<1>10. CASE SqlWritten
  <2>1. Batch!Undecided /\ DOMAIN status = Checks
    BY <1>10, UndecidedBatch DEF SqlWritten, Rendered
  <2>2. Checks \subseteq DOMAIN results
    BY <1>10, RenderedAll DEF SqlWritten
  <2>3. status' = [id \in Checks |-> "rendered"]
    BY <1>10, <2>2 DEF SqlWritten
  <2>4. exit' = "success" /\ reasons' = reasons
    BY <1>10 DEF SqlWritten, End
  <2>5. Batch!RenderAll
    BY <2>1, <2>3, <2>4 DEF Batch!RenderAll, Batch!checks
  <2> QED BY <2>5 DEF Batch!Next
<1>11. CASE WriteFails
  <2>1. Batch!Undecided
    BY <1>11, UndecidedBatch DEF WriteFails, Rendered
  <2>2. Batch!GiveUp
    BY <1>11, <2>1 DEF WriteFails, End, Batch!GiveUp
  <2> QED BY <2>2 DEF Batch!Next
<1>12. CASE UNCHANGED vars
  BY <1>12 DEF vars
<1> QED BY <1>1, <1>2, <1>3, <1>4, <1>5, <1>6, <1>7, <1>8, <1>9, <1>10,
           <1>11, <1>12 DEF Next

(* Whatever adapters answer or raise, SQL is rendered for all checks of a  *)
(* project in one step, or for none of them, each with its reason.         *)
THEOREM Refinement == Spec => BatchSpec
<1>1. Init => Batch!Init
  BY DEF Init, Batch!Init, Batch!Undecided, Batch!checks
<1>2. Spec => []IInv
  BY SpecIInv
<1> QED BY <1>1, <1>2, StepRefines, PTL DEF Spec, BatchSpec, Batch!Spec
---------------------------------------------------------------------------
(* What is rendered.                                                       *)

SameDatabase(i) ==
  /\ profile[contracts[i].source] = profile[contracts[i].target]
  /\ profile[contracts[i].source].type = "duckdb"

(* A contract is rendered only between connections of one database, and a  *)
(* result without a diagnostic is about such relations.                    *)
Matched ==
  /\ stage = "checks" => SameDatabase(at)
  /\ \A i \in DOMAIN contracts : \A id \in ChecksOf(contracts[i]) :
       id \in DOMAIN results /\ results[id] = {} =>
         SameDatabase(i) /\ contracts[i].endpoints = "relations"
  /\ \A id \in DOMAIN results : results[id] \subseteq diagnostics

LEMMA NothingBlocks ==
  ASSUME IInv, at \in DOMAIN contracts, NEW readable \in BOOLEAN,
         Blockers(Contract, readable) = {}
  PROVE  SameDatabase(at)
<1> DEFINE source == profile[Contract.source]
           target == profile[Contract.target]
           conditions == <<
             <<"METADATA_INVALID", ~ readable>>,
             <<"MIXED_ADAPTER_TYPES_UNSUPPORTED", source.type # target.type>>,
             <<"CONNECTION_CONTEXT_UNSUPPORTED", source.config # target.config>>,
             <<"CAPABILITY_UNSUPPORTED", source.type # "duckdb">> >>
<1>1. First(conditions) = {}
  BY DEF Blockers
<1>2. DOMAIN conditions = 1..4
  OBVIOUS
<1>3. /\ conditions[2][2] = (source.type # target.type)
      /\ conditions[3][2] = (source.config # target.config)
      /\ conditions[4][2] = (source.type # "duckdb")
  OBVIOUS
<1> HIDE DEF conditions
<1>4. 4 \in Nat /\ 2 \in 1..4 /\ 3 \in 1..4 /\ 4 \in 1..4
  OBVIOUS
<1>5. ~ conditions[2][2] /\ ~ conditions[3][2] /\ ~ conditions[4][2]
  BY ONLY <1>1, <1>2, <1>4, FirstFindsAny
<1>6. /\ source.type = target.type /\ source.config = target.config
      /\ source.type = "duckdb"
  BY <1>3, <1>5
<1>7. /\ source \in [type : STRING, config : STRING]
      /\ target \in [type : STRING, config : STRING]
  <2>1. Contract.source \in Connections /\ Contract.target \in Connections
    BY ProjectFacts DEF IInv, Given, ContractFacts, Contract
  <2>2. profile \in [Connections -> [type : STRING, config : STRING]]
    BY ProfilesAssumption DEF IInv, Given
  <2> QED BY <2>1, <2>2
<1>8. source = target
  <2> HIDE DEF source, target
  <2>1. /\ source = [type |-> source.type, config |-> source.config]
        /\ target = [type |-> target.type, config |-> target.config]
    BY <1>7
  <2> QED BY <1>6, <2>1
<1> QED BY <1>6, <1>8 DEF SameDatabase, Contract

LEMMA NothingBeforeRenderer ==
  ASSUME IInv, at \in DOMAIN contracts, NEW readable \in BOOLEAN,
         NEW compatible \in BOOLEAN, NEW capabilities,
         BeforeRenderer(Contract, readable, compatible, capabilities) = {}
  PROVE  contracts[at].endpoints = "relations"
<1> DEFINE conditions == <<
      <<"METADATA_INVALID", ~ readable>>,
      <<"API_VERSION_UNSUPPORTED", ~ compatible>>,
      <<"RENDERER_TYPE_MISMATCH", profile[Contract.source].type # "duckdb">>,
      <<"QUERY_ENDPOINT_UNSUPPORTED", Contract.endpoints = "query">>,
      <<"INVALID_RELATION", Contract.endpoints = "invalid">>,
      <<"CAPABILITY_DECLARATION_FAILED", capabilities \in {"raises", "invalid"}>>,
      <<"CAPABILITY_UNSUPPORTED", capabilities = "unsupported">> >>
<1>1. First(conditions) = {}
  BY DEF BeforeRenderer
<1>2. DOMAIN conditions = 1..7
  OBVIOUS
<1>3. /\ conditions[4][2] = (Contract.endpoints = "query")
      /\ conditions[5][2] = (Contract.endpoints = "invalid")
  OBVIOUS
<1> HIDE DEF conditions
<1>4. 7 \in Nat /\ 4 \in 1..7 /\ 5 \in 1..7
  OBVIOUS
<1>5. ~ conditions[4][2] /\ ~ conditions[5][2]
  BY ONLY <1>1, <1>2, <1>4, FirstFindsAny
<1>6. Contract.endpoints # "query" /\ Contract.endpoints # "invalid"
  BY <1>3, <1>5
<1> QED BY <1>6, ProjectFacts DEF IInv, Given, ContractFacts, Contract

LEMMA InitMatched == Init => Matched
BY DEF Init, Matched

(* Most actions leave alone what Matched is about.                         *)
LEMMA MatchedUnchanged ==
  ASSUME Matched, UNCHANGED <<given, rendered>>, stage' = stage \/ stage' # "checks"
  PROVE  Matched'
BY DEF Matched, SameDatabase, given, rendered, ChecksOf, Id

LEMMA RenderContractMatched ==
  ASSUME IInv, Matched, RenderContract
  PROVE  Matched'
<1>1. at \in DOMAIN contracts /\ stage = "contracts"
  BY RenderContractCases
<1>2. UNCHANGED <<profile, contracts>>
  BY DEF RenderContract, given
<1>3. PICK readable \in BOOLEAN :
        \/ Blockers(Contract, readable) = {} /\ ContractEntered
        \/ /\ Blockers(Contract, readable) # {} \/ Contract.checks = <<>>
           /\ ContractPassed(Blockers(Contract, readable))
  BY RenderContractCases
<1>4. CASE Blockers(Contract, readable) = {} /\ ContractEntered
  <2>1. SameDatabase(at)
    BY <1>1, <1>4, NothingBlocks
  <2> QED BY <1>2, <1>4, <2>1
          DEF ContractEntered, Matched, SameDatabase, ChecksOf, Id
<1>5. CASE /\ Blockers(Contract, readable) # {} \/ Contract.checks = <<>>
           /\ ContractPassed(Blockers(Contract, readable))
  <2> DEFINE codes == Blockers(Contract, readable)
  <2>1. /\ stage' = "contracts" /\ diagnostics' = diagnostics \cup codes
        /\ results' = WithResults(ChecksOf(Contract), codes)
        /\ codes # {} \/ ChecksOf(Contract) = {}
    <3>1. Contract.checks = <<>> => ChecksOf(Contract) = {}
      BY DEF ChecksOf
    <3> QED BY <1>1, <1>5, <3>1 DEF ContractPassed
  <2> HIDE DEF codes
  <2>2. /\ DOMAIN results' = DOMAIN results \cup ChecksOf(Contract)
        /\ \A id \in ChecksOf(Contract) : results'[id] = codes
        /\ \A id \in DOMAIN results \ ChecksOf(Contract) : results'[id] = results[id]
    BY <2>1 DEF WithResults
  <2>3. \A id \in DOMAIN results' : results'[id] \subseteq diagnostics'
    BY <2>1, <2>2 DEF Matched
  <2>4. \A id \in DOMAIN results' :
          results'[id] = {} => id \in DOMAIN results /\ results[id] = {}
    BY <2>1, <2>2
  <2> QED BY <1>2, <2>1, <2>3, <2>4 DEF Matched, SameDatabase, ChecksOf, Id
<1> QED BY <1>3, <1>4, <1>5

LEMMA RenderCheckMatched ==
  ASSUME IInv, Matched, RenderCheck
  PROVE  Matched'
<1>1. at \in DOMAIN contracts /\ stage = "checks" /\ SameDatabase(at)
  BY DEF RenderCheck, IInv, Passed, Matched
<1>2. UNCHANGED <<profile, contracts>>
  BY DEF RenderCheck, given
<1>3. stage' = "checks" => at' = at
  BY <1>1 DEF RenderCheck
<1> DEFINE new == Id(contracts[at], done + 1)
<1>4. PICK codes :
        /\ results' = WithResults({new}, codes)
        /\ diagnostics' = diagnostics \cup codes
        /\ codes = {} => contracts[at].endpoints = "relations"
  <2>1. PICK readable \in BOOLEAN, compatible \in BOOLEAN,
             capabilities \in Capabilities, output \in Output :
          LET before == BeforeRenderer(Contract, readable, compatible, capabilities)
              codes == IF before # {} THEN before ELSE OfRenderer(output)
          IN /\ results' = WithResults({Id(Contract, done + 1)}, codes)
             /\ diagnostics' = diagnostics \cup codes
    BY DEF RenderCheck
  <2> DEFINE before == BeforeRenderer(Contract, readable, compatible, capabilities)
             after == IF before # {} THEN before ELSE OfRenderer(output)
  <2>2. before = {} => contracts[at].endpoints = "relations"
    BY <1>1, NothingBeforeRenderer
  <2>3. /\ results' = WithResults({new}, after)
        /\ diagnostics' = diagnostics \cup after
    BY <2>1 DEF Contract
  <2>4. after = {} => before = {}
    OBVIOUS
  <2> HIDE DEF before, after, new
  <2> QED BY <2>2, <2>3, <2>4
<1>5. new \in ChecksOf(contracts[at])
  <2>1. ContractFacts(at) /\ done \in Nat /\ done < Len(contracts[at].checks)
    BY <1>1, ProjectFacts DEF IInv, Given, Passed
  <2>2. done + 1 \in DOMAIN contracts[at].checks
    BY <2>1 DEF ContractFacts
  <2> QED BY <2>2 DEF ChecksOf
<1> HIDE DEF new
<1>6. /\ DOMAIN results' = DOMAIN results \cup {new}
      /\ results'[new] = codes
      /\ \A id \in DOMAIN results \ {new} : results'[id] = results[id]
  BY <1>4 DEF WithResults
<1>7. \A id \in DOMAIN results' : results'[id] \subseteq diagnostics'
  BY <1>4, <1>6 DEF Matched
<1>8. ASSUME NEW i \in DOMAIN contracts, NEW id \in ChecksOf(contracts[i]),
             id \in DOMAIN results', results'[id] = {}
      PROVE  SameDatabase(i) /\ contracts[i].endpoints = "relations"
  <2>1. CASE id = new
    <3>1. contracts \in Projects
      BY DEF IInv, Given
    <3>2. i = at
      BY <1>1, <1>5, <2>1, <3>1, IdsAreApart
    <3> QED BY <1>1, <1>4, <1>6, <1>8, <2>1, <3>2
  <2>2. CASE id # new
    BY <1>6, <1>8, <2>2 DEF Matched
  <2> QED BY <2>1, <2>2
<1>9. stage' = "checks" => SameDatabase(at)'
  BY <1>1, <1>2, <1>3 DEF SameDatabase
<1>10. \A i \in DOMAIN contracts :
         /\ SameDatabase(i)' = SameDatabase(i)
         /\ ChecksOf(contracts[i])' = ChecksOf(contracts[i])
  BY <1>2 DEF SameDatabase, ChecksOf, Id
<1> QED BY <1>2, <1>7, <1>8, <1>9, <1>10 DEF Matched

LEMMA StepMatched == IInv /\ Matched /\ [Next]_vars => Matched'
<1> SUFFICES ASSUME IInv, Matched, [Next]_vars PROVE Matched'
  OBVIOUS
<1>1. CASE RenderContract
  BY <1>1, RenderContractMatched
<1>2. CASE RenderCheck
  BY <1>2, RenderCheckMatched
<1>3. CASE LoadProfile
  BY <1>3, MatchedUnchanged DEF LoadProfile
<1>4. ASSUME NEW n \in unresolved, ResolveAdapter(n)
      PROVE  Matched'
  BY <1>4, MatchedUnchanged DEF ResolveAdapter
<1>5. CASE AdaptersResolved
  BY <1>5, MatchedUnchanged DEF AdaptersResolved
<1>6. CASE BlockedByCompile
  BY <1>6, MatchedUnchanged DEF BlockedByCompile, End
<1>7. CASE ProfileFails
  BY <1>7, MatchedUnchanged DEF ProfileFails, End
<1>8. CASE OutputSuppressed
  BY <1>8, MatchedUnchanged DEF OutputSuppressed, End
<1>9. CASE SqlRefused
  BY <1>9, MatchedUnchanged DEF SqlRefused, End
<1>10. CASE SqlWritten
  BY <1>10, MatchedUnchanged DEF SqlWritten, End
<1>11. CASE WriteFails
  BY <1>11, MatchedUnchanged DEF WriteFails, End
<1>12. CASE UNCHANGED vars
  BY <1>12, MatchedUnchanged DEF vars
<1> QED BY <1>1, <1>2, <1>3, <1>4, <1>5, <1>6, <1>7, <1>8, <1>9, <1>10,
           <1>11, <1>12 DEF Next

(* Nothing is rendered before the end.                                     *)
LEMMA UndecidedMatches ==
  ASSUME IInv, stage # "end"
  PROVE  OnlyMatchingConnections
<1>1. \A id \in Checks : status[id] = "not_rendered"
  BY DEF IInv, NothingDecided
<1> QED BY <1>1 DEF OnlyMatchingConnections, Checks

(* An action that ends the invocation and renders nothing.                 *)
LEMMA NothingRendered ==
  ASSUME UNCHANGED given, \A id \in Checks : status'[id] # "rendered"
  PROVE  OnlyMatchingConnections'
BY DEF given, OnlyMatchingConnections, Checks, ChecksOf, Id

LEMMA StepOnly ==
  IInv /\ Matched /\ OnlyMatchingConnections /\ [Next]_vars
    => OnlyMatchingConnections'
<1> SUFFICES ASSUME IInv, Matched, OnlyMatchingConnections, [Next]_vars
             PROVE  OnlyMatchingConnections'
  OBVIOUS
<1> DEFINE Kept == UNCHANGED <<given, status>>
<1>1. Kept => OnlyMatchingConnections'
  BY DEF given, OnlyMatchingConnections, ChecksOf, Id
<1>2. CASE BlockedByCompile
  BY <1>2, NothingRendered DEF BlockedByCompile
<1>3. CASE OutputSuppressed
  <2>1. \A id \in Checks : FailureStatus(Reasons(id)) # "rendered"
    BY DEF FailureStatus
  <2>2. status' = [id \in Checks |-> FailureStatus(Reasons(id))] /\ UNCHANGED given
    BY <1>3 DEF OutputSuppressed
  <2> QED BY <2>1, <2>2, NothingRendered
<1>4. CASE SqlWritten
  <2>1. diagnostics = {} /\ Checks \subseteq DOMAIN results /\ UNCHANGED given
    BY <1>4, RenderedAll DEF SqlWritten, Diagnosed
  <2>2. ASSUME NEW i \in DOMAIN contracts, NEW id \in ChecksOf(contracts[i])
        PROVE  SameDatabase(i) /\ contracts[i].endpoints = "relations"
    <3>1. id \in DOMAIN results
      BY <2>1 DEF Checks
    <3>2. results[id] = {}
      BY <2>1, <3>1 DEF Matched
    <3> QED BY <3>1, <3>2 DEF Matched
  <2> QED BY <2>1, <2>2
          DEF given, SameDatabase, OnlyMatchingConnections, ChecksOf, Id
<1>5. CASE ProfileFails
  BY <1>1, <1>5 DEF ProfileFails, metadata
<1>6. CASE LoadProfile
  BY <1>1, <1>6 DEF LoadProfile, metadata
<1>7. ASSUME NEW n \in unresolved, ResolveAdapter(n)
      PROVE  OnlyMatchingConnections'
  BY <1>1, <1>7 DEF ResolveAdapter, metadata
<1>8. CASE AdaptersResolved
  BY <1>1, <1>8 DEF AdaptersResolved, metadata
<1>9. CASE RenderContract
  BY <1>1, <1>9 DEF RenderContract, metadata
<1>10. CASE RenderCheck
  BY <1>1, <1>10 DEF RenderCheck, metadata
<1>11. CASE SqlRefused
  BY <1>1, <1>11 DEF SqlRefused, metadata
<1>12. CASE WriteFails
  BY <1>1, <1>12 DEF WriteFails, metadata
<1>13. CASE UNCHANGED vars
  BY <1>1, <1>13 DEF vars, metadata
<1> QED BY <1>2, <1>3, <1>4, <1>5, <1>6, <1>7, <1>8, <1>9, <1>10, <1>11,
           <1>12, <1>13 DEF Next

(* No SQL is rendered for a check between two databases, for a database    *)
(* other than DuckDB, or for an endpoint that is not a relation.           *)
THEOREM OnlyMatchingConnectionsHold == Spec => []OnlyMatchingConnections
<1>1. Init => OnlyMatchingConnections
  <2>1. Init => stage # "end"
    BY DEF Init
  <2> QED BY <2>1, InitIInv, UndecidedMatches
<1> QED BY <1>1, InitMatched, SpecIInv, StepMatched, StepOnly, PTL DEF Spec
---------------------------------------------------------------------------
(* What the diagnostics say.                                               *)

(* What the registry may report of an adapter, and what is the fault of    *)
(* the renderer and not of what came before it.                            *)
SetupReports == {"RESOLUTION_FAILED", "FACTORY_WARNING", "METADATA_INVALID",
                 "TYPE_MISMATCH", "API_VERSION_UNSUPPORTED"}
RendererFailures == {"OPERATION_RENDER_FAILED", "RENDERED_SQL_EMPTY"}

(* The result of a check whose connections have the setup diagnostics      *)
(* `own`: these, if there are any, or else none of the kind, and something *)
(* only the renderer can say if it was tried.                              *)
Told(own, codes, tried) ==
  /\ own # {} => codes = own
  /\ codes \cap SetupCodes \subseteq own
  /\ codes \subseteq Codes \ {"RENDERING_OUTPUT_SUPPRESSED"}
  /\ codes = {} \/ codes \cap RendererFailures # {} => tried

Reported ==
  /\ \A n \in Connections : setup[n] \subseteq SetupReports
  /\ stage = "compiled" => \A n \in Connections : setup[n] = {}
  /\ stage \in {"compiled", "adapters"} => DOMAIN results = {}
  /\ stage = "checks" => OwnSetup(contracts[at]) = {}
  /\ \A i \in DOMAIN contracts : \A id \in ChecksOf(contracts[i]) :
       id \in DOMAIN results =>
         Told(OwnSetup(contracts[i]), results[id], id \in attempted)

(* A code is reported for one of the conditions.                           *)
LEMMA FirstIsListed ==
  ASSUME NEW n \in Nat, NEW conditions, DOMAIN conditions = 1..n, NEW codes,
         \A i \in 1..n : conditions[i][1] \in codes
  PROVE  First(conditions) \subseteq codes
BY DEF First

LEMMA SetupReported ==
  ASSUME NEW connection, NEW resolution, NEW type, NEW compatible
  PROVE  SetupDiagnostics(connection, resolution, type, compatible)
           \subseteq SetupReports
<1> DEFINE conditions == <<
      <<"RESOLUTION_FAILED", resolution = "fails">>,
      <<"FACTORY_WARNING", resolution = "warns">>,
      <<"METADATA_INVALID", type = "raises">>,
      <<"TYPE_MISMATCH", type # connection.type>>,
      <<"API_VERSION_UNSUPPORTED", ~ compatible>> >>
<1>1. DOMAIN conditions = 1..5 /\ 5 \in Nat
  OBVIOUS
<1>2. /\ conditions[1][1] = "RESOLUTION_FAILED"
      /\ conditions[2][1] = "FACTORY_WARNING"
      /\ conditions[3][1] = "METADATA_INVALID"
      /\ conditions[4][1] = "TYPE_MISMATCH"
      /\ conditions[5][1] = "API_VERSION_UNSUPPORTED"
  OBVIOUS
<1>3. SetupDiagnostics(connection, resolution, type, compatible) = First(conditions)
  BY DEF SetupDiagnostics
<1> HIDE DEF conditions
<1>4. \A i \in 1..5 : conditions[i][1] \in SetupReports
  BY <1>2 DEF SetupReports
<1> QED BY <1>1, <1>3, <1>4, FirstIsListed

(* What stops a contract is what is wrong with its adapters, or none of    *)
(* the codes that are about adapters or the renderer.                      *)
Elsewhere == Codes \ (SetupCodes \cup RendererFailures
                         \cup {"RENDERING_OUTPUT_SUPPRESSED"})

LEMMA BlockersReported ==
  ASSUME NEW contract, NEW readable
  PROVE  /\ OwnSetup(contract) # {} =>
              Blockers(contract, readable) = OwnSetup(contract)
         /\ OwnSetup(contract) = {} => Blockers(contract, readable) \subseteq Elsewhere
<1> DEFINE source == profile[contract.source]
           target == profile[contract.target]
           conditions == <<
             <<"METADATA_INVALID", ~ readable>>,
             <<"MIXED_ADAPTER_TYPES_UNSUPPORTED", source.type # target.type>>,
             <<"CONNECTION_CONTEXT_UNSUPPORTED", source.config # target.config>>,
             <<"CAPABILITY_UNSUPPORTED", source.type # "duckdb">> >>
<1>1. DOMAIN conditions = 1..4 /\ 4 \in Nat
  OBVIOUS
<1>2. /\ conditions[1][1] = "METADATA_INVALID"
      /\ conditions[2][1] = "MIXED_ADAPTER_TYPES_UNSUPPORTED"
      /\ conditions[3][1] = "CONNECTION_CONTEXT_UNSUPPORTED"
      /\ conditions[4][1] = "CAPABILITY_UNSUPPORTED"
  OBVIOUS
<1>3. Blockers(contract, readable)
        = IF OwnSetup(contract) # {} THEN OwnSetup(contract) ELSE First(conditions)
  BY DEF Blockers
<1> HIDE DEF conditions
<1>4. \A i \in 1..4 : conditions[i][1] \in Elsewhere
  BY <1>2 DEF Elsewhere, Codes, ErrorCodes, SetupCodes, RendererFailures
<1>5. First(conditions) \subseteq Elsewhere
  BY <1>1, <1>4, FirstIsListed
<1> QED BY <1>3, <1>5

LEMMA BeforeRendererReported ==
  ASSUME NEW contract, NEW readable, NEW compatible, NEW capabilities
  PROVE  BeforeRenderer(contract, readable, compatible, capabilities)
           \subseteq Elsewhere
<1> DEFINE conditions == <<
      <<"METADATA_INVALID", ~ readable>>,
      <<"API_VERSION_UNSUPPORTED", ~ compatible>>,
      <<"RENDERER_TYPE_MISMATCH", profile[contract.source].type # "duckdb">>,
      <<"QUERY_ENDPOINT_UNSUPPORTED", contract.endpoints = "query">>,
      <<"INVALID_RELATION", contract.endpoints = "invalid">>,
      <<"CAPABILITY_DECLARATION_FAILED", capabilities \in {"raises", "invalid"}>>,
      <<"CAPABILITY_UNSUPPORTED", capabilities = "unsupported">> >>
<1>1. DOMAIN conditions = 1..7 /\ 7 \in Nat
  OBVIOUS
<1>2. /\ conditions[1][1] = "METADATA_INVALID"
      /\ conditions[2][1] = "API_VERSION_UNSUPPORTED"
      /\ conditions[3][1] = "RENDERER_TYPE_MISMATCH"
      /\ conditions[4][1] = "QUERY_ENDPOINT_UNSUPPORTED"
      /\ conditions[5][1] = "INVALID_RELATION"
      /\ conditions[6][1] = "CAPABILITY_DECLARATION_FAILED"
      /\ conditions[7][1] = "CAPABILITY_UNSUPPORTED"
  OBVIOUS
<1>3. BeforeRenderer(contract, readable, compatible, capabilities)
        = First(conditions)
  BY DEF BeforeRenderer
<1> HIDE DEF conditions
<1>4. \A i \in 1..7 : conditions[i][1] \in Elsewhere
  BY <1>2 DEF Elsewhere, Codes, ErrorCodes, SetupCodes, RendererFailures
<1> QED BY <1>1, <1>3, <1>4, FirstIsListed

LEMMA RendererReported ==
  ASSUME NEW output
  PROVE  OfRenderer(output)
           \subseteq Codes \ (SetupCodes \cup {"RENDERING_OUTPUT_SUPPRESSED"})
<1> DEFINE conditions == <<
      <<"OPERATION_RENDER_FAILED", output \in {"raises", "invalid"}>>,
      <<"RENDERED_SQL_EMPTY", output = "empty">>,
      <<"CAPABILITY_DECLARATION_FAILED", output = "unreadable">>,
      <<"CAPABILITY_UNSUPPORTED", output = "demanding">> >>
           later == Codes \ (SetupCodes \cup {"RENDERING_OUTPUT_SUPPRESSED"})
<1>1. DOMAIN conditions = 1..4 /\ 4 \in Nat
  OBVIOUS
<1>2. /\ conditions[1][1] = "OPERATION_RENDER_FAILED"
      /\ conditions[2][1] = "RENDERED_SQL_EMPTY"
      /\ conditions[3][1] = "CAPABILITY_DECLARATION_FAILED"
      /\ conditions[4][1] = "CAPABILITY_UNSUPPORTED"
  OBVIOUS
<1>3. OfRenderer(output) = First(conditions)
  BY DEF OfRenderer
<1> HIDE DEF conditions
<1>4. \A i \in 1..4 : conditions[i][1] \in later
  BY <1>2 DEF Codes, ErrorCodes, SetupCodes
<1> HIDE DEF later
<1>5. First(conditions) \subseteq later
  BY <1>1, <1>4, FirstIsListed
<1> QED BY <1>3, <1>5 DEF later

(* The setup diagnostics of a contract are among those of the registry.    *)
LEMMA OwnReported ==
  ASSUME IInv, Reported, NEW i \in DOMAIN contracts
  PROVE  OwnSetup(contracts[i]) \subseteq SetupReports
<1>1. ContractFacts(i)
  BY ProjectFacts DEF IInv, Given
<1> QED BY <1>1 DEF ContractFacts, OwnSetup, Endpoints, Reported

LEMMA SameOwnSetup ==
  ASSUME UNCHANGED <<contracts, setup>>, NEW i
  PROVE  OwnSetup(contracts[i])' = OwnSetup(contracts[i])
BY DEF OwnSetup, Endpoints

LEMMA InitReported == Init => Reported
BY DEF Init, Reported, OwnSetup

(* Most actions leave alone what Reported is about.                        *)
LEMMA ReportedUnchanged ==
  ASSUME Reported, UNCHANGED <<given, setup, rendered>>,
         \/ stage' = stage
         \/ stage = "compiled" /\ stage' = "adapters"
         \/ stage' \in {"contracts", "end"}
  PROVE  Reported'
<1>1. UNCHANGED <<contracts, setup, at, results, attempted>>
  BY DEF given, rendered
<1>2. \A i \in DOMAIN contracts :
        /\ OwnSetup(contracts[i])' = OwnSetup(contracts[i])
        /\ ChecksOf(contracts[i])' = ChecksOf(contracts[i])
  BY <1>1, SameOwnSetup DEF ChecksOf, Id
<1>3. \A i \in DOMAIN contracts' : \A id \in ChecksOf(contracts[i])' :
        id \in DOMAIN results' =>
          Told(OwnSetup(contracts[i])', results'[id], id \in attempted')
  BY <1>1, <1>2 DEF Reported
<1>4. OwnSetup(contracts[at])' = OwnSetup(contracts[at])
  BY <1>1, SameOwnSetup
<1> QED BY <1>1, <1>3, <1>4 DEF Reported

LEMMA ResolveAdapterReported ==
  ASSUME IInv, Reported, NEW n \in unresolved, ResolveAdapter(n)
  PROVE  Reported'
<1>1. /\ UNCHANGED <<given, rendered>> /\ stage = "adapters" /\ stage' = stage
  BY DEF ResolveAdapter
<1>2. PICK codes : setup' = [setup EXCEPT ![n] = codes] /\ codes \subseteq SetupReports
  <2>1. PICK resolution \in Resolution, compatible \in BOOLEAN :
          \E type \in {profile[m].type : m \in Connections} \cup {"raises"} :
            setup' = [setup EXCEPT
              ![n] = SetupDiagnostics(profile[n], resolution, type, compatible)]
    BY DEF ResolveAdapter
  <2>2. PICK type \in {profile[m].type : m \in Connections} \cup {"raises"} :
          setup' = [setup EXCEPT
            ![n] = SetupDiagnostics(profile[n], resolution, type, compatible)]
    BY <2>1
  <2> QED BY <2>2, SetupReported
<1>3. \A m \in Connections : setup'[m] \subseteq SetupReports
  BY <1>2 DEF IInv, Answered, Reported
<1>4. DOMAIN results' = {}
  BY <1>1 DEF rendered, Reported
<1> QED BY <1>1, <1>3, <1>4 DEF Reported

(* Results for some checks of one contract.                                *)
LEMMA ResultsReported ==
  ASSUME IInv, Reported, UNCHANGED <<contracts, setup>>,
         NEW i \in DOMAIN contracts, NEW ids, ids \subseteq ChecksOf(contracts[i]),
         NEW codes, results' = WithResults(ids, codes),
         attempted \subseteq attempted',
         \A id \in ids : Told(OwnSetup(contracts[i]), codes, id \in attempted'),
         stage' \in {"contracts", "checks"},
         stage' = "checks" => OwnSetup(contracts[at])' = {}
  PROVE  Reported'
<1>1. /\ DOMAIN results' = DOMAIN results \cup ids
      /\ \A id \in ids : results'[id] = codes
      /\ \A id \in DOMAIN results \ ids : results'[id] = results[id]
  BY DEF WithResults
<1>2. ASSUME NEW j \in DOMAIN contracts, NEW id \in ChecksOf(contracts[j]),
             id \in DOMAIN results'
      PROVE  Told(OwnSetup(contracts[j]), results'[id], id \in attempted')
  <2>1. CASE id \in ids
    <3>1. j = i
      BY <2>1, IdsAreApart DEF IInv, Given
    <3> QED BY <1>1, <2>1, <3>1
  <2>2. CASE id \notin ids
    <3>1. /\ Told(OwnSetup(contracts[j]), results[id], id \in attempted)
          /\ results'[id] = results[id]
      BY <1>1, <1>2, <2>2 DEF Reported
    <3> QED BY <3>1 DEF Told
  <2> QED BY <2>1, <2>2
<1>3. \A j \in DOMAIN contracts :
        /\ OwnSetup(contracts[j])' = OwnSetup(contracts[j])
        /\ ChecksOf(contracts[j])' = ChecksOf(contracts[j])
  BY SameOwnSetup DEF ChecksOf, Id
<1>4. \A j \in DOMAIN contracts' : \A id \in ChecksOf(contracts[j])' :
        id \in DOMAIN results' =>
          Told(OwnSetup(contracts[j])', results'[id], id \in attempted')
  BY <1>2, <1>3
<1> QED BY <1>4 DEF Reported

LEMMA RenderContractReported ==
  ASSUME IInv, Reported, RenderContract
  PROVE  Reported'
<1>1. at \in DOMAIN contracts /\ stage = "contracts"
  BY RenderContractCases
<1>2. UNCHANGED <<contracts, setup, attempted>>
  BY DEF RenderContract, given, resolved
<1>3. PICK readable \in BOOLEAN :
        \/ Blockers(Contract, readable) = {} /\ ContractEntered
        \/ /\ Blockers(Contract, readable) # {} \/ Contract.checks = <<>>
           /\ ContractPassed(Blockers(Contract, readable))
  BY RenderContractCases
<1> DEFINE codes == Blockers(Contract, readable)
           own == OwnSetup(contracts[at])
<1>4. /\ own # {} => codes = own
      /\ own = {} => codes \subseteq Elsewhere
  BY BlockersReported DEF Contract
<1> HIDE DEF codes
<1>5. CASE codes = {} /\ ContractEntered
  <2>1. own = {}
    BY <1>4, <1>5
  <2>2. stage' = "checks" /\ UNCHANGED <<at, results>>
    BY <1>5 DEF ContractEntered
  <2>3. \A i \in DOMAIN contracts :
          /\ OwnSetup(contracts[i])' = OwnSetup(contracts[i])
          /\ ChecksOf(contracts[i])' = ChecksOf(contracts[i])
    BY <1>2, SameOwnSetup DEF ChecksOf, Id
  <2>4. \A i \in DOMAIN contracts' : \A id \in ChecksOf(contracts[i])' :
          id \in DOMAIN results' =>
            Told(OwnSetup(contracts[i])', results'[id], id \in attempted')
    BY <1>2, <2>2, <2>3 DEF Reported
  <2>5. OwnSetup(contracts[at])' = {}
    BY <1>1, <2>1, <2>2, <2>3
  <2> QED BY <1>2, <2>2, <2>4, <2>5 DEF Reported
<1>6. CASE (codes # {} \/ Contract.checks = <<>>) /\ ContractPassed(codes)
  <2>1. /\ stage' = "contracts"
        /\ results' = WithResults(ChecksOf(contracts[at]), codes)
    BY <1>1, <1>6 DEF ContractPassed, Contract
  <2>2. Contract.checks = <<>> => ChecksOf(contracts[at]) = {}
    BY DEF ChecksOf, Contract
  <2>3. own \subseteq SetupReports
    BY <1>1, OwnReported
  <2>4. ASSUME NEW id \in ChecksOf(contracts[at])
        PROVE  Told(own, codes, id \in attempted')
    <3>1. codes # {}
      BY <1>6, <2>2
    <3>2. codes \cap SetupCodes \subseteq own
      BY <1>4 DEF Elsewhere
    <3>3. codes \subseteq SetupReports \cup Elsewhere
      BY <1>4, <2>3
    <3>4. /\ codes \subseteq Codes \ {"RENDERING_OUTPUT_SUPPRESSED"}
          /\ codes \cap RendererFailures = {}
      BY <3>3 DEF SetupReports, Elsewhere, Codes, ErrorCodes, RendererFailures
    <3> QED BY <1>4, <3>1, <3>2, <3>4 DEF Told
  <2> HIDE DEF own
  <2> QED BY <1>1, <1>2, <2>1, <2>4, ResultsReported DEF own
<1> QED BY <1>3, <1>5, <1>6 DEF codes

LEMMA RenderCheckReported ==
  ASSUME IInv, Reported, RenderCheck
  PROVE  Reported'
<1>1. at \in DOMAIN contracts /\ stage = "checks" /\ OwnSetup(contracts[at]) = {}
  BY DEF RenderCheck, IInv, Passed, Reported
<1>2. UNCHANGED <<contracts, setup>>
  BY DEF RenderCheck, given, resolved
<1>3. stage' \in {"contracts", "checks"} /\ (stage' = "checks" => at' = at)
  BY <1>1 DEF RenderCheck
<1> DEFINE new == Id(contracts[at], done + 1)
<1>4. new \in ChecksOf(contracts[at])
  <2>1. ContractFacts(at) /\ done \in Nat /\ done < Len(contracts[at].checks)
    BY <1>1, ProjectFacts DEF IInv, Given, Passed
  <2>2. done + 1 \in DOMAIN contracts[at].checks
    BY <2>1 DEF ContractFacts
  <2> QED BY <2>2 DEF ChecksOf
<1>5. PICK readable \in BOOLEAN, compatible \in BOOLEAN,
           capabilities \in Capabilities, output \in Output :
        LET before == BeforeRenderer(Contract, readable, compatible, capabilities)
            codes == IF before # {} THEN before ELSE OfRenderer(output)
        IN /\ results' = WithResults({Id(Contract, done + 1)}, codes)
           /\ attempted' = IF before = {} THEN attempted \cup {Id(Contract, done + 1)}
                                          ELSE attempted
  BY DEF RenderCheck
<1> DEFINE before == BeforeRenderer(Contract, readable, compatible, capabilities)
           later == OfRenderer(output)
           codes == IF before # {} THEN before ELSE later
<1>6. /\ results' = WithResults({new}, codes)
      /\ attempted' = IF before = {} THEN attempted \cup {new} ELSE attempted
  BY <1>5 DEF Contract
<1>7. /\ before \subseteq Elsewhere
      /\ later \subseteq Codes \ (SetupCodes \cup {"RENDERING_OUTPUT_SUPPRESSED"})
  BY BeforeRendererReported, RendererReported
<1> HIDE DEF before, later, new
<1>8. Told({}, codes, new \in attempted')
  <2>1. CASE before # {}
    BY <1>7, <2>1 DEF Told, Elsewhere
  <2>2. CASE before = {}
    BY <1>6, <1>7, <2>2 DEF Told
  <2> QED BY <2>1, <2>2
<1>9. attempted \subseteq attempted'
  BY <1>6
<1>10. stage' = "checks" => OwnSetup(contracts[at])' = {}
  BY <1>1, <1>2, <1>3, SameOwnSetup
<1> HIDE DEF codes
<1>11. \A id \in {new} : Told(OwnSetup(contracts[at]), codes, id \in attempted')
  BY <1>1, <1>8
<1> QED BY <1>1, <1>2, <1>3, <1>4, <1>6, <1>9, <1>10, <1>11, ResultsReported

LEMMA StepReported == IInv /\ Reported /\ [Next]_vars => Reported'
<1> SUFFICES ASSUME IInv, Reported, [Next]_vars PROVE Reported'
  OBVIOUS
<1> USE DEF resolved
<1>1. CASE RenderContract
  BY <1>1, RenderContractReported
<1>2. CASE RenderCheck
  BY <1>2, RenderCheckReported
<1>3. CASE LoadProfile
  BY <1>3, ReportedUnchanged DEF LoadProfile
<1>4. ASSUME NEW n \in unresolved, ResolveAdapter(n)
      PROVE  Reported'
  BY <1>4, ResolveAdapterReported
<1>5. CASE AdaptersResolved
  BY <1>5, ReportedUnchanged DEF AdaptersResolved
<1>6. CASE BlockedByCompile
  BY <1>6, ReportedUnchanged DEF BlockedByCompile, End
<1>7. CASE ProfileFails
  BY <1>7, ReportedUnchanged DEF ProfileFails, End
<1>8. CASE OutputSuppressed
  BY <1>8, ReportedUnchanged DEF OutputSuppressed, End
<1>9. CASE SqlRefused
  BY <1>9, ReportedUnchanged DEF SqlRefused, End
<1>10. CASE SqlWritten
  BY <1>10, ReportedUnchanged DEF SqlWritten, End
<1>11. CASE WriteFails
  BY <1>11, ReportedUnchanged DEF WriteFails, End
<1>12. CASE UNCHANGED vars
  BY <1>12, ReportedUnchanged DEF vars
<1> QED BY <1>1, <1>2, <1>3, <1>4, <1>5, <1>6, <1>7, <1>8, <1>9, <1>10,
           <1>11, <1>12 DEF Next

Says == SetupStaysLocal /\ StatusesMeanWhatTheySay

(* Before the end no check has a status or a reason.                       *)
Deciding == stage # "end"

LEMMA UndecidedSays == IInv /\ Deciding => Says
<1> SUFFICES ASSUME IInv, stage # "end" PROVE Says
  BY DEF Deciding
<1>1. \A id \in Checks : status[id] = "not_rendered"
  BY DEF IInv, NothingDecided
<1>2. exit = "none"
  BY DEF IInv, NothingDecided
<1> QED BY <1>1, <1>2 DEF Says, SetupStaysLocal, StatusesMeanWhatTheySay

(* The invocation ends without a word about any check.                     *)
LEMMA SilentEnd ==
  ASSUME IInv, stage # "end", UNCHANGED <<given, reasons>>,
         exit' = "configuration_error" =>
           \A n \in Connections : setup'[n] = {},
         \A id \in Checks : status'[id] \notin {"blocked", "failed"},
         \A id \in Checks : status'[id] = "rendered" => id \in attempted'
  PROVE  SetupStaysLocal' /\ StatusesMeanWhatTheySay'
<1>1. contracts' = contracts /\ Checks' = Checks
  BY DEF given, Checks, ChecksOf, Id
<1>2. \A id \in Checks : reasons'[id] = {}
  BY DEF IInv, NothingDecided
<1>3. \A i \in DOMAIN contracts :
        /\ ChecksOf(contracts[i])' = ChecksOf(contracts[i])
        /\ ChecksOf(contracts[i]) \subseteq Checks
        /\ contracts[i].source \in Connections
        /\ contracts[i].target \in Connections
  BY <1>1, ProjectFacts DEF IInv, Given, ContractFacts, Checks, ChecksOf, Id
<1>4. SetupStaysLocal'
  BY <1>1, <1>2, <1>3 DEF SetupStaysLocal
<1>5. StatusesMeanWhatTheySay'
  BY <1>1, <1>2 DEF StatusesMeanWhatTheySay
<1> QED BY <1>4, <1>5

LEMMA FailureStatusOf ==
  ASSUME NEW codes
  PROVE  /\ FailureStatus(codes) \in {"blocked", "failed"}
         /\ FailureStatus(codes) = "failed" => codes \cap RendererFailures # {}
BY DEF FailureStatus, RendererFailures

(* Every check is told its own result, or that it was suppressed.          *)
LEMMA SuppressedEnd ==
  ASSUME IInv, Reported, OutputSuppressed
  PROVE  SetupStaysLocal' /\ StatusesMeanWhatTheySay'
<1>1. /\ UNCHANGED <<contracts, setup, results, attempted>>
      /\ reasons' = [id \in Checks |-> Reasons(id)]
      /\ status' = [id \in Checks |-> FailureStatus(Reasons(id))]
  BY DEF OutputSuppressed, given, resolved, rendered
<1>2. Checks' = Checks
  BY <1>1 DEF Checks, ChecksOf, Id
<1>3. Checks \subseteq DOMAIN results
  BY RenderedAll DEF OutputSuppressed
<1>4. ASSUME NEW i \in DOMAIN contracts, NEW id \in ChecksOf(contracts[i])
      PROVE  /\ id \in Checks
             /\ Told(OwnSetup(contracts[i]), results[id], id \in attempted)
             /\ Reasons(id) = IF results[id] # {} THEN results[id]
                                 ELSE {"RENDERING_OUTPUT_SUPPRESSED"}
  <2>1. id \in Checks
    BY DEF Checks
  <2> QED BY <1>3, <2>1 DEF Reported, Reasons
<1>5. \A i \in DOMAIN contracts : ChecksOf(contracts[i])' = ChecksOf(contracts[i])
  BY <1>1 DEF ChecksOf, Id
<1>6. "RENDERING_OUTPUT_SUPPRESSED" \notin SetupCodes \cup RendererFailures
  BY DEF SetupCodes, RendererFailures
<1>7. ASSUME NEW i \in DOMAIN contracts, NEW id \in ChecksOf(contracts[i])
      PROVE  /\ reasons'[id] \cap SetupCodes \subseteq OwnSetup(contracts[i])
             /\ OwnSetup(contracts[i]) \subseteq reasons'[id]
  <2>1. reasons'[id] = Reasons(id)
    BY <1>1, <1>4
  <2> QED BY <1>4, <1>6, <2>1 DEF Told
<1>8. SetupStaysLocal'
  <2>1. \A i \in DOMAIN contracts :
          OwnSetup(contracts[i])
            = setup[contracts[i].source] \cup setup[contracts[i].target]
    BY DEF OwnSetup, Endpoints
  <2> QED BY <1>1, <1>5, <1>7, <2>1 DEF SetupStaysLocal
<1>9. ASSUME NEW id \in Checks
      PROVE  /\ status'[id] \in {"failed", "rendered"} => id \in attempted
             /\ "RENDERING_OUTPUT_SUPPRESSED" \in reasons'[id] =>
                  id \in attempted /\ results[id] = {}
             /\ \/ reasons'[id] \cap ErrorCodes # {}
                \/ "FACTORY_WARNING" \in reasons'[id]
  <2>1. PICK i \in DOMAIN contracts : id \in ChecksOf(contracts[i])
    BY DEF Checks
  <2>2. reasons'[id] = Reasons(id) /\ status'[id] = FailureStatus(Reasons(id))
    BY <1>1
  <2>3. /\ Told(OwnSetup(contracts[i]), results[id], id \in attempted)
        /\ Reasons(id) = IF results[id] # {} THEN results[id]
                            ELSE {"RENDERING_OUTPUT_SUPPRESSED"}
    BY <1>4, <2>1
  <2>4. /\ results[id] \subseteq Codes \ {"RENDERING_OUTPUT_SUPPRESSED"}
        /\ results[id] = {} \/ results[id] \cap RendererFailures # {} => id \in attempted
    BY <2>3 DEF Told
  <2>5. status'[id] \in {"failed", "rendered"} =>
          Reasons(id) \cap RendererFailures # {}
    BY <2>2, FailureStatusOf
  <2>6. status'[id] \in {"failed", "rendered"} => id \in attempted
    BY <1>6, <2>3, <2>4, <2>5
  <2>7. "RENDERING_OUTPUT_SUPPRESSED" \in reasons'[id] =>
          id \in attempted /\ results[id] = {}
    BY <2>2, <2>3, <2>4
  <2>8. Reasons(id) # {} /\ Reasons(id) \subseteq Codes
    BY <2>3, <2>4 DEF Codes, ErrorCodes
  <2>9. \/ reasons'[id] \cap ErrorCodes # {}
        \/ "FACTORY_WARNING" \in reasons'[id]
    BY <2>2, <2>8 DEF Codes
  <2> QED BY <2>6, <2>7, <2>9
<1>10. StatusesMeanWhatTheySay'
  BY <1>1, <1>2, <1>9 DEF StatusesMeanWhatTheySay
<1> QED BY <1>8, <1>10

LEMMA StepSays ==
  IInv /\ Matched /\ Reported /\ Says /\ [Next]_vars => Says'
<1> SUFFICES ASSUME IInv, Matched, Reported, Says, [Next]_vars PROVE Says'
  OBVIOUS
<1>1. IInv'
  BY StepIInv
<1>2. CASE stage' # "end"
  <2>1. IInv' /\ Deciding' => Says'
    BY UndecidedSays, PTL
  <2> QED BY <1>1, <1>2, <2>1 DEF Deciding
<1>3. CASE UNCHANGED vars
  BY <1>3 DEF vars, given, resolved, rendered, metadata, Says, SetupStaysLocal,
              StatusesMeanWhatTheySay, Checks, ChecksOf, Id
<1>4. CASE OutputSuppressed
  BY <1>4, SuppressedEnd DEF Says
<1>5. CASE BlockedByCompile
  <2>1. /\ exit' = "validation_error" /\ UNCHANGED given
        /\ status' = [id \in Checks |-> "blocked"]
        /\ reasons' = [id \in Checks |-> {"RENDERING_BLOCKED_BY_COMPILE_DIAGNOSTICS"}]
    BY <1>5 DEF BlockedByCompile, End
  <2>2. Checks' = Checks
    BY <2>1 DEF given, Checks, ChecksOf, Id
  <2>3. SetupStaysLocal'
    BY <2>1 DEF SetupStaysLocal
  <2>4. StatusesMeanWhatTheySay'
    BY <2>1, <2>2 DEF StatusesMeanWhatTheySay, ErrorCodes
  <2> QED BY <2>3, <2>4 DEF Says
<1>6. CASE ProfileFails \/ SqlRefused \/ WriteFails
  <2>1. /\ UNCHANGED <<given, status, reasons, setup>> /\ stage # "end"
        /\ exit' = "configuration_error" => stage = "compiled"
    BY <1>6 DEF ProfileFails, SqlRefused, WriteFails, End, Rendered, metadata,
                resolved
  <2>2. exit' = "configuration_error" => \A n \in Connections : setup'[n] = {}
    BY <2>1 DEF Reported
  <2>3. \A id \in Checks : status'[id] = "not_rendered"
    BY <2>1 DEF IInv, NothingDecided
  <2> QED BY <2>1, <2>2, <2>3, SilentEnd DEF Says
<1>7. CASE SqlWritten
  <2>1. /\ UNCHANGED <<given, reasons, attempted>> /\ stage # "end"
        /\ exit' = "success" /\ diagnostics = {}
        /\ status' = [id \in Checks |->
             IF id \in DOMAIN results THEN "rendered" ELSE status[id]]
    BY <1>7 DEF SqlWritten, End, Rendered, Diagnosed, rendered
  <2>2. Checks \subseteq DOMAIN results
    BY <1>7, RenderedAll DEF SqlWritten
  <2>3. \A id \in Checks : status'[id] = "rendered"
    BY <2>1, <2>2
  <2>4. ASSUME NEW id \in Checks
        PROVE  id \in attempted'
    <3>1. results[id] = {}
      BY <2>1, <2>2 DEF Matched
    <3>2. PICK i \in DOMAIN contracts : id \in ChecksOf(contracts[i])
      BY DEF Checks
    <3> QED BY <2>1, <2>2, <3>1, <3>2 DEF Reported, Told
  <2> QED BY <2>1, <2>3, <2>4, SilentEnd DEF Says
<1>8. CASE \/ LoadProfile \/ AdaptersResolved \/ RenderContract \/ RenderCheck
           \/ \E n \in unresolved : ResolveAdapter(n)
  <2>1. stage' # "end"
    <3>1. CASE RenderContract
      BY <3>1, RenderContractCases DEF ContractEntered, ContractPassed
    <3>2. CASE ~ RenderContract
      BY <1>8, <3>2 DEF LoadProfile, AdaptersResolved, RenderCheck, ResolveAdapter
    <3> QED BY <3>1, <3>2
  <2> QED BY <1>2, <2>1
<1> QED BY <1>3, <1>4, <1>5, <1>6, <1>7, <1>8 DEF Next

LEMMA SpecSays == Spec => []Says
<1>1. Init => Says
  <2>1. Init => Deciding
    BY DEF Init, Deciding
  <2> QED BY <2>1, InitIInv, UndecidedSays
<1> QED BY <1>1, InitMatched, InitReported, SpecIInv, StepMatched, StepReported,
           StepSays, PTL DEF Spec

(* When rendering is called off, the checks of a contract are told what is *)
(* wrong with the adapters of its connections, and of no other connection. *)
THEOREM SetupIsToldWhereItBelongs == Spec => []SetupStaysLocal
<1>1. Says => SetupStaysLocal
  BY DEF Says
<1> QED BY <1>1, SpecSays, PTL

(* Only a check that the renderer was given is failed or rendered, only    *)
(* such a check is told that its output was suppressed, and no check is    *)
(* blocked or failed without a reason.                                     *)
THEOREM StatusesAreMeant == Spec => []StatusesMeanWhatTheySay
<1>1. Says => StatusesMeanWhatTheySay
  BY DEF Says
<1> QED BY <1>1, SpecSays, PTL
=============================================================================
