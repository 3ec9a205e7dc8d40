-------------------------- MODULE RunServiceProofs --------------------------
(***************************************************************************)
(* What a run promises, for every project, profile and prerequisite graph: *)
(* no query without an open adapter, no query that is not safe, nothing    *)
(* left open, nothing touched by a run that is misconfigured, no check     *)
(* dropped that can be executed, and an exit that tells what happened.     *)
(***************************************************************************)
EXTENDS RunService, RuntimeRoutingProofs

(* The phases in which a run has not asked for any adapter yet.            *)
BeforeAdapters == {"project", "artifacts", "plan", "scan", "prepare"}

(* The project is one of those that may be loaded.                         *)
ProjectInv ==
  \E loaded \in LoadedProjects :
    checks = loaded.checks /\ contracts = loaded.contracts

(* The adapters: nothing before they are asked for, then those opened are  *)
(* the ones that were asked to connect, and those connected are opened.    *)
AdaptersInv ==
  /\ phase \in BeforeAdapters => opened = <<>> /\ connected = {} /\ touched = {}
  /\ opened \in Seq(touched)
  /\ connected \subseteq {opened[i] : i \in 1..Len(opened)}
  /\ phase = "exited" => opened = <<>>

(* A run ends once, and as a configuration error only before the adapters. *)
ExitInv ==
  /\ exit # "none" => phase = "exited"
  /\ phase \in BeforeAdapters \cup {"open"} => queries = {}
  /\ exit = "configuration_error" => touched = {} /\ queries = {}

(* While opening, what is to be opened is still to be opened or connected; *)
(* the engine then has no adapter, or all that were required.              *)
ContextInv ==
  /\ phase = "open" => ConnectionsToOpen \subseteq toOpen \cup connected
  /\ phase = "engine" =>
       \/ context.adapters = {}
       \/ /\ context = ContextWith(RequiredConnections)
          /\ ConnectionsToOpen \subseteq connected

(* A scan is allowed only when the guard found it bounded.                 *)
ScanInv == \A c \in DOMAIN decisions : decisions[c].allowed => c \in scanSafe

IInv ==
  ProjectInv /\ AdaptersInv /\ ExitInv /\ ContextInv /\ ScanInv /\ QueriesAreSafe

---------------------------------------------------------------------------
(* A scan is allowed by the guard on a bounded local relation only.        *)
LEMMA AllowedScan ==
  ASSUME NEW localDev, NEW relationBacked, NEW bounded, NEW estimate,
         ClassifyScanBudget(localDev, relationBacked, bounded, estimate).allowed
  PROVE  localDev /\ relationBacked /\ bounded
<1> DEFINE chain == <<
      Guard(estimate = "unsafe_preflight", Refused("unsafe_scan_preflight")),
      Guard(estimate = "over_budget", Refused("scan_budget_exceeded")),
      Guard(localDev /\ relationBacked /\ bounded, Allowed),
      Guard(localDev, Refused("bounded_local_scan_required")),
      Guard(estimate = "unknown", Refused("scan_estimate_unknown")),
      Guard(estimate \in {"unavailable", "unsupported", "malformed"},
            Refused("scan_estimate_unsupported")),
      Guard(TRUE, Refused("bounded_local_scan_required"))>>
<1>1. \A i \in 1..7 : i # 3 => ~ chain[i].outcome.allowed
  BY DEF Guard, Refused
<1>2. DOMAIN chain = 1..7 /\ chain[7].holds
  BY DEF Guard
<1>3. chain[3].holds => localDev /\ relationBacked /\ bounded
  BY DEF Guard
<1>4. FirstOutcome(chain).allowed
  BY DEF ClassifyScanBudget
<1> HIDE DEF chain
<1>5. 7 \in Nat \ {0} /\ \E i \in 1..7 : chain[i].holds
  BY <1>2
<1>6. PICK k \in 1..7 : chain[k].holds /\ FirstOutcome(chain) = chain[k].outcome
  BY <1>2, <1>5, FirstOutcomeOfChain
<1> QED BY <1>1, <1>3, <1>4, <1>6

(* A check without a decision of its own is not allowed to scan.           *)
LEMMA AllowedDecision ==
  ASSUME NEW c, NEW handed, DecisionFor(c, handed).allowed
  PROVE  c \in DOMAIN handed.decisions /\ handed.decisions[c].allowed
<1>1. ~ MissingScanBudgetDecision.allowed
  BY AllowedScan DEF MissingScanBudgetDecision
<1> QED BY <1>1 DEF DecisionFor

(* What a check must be for the engine to send its query: a candidate of   *)
(* every filter that the service applied before.                           *)
LEMMA QueriedCheck ==
  ASSUME NEW c \in CheckIds, RouteOf(c) = Query,
         context.adapters # {} => context = ContextWith(RequiredConnections)
  PROVE  /\ context = ContextWith(RequiredConnections)
         /\ SourceOf(c) \in ConnectionsToOpen
         /\ profile[SourceOf(c)] = profile[TargetOf(c)]
         /\ ~ HasQueryEndpoint(ContractOf(c))
         /\ ~ MalformedRelation(ContractOf(c))
         /\ IsKeySafety(checks[c]) =>
              /\ c \in DOMAIN decisions
              /\ decisions[c].allowed
<1>1. /\ ~ RenderingBlocked(checks[c])
      /\ QueryGuards(checks[c], ContractOf(c), profile, context)
      /\ \/ IsRowCount(checks[c])
         \/ /\ IdentityMatchesContract(checks[c])
            /\ DecisionFor(c, context).allowed
  BY RouteQuery DEF RouteOf
<1>2. /\ SupportedShape(checks[c])
      /\ ~ HasQueryEndpoint(ContractOf(c))
      /\ ~ MalformedRelation(ContractOf(c))
      /\ ~ ContextBlocked(ContractOf(c), profile, context)
      /\ profile[SourceOf(c)].type = "duckdb"
      /\ SourceOf(c) \in context.adapters
  BY <1>1 DEF QueryGuards, HasAdapter, SourceOf
<1>3. context = ContextWith(RequiredConnections)
  BY <1>2
<1>4. profile[SourceOf(c)] = profile[TargetOf(c)]
  BY <1>2 DEF ContextBlocked, SameConnectionContext, SourceOf, TargetOf
<1>5. IsKeySafety(checks[c]) => c \in DOMAIN decisions /\ decisions[c].allowed
  <2>1. IsKeySafety(checks[c]) => ~ IsRowCount(checks[c])
    BY DEF IsKeySafety, IsRowCount
  <2>2. context.decisions = decisions
    BY <1>3 DEF ContextWith
  <2> QED BY <1>1, <2>1, <2>2, AllowedDecision
<1>6. c \in ProfileCandidates
  <2>1. c \in RuntimeCandidates
    BY <1>1, <1>2 DEF RenderingBlocked, RuntimeCandidates
  <2> QED BY <1>1, <1>2, <2>1
          DEF ProfileCandidates, RelationBacked, RequiresProfile
<1>7. c \in AdapterCandidates
  BY <1>5, <1>6 DEF AdapterCandidates
<1>8. SourceOf(c) \in ConnectionsToOpen
  BY <1>2, <1>4, <1>7
     DEF ConnectionsToOpen, RelationBacked, SameConnectionContext
<1> QED BY <1>2, <1>3, <1>4, <1>5, <1>8

(* The invariant is what the property needs of the engine's context.       *)
LEMMA RunnableFromInv == IInv => RunnableChecksHaveOpenAdapters
<1> SUFFICES ASSUME IInv, phase = "engine",
                    NEW c \in CheckIds, RouteOf(c) = Query
             PROVE  SourceOf(c) \in connected
  BY DEF RunnableChecksHaveOpenAdapters
<1>1. context.adapters # {} =>
        /\ context = ContextWith(RequiredConnections)
        /\ ConnectionsToOpen \subseteq connected
  BY DEF IInv, ContextInv
<1>2. context.adapters # {}
  BY RouteQuery DEF RouteOf, QueryGuards, HasAdapter
<1> QED BY <1>1, <1>2, QueriedCheck

LEMMA LeftOpenFromInv == IInv => NothingLeftOpen
BY DEF IInv, AdaptersInv, NothingLeftOpen

---------------------------------------------------------------------------
LEMMA InitInv == Init => IInv
<1> SUFFICES ASSUME Init PROVE IInv
  OBVIOUS
<1>1. ProjectInv /\ AdaptersInv
  BY DEF Init, ProjectInv, AdaptersInv, BeforeAdapters
<1>2. ExitInv /\ ContextInv
  BY DEF Init, ExitInv, ContextInv
<1>3. ScanInv /\ QueriesAreSafe
  BY DEF Init, ScanInv, QueriesAreSafe, NoDecision
<1> QED BY <1>1, <1>2, <1>3 DEF IInv

LEMMA SameCandidates ==
  ASSUME UNCHANGED project
  PROVE  ProfileCandidates' = ProfileCandidates
BY DEF project, ProfileCandidates, RuntimeCandidates, ContractOf

(* What the later steps compute is computed from what they leave alone.    *)
LEMMA SameRequirements ==
  ASSUME UNCHANGED <<project, planning>>
  PROVE  /\ ConnectionsToOpen' = ConnectionsToOpen
         /\ ContextWith(RequiredConnections)' = ContextWith(RequiredConnections)
<1>1. ProfileCandidates' = ProfileCandidates
  BY SameCandidates
<1>2. AdapterCandidates' = AdapterCandidates
  BY <1>1 DEF project, planning, AdapterCandidates
<1>3. /\ ConnectionsToOpen' = ConnectionsToOpen
      /\ RequiredConnections' = RequiredConnections
  BY <1>2 DEF project, ConnectionsToOpen, RequiredConnections, SourceOf,
              TargetOf, ContractOf
<1>4. ReferencedConnections' = ReferencedConnections
  BY <1>1 DEF project, ReferencedConnections, SourceOf, TargetOf, ContractOf
<1> QED BY <1>3, <1>4 DEF ContextWith, planning

LEMMA SameSafety ==
  ASSUME IInv, UNCHANGED <<project, planning, queries>>
  PROVE  ProjectInv' /\ ScanInv' /\ QueriesAreSafe'
BY DEF IInv, ProjectInv, ScanInv, QueriesAreSafe, project, planning, ContractOf

(* The steps before the adapters that open nothing and send nothing.       *)
LEMMA GotoStep ==
  ASSUME IInv, phase \in BeforeAdapters,
         NEW next \in BeforeAdapters \ {"project"}, Goto(next)
  PROVE  IInv'
<1>1. UNCHANGED <<project, planning, context, adapters, engine, ending>>
      /\ phase' \in BeforeAdapters
  BY DEF Goto
<1>2. ProjectInv' /\ ScanInv' /\ QueriesAreSafe'
  BY <1>1, SameSafety DEF engine
<1>3. AdaptersInv' /\ ExitInv'
  BY <1>1 DEF IInv, AdaptersInv, ExitInv, adapters, engine, ending,
              BeforeAdapters
<1>4. ContextInv'
  BY <1>1 DEF ContextInv, BeforeAdapters
<1> QED BY <1>2, <1>3, <1>4 DEF IInv

LEMMA FailStep ==
  ASSUME IInv, phase \in BeforeAdapters,
         NEW category, Fail(category)
  PROVE  IInv'
<1>1. /\ UNCHANGED <<project, planning, context, adapters, engine>>
      /\ phase' = "exited"
  BY DEF Fail
<1>2. ProjectInv' /\ ScanInv' /\ QueriesAreSafe'
  BY <1>1, SameSafety DEF engine
<1>3. AdaptersInv'
  BY <1>1 DEF IInv, AdaptersInv, adapters, BeforeAdapters
<1>4. ExitInv'
  BY <1>1 DEF IInv, AdaptersInv, ExitInv, adapters, engine, BeforeAdapters
<1>5. ContextInv'
  BY <1>1 DEF ContextInv
<1> QED BY <1>2, <1>3, <1>4, <1>5 DEF IInv

LEMMA PlanWithoutAdaptersStep ==
  ASSUME IInv, PlanWithoutAdapters
  PROVE  IInv'
<1>1. /\ UNCHANGED <<project, planning, adapters, engine, ending>>
      /\ phase = "plan" /\ phase' = "engine"
      /\ context'.adapters = {}
  BY DEF PlanWithoutAdapters, NoContext, ContextWithoutAdapters
<1>2. ProjectInv' /\ ScanInv' /\ QueriesAreSafe'
  BY <1>1, SameSafety DEF engine
<1>3. AdaptersInv' /\ ExitInv'
  BY <1>1 DEF IInv, AdaptersInv, ExitInv, adapters, engine, ending,
              BeforeAdapters
<1>4. ContextInv'
  BY <1>1 DEF ContextInv
<1> QED BY <1>2, <1>3, <1>4 DEF IInv

(* The decisions: allowed ones come from a bounded scan.                   *)
LEMMA ClassifyScansStep ==
  ASSUME IInv, ClassifyScans
  PROVE  IInv'
<1>1. /\ UNCHANGED <<project, context, adapters, engine, ending>>
      /\ phase = "scan" /\ phase' = "prepare"
  BY DEF ClassifyScans
<1>2. ProjectInv'
  BY <1>1 DEF IInv, ProjectInv, project
<1>3. AdaptersInv' /\ ExitInv'
  BY <1>1 DEF IInv, AdaptersInv, ExitInv, adapters, engine, ending,
              BeforeAdapters
<1>4. ContextInv'
  BY <1>1 DEF ContextInv
<1>5. QueriesAreSafe'
  BY <1>1 DEF IInv, ExitInv, BeforeAdapters, engine, QueriesAreSafe
<1>6. ScanInv'
  <2> DEFINE scanned == {c \in ProfileCandidates : IsKeySafety(checks[c])}
  <2>1. PICK status :
          /\ decisions' = [c \in scanned |->
                             DecisionWith(ContractOf(c), status[c])]
          /\ scanSafe' = {c \in scanned : status[c].bounded}
    BY DEF ClassifyScans
  <2> SUFFICES ASSUME NEW c \in DOMAIN decisions', decisions'[c].allowed
               PROVE  c \in scanSafe'
    BY DEF ScanInv
  <2>2. c \in scanned /\ DecisionWith(ContractOf(c), status[c]).allowed
    BY <2>1
  <2>3. status[c].bounded
    BY <2>2, AllowedScan DEF DecisionWith
  <2> QED BY <2>1, <2>2, <2>3
<1> QED BY <1>2, <1>3, <1>4, <1>5, <1>6 DEF IInv

LEMMA PrepareAdaptersStep ==
  ASSUME IInv, PrepareAdapters
  PROVE  IInv'
<1>1. phase \in BeforeAdapters
  BY DEF PrepareAdapters, BeforeAdapters
<1>2. CASE Fail("configuration_error")
  BY <1>1, <1>2, FailStep
<1>3. CASE /\ phase' = "open"
           /\ toOpen' = ConnectionsToOpen
           /\ UNCHANGED <<project, planning, context, opened, connected,
                          touched, engine, ending>>
  <2>1. ProjectInv' /\ ScanInv' /\ QueriesAreSafe'
    BY <1>3, SameSafety DEF engine
  <2>2. AdaptersInv' /\ ExitInv'
    BY <1>1, <1>3 DEF IInv, AdaptersInv, ExitInv, engine, ending,
                      BeforeAdapters
  <2>3. ContextInv'
    BY <1>3, SameRequirements DEF ContextInv
  <2> QED BY <2>1, <2>2, <2>3 DEF IInv
<1> QED BY <1>2, <1>3 DEF PrepareAdapters

LEMMA OpenAdapterStep ==
  ASSUME IInv, OpenAdapter
  PROVE  IInv'
<1>1. /\ UNCHANGED <<project, phase, planning, context, engine, ending>>
      /\ phase = "open"
      /\ toOpen' = toOpen \ {FirstToOpen}
      /\ opened' = Append(opened, FirstToOpen)
      /\ connected' = connected \cup {FirstToOpen}
      /\ touched' = touched \cup {FirstToOpen}
  BY DEF OpenAdapter
<1>2. ProjectInv' /\ ScanInv' /\ QueriesAreSafe'
  BY <1>1, SameSafety DEF engine
<1>3. AdaptersInv'
  <2>1. opened \in Seq(touched')
    BY <1>1 DEF IInv, AdaptersInv
  <2>2. connected \subseteq {opened[i] : i \in 1..Len(opened)}
    BY DEF IInv, AdaptersInv
  <2>3. phase' \notin BeforeAdapters /\ phase' # "exited"
    BY <1>1 DEF BeforeAdapters
  <2>4. /\ opened' \in Seq(touched')
        /\ Len(opened') = Len(opened) + 1
        /\ opened'[Len(opened) + 1] = FirstToOpen
        /\ \A i \in 1..Len(opened) : opened'[i] = opened[i]
    BY <1>1, <2>1
  <2>5. connected' \subseteq {opened'[i] : i \in 1..Len(opened')}
    <3>1. Len(opened) \in Nat
      BY <2>1
    <3> SUFFICES ASSUME NEW n \in connected'
                 PROVE  \E i \in 1..Len(opened') : n = opened'[i]
      OBVIOUS
    <3>2. CASE n \in connected
      <4>1. PICK i \in 1..Len(opened) : n = opened[i]
        BY <2>2, <3>2
      <4> QED BY <2>4, <3>1, <4>1
    <3>3. CASE n = FirstToOpen
      BY <2>4, <3>1, <3>3
    <3> QED BY <1>1, <3>2, <3>3
  <2> QED BY <2>3, <2>4, <2>5 DEF AdaptersInv
<1>4. ExitInv'
  BY <1>1 DEF IInv, ExitInv, engine, ending, BeforeAdapters
<1>5. ContextInv'
  BY <1>1, SameRequirements DEF IInv, ContextInv
<1> QED BY <1>2, <1>3, <1>4, <1>5 DEF IInv

LEMMA OpenAdapterFailsStep ==
  ASSUME IInv, OpenAdapterFails
  PROVE  IInv'
<1>1. /\ UNCHANGED <<project, planning, opened, connected, engine, exit>>
      /\ phase = "open" /\ phase' = "close"
      /\ touched' = touched \cup {FirstToOpen}
  BY DEF OpenAdapterFails
<1>2. ProjectInv' /\ ScanInv' /\ QueriesAreSafe'
  BY <1>1, SameSafety DEF engine
<1>3. AdaptersInv'
  BY <1>1 DEF IInv, AdaptersInv, BeforeAdapters
<1>4. ExitInv' /\ ContextInv'
  BY <1>1 DEF IInv, ExitInv, ContextInv, BeforeAdapters
<1> QED BY <1>2, <1>3, <1>4 DEF IInv

LEMMA AllOpenedStep ==
  ASSUME IInv, AllOpened
  PROVE  IInv'
<1>1. /\ UNCHANGED <<project, planning, adapters, engine, ending>>
      /\ phase = "open" /\ phase' = "engine"
      /\ toOpen = {}
      /\ context' = ContextWith(RequiredConnections)
  BY DEF AllOpened
<1>2. ProjectInv' /\ ScanInv' /\ QueriesAreSafe'
  BY <1>1, SameSafety DEF engine
<1>3. AdaptersInv' /\ ExitInv'
  BY <1>1 DEF IInv, AdaptersInv, ExitInv, adapters, engine, ending,
              BeforeAdapters
<1>4. ContextInv'
  BY <1>1, SameRequirements DEF IInv, ContextInv, adapters
<1> QED BY <1>2, <1>3, <1>4 DEF IInv

(* The engine records a result and sends nothing.                          *)
LEMMA ResultOnlyStep ==
  ASSUME IInv, phase = "engine",
         UNCHANGED <<project, phase, planning, context, adapters, queries,
                     ending>>
  PROVE  IInv'
<1>1. ProjectInv' /\ ScanInv' /\ QueriesAreSafe'
  BY SameSafety
<1>2. AdaptersInv' /\ ExitInv'
  BY DEF IInv, AdaptersInv, ExitInv, adapters, ending, BeforeAdapters
<1>3. ContextInv'
  BY SameRequirements DEF IInv, ContextInv, adapters
<1> QED BY <1>1, <1>2, <1>3 DEF IInv

(* A query is sent: what the routes have asked for makes it safe.          *)
LEMMA QueryCheckStep ==
  ASSUME IInv, NEW c \in CheckIds, QueryCheck(c)
  PROVE  IInv'
<1>1. /\ UNCHANGED <<project, phase, planning, context, adapters, ending>>
      /\ phase = "engine" /\ RouteOf(c) = Query
      /\ queries' = queries \cup {[check |-> c, connection |-> SourceOf(c)]}
  BY DEF QueryCheck, ReadyToEvaluate
<1>2. ProjectInv' /\ ScanInv'
  BY <1>1 DEF IInv, ProjectInv, ScanInv, project, planning
<1>3. AdaptersInv'
  BY <1>1 DEF IInv, AdaptersInv, adapters, BeforeAdapters
<1>4. ExitInv'
  BY <1>1 DEF IInv, ExitInv, ending, BeforeAdapters
<1>5. ContextInv'
  BY <1>1, SameRequirements DEF IInv, ContextInv, adapters
<1>6. QueriesAreSafe'
  <2>1. /\ profile[SourceOf(c)] = profile[TargetOf(c)]
        /\ ~ HasQueryEndpoint(ContractOf(c))
        /\ ~ MalformedRelation(ContractOf(c))
        /\ IsKeySafety(checks[c]) =>
             c \in DOMAIN decisions /\ decisions[c].allowed
    BY <1>1, QueriedCheck DEF IInv, ContextInv
  <2>2. {ContractOf(c).source.endpoint, ContractOf(c).target.endpoint}
          = {"relation"}
    <3>1. /\ ContractOf(c).source.endpoint \in Endpoint
          /\ ContractOf(c).target.endpoint \in Endpoint
      BY ContractsAssumption DEF IInv, ProjectInv, ContractOf
    <3>2. /\ ContractOf(c).source.endpoint \notin {"query", "malformed"}
          /\ ContractOf(c).target.endpoint \notin {"query", "malformed"}
      BY <2>1 DEF HasQueryEndpoint, MalformedRelation
    <3> QED BY <3>1, <3>2 DEF Endpoint
  <2>3. IsKeySafety(checks[c]) => c \in scanSafe
    BY <2>1 DEF IInv, ScanInv
  <2>4. /\ checks' = checks /\ contracts' = contracts /\ profile' = profile
        /\ scanSafe' = scanSafe
    BY <1>1 DEF project, planning
  <2> SUFFICES ASSUME NEW q \in queries'
               PROVE  /\ IsKeySafety(checks[q.check]) => q.check \in scanSafe
                      /\ profile[ContractOf(q.check).target.connection] =
                           profile[q.connection]
                      /\ {ContractOf(q.check).source.endpoint,
                          ContractOf(q.check).target.endpoint} = {"relation"}
    BY <2>4 DEF QueriesAreSafe, ContractOf
  <2>5. CASE q \in queries
    BY <2>5 DEF IInv, QueriesAreSafe
  <2>6. CASE q = [check |-> c, connection |-> SourceOf(c)]
    BY <2>1, <2>2, <2>3, <2>6 DEF TargetOf
  <2> QED BY <1>1, <2>5, <2>6
<1> QED BY <1>2, <1>3, <1>4, <1>5, <1>6 DEF IInv

(* The engine hands over to the closing of the adapters.                   *)
LEMMA EngineEndsStep ==
  ASSUME IInv, EngineReturns \/ EngineRaises
  PROVE  IInv'
<1>1. /\ UNCHANGED <<project, planning, adapters, engine, exit>>
      /\ phase = "engine" /\ phase' = "close"
  BY DEF EngineReturns, EngineRaises
<1>2. ProjectInv' /\ ScanInv' /\ QueriesAreSafe'
  BY <1>1, SameSafety DEF engine
<1>3. AdaptersInv'
  BY <1>1 DEF IInv, AdaptersInv, adapters, BeforeAdapters
<1>4. ExitInv' /\ ContextInv'
  BY <1>1 DEF IInv, ExitInv, ContextInv, BeforeAdapters
<1> QED BY <1>2, <1>3, <1>4 DEF IInv

LEMMA CloseAdapterStep ==
  ASSUME IInv, CloseAdapter
  PROVE  IInv'
<1>1. /\ UNCHANGED <<project, phase, planning, touched, engine, exit>>
      /\ phase = "close" /\ opened # <<>>
      /\ connected' = connected \ {opened[Len(opened)]}
      /\ opened' = [i \in 1..(Len(opened) - 1) |-> opened[i]]
  BY DEF CloseAdapter
<1>2. ProjectInv' /\ ScanInv' /\ QueriesAreSafe'
  BY <1>1, SameSafety DEF engine
<1>3. AdaptersInv'
  <2>1. opened \in Seq(touched)
        /\ connected \subseteq {opened[i] : i \in 1..Len(opened)}
    BY DEF IInv, AdaptersInv
  <2>2. PICK n \in Nat : n = Len(opened)
    BY <2>1
  <2>3. n - 1 \in Nat
    BY <1>1, <2>1, <2>2
  <2>4. opened' \in Seq(touched) /\ Len(opened') = n - 1
    BY <1>1, <2>1, <2>2, <2>3
  <2>5. connected' \subseteq {opened'[i] : i \in 1..Len(opened')}
    <3> SUFFICES ASSUME NEW m \in connected'
                 PROVE  \E i \in 1..Len(opened') : m = opened'[i]
      OBVIOUS
    <3>1. PICK i \in 1..n : m = opened[i]
      BY <1>1, <2>1, <2>2
    <3>2. i # n
      BY <1>1, <2>2, <3>1
    <3>3. i \in 1..(n - 1)
      BY <3>2
    <3> QED BY <1>1, <2>2, <2>4, <3>1, <3>3
  <2>6. touched' = touched /\ phase' = "close"
    BY <1>1
  <2> QED BY <2>4, <2>5, <2>6 DEF AdaptersInv, BeforeAdapters
<1>4. ExitInv' /\ ContextInv'
  BY <1>1 DEF IInv, ExitInv, ContextInv, BeforeAdapters, engine
<1> QED BY <1>2, <1>3, <1>4 DEF IInv

LEMMA ExitStep ==
  ASSUME IInv, Exit
  PROVE  IInv'
<1>1. /\ UNCHANGED <<project, planning, adapters, engine>>
      /\ phase = "close" /\ opened = <<>> /\ phase' = "exited"
      /\ exit' \in {ExitCategory(RunStatusOf), "runtime_error"}
  BY DEF Exit
<1>2. ProjectInv' /\ ScanInv' /\ QueriesAreSafe'
  BY <1>1, SameSafety DEF engine
<1>3. AdaptersInv'
  BY <1>1 DEF IInv, AdaptersInv, adapters, BeforeAdapters
<1>4. exit' # "configuration_error"
  <2>1. ExitCategory(RunStatusOf) # "configuration_error"
    BY DEF ExitCategory
  <2> QED BY <1>1, <2>1
<1>5. ExitInv' /\ ContextInv'
  BY <1>1, <1>4 DEF ExitInv, ContextInv, BeforeAdapters
<1> QED BY <1>2, <1>3, <1>5 DEF IInv

LEMMA StutterStep ==
  ASSUME IInv, UNCHANGED vars
  PROVE  IInv'
<1>1. UNCHANGED <<project, phase, planning, context, adapters, engine, ending>>
  BY DEF vars
<1>2. ProjectInv' /\ ScanInv' /\ QueriesAreSafe'
  BY <1>1, SameSafety DEF engine
<1>3. AdaptersInv' /\ ExitInv'
  BY <1>1 DEF IInv, AdaptersInv, ExitInv, adapters, engine, ending,
              BeforeAdapters
<1>4. ContextInv'
  BY <1>1, SameRequirements DEF IInv, ContextInv, adapters
<1> QED BY <1>2, <1>3, <1>4 DEF IInv

LEMMA StepInv == IInv /\ [Next]_vars => IInv'
<1> SUFFICES ASSUME IInv, [Next]_vars PROVE IInv'
  OBVIOUS
<1>1. CASE LoadProject \/ LoadArtifacts \/ LoadProfile
  BY <1>1, GotoStep, FailStep
     DEF LoadProject, LoadArtifacts, LoadProfile, BeforeAdapters
<1>2. CASE PlanWithoutAdapters
  BY <1>2, PlanWithoutAdaptersStep
<1>3. CASE ClassifyScans
  BY <1>3, ClassifyScansStep
<1>4. CASE PrepareAdapters
  BY <1>4, PrepareAdaptersStep
<1>5. CASE OpenAdapter
  BY <1>5, OpenAdapterStep
<1>6. CASE AllOpened
  BY <1>6, AllOpenedStep
<1>7. CASE \E c \in CheckIds : EngineStep(c)
  <2>1. PICK c \in CheckIds : EngineStep(c)
    BY <1>7
  <2>2. CASE ReportCheck(c) \/ RenderingFails(c) \/ BlockCheck(c)
    BY <2>2, ResultOnlyStep
       DEF ReportCheck, RenderingFails, BlockCheck, ReadyToEvaluate
  <2>3. CASE QueryCheck(c)
    BY <2>3, QueryCheckStep
  <2> QED BY <2>1, <2>2, <2>3 DEF EngineStep
<1>8. CASE EngineReturns \/ EngineRaises
  BY <1>8, EngineEndsStep
<1>9. CASE CloseAdapter
  BY <1>9, CloseAdapterStep
<1>10. CASE Exit
  BY <1>10, ExitStep
<1>11. CASE OpenAdapterFails
  BY <1>11, OpenAdapterFailsStep
<1>12. CASE UNCHANGED vars
  BY <1>12, StutterStep
<1> QED BY <1>1, <1>2, <1>3, <1>4, <1>5, <1>6, <1>7, <1>8, <1>9, <1>10, <1>11,
           <1>12 DEF Next, Progress

---------------------------------------------------------------------------
LEMMA Invariant == Spec => []IInv
BY InitInv, StepInv, PTL DEF Spec

(* The engine of a run never asks for the rows of a connection whose       *)
(* adapter is not open.                                                    *)
THEOREM QueriesHaveOpenAdapters == Spec => []RunnableChecksHaveOpenAdapters
BY Invariant, RunnableFromInv, PTL

(* Every query sent is over two relations of one database, and for key     *)
(* safety under a scan that was found bounded.                             *)
THEOREM SentQueriesAreSafe == Spec => []QueriesAreSafe
<1>1. IInv => QueriesAreSafe
  BY DEF IInv
<1> QED BY <1>1, Invariant, PTL

(* Whatever fails, a run that has exited has closed what it opened.        *)
THEOREM AdaptersAreClosed == Spec => []NothingLeftOpen
BY Invariant, LeftOpenFromInv, PTL

(* A configuration error is found before any adapter is asked to connect.  *)
THEOREM ConfigurationErrorsComeFirst ==
  Spec => []ConfigurationErrorsTouchNothing
<1>1. IInv => ConfigurationErrorsTouchNothing
  BY DEF IInv, ExitInv, ConfigurationErrorsTouchNothing
<1> QED BY <1>1, Invariant, PTL

---------------------------------------------------------------------------
(* The results: none before the engine works, then of a known status, and  *)
(* a failure only by a query that was sent.                                *)
ResultsInv ==
  /\ results = [c \in CheckIds |-> results[c]]
  /\ phase \in BeforeAdapters \cup {"open"} =>
       \A c \in CheckIds : results[c] = Unresolved
  /\ \A c \in CheckIds :
       results[c] = Unresolved \/ results[c].status \in CheckStatus
  /\ \A c \in CheckIds : results[c].status = "fail" =>
       results[c] = Executed("fail") /\ \E q \in queries : q.check = c

(* The engine returns with every check resolved, and an exit that is not   *)
(* an error is that of the results, after a clean closing.                 *)
VerdictInv ==
  /\ phase \in BeforeAdapters \cup {"open", "engine"} => verdict # "returned"
  /\ verdict = "returned" => \A c \in CheckIds : results[c] # Unresolved
  /\ exit \in {"success", "check_failure"} =>
       /\ verdict = "returned" /\ ~ closeFailed
       /\ exit = ExitCategory(RunStatusOf)

(* A scan found bounded is allowed; the engine has an adapter for every    *)
(* check that needs one; and no check that can run was reported otherwise. *)
PlanInv ==
  /\ \A c \in scanSafe : c \in DOMAIN decisions /\ decisions[c].allowed
  /\ phase = "engine" =>
       ProfileCandidates = {} \/ context = ContextWith(RequiredConnections)
  /\ \A c \in CheckIds : Executable(c) => results[c].status # "not_executable"

RunInv == ResultsInv /\ VerdictInv /\ PlanInv

---------------------------------------------------------------------------
(* The aggregate of some statuses is the most severe of them               *)
(* (_aggregate_statuses).                                                  *)
LEMMA AggregateIsMostSevere ==
  ASSUME NEW S
  PROVE  \/ AggregateStatuses(S) = "no_checks"
         \/ \E k \in 1..7 :
              /\ AggregateStatuses(S) = Precedence[k] /\ Precedence[k] \in S
              /\ \A i \in 1..7 : Precedence[i] \in S => k <= i
<1> DEFINE present == {i \in 1..7 : Precedence[i] \in S}
           first == CHOOSE i \in present : \A j \in present : i <= j
<1>1. AggregateStatuses(S) = IF present = {} THEN "no_checks" ELSE Precedence[first]
  BY DEF AggregateStatuses
<1>2. CASE present # {}
  <2>1. \E i \in present : \A j \in present : i <= j
    BY <1>2
  <2>2. first \in present /\ \A j \in present : first <= j
    BY <2>1
  <2> HIDE DEF first
  <2> QED BY <1>1, <1>2, <2>2
<1> QED BY <1>1, <1>2

(* What a clean exit says of the statuses it stands for.                   *)
LEMMA CleanExit ==
  ASSUME NEW S, S \subseteq CheckStatus
  PROVE  /\ ExitCategory(AggregateStatuses(S)) = "success" =>
              S # {} /\ S \subseteq {"pass", "warn", "skipped"}
         /\ ExitCategory(AggregateStatuses(S)) = "check_failure" =>
              "fail" \in S /\ "error" \notin S
<1> DEFINE status == AggregateStatuses(S)
<1>1. /\ ExitCategory(status) = "success" => status \in {"pass", "warn", "skipped"}
      /\ ExitCategory(status) = "check_failure" => status = "fail"
  BY DEF ExitCategory
<1>2. CASE status = "no_checks"
  BY <1>1, <1>2
<1>3. CASE \E k \in 1..7 :
              /\ status = Precedence[k] /\ Precedence[k] \in S
              /\ \A i \in 1..7 : Precedence[i] \in S => k <= i
  <2>1. PICK k \in 1..7 :
              /\ status = Precedence[k] /\ Precedence[k] \in S
              /\ \A i \in 1..7 : Precedence[i] \in S => k <= i
    BY <1>3
  <2> HIDE DEF status
  <2>2. ASSUME status \in {"pass", "warn", "skipped"}
        PROVE  S \subseteq {"pass", "warn", "skipped"}
    <3>1. k \in 5..7
      BY <2>1, <2>2 DEF Precedence
    <3>2. \A i \in 1..4 : Precedence[i] \notin S
      BY <2>1, <3>1
    <3> QED BY <3>2 DEF CheckStatus, Precedence
  <2>3. ASSUME status = "fail"
        PROVE  "error" \notin S
    <3>1. k # 1
      BY <2>1, <2>3 DEF Precedence
    <3>2. Precedence[1] \notin S
      BY <2>1, <3>1
    <3> QED BY <3>2 DEF Precedence
  <2> QED BY <1>1, <2>1, <2>2, <2>3 DEF status
<1> QED BY <1>2, <1>3, AggregateIsMostSevere

(* A check that can run has an adapter and a decision once the plan has    *)
(* been carried out, and so is queried.                                    *)
LEMMA ExecutableIsQueried ==
  ASSUME PlanInv, phase = "engine", NEW c \in CheckIds, Executable(c)
  PROVE  RouteOf(c) = Query
<1>1. /\ SupportedShape(checks[c])
      /\ checks[c].rendering \notin BlockingRendering
      /\ ContractOf(c).source.endpoint = "relation"
      /\ ContractOf(c).target.endpoint = "relation"
      /\ profile[SourceOf(c)].type = "duckdb"
      /\ profile[SourceOf(c)] = profile[TargetOf(c)]
      /\ IsKeySafety(checks[c]) => checks[c].grain /\ c \in scanSafe
  BY DEF Executable, SourceOf, TargetOf
<1>2. ~ HasQueryEndpoint(ContractOf(c)) /\ ~ MalformedRelation(ContractOf(c))
  BY <1>1 DEF HasQueryEndpoint, MalformedRelation
<1>3. /\ IsKeySafety(checks[c]) => IdentityMatchesContract(checks[c])
      /\ IsKeySafety(checks[c]) \/ IsRowCount(checks[c])
  BY <1>1 DEF IdentityMatchesContract, SupportedShape, SupportedKeySafetyShape
<1>4. IsKeySafety(checks[c]) => c \in DOMAIN decisions /\ decisions[c].allowed
  BY <1>1 DEF PlanInv
<1>5. c \in ProfileCandidates
  <2>1. c \in RuntimeCandidates
    BY <1>1 DEF RuntimeCandidates
  <2>2. RelationBacked(ContractOf(c)) /\ RequiresProfile(checks[c], ContractOf(c))
    BY <1>2, <1>3 DEF RelationBacked, RequiresProfile
  <2> QED BY <2>1, <2>2 DEF ProfileCandidates
<1>6. c \in AdapterCandidates
  BY <1>4, <1>5 DEF AdapterCandidates
<1>7. context = ContextWith(RequiredConnections)
  BY <1>5 DEF PlanInv
<1>8. /\ context.present /\ context.renderers = {"duckdb"}
      /\ context.decisions = decisions
      /\ context.adapters = RequiredConnections
      /\ context.connections = ReferencedConnections
  BY <1>7 DEF ContextWith
<1>9. SourceOf(c) \in RequiredConnections
  BY <1>6 DEF RequiredConnections
<1>10. {SourceOf(c), TargetOf(c)} \subseteq ReferencedConnections
  BY <1>5 DEF ReferencedConnections
<1>11. Queryable(ContractOf(c), profile, context)
  <2>1. ~ ContextBlocked(ContractOf(c), profile, context)
    BY <1>1, <1>8, <1>10
       DEF ContextBlocked, SameConnectionContext, SourceOf, TargetOf
  <2>2. ~ RendererBlocked(ContractOf(c), profile, context).holds
    BY <1>1, <1>8 DEF RendererBlocked, Guard, SourceOf
  <2>3. HasAdapter(ContractOf(c), context)
    BY <1>8, <1>9 DEF HasAdapter, SourceOf
  <2> QED BY <1>2, <2>1, <2>2, <2>3 DEF Queryable
<1>12. IsKeySafety(checks[c]) => DecisionFor(c, context).allowed
  BY <1>4, <1>8 DEF DecisionFor
<1> QED BY <1>1, <1>3, <1>8, <1>11, <1>12, RouteToQuery DEF RouteOf

(* Whatever the route of a check, its result is of a known status, a       *)
(* failure only after a query, and not "not executable" when it could run. *)
LEMMA EngineResult ==
  ASSUME RunInv, NEW c \in CheckIds, EngineStep(c)
  PROVE  \E r :
           /\ results' = [results EXCEPT ![c] = r]
           /\ r.status \in CheckStatus
           /\ r.status = "fail" =>
                r = Executed("fail") /\ \E q \in queries' : q.check = c
           /\ Executable(c) => r.status # "not_executable"
<1> USE DEF Verdicts!Record
<1>1. Executable(c) /\ phase = "engine" => RouteOf(c) = Query
  BY ExecutableIsQueried DEF RunInv
<1>2. /\ RuntimeError.status = "error"
      /\ Executed("pass").status = "pass" /\ Executed("fail").status = "fail"
  BY DEF RuntimeError, Outcome, Executed
<1>3. CASE ReportCheck(c)
  <2>1. /\ RouteOf(c) # Query /\ phase = "engine"
        /\ results' = [results EXCEPT ![c] = RouteOf(c)]
    BY <1>3 DEF ReportCheck, ReadyToEvaluate
  <2>2. RouteOf(c) = RuntimeError \/ RouteOf(c).status = "not_executable"
    BY <2>1, RouteKnown DEF RouteOf
  <2> QED BY <1>1, <1>2, <2>1, <2>2 DEF CheckStatus
<1>4. CASE RenderingFails(c)
  BY <1>2, <1>4 DEF RenderingFails, CheckStatus
<1>5. CASE QueryCheck(c)
  <2>1. \E q \in queries' : q.check = c
    <3>1. [check |-> c, connection |-> SourceOf(c)] \in queries'
      BY <1>5 DEF QueryCheck
    <3> QED BY <3>1
  <2>2. PICK r \in {RuntimeError, Executed("pass"), Executed("fail")} :
          results' = [results EXCEPT ![c] = r]
    BY <1>5 DEF QueryCheck
  <2> QED BY <1>2, <2>1, <2>2 DEF CheckStatus
<1>6. CASE BlockCheck(c)
  <2>1. CASE Verdicts!Block(c)
    <3>1. PICK ids : results' = [results EXCEPT ![c] = Verdicts!BlockedBy(ids)]
      BY <2>1 DEF Verdicts!Block
    <3>2. Verdicts!BlockedBy(ids).status = "blocked"
      BY DEF Verdicts!BlockedBy
    <3> QED BY <3>1, <3>2 DEF CheckStatus
  <2>2. CASE Verdicts!Reject(c)
    <3>1. results' = [results EXCEPT ![c] = Verdicts!InternalError]
      BY <2>2 DEF Verdicts!Reject
    <3>2. Verdicts!InternalError.status = "error"
      BY DEF Verdicts!InternalError
    <3> QED BY <3>1, <3>2 DEF CheckStatus
  <2> QED BY <1>6, <2>1, <2>2 DEF BlockCheck
<1> QED BY <1>3, <1>4, <1>5, <1>6 DEF EngineStep

LEMMA RunInit == Init => RunInv
<1> SUFFICES ASSUME Init PROVE RunInv
  OBVIOUS
<1>1. Unresolved.status = "unresolved"
  BY DEF Unresolved, Verdicts!Unresolved
<1>2. ResultsInv
  BY <1>1 DEF Init, ResultsInv
<1>3. VerdictInv
  BY DEF Init, VerdictInv
<1>4. PlanInv
  BY <1>1 DEF Init, PlanInv
<1> QED BY <1>2, <1>3, <1>4 DEF RunInv

(* What can run is a matter of the project and of the scans.               *)
LEMMA SameExecutable ==
  ASSUME UNCHANGED <<project, scanSafe>>, NEW c
  PROVE  Executable(c)' = Executable(c)
BY DEF project, Executable, ContractOf

LEMMA SameRunStatus ==
  ASSUME UNCHANGED results
  PROVE  RunStatusOf' = RunStatusOf
BY DEF RunStatusOf

(* The steps of which the results know nothing.                            *)
LEMMA ResultsKept ==
  ASSUME RunInv, UNCHANGED <<project, scanSafe, engine>>,
         phase' \in BeforeAdapters \cup {"open"} =>
           phase \in BeforeAdapters \cup {"open"}
  PROVE  /\ ResultsInv'
         /\ \A c \in CheckIds : Executable(c)' => results'[c].status # "not_executable"
<1>1. results' = results /\ queries' = queries
  BY DEF engine
<1>2. ResultsInv'
  BY <1>1 DEF RunInv, ResultsInv
<1>3. \A c \in CheckIds : Executable(c)' = Executable(c)
  BY SameExecutable
<1> QED BY <1>1, <1>2, <1>3 DEF RunInv, PlanInv

(* The steps that neither work on results nor start the engine.            *)
LEMMA ResultsAndPlanKept ==
  ASSUME RunInv, UNCHANGED <<project, planning, engine>>,
         phase' \in BeforeAdapters \cup {"open"} =>
           phase \in BeforeAdapters \cup {"open"},
         phase' = "engine" => phase = "engine" /\ UNCHANGED context
  PROVE  ResultsInv' /\ PlanInv'
<1>1. scanSafe' = scanSafe /\ decisions' = decisions
  BY DEF planning
<1>2. /\ ResultsInv'
      /\ \A c \in CheckIds : Executable(c)' => results'[c].status # "not_executable"
  BY <1>1, ResultsKept
<1>3. \A c \in scanSafe' : c \in DOMAIN decisions' /\ decisions'[c].allowed
  BY <1>1 DEF RunInv, PlanInv
<1>4. phase' = "engine" =>
        (ProfileCandidates = {} \/ context = ContextWith(RequiredConnections))'
  BY SameCandidates, SameRequirements DEF RunInv, PlanInv
<1> QED BY <1>2, <1>3, <1>4 DEF PlanInv

LEMMA VerdictKept ==
  ASSUME RunInv, UNCHANGED <<results, ending>>,
         phase' \in BeforeAdapters \cup {"open", "engine"} =>
           phase \in BeforeAdapters \cup {"open", "engine"}
  PROVE  VerdictInv'
<1>1. RunStatusOf' = RunStatusOf
  BY SameRunStatus
<1> QED BY <1>1 DEF RunInv, VerdictInv, ending

LEMMA RunGotoOrFail ==
  ASSUME RunInv, phase \in BeforeAdapters,
         \/ \E next \in BeforeAdapters : Goto(next)
         \/ \E category \in {"configuration_error", "runtime_error"} :
              Fail(category)
  PROVE  RunInv'
<1>1. /\ UNCHANGED <<project, planning, engine, verdict, closeFailed>>
      /\ phase' \in BeforeAdapters \cup {"exited"}
  BY DEF Goto, Fail, ending
<1>2. ResultsInv' /\ PlanInv'
  BY <1>1, ResultsAndPlanKept DEF BeforeAdapters
<1>3. VerdictInv'
  <2>1. verdict' # "returned"
    BY <1>1 DEF RunInv, VerdictInv
  <2>2. exit' \in {exit, "configuration_error", "runtime_error"}
    BY DEF Goto, Fail, ending
  <2>3. exit \notin {"success", "check_failure"}
    BY DEF RunInv, VerdictInv
  <2> QED BY <2>1, <2>2, <2>3 DEF VerdictInv
<1> QED BY <1>2, <1>3 DEF RunInv

LEMMA RunPlanWithoutAdapters ==
  ASSUME RunInv, PlanWithoutAdapters
  PROVE  RunInv'
<1>1. /\ UNCHANGED <<project, planning, adapters, engine, ending>>
      /\ phase = "plan" /\ phase' = "engine" /\ ProfileCandidates = {}
  BY DEF PlanWithoutAdapters
<1>2. /\ scanSafe' = scanSafe /\ decisions' = decisions
      /\ results' = results
  BY <1>1 DEF planning, engine
<1>3. /\ ResultsInv'
      /\ \A c \in CheckIds : Executable(c)' => results'[c].status # "not_executable"
  BY <1>1, <1>2, ResultsKept DEF BeforeAdapters
<1>4. PlanInv'
  <2>1. ProfileCandidates' = {}
    BY <1>1, SameCandidates
  <2> QED BY <1>2, <1>3, <2>1 DEF RunInv, PlanInv
<1>5. VerdictInv'
  BY <1>1, <1>2, VerdictKept DEF BeforeAdapters
<1> QED BY <1>3, <1>4, <1>5 DEF RunInv

(* The scan of a check that is found bounded is allowed.                   *)
LEMMA BoundedScanAllowed ==
  ASSUME NEW contract, NEW status, status \in GuardStatuses(contract),
         status.bounded, RelationBacked(contract)
  PROVE  DecisionWith(contract, status).allowed
<1>1. status.localDev = TRUE
  BY DEF GuardStatuses, GuardStatus
<1> DEFINE local == RelationBacked(contract) /\ status.localDev
           relation == RelationBacked(contract)
           bounded == status.bounded
           estimate == "unknown"
           chain == <<
             Guard(estimate = "unsafe_preflight", Refused("unsafe_scan_preflight")),
             Guard(estimate = "over_budget", Refused("scan_budget_exceeded")),
             Guard(local /\ relation /\ bounded, Allowed),
             Guard(local, Refused("bounded_local_scan_required")),
             Guard(estimate = "unknown", Refused("scan_estimate_unknown")),
             Guard(estimate \in {"unavailable", "unsupported", "malformed"},
                   Refused("scan_estimate_unsupported")),
             Guard(TRUE, Refused("bounded_local_scan_required"))>>
<1>2. DecisionWith(contract, status) = FirstOutcome(chain)
  BY DEF DecisionWith, ClassifyScanBudget
<1>3. DOMAIN chain = 1..7 /\ ~ chain[1].holds /\ ~ chain[2].holds
  <2>1. /\ chain[1] = Guard(estimate = "unsafe_preflight",
                            Refused("unsafe_scan_preflight"))
        /\ chain[2] = Guard(estimate = "over_budget",
                            Refused("scan_budget_exceeded"))
        /\ DOMAIN chain = 1..7
    OBVIOUS
  <2>2. estimate # "unsafe_preflight" /\ estimate # "over_budget"
    OBVIOUS
  <2> HIDE DEF chain, estimate
  <2>3. /\ chain[1].holds = (estimate = "unsafe_preflight")
        /\ chain[2].holds = (estimate = "over_budget")
    BY <2>1 DEF Guard
  <2> QED BY <2>1, <2>2, <2>3
<1>4. chain[3] = Guard(local /\ relation /\ bounded, Allowed)
  OBVIOUS
<1>5. local /\ relation /\ bounded
  BY <1>1
<1>6. chain[3].holds /\ chain[3].outcome = Allowed
  BY <1>4, <1>5 DEF Guard
<1> HIDE DEF chain
<1>7. 7 \in Nat \ {0} /\ 3 \in 1..7 /\ \A j \in 1..(3 - 1) : j = 1 \/ j = 2
  OBVIOUS
<1>8. FirstOutcome(chain) = chain[3].outcome
  BY <1>3, <1>6, <1>7, OutcomeOfFirst
<1> QED BY <1>2, <1>6, <1>8 DEF Allowed

LEMMA RunClassifyScans ==
  ASSUME RunInv, ClassifyScans
  PROVE  RunInv'
<1>1. /\ UNCHANGED <<project, context, adapters, engine, ending>>
      /\ phase = "scan" /\ phase' = "prepare"
  BY DEF ClassifyScans
<1>2. results' = results /\ queries' = queries
  BY <1>1 DEF engine
<1>3. \A c \in CheckIds : results[c] = Unresolved
  BY <1>1 DEF RunInv, ResultsInv, BeforeAdapters
<1>4. ResultsInv'
  BY <1>2, <1>3 DEF RunInv, ResultsInv
<1>5. VerdictInv'
  BY <1>1, <1>2, VerdictKept DEF BeforeAdapters
<1>6. PlanInv'
  <2>1. \A c \in CheckIds : results'[c].status # "not_executable"
    BY <1>2, <1>3 DEF Unresolved, Verdicts!Unresolved
  <2> DEFINE scanned == {c \in ProfileCandidates : IsKeySafety(checks[c])}
  <2>2. PICK status :
          /\ \A c \in scanned : status[c] \in GuardStatuses(ContractOf(c))
          /\ decisions' = [c \in scanned |->
                             DecisionWith(ContractOf(c), status[c])]
          /\ scanSafe' = {c \in scanned : status[c].bounded}
    BY DEF ClassifyScans
  <2>3. ASSUME NEW c \in scanSafe'
        PROVE  c \in DOMAIN decisions' /\ decisions'[c].allowed
    <3>1. /\ c \in scanned /\ status[c].bounded
          /\ status[c] \in GuardStatuses(ContractOf(c))
      BY <2>2, <2>3
    <3>2. RelationBacked(ContractOf(c))
      BY <3>1 DEF ProfileCandidates
    <3>3. DecisionWith(ContractOf(c), status[c]).allowed
      BY <3>1, <3>2, BoundedScanAllowed
    <3> QED BY <2>2, <3>1, <3>3
  <2> QED BY <1>1, <2>1, <2>3 DEF PlanInv
<1> QED BY <1>4, <1>5, <1>6 DEF RunInv

LEMMA RunPrepareAdapters ==
  ASSUME RunInv, PrepareAdapters
  PROVE  RunInv'
<1>1. phase \in BeforeAdapters
  BY DEF PrepareAdapters, BeforeAdapters
<1>2. CASE Fail("configuration_error")
  BY <1>1, <1>2, RunGotoOrFail
<1>3. CASE ~ Fail("configuration_error")
  <2>1. /\ UNCHANGED <<project, planning, context, engine, ending>>
        /\ phase' = "open"
    BY <1>3 DEF PrepareAdapters
  <2>2. ResultsInv' /\ PlanInv'
    BY <1>1, <2>1, ResultsAndPlanKept
  <2>3. VerdictInv'
    BY <1>1, <2>1, VerdictKept DEF engine
  <2> QED BY <2>2, <2>3 DEF RunInv
<1> QED BY <1>2, <1>3

(* An adapter is opened, cannot be opened, or none is left to open.        *)
LEMMA RunOpening ==
  ASSUME RunInv, ExitInv, OpenAdapter \/ OpenAdapterFails \/ AllOpened
  PROVE  RunInv'
<1>1. CASE OpenAdapter
  <2>1. /\ UNCHANGED <<project, phase, planning, context, engine, ending>>
        /\ phase = "open"
    BY <1>1 DEF OpenAdapter
  <2>2. ResultsInv' /\ PlanInv'
    BY <2>1, ResultsAndPlanKept
  <2>3. VerdictInv'
    BY <2>1, VerdictKept DEF engine
  <2> QED BY <2>2, <2>3 DEF RunInv
<1>2. CASE OpenAdapterFails
  <2>1. /\ UNCHANGED <<project, planning, engine, exit>>
        /\ phase = "open" /\ phase' = "close"
        /\ verdict' = "connection_failed"
    BY <1>2 DEF OpenAdapterFails
  <2>2. ResultsInv' /\ PlanInv'
    BY <2>1, ResultsAndPlanKept DEF BeforeAdapters
  <2>3. VerdictInv'
    BY <2>1 DEF ExitInv, VerdictInv
  <2> QED BY <2>2, <2>3 DEF RunInv
<1>3. CASE AllOpened
  <2>1. /\ UNCHANGED <<project, planning, engine, ending>>
        /\ phase = "open" /\ phase' = "engine"
        /\ context' = ContextWith(RequiredConnections)
    BY <1>3 DEF AllOpened
  <2>2. /\ scanSafe' = scanSafe /\ decisions' = decisions
        /\ results' = results
    BY <2>1 DEF planning, engine
  <2>3. /\ ResultsInv'
        /\ \A c \in CheckIds : Executable(c)' => results'[c].status # "not_executable"
    BY <2>1, <2>2, ResultsKept DEF BeforeAdapters
  <2>4. context' = ContextWith(RequiredConnections)'
    BY <2>1, SameRequirements
  <2>5. PlanInv'
    BY <2>2, <2>3, <2>4 DEF RunInv, PlanInv
  <2>6. VerdictInv'
    BY <2>1, <2>2, VerdictKept
  <2> QED BY <2>3, <2>5, <2>6 DEF RunInv
<1> QED BY <1>1, <1>2, <1>3

LEMMA RunEngineStep ==
  ASSUME RunInv, ExitInv, NEW c \in CheckIds, EngineStep(c)
  PROVE  RunInv'
<1>1. /\ UNCHANGED <<project, phase, planning, context, adapters, ending>>
      /\ phase = "engine" /\ queries \subseteq queries'
  BY DEF EngineStep, ReportCheck, RenderingFails, QueryCheck, BlockCheck,
         ReadyToEvaluate
<1>2. PICK r : /\ results' = [results EXCEPT ![c] = r]
               /\ r.status \in CheckStatus
               /\ r.status = "fail" =>
                    r = Executed("fail") /\ \E q \in queries' : q.check = c
               /\ Executable(c) => r.status # "not_executable"
  BY EngineResult
<1>3. ResultsInv
  BY DEF RunInv
<1>4. results' = [d \in CheckIds |-> IF d = c THEN r ELSE results[d]]
  BY <1>2, <1>3 DEF ResultsInv
<1>5. ResultsInv'
  <2>1. results' = [d \in CheckIds |-> results'[d]]
    BY <1>4
  <2>2. \A d \in CheckIds :
          results'[d] = Unresolved \/ results'[d].status \in CheckStatus
    BY <1>2, <1>3, <1>4 DEF ResultsInv
  <2>3. ASSUME NEW d \in CheckIds, results'[d].status = "fail"
        PROVE  results'[d] = Executed("fail") /\ \E q \in queries' : q.check = d
    BY <1>1, <1>2, <1>3, <1>4, <2>3 DEF ResultsInv
  <2> QED BY <1>1, <2>1, <2>2, <2>3 DEF ResultsInv, BeforeAdapters
<1>6. VerdictInv'
  <2>1. verdict' # "returned" /\ exit' = "none"
    BY <1>1 DEF RunInv, VerdictInv, ExitInv, ending
  <2> QED BY <2>1 DEF VerdictInv
<1>7. PlanInv'
  <2>1. scanSafe' = scanSafe /\ decisions' = decisions
    BY <1>1 DEF planning
  <2>2. ASSUME NEW d \in CheckIds, Executable(d)'
        PROVE  results'[d].status # "not_executable"
    <3>1. Executable(d)
      BY <1>1, <2>1, <2>2, SameExecutable
    <3> QED BY <1>2, <1>4, <3>1 DEF RunInv, PlanInv
  <2>3. (ProfileCandidates = {} \/ context = ContextWith(RequiredConnections))'
    BY <1>1, SameCandidates, SameRequirements DEF RunInv, PlanInv
  <2> QED BY <2>1, <2>2, <2>3 DEF RunInv, PlanInv
<1> QED BY <1>5, <1>6, <1>7 DEF RunInv

(* The engine returns or raises, the adapters are closed, the run exits.   *)
LEMMA RunEnding ==
  ASSUME RunInv, ExitInv, EngineReturns \/ EngineRaises \/ CloseAdapter \/ Exit
  PROVE  RunInv'
<1>1. /\ UNCHANGED <<project, planning, engine>>
      /\ phase \in {"engine", "close"} /\ phase' \in {"close", "exited"}
      /\ exit = "none"
  BY DEF EngineReturns, EngineRaises, CloseAdapter, Exit, ExitInv
<1>2. ResultsInv' /\ PlanInv'
  BY <1>1, ResultsAndPlanKept DEF BeforeAdapters
<1>3. VerdictInv'
  <2>1. phase' \notin BeforeAdapters \cup {"open", "engine"}
    BY <1>1 DEF BeforeAdapters
  <2>2. results' = results /\ RunStatusOf' = RunStatusOf
    BY <1>1, SameRunStatus DEF engine
  <2>3. verdict' = "returned" => \A c \in CheckIds : results[c] # Unresolved
    BY DEF EngineReturns, EngineRaises, CloseAdapter, Exit, RunInv, VerdictInv
  <2>4. exit' \in {"success", "check_failure"} =>
          /\ verdict' = "returned" /\ ~ closeFailed'
          /\ exit' = ExitCategory(RunStatusOf)
    BY <1>1 DEF EngineReturns, EngineRaises, CloseAdapter, Exit
  <2> QED BY <2>1, <2>2, <2>3, <2>4 DEF VerdictInv
<1> QED BY <1>2, <1>3 DEF RunInv

LEMMA RunStutter ==
  ASSUME RunInv, UNCHANGED vars
  PROVE  RunInv'
<1>1. UNCHANGED <<project, phase, planning, context, adapters, engine, ending>>
  BY DEF vars
<1>2. ResultsInv' /\ PlanInv'
  BY <1>1, ResultsAndPlanKept
<1>3. VerdictInv'
  BY <1>1, VerdictKept DEF engine
<1> QED BY <1>2, <1>3 DEF RunInv

LEMMA RunStep == IInv /\ RunInv /\ [Next]_vars => RunInv'
<1> SUFFICES ASSUME IInv, RunInv, [Next]_vars PROVE RunInv'
  OBVIOUS
<1>1. ExitInv
  BY DEF IInv
<1>2. CASE LoadProject \/ LoadArtifacts \/ LoadProfile
  BY <1>2, RunGotoOrFail
     DEF LoadProject, LoadArtifacts, LoadProfile, BeforeAdapters
<1>3. CASE PlanWithoutAdapters
  BY <1>3, RunPlanWithoutAdapters
<1>4. CASE ClassifyScans
  BY <1>4, RunClassifyScans
<1>5. CASE PrepareAdapters
  BY <1>5, RunPrepareAdapters
<1>6. CASE OpenAdapter \/ OpenAdapterFails \/ AllOpened
  BY <1>1, <1>6, RunOpening
<1>7. CASE \E c \in CheckIds : EngineStep(c)
  BY <1>1, <1>7, RunEngineStep
<1>8. CASE EngineReturns \/ EngineRaises \/ CloseAdapter \/ Exit
  BY <1>1, <1>8, RunEnding
<1>9. CASE UNCHANGED vars
  BY <1>9, RunStutter
<1> QED BY <1>2, <1>3, <1>4, <1>5, <1>6, <1>7, <1>8, <1>9 DEF Next, Progress

LEMMA RunInvariant == Spec => []RunInv
BY Invariant, RunInit, RunStep, PTL DEF Spec

---------------------------------------------------------------------------
(* A run that exits as a success has checks, and passed, warned or skipped *)
(* each; one that exits as a check failure sent the query of a check that  *)
(* failed, and has no check in error; either way the engine returned and   *)
(* every adapter was closed.                                               *)
THEOREM ExitIsTruthful == Spec => []ExitTellsTheTruth
<1>1. RunInv => ExitTellsTheTruth
  <2> SUFFICES ASSUME RunInv PROVE ExitTellsTheTruth
    OBVIOUS
  <2> DEFINE statuses == {results[c].status : c \in CheckIds}
  <2>1. CASE exit \in {"success", "check_failure"}
    <3>1. /\ verdict = "returned" /\ ~ closeFailed
          /\ exit = ExitCategory(AggregateStatuses(statuses))
      BY <2>1 DEF RunInv, VerdictInv, RunStatusOf
    <3>2. statuses \subseteq CheckStatus
      BY <3>1 DEF RunInv, VerdictInv, ResultsInv
    <3>3. /\ exit = "success" =>
               statuses # {} /\ statuses \subseteq {"pass", "warn", "skipped"}
          /\ exit = "check_failure" => "fail" \in statuses /\ "error" \notin statuses
      BY <3>1, <3>2, CleanExit
    <3>4. ASSUME exit = "check_failure"
          PROVE  \E q \in queries : results[q.check] = Executed("fail")
      <4>1. PICK c \in CheckIds : results[c].status = "fail"
        BY <3>3, <3>4
      <4> QED BY <4>1 DEF RunInv, ResultsInv
    <3> QED BY <3>1, <3>3, <3>4 DEF ExitTellsTheTruth
  <2> QED BY <2>1 DEF ExitTellsTheTruth
<1> QED BY <1>1, RunInvariant, PTL

(* No filter of the service and no guard of the engine leaves out a check  *)
(* that can run: it is never reported as not executable.                   *)
THEOREM ExecutableChecksAreKept == Spec => []NothingExecutableIsDropped
<1>1. RunInv => NothingExecutableIsDropped
  BY DEF RunInv, PlanInv, NothingExecutableIsDropped
<1> QED BY <1>1, RunInvariant, PTL

(* A key-safety check that the guards of the runtime let through is        *)
(* stopped by no guard of its executor, but by the one on the adapter type *)
(* that only the executor has.                                             *)
THEOREM KeySafetyGuardsAlwaysAgree == Spec => []KeySafetyGuardsAgree
<1>1. KeySafetyGuardsAgree
  BY KeySafetyCopiesAgree DEF KeySafetyGuardsAgree
<1>2. KeySafetyGuardsAgree'
  BY KeySafetyCopiesAgree DEF KeySafetyGuardsAgree
<1> QED BY <1>1, <1>2, PTL
=============================================================================
