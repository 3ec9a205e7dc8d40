------------------------ MODULE RuntimeRoutingProofs ------------------------
(***************************************************************************)
(* What a check that is routed to a query has gone through, for every      *)
(* check, contract, profile and execution context.                         *)
(***************************************************************************)
EXTENDS RuntimeRouting, WellFoundedInduction, TLAPS

(* The outcome of a chain is that of its first guard that holds.           *)
LEMMA FirstOutcomeOfChain ==
  ASSUME NEW n \in Nat \ {0}, NEW chain, DOMAIN chain = 1..n,
         \E i \in 1..n : chain[i].holds
  PROVE  \E k \in 1..n : /\ chain[k].holds
                         /\ \A j \in 1..(k - 1) : ~ chain[j].holds
                         /\ FirstOutcome(chain) = chain[k].outcome
<1> DEFINE firing == {i \in 1..n : chain[i].holds}
           First(i) == chain[i].holds /\ \A j \in 1..(i - 1) : ~ chain[j].holds
<1>1. firing \in SUBSET Nat /\ firing # {} /\ firing \subseteq 1..n
  OBVIOUS
<1> HIDE DEF firing
<1>2. PICK k \in firing : \A j \in firing : k <= j
  <2> DEFINE R == OpToRel(<, Nat)
  <2>1. IsWellFoundedOn(R, Nat)
    BY NatLessThanWellFounded
  <2>2. \A i, j \in Nat : <<i, j>> \in R <=> i < j
    BY DEF OpToRel
  <2> HIDE DEF R
  <2>3. PICK k \in firing : \A j \in firing : ~ (<<j, k>> \in R)
    BY <1>1, <2>1, WFMin
  <2>4. ASSUME NEW j \in firing
        PROVE  k <= j
    <3>1. k \in Nat /\ j \in Nat
      BY <1>1
    <3>2. ~ (j < k)
      BY <2>2, <2>3, <3>1
    <3> QED BY <3>1, <3>2
  <2> QED BY <2>4
<1>3. k \in DOMAIN chain /\ First(k)
  BY <1>1, <1>2 DEF firing
<1>4. (CHOOSE i \in DOMAIN chain : First(i)) \in DOMAIN chain
      /\ First(CHOOSE i \in DOMAIN chain : First(i))
  BY <1>3
<1> QED BY <1>4 DEF FirstOutcome

(* When the last guard always holds and no other has outcome o, then o     *)
(* means that no other holds.                                              *)
LEMMA LastOutcome ==
  ASSUME NEW n \in Nat \ {0}, NEW chain, DOMAIN chain = 1..n, chain[n].holds,
         FirstOutcome(chain) \notin {chain[i].outcome : i \in 1..(n - 1)}
  PROVE  /\ \A i \in 1..(n - 1) : ~ chain[i].holds
         /\ FirstOutcome(chain) = chain[n].outcome
<1>1. PICK k \in 1..n : /\ chain[k].holds
                        /\ \A j \in 1..(k - 1) : ~ chain[j].holds
                        /\ FirstOutcome(chain) = chain[k].outcome
  BY FirstOutcomeOfChain
<1>2. k = n
  BY <1>1
<1> QED BY <1>1, <1>2

(* A row-count check is only queried within one DuckDB database.           *)
LEMMA RowCountQuery ==
  ASSUME NEW check, NEW contract, NEW profile, NEW context,
         ExecuteRowCount(check, contract, profile, context) = Query
  PROVE  /\ ~ ContextBlocked(contract, profile, context)
         /\ ~ MalformedRelation(contract)
         /\ profile[contract.source.connection].type = "duckdb"
<1> DEFINE renderer == RendererBlocked(contract, profile, context)
           chain == <<
             Guard(~ IsRowCount(check), NotExecutable("unsupported_check_type")),
             ReservedMetadata(check),
             Guard(~ SupportedRowCountShape(check), UnsupportedOperation),
             Guard(HasQueryEndpoint(contract), UnsupportedPlacement),
             Guard(ContextBlocked(contract, profile, context),
                   UnsupportedPlacement),
             Guard(MalformedRelation(contract), RuntimeError),
             renderer,
             Guard(TRUE, Query)>>
<1>1. \A i \in 1..7 : chain[i].outcome # Query
  BY DEF Guard, Query, Outcome, NotExecutable, ReservedMetadata,
         UnsupportedOperation, UnsupportedPlacement, RuntimeError,
         RendererBlocked
<1>2. DOMAIN chain = 1..8 /\ chain[8].holds
  BY DEF Guard
<1>3. /\ ~ chain[5].holds => ~ ContextBlocked(contract, profile, context)
      /\ ~ chain[6].holds => ~ MalformedRelation(contract)
      /\ ~ chain[7].holds => ~ renderer.holds
  BY DEF Guard
<1>4. FirstOutcome(chain) = Query
  BY DEF ExecuteRowCount
<1>5. ~ renderer.holds => profile[contract.source.connection].type = "duckdb"
  BY DEF RendererBlocked, Guard
<1> HIDE DEF chain, renderer
<1>6. \A i \in 1..7 : ~ chain[i].holds
  <2>1. 8 \in Nat \ {0} /\ 8 - 1 = 7
    OBVIOUS
  <2>2. FirstOutcome(chain) \notin {chain[i].outcome : i \in 1..7}
    BY <1>1, <1>4
  <2> QED BY <1>2, <2>1, <2>2, LastOutcome
<1> QED BY <1>3, <1>5, <1>6

(* A key-safety check is only queried within one DuckDB database, and when *)
(* its scan decision allows it.                                            *)
LEMMA KeySafetyQuery ==
  ASSUME NEW check, NEW contract, NEW profile, NEW context, NEW decision,
         ExecuteKeySafety(check, contract, profile, context, decision) = Query
  PROVE  /\ ~ ContextBlocked(contract, profile, context)
         /\ profile[contract.source.connection].type = "duckdb"
         /\ IdentityMatchesContract(check)
         /\ ~ MalformedRelation(contract)
         /\ decision.allowed
<1> DEFINE renderer == RendererBlocked(contract, profile, context)
           chain == <<
             Guard(~ IsKeySafety(check),
                   NotExecutable("unsupported_check_type")),
             ReservedMetadata(check),
             Guard(~ SupportedKeySafetyShape(check), UnsupportedOperation),
             Guard(~ IdentityMatchesContract(check), UnsupportedOperation),
             Guard(HasQueryEndpoint(contract), UnsupportedPlacement),
             Guard(ContextBlocked(contract, profile, context),
                   UnsupportedPlacement),
             Guard(MalformedRelation(contract), RuntimeError),
             Guard(~ decision.allowed, NotExecutable(decision.reason)),
             renderer,
             Guard(TRUE, Query)>>
<1>1. \A i \in 1..9 : chain[i].outcome # Query
  BY DEF Guard, Query, Outcome, NotExecutable, ReservedMetadata,
         UnsupportedOperation, UnsupportedPlacement, RuntimeError,
         RendererBlocked
<1>2. DOMAIN chain = 1..10 /\ chain[10].holds
  BY DEF Guard
<1>3. /\ ~ chain[4].holds => IdentityMatchesContract(check)
      /\ ~ chain[6].holds => ~ ContextBlocked(contract, profile, context)
      /\ ~ chain[7].holds => ~ MalformedRelation(contract)
      /\ ~ chain[8].holds => decision.allowed
      /\ ~ chain[9].holds => ~ renderer.holds
  BY DEF Guard
<1>4. FirstOutcome(chain) = Query
  BY DEF ExecuteKeySafety
<1>5. ~ renderer.holds => profile[contract.source.connection].type = "duckdb"
  BY DEF RendererBlocked, Guard
<1> HIDE DEF chain, renderer
<1>6. \A i \in 1..9 : ~ chain[i].holds
  <2>1. 10 \in Nat \ {0} /\ 10 - 1 = 9
    OBVIOUS
  <2>2. FirstOutcome(chain) \notin {chain[i].outcome : i \in 1..9}
    BY <1>1, <1>4
  <2> QED BY <1>2, <2>1, <2>2, LastOutcome
<1> QED BY <1>3, <1>5, <1>6

(* What the two routes have asked for when they end in a query.            *)
QueryGuards(check, contract, profile, context) ==
  /\ SupportedShape(check)
  /\ ~ HasQueryEndpoint(contract)
  /\ ~ MalformedRelation(contract)
  /\ ~ ContextBlocked(contract, profile, context)
  /\ profile[contract.source.connection].type = "duckdb"
  /\ HasAdapter(contract, context)

LEMMA RouteRowCountQuery ==
  ASSUME NEW check, NEW contract, NEW profile, NEW context,
         RouteRowCount(check, contract, profile, context) = Query
  PROVE  /\ QueryGuards(check, contract, profile, context)
         /\ IsRowCount(check)
<1> DEFINE executed == ExecuteRowCount(check, contract, profile, context)
           chain == <<
             Guard(~ IsRowCount(check), Declined),
             Guard(Dispatch(check).reason \in DispatchHardBlocking, Declined),
             Guard(~ SupportedRowCountShape(check), Declined),
             Guard(HasQueryEndpoint(contract), UnsupportedPlacement),
             Guard(~ HasAdapter(contract, context), Declined),
             Guard(TRUE, executed)>>
<1>1. \A i \in 1..5 : chain[i].outcome # Query
  BY DEF Guard, Query, Outcome, Declined, NotExecutable, UnsupportedPlacement
<1>2. DOMAIN chain = 1..6 /\ chain[6].holds /\ chain[6].outcome = executed
  BY DEF Guard
<1>3. /\ ~ chain[1].holds => IsRowCount(check)
      /\ ~ chain[3].holds => SupportedRowCountShape(check)
      /\ ~ chain[4].holds => ~ HasQueryEndpoint(contract)
      /\ ~ chain[5].holds => HasAdapter(contract, context)
  BY DEF Guard
<1>4. FirstOutcome(chain) = Query
  BY DEF RouteRowCount
<1> HIDE DEF chain
<1>5. (\A i \in 1..5 : ~ chain[i].holds) /\ executed = Query
  <2>1. 6 \in Nat \ {0} /\ 6 - 1 = 5
    OBVIOUS
  <2>2. FirstOutcome(chain) \notin {chain[i].outcome : i \in 1..5}
    BY <1>1, <1>4
  <2>3. /\ \A i \in 1..5 : ~ chain[i].holds
        /\ FirstOutcome(chain) = chain[6].outcome
    BY <1>2, <2>1, <2>2, LastOutcome
  <2> QED BY <1>2, <1>4, <2>3
<1>6. /\ ~ ContextBlocked(contract, profile, context)
      /\ ~ MalformedRelation(contract)
      /\ profile[contract.source.connection].type = "duckdb"
  BY <1>5, RowCountQuery
<1> QED BY <1>3, <1>5, <1>6 DEF QueryGuards, SupportedShape

(* The same for a key-safety check, whose decision allowed the scan.       *)
LEMMA RouteKeySafetyQuery ==
  ASSUME NEW check, NEW contract, NEW profile, NEW context, NEW decision,
         RouteKeySafety(check, contract, profile, context, decision) = Query
  PROVE  /\ QueryGuards(check, contract, profile, context)
         /\ IdentityMatchesContract(check)
         /\ decision.allowed
<1> DEFINE executed ==
             ExecuteKeySafety(check, contract, profile, context, decision)
           guards ==
             KeySafetyGuards(check, contract, profile, context, decision)
<1>1. DOMAIN guards = 1..9
  BY DEF KeySafetyGuards
<1>2. \A i \in 1..9 : guards[i].outcome # Query
  BY DEF KeySafetyGuards, Guard, Query, Outcome, Declined, NotExecutable,
         UnsupportedOperation, UnsupportedPlacement, RuntimeError
<1>3. /\ ~ guards[3].holds => SupportedKeySafetyShape(check)
      /\ ~ guards[5].holds => ~ HasQueryEndpoint(contract)
      /\ ~ guards[9].holds => HasAdapter(contract, context)
  BY DEF KeySafetyGuards, Guard
<1> HIDE DEF guards
<1>4. \A i \in 1..9 : ~ guards[i].holds
  <2>1. SUFFICES ASSUME \E i \in 1..9 : guards[i].holds
                 PROVE  FALSE
    OBVIOUS
  <2>2. FirstOutcome(guards) = Query
    BY <1>1, <2>1 DEF RouteKeySafety, guards
  <2>3. 9 \in Nat \ {0}
    OBVIOUS
  <2>4. PICK k \in 1..9 : FirstOutcome(guards) = guards[k].outcome
    BY <1>1, <2>1, <2>3, FirstOutcomeOfChain
  <2> QED BY <1>2, <2>2, <2>4
<1>5. executed = Query
  BY <1>1, <1>4 DEF RouteKeySafety, guards
<1>6. /\ ~ ContextBlocked(contract, profile, context)
      /\ profile[contract.source.connection].type = "duckdb"
      /\ IdentityMatchesContract(check)
      /\ ~ MalformedRelation(contract)
      /\ decision.allowed
  BY <1>5, KeySafetyQuery
<1> QED BY <1>3, <1>4, <1>6 DEF QueryGuards, SupportedShape

(* A check the engine sends a query for: it rendered, its shape, endpoints *)
(* and database are supported, it has an adapter, and a key-safety check   *)
(* has the grain of its contract and a decision that allows its scan.      *)
LEMMA RouteQuery ==
  ASSUME NEW id, NEW check, NEW contract, NEW profile, NEW context,
         Route(id, check, contract, profile, context) = Query
  PROVE  /\ context.present
         /\ ~ RenderingBlocked(check)
         /\ QueryGuards(check, contract, profile, context)
         /\ \/ IsRowCount(check)
            \/ /\ IdentityMatchesContract(check)
               /\ DecisionFor(id, context).allowed
<1>1. RuntimeError # Query /\ Declined # Query /\ Dispatch(check) # Query
  <2>1. RuntimeError # Query /\ Declined # Query
    BY DEF RuntimeError, Declined, Query, Outcome
  <2> DEFINE chain == <<
        Guard(check.type = "unknown", NotExecutable("unsupported_check_type")),
        Guard(check.plan = "unknown_operation", UnsupportedOperation),
        Guard("placement" \in check.reserved, UnsupportedPlacement),
        Guard("materialization" \in check.reserved,
              NotExecutable("unsupported_materialization_policy")),
        Guard(check.capability, NotExecutable("missing_engine_capability")),
        Guard(TRUE, NotExecutable("not_implemented_in_current_phase"))>>
  <2>2. \A i \in 1..6 : chain[i].outcome # Query
    BY DEF Guard, Query, Outcome, NotExecutable, UnsupportedOperation,
           UnsupportedPlacement
  <2>3. DOMAIN chain = 1..6 /\ chain[6].holds
    BY DEF Guard
  <2>4. Dispatch(check) = FirstOutcome(chain)
    BY DEF Dispatch
  <2> HIDE DEF chain
  <2>5. 6 \in Nat \ {0} /\ \E i \in 1..6 : chain[i].holds
    BY <2>3
  <2>6. PICK k \in 1..6 : FirstOutcome(chain) = chain[k].outcome
    BY <2>3, <2>5, FirstOutcomeOfChain
  <2> QED BY <2>1, <2>2, <2>4, <2>6
<1>2. /\ ~ RenderingBlocked(check)
      /\ RuntimeOutcome(id, check, contract, profile, context) = Query
  BY <1>1 DEF Route
<1>3. context.present
  BY <1>1, <1>2 DEF RuntimeOutcome
<1>4. CASE RouteRowCount(check, contract, profile, context) = Query
  BY <1>2, <1>3, <1>4, RouteRowCountQuery
<1>5. CASE RouteKeySafety(check, contract, profile, context,
                          DecisionFor(id, context)) = Query
  BY <1>2, <1>3, <1>5, RouteKeySafetyQuery
<1> QED BY <1>1, <1>2, <1>4, <1>5 DEF RuntimeOutcome

---------------------------------------------------------------------------
(* The converse: what a check needs for the chains to end in a query.      *)
LEMMA OutcomeOfFirst ==
  ASSUME NEW n \in Nat \ {0}, NEW chain, DOMAIN chain = 1..n,
         NEW k \in 1..n, chain[k].holds, \A j \in 1..(k - 1) : ~ chain[j].holds
  PROVE  FirstOutcome(chain) = chain[k].outcome
<1>1. PICK m \in 1..n : /\ chain[m].holds
                        /\ \A j \in 1..(m - 1) : ~ chain[j].holds
                        /\ FirstOutcome(chain) = chain[m].outcome
  BY FirstOutcomeOfChain
<1>2. ~ m < k /\ ~ k < m
  BY <1>1
<1> QED BY <1>1, <1>2

(* A key-safety check that no guard of the executor stops before the one   *)
(* on the adapter type is stopped by that one or sent.                     *)
LEMMA KeySafetyExecuted ==
  ASSUME NEW check, NEW contract, NEW profile, NEW context, NEW decision,
         SupportedKeySafetyShape(check), IdentityMatchesContract(check),
         ~ HasQueryEndpoint(contract), ~ MalformedRelation(contract),
         ~ ContextBlocked(contract, profile, context), decision.allowed
  PROVE  ExecuteKeySafety(check, contract, profile, context, decision)
           = IF RendererBlocked(contract, profile, context).holds
               THEN RendererBlocked(contract, profile, context).outcome
               ELSE Query
<1> DEFINE renderer == RendererBlocked(contract, profile, context)
           chain == <<
             Guard(~ IsKeySafety(check),
                   NotExecutable("unsupported_check_type")),
             ReservedMetadata(check),
             Guard(~ SupportedKeySafetyShape(check), UnsupportedOperation),
             Guard(~ IdentityMatchesContract(check), UnsupportedOperation),
             Guard(HasQueryEndpoint(contract), UnsupportedPlacement),
             Guard(ContextBlocked(contract, profile, context),
                   UnsupportedPlacement),
             Guard(MalformedRelation(contract), RuntimeError),
             Guard(~ decision.allowed, NotExecutable(decision.reason)),
             renderer,
             Guard(TRUE, Query)>>
<1>1. DOMAIN chain = 1..10 /\ chain[9] = renderer
      /\ chain[10].holds /\ chain[10].outcome = Query
  BY DEF Guard
<1>2. \A i \in 1..8 : ~ chain[i].holds
  <2>1. /\ IsKeySafety(check) => ~ chain[1].holds
        /\ check.reserved = {} => ~ chain[2].holds
        /\ SupportedKeySafetyShape(check) => ~ chain[3].holds
        /\ IdentityMatchesContract(check) => ~ chain[4].holds
        /\ ~ HasQueryEndpoint(contract) => ~ chain[5].holds
        /\ ~ ContextBlocked(contract, profile, context) => ~ chain[6].holds
        /\ ~ MalformedRelation(contract) => ~ chain[7].holds
        /\ decision.allowed => ~ chain[8].holds
    BY DEF Guard, ReservedMetadata
  <2>2. IsKeySafety(check) /\ check.reserved = {}
    BY DEF SupportedKeySafetyShape
  <2> HIDE DEF chain
  <2> QED BY <2>1, <2>2
<1>3. ExecuteKeySafety(check, contract, profile, context, decision)
        = FirstOutcome(chain)
  BY DEF ExecuteKeySafety
<1> HIDE DEF chain, renderer
<1>4. CASE renderer.holds
  <2>1. 10 \in Nat \ {0} /\ 9 \in 1..10 /\ 9 - 1 = 8
    OBVIOUS
  <2>2. FirstOutcome(chain) = chain[9].outcome
    BY <1>1, <1>2, <1>4, <2>1, OutcomeOfFirst
  <2> QED BY <1>1, <1>3, <1>4, <2>2 DEF renderer
<1>5. CASE ~ renderer.holds
  <2>1. 10 \in Nat \ {0} /\ 10 \in 1..10 /\ 10 - 1 = 9
    OBVIOUS
  <2>2. \A i \in 1..9 : ~ chain[i].holds
    BY <1>1, <1>2, <1>5
  <2>3. FirstOutcome(chain) = chain[10].outcome
    BY <1>1, <2>1, <2>2, OutcomeOfFirst
  <2> QED BY <1>1, <1>3, <1>5, <2>3 DEF renderer
<1> QED BY <1>4, <1>5

(* The two copies of the key-safety guards, runtime.py's and the           *)
(* executor's, stop the same checks, but for the guard on the adapter type.*)
LEMMA KeySafetyCopiesAgree ==
  ASSUME NEW check, NEW contract, NEW profile, NEW context, NEW decision,
         \A i \in DOMAIN KeySafetyGuards(check, contract, profile, context,
                                         decision) :
           ~ KeySafetyGuards(check, contract, profile, context,
                             decision)[i].holds
  PROVE  ExecuteKeySafety(check, contract, profile, context, decision)
           = IF RendererBlocked(contract, profile, context).holds
               THEN RendererBlocked(contract, profile, context).outcome
               ELSE Query
<1> DEFINE guards == KeySafetyGuards(check, contract, profile, context, decision)
<1>1. DOMAIN guards = 1..9
  BY DEF KeySafetyGuards
<1>2. /\ ~ guards[3].holds => SupportedKeySafetyShape(check)
      /\ ~ guards[4].holds => IdentityMatchesContract(check)
      /\ ~ guards[5].holds => ~ HasQueryEndpoint(contract)
      /\ ~ guards[6].holds => ~ MalformedRelation(contract)
      /\ ~ guards[7].holds => ~ ContextBlocked(contract, profile, context)
      /\ ~ guards[8].holds => decision.allowed
  BY DEF KeySafetyGuards, Guard
<1>3. \A i \in 1..9 : ~ guards[i].holds
  BY <1>1
<1> HIDE DEF guards
<1> QED BY <1>2, <1>3, KeySafetyExecuted

(* The dispatcher names no hard obstacle for a plan of the expected shape. *)
LEMMA DispatchOfSupported ==
  ASSUME NEW check, check.type # "unknown", check.plan = "expected",
         check.reserved = {}
  PROVE  Dispatch(check).reason \notin DispatchHardBlocking
<1> DEFINE chain == <<
      Guard(check.type = "unknown", NotExecutable("unsupported_check_type")),
      Guard(check.plan = "unknown_operation", UnsupportedOperation),
      Guard("placement" \in check.reserved, UnsupportedPlacement),
      Guard("materialization" \in check.reserved,
            NotExecutable("unsupported_materialization_policy")),
      Guard(check.capability, NotExecutable("missing_engine_capability")),
      Guard(TRUE, NotExecutable("not_implemented_in_current_phase"))>>
<1>1. DOMAIN chain = 1..6 /\ chain[6].holds /\ \A i \in 1..4 : ~ chain[i].holds
  <2>1. DOMAIN chain = 1..6 /\ chain[6].holds
    BY DEF Guard
  <2>2. /\ check.type # "unknown" => ~ chain[1].holds
        /\ check.plan # "unknown_operation" => ~ chain[2].holds
        /\ check.reserved = {} => ~ chain[3].holds /\ ~ chain[4].holds
    BY DEF Guard
  <2> HIDE DEF chain
  <2> QED BY <2>1, <2>2
<1>2. \A i \in {5, 6} : chain[i].outcome.reason \notin DispatchHardBlocking
  BY DEF Guard, NotExecutable, Outcome, DispatchHardBlocking
<1>3. Dispatch(check) = FirstOutcome(chain)
  BY DEF Dispatch
<1> HIDE DEF chain
<1>4. 6 \in Nat \ {0} /\ \E i \in 1..6 : chain[i].holds
  BY <1>1
<1>5. PICK k \in 1..6 : chain[k].holds /\ FirstOutcome(chain) = chain[k].outcome
  BY <1>1, <1>4, FirstOutcomeOfChain
<1>6. k \in {5, 6}
  BY <1>1, <1>5
<1> QED BY <1>2, <1>3, <1>5, <1>6

(* What the context must hold for a contract that can be queried.          *)
Queryable(contract, profile, context) ==
  /\ ~ HasQueryEndpoint(contract)
  /\ ~ MalformedRelation(contract)
  /\ ~ ContextBlocked(contract, profile, context)
  /\ ~ RendererBlocked(contract, profile, context).holds
  /\ HasAdapter(contract, context)

LEMMA RowCountExecuted ==
  ASSUME NEW check, NEW contract, NEW profile, NEW context,
         IsRowCount(check), SupportedRowCountShape(check),
         Queryable(contract, profile, context)
  PROVE  ExecuteRowCount(check, contract, profile, context) = Query
<1> DEFINE renderer == RendererBlocked(contract, profile, context)
           chain == <<
             Guard(~ IsRowCount(check), NotExecutable("unsupported_check_type")),
             ReservedMetadata(check),
             Guard(~ SupportedRowCountShape(check), UnsupportedOperation),
             Guard(HasQueryEndpoint(contract), UnsupportedPlacement),
             Guard(ContextBlocked(contract, profile, context),
                   UnsupportedPlacement),
             Guard(MalformedRelation(contract), RuntimeError),
             renderer,
             Guard(TRUE, Query)>>
<1>1. DOMAIN chain = 1..8 /\ chain[8].holds /\ chain[8].outcome = Query
  BY DEF Guard
<1>2. \A i \in 1..7 : ~ chain[i].holds
  <2>1. /\ IsRowCount(check) => ~ chain[1].holds
        /\ check.reserved = {} => ~ chain[2].holds
        /\ SupportedRowCountShape(check) => ~ chain[3].holds
        /\ ~ HasQueryEndpoint(contract) => ~ chain[4].holds
        /\ ~ ContextBlocked(contract, profile, context) => ~ chain[5].holds
        /\ ~ MalformedRelation(contract) => ~ chain[6].holds
        /\ chain[7] = renderer
    BY DEF Guard, ReservedMetadata
  <2>2. check.reserved = {}
    BY DEF SupportedRowCountShape
  <2> HIDE DEF chain
  <2> QED BY <2>1, <2>2 DEF Queryable
<1>3. ExecuteRowCount(check, contract, profile, context) = FirstOutcome(chain)
  BY DEF ExecuteRowCount
<1> HIDE DEF chain
<1>4. 8 \in Nat \ {0} /\ 8 \in 1..8 /\ 8 - 1 = 7
  OBVIOUS
<1> QED BY <1>1, <1>2, <1>3, <1>4, OutcomeOfFirst

LEMMA RowCountRouted ==
  ASSUME NEW check, NEW contract, NEW profile, NEW context,
         IsRowCount(check), SupportedRowCountShape(check),
         Queryable(contract, profile, context)
  PROVE  RouteRowCount(check, contract, profile, context) = Query
<1> DEFINE executed == ExecuteRowCount(check, contract, profile, context)
           hard == Dispatch(check).reason \in DispatchHardBlocking
           chain == <<
             Guard(~ IsRowCount(check), Declined),
             Guard(hard, Declined),
             Guard(~ SupportedRowCountShape(check), Declined),
             Guard(HasQueryEndpoint(contract), UnsupportedPlacement),
             Guard(~ HasAdapter(contract, context), Declined),
             Guard(TRUE, executed)>>
<1>1. DOMAIN chain = 1..6 /\ chain[6].holds /\ chain[6].outcome = executed
  BY DEF Guard
<1>2. \A i \in 1..5 : ~ chain[i].holds
  <2>1. /\ IsRowCount(check) => ~ chain[1].holds
        /\ ~ hard => ~ chain[2].holds
        /\ SupportedRowCountShape(check) => ~ chain[3].holds
        /\ ~ HasQueryEndpoint(contract) => ~ chain[4].holds
        /\ HasAdapter(contract, context) => ~ chain[5].holds
    BY DEF Guard
  <2>2. ~ hard
    BY DispatchOfSupported DEF IsRowCount, SupportedRowCountShape
  <2> HIDE DEF chain, hard
  <2> QED BY <2>1, <2>2 DEF Queryable
<1>3. RouteRowCount(check, contract, profile, context) = FirstOutcome(chain)
  BY DEF RouteRowCount
<1> HIDE DEF chain
<1>4. 6 \in Nat \ {0} /\ 6 \in 1..6 /\ 6 - 1 = 5
  OBVIOUS
<1>5. FirstOutcome(chain) = chain[6].outcome
  BY <1>1, <1>2, <1>4, OutcomeOfFirst
<1>6. executed = Query
  BY RowCountExecuted
<1> QED BY <1>1, <1>3, <1>5, <1>6

LEMMA KeySafetyRouted ==
  ASSUME NEW check, NEW contract, NEW profile, NEW context, NEW decision,
         SupportedKeySafetyShape(check), IdentityMatchesContract(check),
         decision.allowed, Queryable(contract, profile, context)
  PROVE  RouteKeySafety(check, contract, profile, context, decision) = Query
<1> DEFINE guards == KeySafetyGuards(check, contract, profile, context, decision)
           hard == Dispatch(check).reason \in DispatchHardBlocking
<1>1. DOMAIN guards = 1..9
  BY DEF KeySafetyGuards
<1>2. \A i \in 1..9 : ~ guards[i].holds
  <2>1. /\ IsKeySafety(check) => ~ guards[1].holds
        /\ ~ hard => ~ guards[2].holds
        /\ SupportedKeySafetyShape(check) => ~ guards[3].holds
        /\ IdentityMatchesContract(check) => ~ guards[4].holds
        /\ ~ HasQueryEndpoint(contract) => ~ guards[5].holds
        /\ ~ MalformedRelation(contract) => ~ guards[6].holds
        /\ ~ ContextBlocked(contract, profile, context) => ~ guards[7].holds
        /\ decision.allowed => ~ guards[8].holds
        /\ HasAdapter(contract, context) => ~ guards[9].holds
    BY DEF KeySafetyGuards, Guard
  <2>2. IsKeySafety(check) /\ ~ hard
    <3>1. /\ IsKeySafety(check) /\ check.type # "unknown"
          /\ check.plan = "expected" /\ check.reserved = {}
      BY DEF IsKeySafety, SupportedKeySafetyShape
    <3> QED BY <3>1, DispatchOfSupported
  <2> HIDE DEF guards, hard
  <2> QED BY <2>1, <2>2 DEF Queryable
<1>3. RouteKeySafety(check, contract, profile, context, decision)
        = ExecuteKeySafety(check, contract, profile, context, decision)
  BY <1>1, <1>2 DEF RouteKeySafety
<1> QED BY <1>3, KeySafetyExecuted DEF Queryable

(* A check of a supported shape, over a contract that can be queried, is   *)
(* queried.                                                                *)
LEMMA RouteToQuery ==
  ASSUME NEW id, NEW check, NEW contract, NEW profile, NEW context,
         context.present, check.rendering \notin BlockingRendering,
         SupportedShape(check), Queryable(contract, profile, context),
         IsKeySafety(check) => /\ IdentityMatchesContract(check)
                               /\ DecisionFor(id, context).allowed
  PROVE  Route(id, check, contract, profile, context) = Query
<1>1. ~ RenderingBlocked(check) /\ Query # Declined
  BY DEF RenderingBlocked, Query, Declined, Outcome
<1>2. CASE IsRowCount(check) /\ SupportedRowCountShape(check)
  BY <1>1, <1>2, RowCountRouted DEF Route, RuntimeOutcome
<1>3. CASE SupportedKeySafetyShape(check)
  <2>1. ~ IsRowCount(check) /\ IsKeySafety(check)
    BY <1>3 DEF SupportedKeySafetyShape, IsRowCount, IsKeySafety
  <2>2. RouteRowCount(check, contract, profile, context) = Declined
    <3> DEFINE chain == <<
          Guard(~ IsRowCount(check), Declined),
          Guard(Dispatch(check).reason \in DispatchHardBlocking, Declined),
          Guard(~ SupportedRowCountShape(check), Declined),
          Guard(HasQueryEndpoint(contract), UnsupportedPlacement),
          Guard(~ HasAdapter(contract, context), Declined),
          Guard(TRUE, ExecuteRowCount(check, contract, profile, context))>>
    <3>1. DOMAIN chain = 1..6 /\ chain[1] = Guard(~ IsRowCount(check), Declined)
      OBVIOUS
    <3>4. chain[1].outcome = Declined /\ chain[1].holds = ~ IsRowCount(check)
      BY <3>1 DEF Guard
    <3>2. RouteRowCount(check, contract, profile, context) = FirstOutcome(chain)
      BY DEF RouteRowCount
    <3> HIDE DEF chain
    <3>3. 6 \in Nat \ {0} /\ 1 \in 1..6 /\ 1..(1 - 1) = {}
      OBVIOUS
    <3> QED BY <2>1, <3>1, <3>2, <3>3, <3>4, OutcomeOfFirst
  <2>3. RouteKeySafety(check, contract, profile, context,
                       DecisionFor(id, context)) = Query
    BY <1>3, <2>1, KeySafetyRouted
  <2> QED BY <1>1, <2>2, <2>3 DEF Route, RuntimeOutcome
<1> QED BY <1>2, <1>3 DEF SupportedShape

---------------------------------------------------------------------------
(* Every chain ends in an outcome of a known kind.                         *)
Known(o) == o \in {Declined, Query, RuntimeError} \/ o.status = "not_executable"

LEMMA NotExecutableIsKnown ==
  \A reason : /\ NotExecutable(reason).status = "not_executable"
              /\ Known(NotExecutable(reason))
BY DEF NotExecutable, Outcome, Known

LEMMA KnownOutcome ==
  ASSUME NEW n \in Nat \ {0}, NEW chain, DOMAIN chain = 1..n,
         \E i \in 1..n : chain[i].holds,
         \A i \in 1..n : Known(chain[i].outcome)
  PROVE  Known(FirstOutcome(chain))
<1>1. PICK k \in 1..n : FirstOutcome(chain) = chain[k].outcome
  BY FirstOutcomeOfChain
<1>2. Known(chain[k].outcome)
  OBVIOUS
<1> QED BY <1>1, <1>2 DEF Known

LEMMA KnownConstants ==
  /\ Known(Declined) /\ Known(Query) /\ Known(RuntimeError)
  /\ Known(UnsupportedOperation) /\ Known(UnsupportedPlacement)
BY NotExecutableIsKnown DEF Known, UnsupportedOperation, UnsupportedPlacement

LEMMA DispatchIsNotExecutable ==
  ASSUME NEW check
  PROVE  Dispatch(check).status = "not_executable"
<1> DEFINE chain == <<
      Guard(check.type = "unknown", NotExecutable("unsupported_check_type")),
      Guard(check.plan = "unknown_operation", UnsupportedOperation),
      Guard("placement" \in check.reserved, UnsupportedPlacement),
      Guard("materialization" \in check.reserved,
            NotExecutable("unsupported_materialization_policy")),
      Guard(check.capability, NotExecutable("missing_engine_capability")),
      Guard(TRUE, NotExecutable("not_implemented_in_current_phase"))>>
<1>1. DOMAIN chain = 1..6 /\ chain[6].holds
  BY DEF Guard
<1>2. \A i \in 1..6 : chain[i].outcome.status = "not_executable"
  BY DEF Guard, NotExecutable, Outcome, UnsupportedOperation,
         UnsupportedPlacement
<1>3. Dispatch(check) = FirstOutcome(chain)
  BY DEF Dispatch
<1> HIDE DEF chain
<1>4. 6 \in Nat \ {0} /\ \E i \in 1..6 : chain[i].holds
  BY <1>1
<1>5. PICK k \in 1..6 : FirstOutcome(chain) = chain[k].outcome
  BY <1>1, <1>4, FirstOutcomeOfChain
<1> QED BY <1>2, <1>3, <1>5

LEMMA ExecutorsKnown ==
  ASSUME NEW check, NEW contract, NEW profile, NEW context, NEW decision
  PROVE  /\ Known(ExecuteRowCount(check, contract, profile, context))
         /\ Known(ExecuteKeySafety(check, contract, profile, context, decision))
<1> DEFINE renderer == RendererBlocked(contract, profile, context)
           reserved == ReservedMetadata(check)
<1>1. Known(renderer.outcome) /\ Known(reserved.outcome)
  BY KnownConstants, NotExecutableIsKnown
     DEF RendererBlocked, ReservedMetadata, Guard
<1>2. Known(ExecuteRowCount(check, contract, profile, context))
  <2> DEFINE chain == <<
        Guard(~ IsRowCount(check), NotExecutable("unsupported_check_type")),
        reserved,
        Guard(~ SupportedRowCountShape(check), UnsupportedOperation),
        Guard(HasQueryEndpoint(contract), UnsupportedPlacement),
        Guard(ContextBlocked(contract, profile, context),
              UnsupportedPlacement),
        Guard(MalformedRelation(contract), RuntimeError),
        renderer,
        Guard(TRUE, Query)>>
  <2>1. DOMAIN chain = 1..8 /\ chain[8].holds
    BY DEF Guard
  <2>2. /\ Known(chain[1].outcome) /\ Known(chain[2].outcome)
        /\ Known(chain[3].outcome) /\ Known(chain[4].outcome)
        /\ Known(chain[5].outcome) /\ Known(chain[6].outcome)
        /\ Known(chain[7].outcome) /\ Known(chain[8].outcome)
    BY <1>1, KnownConstants, NotExecutableIsKnown DEF Guard
  <2>3. ExecuteRowCount(check, contract, profile, context) = FirstOutcome(chain)
    BY DEF ExecuteRowCount
  <2> HIDE DEF chain
  <2>4. 8 \in Nat \ {0} /\ \E i \in 1..8 : chain[i].holds
    BY <2>1
  <2>5. \A i \in 1..8 : Known(chain[i].outcome)
    BY <2>2
  <2> QED BY <2>1, <2>3, <2>4, <2>5, KnownOutcome
<1>3. Known(ExecuteKeySafety(check, contract, profile, context, decision))
  <2> DEFINE chain == <<
        Guard(~ IsKeySafety(check), NotExecutable("unsupported_check_type")),
        reserved,
        Guard(~ SupportedKeySafetyShape(check), UnsupportedOperation),
        Guard(~ IdentityMatchesContract(check), UnsupportedOperation),
        Guard(HasQueryEndpoint(contract), UnsupportedPlacement),
        Guard(ContextBlocked(contract, profile, context),
              UnsupportedPlacement),
        Guard(MalformedRelation(contract), RuntimeError),
        Guard(~ decision.allowed, NotExecutable(decision.reason)),
        renderer,
        Guard(TRUE, Query)>>
  <2>1. DOMAIN chain = 1..10 /\ chain[10].holds
    BY DEF Guard
  <2>2. /\ Known(chain[1].outcome) /\ Known(chain[2].outcome)
        /\ Known(chain[3].outcome) /\ Known(chain[4].outcome)
        /\ Known(chain[5].outcome) /\ Known(chain[6].outcome)
        /\ Known(chain[7].outcome) /\ Known(chain[8].outcome)
        /\ Known(chain[9].outcome) /\ Known(chain[10].outcome)
    BY <1>1, KnownConstants, NotExecutableIsKnown DEF Guard
  <2>3. ExecuteKeySafety(check, contract, profile, context, decision)
          = FirstOutcome(chain)
    BY DEF ExecuteKeySafety
  <2> HIDE DEF chain
  <2>4. 10 \in Nat \ {0} /\ \E i \in 1..10 : chain[i].holds
    BY <2>1
  <2>5. \A i \in 1..10 : Known(chain[i].outcome)
    BY <2>2
  <2> QED BY <2>1, <2>3, <2>4, <2>5, KnownOutcome
<1> QED BY <1>2, <1>3

LEMMA RoutesKnown ==
  ASSUME NEW check, NEW contract, NEW profile, NEW context, NEW decision
  PROVE  /\ Known(RouteRowCount(check, contract, profile, context))
         /\ Known(RouteKeySafety(check, contract, profile, context, decision))
<1>1. Known(RouteRowCount(check, contract, profile, context))
  <2> DEFINE executed == ExecuteRowCount(check, contract, profile, context)
             chain == <<
               Guard(~ IsRowCount(check), Declined),
               Guard(Dispatch(check).reason \in DispatchHardBlocking, Declined),
               Guard(~ SupportedRowCountShape(check), Declined),
               Guard(HasQueryEndpoint(contract), UnsupportedPlacement),
               Guard(~ HasAdapter(contract, context), Declined),
               Guard(TRUE, executed)>>
  <2>1. DOMAIN chain = 1..6 /\ chain[6].holds
    BY DEF Guard
  <2>2. Known(executed)
    BY ExecutorsKnown
  <2>3. RouteRowCount(check, contract, profile, context) = FirstOutcome(chain)
    BY DEF RouteRowCount
  <2> HIDE DEF executed
  <2>4. /\ Known(chain[1].outcome) /\ Known(chain[2].outcome)
        /\ Known(chain[3].outcome) /\ Known(chain[4].outcome)
        /\ Known(chain[5].outcome) /\ Known(chain[6].outcome)
    BY <2>2, KnownConstants DEF Guard
  <2> HIDE DEF chain
  <2>5. 6 \in Nat \ {0} /\ \E i \in 1..6 : chain[i].holds
    BY <2>1
  <2>6. \A i \in 1..6 : Known(chain[i].outcome)
    BY <2>4
  <2> QED BY <2>1, <2>3, <2>5, <2>6, KnownOutcome
<1>2. Known(RouteKeySafety(check, contract, profile, context, decision))
  <2> DEFINE guards ==
               KeySafetyGuards(check, contract, profile, context, decision)
  <2>1. DOMAIN guards = 1..9 /\ 9 \in Nat \ {0}
    BY DEF KeySafetyGuards
  <2>2. /\ Known(guards[1].outcome) /\ Known(guards[2].outcome)
        /\ Known(guards[3].outcome) /\ Known(guards[4].outcome)
        /\ Known(guards[5].outcome) /\ Known(guards[6].outcome)
        /\ Known(guards[7].outcome) /\ Known(guards[8].outcome)
        /\ Known(guards[9].outcome)
    BY KnownConstants, NotExecutableIsKnown DEF KeySafetyGuards, Guard
  <2>3. RouteKeySafety(check, contract, profile, context, decision)
          = IF \E i \in DOMAIN guards : guards[i].holds
              THEN FirstOutcome(guards)
              ELSE ExecuteKeySafety(check, contract, profile, context, decision)
    BY DEF RouteKeySafety
  <2> HIDE DEF guards
  <2>4. \A i \in 1..9 : Known(guards[i].outcome)
    BY <2>2
  <2>5. CASE \E i \in DOMAIN guards : guards[i].holds
    BY <2>1, <2>3, <2>4, <2>5, KnownOutcome
  <2> QED BY <2>3, <2>5, ExecutorsKnown
<1> QED BY <1>1, <1>2

(* A check is queried, errs, or is not executable: the engine never takes  *)
(* "somebody else may know" for a result.                                  *)
LEMMA RouteKnown ==
  ASSUME NEW id, NEW check, NEW contract, NEW profile, NEW context
  PROVE  LET outcome == Route(id, check, contract, profile, context)
         IN  \/ outcome \in {Query, RuntimeError}
             \/ outcome.status = "not_executable"
<1> DEFINE offered == RuntimeOutcome(id, check, contract, profile, context)
<1>1. Known(offered)
  <2>1. Known(Declined) /\ Known(RouteRowCount(check, contract, profile, context))
        /\ Known(RouteKeySafety(check, contract, profile, context,
                                DecisionFor(id, context)))
    BY KnownConstants, RoutesKnown
  <2> QED BY <2>1 DEF RuntimeOutcome
<1>2. Route(id, check, contract, profile, context)
        = IF RenderingBlocked(check) THEN RuntimeError
          ELSE IF offered # Declined THEN offered ELSE Dispatch(check)
  BY DEF Route
<1> HIDE DEF offered
<1> QED BY <1>1, <1>2, DispatchIsNotExecutable DEF Known
=============================================================================
