--------------------------- MODULE MCRunService ---------------------------
(* RunService with two checks of up to two contracts over two connections, *)
(* which may be the same database under two names; and with one check that *)
(* has every combination of what its route depends on, beside another that *)
(* is not implemented yet.                                                 *)
EXTENDS RunService

CONSTANTS c1, c2

MCCheckIds == {c1, c2}
MCConnections == {1, 2}

(* A compiled check of contract "a" or "b"; only what differs from a plain *)
(* executable check is named.                                              *)
CheckOf(type, contract) ==
  [type |-> type, plan |-> "expected", reserved |-> {}, capability |-> TRUE,
   rendering |-> "rendered", grain |-> TRUE, contract |-> contract]

RowCountChecks(contract) ==
  {CheckOf("row_count_diff", contract),
   [CheckOf("row_count_diff", contract) EXCEPT !.rendering = "blocked"]}

KeySafetyChecks(contract) ==
  {CheckOf("key_safety", contract),
   [CheckOf("key_safety", contract) EXCEPT !.grain = FALSE]}

SharedChecks ==
  {f \in [MCCheckIds -> UNION {RowCountChecks(n) \cup KeySafetyChecks(n) :
                                 n \in {"a", "b"}}] : f[c1].contract = "a"}

End(connection, endpoint) ==
  [connection |-> connection, endpoint |-> endpoint]

(* Contract "a" stays within connection 1, contract "b" may not.           *)
SharedContracts ==
  {[a |-> [source |-> End(1, "relation"), target |-> End(1, e)],
    b |-> [source |-> End(2, "relation"), target |-> End(n, "relation")]] :
   e \in {"relation", "malformed", "query"}, n \in {1, 2}}

Config(type, database) == [type |-> type, database |-> database]

(* Two names of one file, two files, and a file and another adapter type.  *)
SharedProfiles ==
  {<<Config("duckdb", "x"), second>> :
     second \in {Config("duckdb", "x"), Config("duckdb", "y"),
                 Config("other", "x")}}

Lists ==
  {[c \in MCCheckIds |-> IF c = c2 THEN list ELSE <<>>] :
     list \in {<<>>, <<c1>>, <<c2>>}}

LoadedProject(loaded, named, connections, lists) ==
  [checks |-> loaded, contracts |-> named, profile |-> connections,
   prerequisites |-> lists]

(* Two checks that share contracts and connections.                        *)
Shared ==
  {LoadedProject(f, n, p, l) :
     f \in SharedChecks, n \in SharedContracts, p \in SharedProfiles, l \in Lists}

(* For the run with fairness, whose check is slower.                       *)
MCFewProjects ==
  {q \in Shared :
     /\ q.contracts.a.target.endpoint = "relation"
     /\ q.checks[c1] \in {CheckOf("row_count_diff", "a"),
                          CheckOf("key_safety", "a")}
     /\ q.checks[c2] \in {CheckOf("row_count_diff", "b"),
                          CheckOf("key_safety", "b")}}

(* A single check on every route; contract "a" has every pair of ends:     *)
(* source and target swapped are the same case but for the names.          *)
EveryCheck ==
  [type : CheckType, plan : Plan,
   reserved : {{}, {"placement"}, {"materialization"}},
   capability : {TRUE}, rendering : {"none", "failed"}, grain : BOOLEAN,
   contract : {"a"}]

EveryEnd == [connection : MCConnections, endpoint : Endpoint]

EveryContract ==
  {[a |-> [source |-> End(1, e), target |-> t]] : e \in Endpoint, t \in EveryEnd}

EveryProfile ==
  {<<Config("duckdb", "x"), Config("duckdb", "x")>>,
   <<Config("duckdb", "x"), Config("duckdb", "y")>>,
   <<Config("duckdb", "x"), Config("other", "x")>>,
   <<Config("duckdb", ":memory:"), Config("duckdb", ":memory:")>>,
   <<Config("other", "x"), Config("other", "x")>>}

Routed ==
  {LoadedProject([c \in MCCheckIds |-> IF c = c1 THEN check
                                       ELSE CheckOf("later_phase", "a")],
                 n, p, [c \in MCCheckIds |-> IF c = c2 THEN <<c1>> ELSE <<>>]) :
     check \in EveryCheck, n \in EveryContract, p \in EveryProfile}

MCProjects == Shared \cup Routed
=============================================================================
