---------------------------- MODULE MCRenderSql ----------------------------
(***************************************************************************)
(* Three connections, two contracts that may share one of them, and checks *)
(* of a contract whose names may differ in case only.                      *)
(***************************************************************************)
EXTENDS RenderSql

Three == {"crm", "lake", "erp"}

Connection(type, config) == [type |-> type, config |-> config]

(* One database; two databases; an adapter without a renderer.             *)
OneDatabase == [n \in Three |-> Connection("duckdb", "a.db")]
TwoDatabases == [OneDatabase EXCEPT !["erp"] = Connection("duckdb", "b.db")]
OtherType == [OneDatabase EXCEPT !["lake"] = Connection("other", "a.db"),
                                 !["erp"] = Connection("other", "a.db")]
SomeProfiles == {OneDatabase, TwoDatabases, OtherType}

Compiled(name, source, target, checks, endpoints) ==
  [name |-> name, source |-> source, target |-> target, checks |-> checks,
   endpoints |-> endpoints]

Names == {<<"total">>, <<"total", "Total">>, <<"total", "count">>}
Fold == [name \in {"total", "Total", "count"} |->
           IF name = "Total" THEN "total" ELSE name]

(* One contract, of every kind; and two contracts that share "lake".       *)
OneContract ==
  {<<Compiled("orders", "crm", target, checks, endpoints)>> :
     target \in {"lake", "crm"}, checks \in Names \cup {<<>>},
     endpoints \in {"relations", "query", "invalid"}}
TwoContracts ==
  {<<Compiled("orders", "crm", "lake", <<"total">>, "relations"),
     Compiled("items", "lake", "erp", checks, endpoints)>> :
     checks \in Names, endpoints \in {"relations", "query"}}
SomeProjects == OneContract \cup TwoContracts
=============================================================================
