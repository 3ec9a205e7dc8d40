--------------------------- MODULE MCReconciliation ---------------------------
(* Tables of up to two rows over two key columns and an amount, with NULLs *)
(* anywhere, equal rows and equal keys; a key column of another type, a    *)
(* view, a missing table and a file that is too large.                     *)
EXTENDS Reconciliation, TLC

MCGrainKeys == <<"id", "line">>
MCGroupBy == {"id"}
MCNumeric == {"integer"}

Row(id, line, amount) ==
  ("id" :> id) @@ ("line" :> line) @@ ("amount" :> amount)

(* In an order, for each bag of rows to be a table once.                   *)
SomeRows == << Row(1, 1, 5), Row(1, 2, 7), Row(1, Null, Null), Row(2, 1, 5),
               Row(Null, 1, 7), Row(2, Null, 0), Row(Null, Null, Null) >>

Tables(kind, idType) ==
  LET Table(rows) == [kind |-> kind, rows |-> rows,
                      types |-> ("id" :> idType) @@ ("line" :> "integer")
                                  @@ ("amount" :> "integer")]
      n == Len(SomeRows)
  IN  {Table(<<>>)}
      \cup {Table(<<SomeRows[i]>>) : i \in 1..n}
      \cup {Table(<<SomeRows[p[1]], SomeRows[p[2]]>>) :
              p \in {q \in (1..n) \X (1..n) : q[1] <= q[2]}}
      \cup {Table(<<SomeRows[p[1]], SomeRows[p[2]], SomeRows[p[3]]>>) :
              p \in {q \in (1..4) \X (1..4) \X (1..4) :
                       q[1] <= q[2] /\ q[2] < q[3]}}

File(source, target, small) ==
  [source |-> source, target |-> target, small |-> small]

Base == Tables("base", "integer")
ATable == CHOOSE table \in Base : Len(table.rows) = 2
Odd == {[ATable EXCEPT !.kind = "view"], [ATable EXCEPT !.kind = "missing"],
        [ATable EXCEPT !.types = [@ EXCEPT !.id = "varchar"],
                       !.rows = <<Row(11, 1, 5)>>]}

MCFiles ==
  {File(s, t, TRUE) : s, t \in Base}
  \cup {File(ATable, t, TRUE) : t \in Odd}
  \cup {File(s, ATable, TRUE) : s \in Odd}
  \cup {File(ATable, ATable, FALSE)}

MCRewrites ==
  {File(ATable, ATable, TRUE), File(ATable, ATable, FALSE),
   File([ATable EXCEPT !.rows = <<Row(2, 1, 5)>>], ATable, TRUE),
   File(ATable, [ATable EXCEPT !.kind = "view"], TRUE)}
=============================================================================
