------------------------- MODULE ReconciliationProofs -------------------------
(***************************************************************************)
(* The verdicts of the basic_equivalence pack are true of the file, for    *)
(* tables of any size, any grain and any values; a pack that passes means  *)
(* equal keys; no scan leaves its budget on a file that nobody wrote; and  *)
(* the comparison of a grouped metric is complete.                         *)
(***************************************************************************)
EXTENDS Reconciliation, FiniteSetTheorems, WellFoundedInduction, TLAPS

IsTable(table) ==
  Len(table.rows) \in Nat /\ DOMAIN table.rows = 1..Len(table.rows)

IsFile(f) == IsTable(f.source) /\ IsTable(f.target)

---------------------------------------------------------------------------
(* The queries: a count of zero means what it should.                      *)

(* The rows and the keys of a table are finite sets.                       *)
LEMMA RowsAreFinite ==
  ASSUME NEW table, IsTable(table), NEW columns
  PROVE  /\ IsFiniteSet(RowIds(table))
         /\ IsFiniteSet(IdentifiedRows(table, columns))
         /\ IsFiniteSet(DistinctKeys(table, columns))
<1>1. IsFiniteSet(RowIds(table))
  BY FS_Interval DEF IsTable, RowIds
<1>2. IsFiniteSet(IdentifiedRows(table, columns))
  <2>1. IdentifiedRows(table, columns) \in SUBSET RowIds(table)
    BY DEF IdentifiedRows
  <2> QED BY <1>1, <2>1, FS_Subset
<1>3. IsFiniteSet(DistinctKeys(table, columns))
  <2> DEFINE f == [row \in IdentifiedRows(table, columns) |->
                     KeyOf(table, row, columns)]
  <2>1. f \in Surjection(IdentifiedRows(table, columns),
                         DistinctKeys(table, columns))
    BY DEF Surjection, DistinctKeys
  <2> HIDE DEF f
  <2> QED BY <1>2, <2>1, FS_Surjection
<1> QED BY <1>1, <1>2, <1>3

LEMMA NothingCounted ==
  ASSUME NEW S, IsFiniteSet(S)
  PROVE  Cardinality(S) = 0 <=> S = {}
BY FS_EmptySet

LEMMA NullKeysCounted ==
  ASSUME NEW table, IsTable(table)
  PROVE  Cardinality(NullKeys(table, Keys)) = 0
           <=> \A i \in DOMAIN table.rows : Identified(table, i)
<1>1. NullKeys(table, Keys) \in SUBSET RowIds(table)
  BY DEF NullKeys
<1>2. Cardinality(NullKeys(table, Keys)) = 0 <=> NullKeys(table, Keys) = {}
  BY <1>1, RowsAreFinite, FS_Subset, NothingCounted
<1>3. NullKeys(table, Keys) = {}
        <=> \A i \in DOMAIN table.rows : Identified(table, i)
  BY DEF NullKeys, IdentifiedRows, RowIds, Identified
<1> QED BY <1>2, <1>3

(* Two rows have the same key in the queries and in the properties.        *)
LEMMA SameKeys ==
  ASSUME NEW left, NEW right, NEW i, NEW j
  PROVE  KeyOf(left, i, Keys) = KeyOf(right, j, Keys) <=> SameKey(left, i, right, j)
<1>1. ASSUME KeyOf(left, i, Keys) = KeyOf(right, j, Keys), NEW c \in Keys
      PROVE  left.rows[i][c] = right.rows[j][c]
  <2>1. KeyOf(left, i, Keys)[c] = KeyOf(right, j, Keys)[c]
    BY <1>1
  <2> QED BY <2>1 DEF KeyOf
<1>2. ASSUME SameKey(left, i, right, j)
      PROVE  KeyOf(left, i, Keys) = KeyOf(right, j, Keys)
  BY <1>2 DEF KeyOf, SameKey
<1> QED BY <1>1, <1>2 DEF SameKey

LEMMA DuplicateKeysCounted ==
  ASSUME NEW table, IsTable(table)
  PROVE  Cardinality(DuplicateKeys(table, Keys)) = 0 <=> UniqueKeys(table)
<1>1. DuplicateKeys(table, Keys) \in SUBSET DistinctKeys(table, Keys)
  BY DEF DuplicateKeys
<1>2. Cardinality(DuplicateKeys(table, Keys)) = 0 <=> DuplicateKeys(table, Keys) = {}
  BY <1>1, RowsAreFinite, FS_Subset, NothingCounted
<1>3. ASSUME UniqueKeys(table) PROVE DuplicateKeys(table, Keys) = {}
  <2> SUFFICES ASSUME NEW key \in DuplicateKeys(table, Keys) PROVE FALSE
    OBVIOUS
  <2>1. PICK i, j \in IdentifiedRows(table, Keys) :
          i # j /\ KeyOf(table, i, Keys) = key /\ KeyOf(table, j, Keys) = key
    BY DEF DuplicateKeys
  <2>2. SameKey(table, i, table, j)
    BY <2>1, SameKeys
  <2>3. i \in DOMAIN table.rows /\ j \in DOMAIN table.rows /\ Identified(table, i)
    BY DEF IdentifiedRows, RowIds, Identified
  <2> QED BY <1>3, <2>1, <2>2, <2>3 DEF UniqueKeys
<1>4. ASSUME DuplicateKeys(table, Keys) = {} PROVE UniqueKeys(table)
  <2> SUFFICES ASSUME NEW i \in DOMAIN table.rows, NEW j \in DOMAIN table.rows,
                      Identified(table, i), SameKey(table, i, table, j), i # j
               PROVE  FALSE
    BY DEF UniqueKeys
  <2>1. i \in IdentifiedRows(table, Keys)
    BY DEF IdentifiedRows, RowIds, Identified
  <2>2. j \in IdentifiedRows(table, Keys)
    BY DEF IdentifiedRows, RowIds, Identified, SameKey
  <2>3. KeyOf(table, i, Keys) = KeyOf(table, j, Keys)
    BY SameKeys
  <2>4. KeyOf(table, i, Keys) \in DistinctKeys(table, Keys)
    BY <2>1 DEF DistinctKeys
  <2>5. KeyOf(table, i, Keys) \in DuplicateKeys(table, Keys)
    BY <2>1, <2>2, <2>3, <2>4 DEF DuplicateKeys
  <2> QED BY <1>4, <2>5
<1> QED BY <1>2, <1>3, <1>4

LEMMA MissingKeysCounted ==
  ASSUME NEW left, IsTable(left), NEW right
  PROVE  Cardinality(MissingKeys(left, right, Keys)) = 0 <=> Covered(left, right)
<1>1. MissingKeys(left, right, Keys) \in SUBSET DistinctKeys(left, Keys)
  BY DEF MissingKeys
<1>2. Cardinality(MissingKeys(left, right, Keys)) = 0
        <=> MissingKeys(left, right, Keys) = {}
  BY <1>1, RowsAreFinite, FS_Subset, NothingCounted
<1>3. ASSUME MissingKeys(left, right, Keys) = {}, NEW i \in DOMAIN left.rows,
             Identified(left, i)
      PROVE  \E j \in DOMAIN right.rows : SameKey(left, i, right, j)
  <2>1. KeyOf(left, i, Keys) \in DistinctKeys(left, Keys)
    BY <1>3 DEF DistinctKeys, IdentifiedRows, RowIds, Identified
  <2>2. KeyOf(left, i, Keys) \in DistinctKeys(right, Keys)
    BY <1>3, <2>1 DEF MissingKeys
  <2>3. PICK j \in IdentifiedRows(right, Keys) :
          KeyOf(left, i, Keys) = KeyOf(right, j, Keys)
    BY <2>2 DEF DistinctKeys
  <2> QED BY <2>3, SameKeys DEF IdentifiedRows, RowIds
<1>4. ASSUME Covered(left, right), NEW key \in MissingKeys(left, right, Keys)
      PROVE  FALSE
  <2>1. PICK i \in IdentifiedRows(left, Keys) : key = KeyOf(left, i, Keys)
    BY <1>4 DEF MissingKeys, DistinctKeys
  <2>2. i \in DOMAIN left.rows /\ Identified(left, i)
    BY DEF IdentifiedRows, RowIds, Identified
  <2>3. PICK j \in DOMAIN right.rows : SameKey(left, i, right, j)
    BY <1>4, <2>2 DEF Covered
  <2>4. j \in IdentifiedRows(right, Keys)
    BY <2>2, <2>3 DEF IdentifiedRows, RowIds, Identified, SameKey
  <2>5. key \in DistinctKeys(right, Keys)
    BY <2>1, <2>3, <2>4, SameKeys DEF DistinctKeys
  <2> QED BY <1>4, <2>5 DEF MissingKeys
<1> QED BY <1>2, <1>3, <1>4 DEF Covered

---------------------------------------------------------------------------
(* The checks of the pack and what their queries answer.                   *)

LEMMA KeySafetyFields ==
  ASSUME NEW type, NEW capability, NEW operation, NEW keys, NEW sampling
  PROVE  LET check == KeySafety(type, capability, operation, keys, sampling)
         IN  /\ check.name = type /\ check.type = type
             /\ check.operations[1] = operation
BY DEF KeySafety, Check

LEMMA OperationFields ==
  ASSUME NEW type, NEW given
  PROVE  /\ KeyDiff(given, GrainKeys).type = "key_diff"
         /\ KeyDiff(given, GrainKeys).direction = given
         /\ KeyColumns(KeyDiff(given, GrainKeys)) = Keys
         /\ SideKey(type, given, GrainKeys).type = type
         /\ SideKey(type, given, GrainKeys).side = given
         /\ KeyColumns(SideKey(type, given, GrainKeys)) = Keys
BY DEF KeyDiff, SideKey, Grain, Identity, KeyColumns, Keys

LEMMA PackOfSeven ==
  /\ Indices = 1..7
  /\ Pack[1].name = "row_count_diff" /\ Pack[1].type = "row_count_diff"
  /\ Pack[2] = KeySafety("missing_keys", "key_diff",
                 KeyDiff("source_minus_target", GrainKeys), GrainKeys, Sampling)
  /\ Pack[3] = KeySafety("extra_keys", "key_diff",
                 KeyDiff("target_minus_source", GrainKeys), GrainKeys, Sampling)
  /\ Pack[4] = KeySafety("null_source_keys", "null_key",
                 SideKey("null_key", "source", GrainKeys), GrainKeys, Sampling)
  /\ Pack[5] = KeySafety("null_target_keys", "null_key",
                 SideKey("null_key", "target", GrainKeys), GrainKeys, Sampling)
  /\ Pack[6] = KeySafety("duplicate_source_keys", "duplicate_key",
                 SideKey("duplicate_key", "source", GrainKeys), GrainKeys, Sampling)
  /\ Pack[7] = KeySafety("duplicate_target_keys", "duplicate_key",
                 SideKey("duplicate_key", "target", GrainKeys), GrainKeys, Sampling)
<1>1. Indices = 1..7
  BY DEF Indices, Pack, BasicEquivalence
<1>2. /\ Pack[1].name = "row_count_diff" /\ Pack[1].type = "row_count_diff"
  BY DEF Pack, BasicEquivalence, Check
<1> QED BY <1>1, <1>2 DEF Pack, BasicEquivalence

(* An answer is an error or the verdict on a number.                       *)
LEMMA AnswerOfCount ==
  ASSUME NEW check, NEW f, Executed(Answer(check, f))
  PROVE  /\ ~ Count(check, f).failed
         /\ Answer(check, f).status = "pass" <=> Count(check, f).count = 0
BY DEF Answer, Executed, QueryError, Result

LEMMA RowCountAnswer ==
  ASSUME NEW f, IsFile(f), Executed(Answer(Pack[1], f))
  PROVE  Answer(Pack[1], f).status = "pass" <=> Holds(Pack[1].name, f)
<1>1. Count(Pack[1], f).count = Len(f.source.rows) - Len(f.target.rows)
  BY PackOfSeven DEF Count, Counted, CompareCounts
<1>2. Count(Pack[1], f).count = 0 <=> Len(f.source.rows) = Len(f.target.rows)
  BY <1>1 DEF IsFile, IsTable
<1>3. Holds(Pack[1].name, f) <=> Len(f.source.rows) = Len(f.target.rows)
  BY PackOfSeven DEF Holds
<1> QED BY <1>2, <1>3, AnswerOfCount

LEMMA KeyDiffAnswer ==
  ASSUME NEW f, IsFile(f), NEW i \in {2, 3}, Executed(Answer(Pack[i], f))
  PROVE  /\ Answer(Pack[i], f).status = "pass" <=> Holds(Pack[i].name, f)
         /\ KeysOfOneType(f)
<1> DEFINE direction == IF i = 2 THEN "source_minus_target"
                                 ELSE "target_minus_source"
           operation == KeyDiff(direction, GrainKeys)
           left == IF i = 2 THEN f.source ELSE f.target
           right == IF i = 2 THEN f.target ELSE f.source
<1>1. /\ Pack[i].operations[1] = operation
      /\ Pack[i].name = (IF i = 2 THEN "missing_keys" ELSE "extra_keys")
      /\ Pack[i].type = Pack[i].name
  BY PackOfSeven, KeySafetyFields
<1>2. /\ operation.type = "key_diff" /\ operation.direction = direction
      /\ KeyColumns(operation) = Keys
  BY OperationFields
<1>3. Count(Pack[i], f) = RenderKeyDiff(operation, f.source, f.target)
  <2>1. Pack[i].type # "row_count_diff"
    BY <1>1
  <2>2. Count(Pack[i], f) = FailureCount(operation, f.source, f.target)
    BY <1>1, <2>1 DEF Count
  <2> HIDE DEF operation
  <2> QED BY <1>2, <2>2 DEF FailureCount
<1>4. RenderKeyDiff(operation, f.source, f.target) =
        IF SameTypes(left, right, Keys)
          THEN Counted(Cardinality(MissingKeys(left, right, Keys)))
          ELSE Failed
  <2>1. direction = "source_minus_target" <=> i = 2
    OBVIOUS
  <2> HIDE DEF operation, direction
  <2> QED BY <1>2, <2>1 DEF RenderKeyDiff
<1>5. /\ SameTypes(left, right, Keys)
      /\ Count(Pack[i], f).count = Cardinality(MissingKeys(left, right, Keys))
  <2>1. ~ Count(Pack[i], f).failed
    BY AnswerOfCount
  <2> HIDE DEF operation, direction, left, right
  <2> QED BY <1>3, <1>4, <2>1 DEF Counted, Failed
<1>6. IsTable(left) /\ IsTable(right)
  BY DEF IsFile
<1>7. Count(Pack[i], f).count = 0 <=> Covered(left, right)
  <2> HIDE DEF operation, direction, left, right
  <2> QED BY <1>5, <1>6, MissingKeysCounted
<1>8. Holds(Pack[i].name, f) <=> Covered(left, right)
  <2>1. CASE i = 2
    BY <1>1, <2>1 DEF Holds
  <2>2. CASE i = 3
    BY <1>1, <2>2 DEF Holds
  <2> QED BY <2>1, <2>2
<1>9. KeysOfOneType(f)
  BY <1>5 DEF SameTypes, KeysOfOneType
<1> QED BY <1>7, <1>8, <1>9, AnswerOfCount

LEMMA SideKeyAnswer ==
  ASSUME NEW f, IsFile(f), NEW i \in 4..7, Executed(Answer(Pack[i], f))
  PROVE  Answer(Pack[i], f).status = "pass" <=> Holds(Pack[i].name, f)
<1> DEFINE side == IF i \in {4, 6} THEN "source" ELSE "target"
           type == IF i \in {4, 5} THEN "null_key" ELSE "duplicate_key"
           operation == SideKey(type, side, GrainKeys)
           table == IF i \in {4, 6} THEN f.source ELSE f.target
<1>1. /\ Pack[i].operations[1] = operation
      /\ Pack[i].type = Pack[i].name
      /\ Pack[i].name = CASE i = 4 -> "null_source_keys"
                          [] i = 5 -> "null_target_keys"
                          [] i = 6 -> "duplicate_source_keys"
                          [] i = 7 -> "duplicate_target_keys"
  <2>1. CASE i = 4
    BY <2>1, PackOfSeven, KeySafetyFields
  <2>2. CASE i = 5
    BY <2>2, PackOfSeven, KeySafetyFields
  <2>3. CASE i = 6
    BY <2>3, PackOfSeven, KeySafetyFields
  <2>4. CASE i = 7
    BY <2>4, PackOfSeven, KeySafetyFields
  <2> QED BY <2>1, <2>2, <2>3, <2>4
<1>2. /\ operation.type = type /\ operation.side = side
      /\ KeyColumns(operation) = Keys
  BY OperationFields
<1>3. /\ IsTable(table)
      /\ SideRelation(side, f.source, f.target) = table
  BY DEF IsFile, SideRelation
<1>4. Count(Pack[i], f) = FailureCount(operation, f.source, f.target)
  <2>1. Pack[i].type # "row_count_diff"
    BY <1>1
  <2> HIDE DEF operation
  <2> QED BY <1>1, <2>1 DEF Count
<1>5. Count(Pack[i], f).count =
        IF i \in {4, 5} THEN Cardinality(NullKeys(table, Keys))
                        ELSE Cardinality(DuplicateKeys(table, Keys))
  <2>1. CASE i \in {4, 5}
    <3>1. type = "null_key"
      BY <2>1
    <3> HIDE DEF operation, side, type, table
    <3>2. Count(Pack[i], f) = Counted(Cardinality(NullKeys(table, Keys)))
      BY <1>2, <1>3, <1>4, <3>1 DEF FailureCount
    <3> QED BY <2>1, <3>2 DEF Counted
  <2>2. CASE i \in {6, 7}
    <3>1. type = "duplicate_key"
      BY <2>2
    <3> HIDE DEF operation, side, type, table
    <3>2. Count(Pack[i], f) = Counted(Cardinality(DuplicateKeys(table, Keys)))
      BY <1>2, <1>3, <1>4, <3>1 DEF FailureCount
    <3> QED BY <2>2, <3>2 DEF Counted
  <2> QED BY <2>1, <2>2
<1>6. Count(Pack[i], f).count = 0 <=>
        IF i \in {4, 5} THEN \A k \in DOMAIN table.rows : Identified(table, k)
                        ELSE UniqueKeys(table)
  <2> HIDE DEF operation, side, type, table
  <2> QED BY <1>3, <1>5, NullKeysCounted, DuplicateKeysCounted
<1>7. Holds(Pack[i].name, f) <=>
        IF i \in {4, 5} THEN \A k \in DOMAIN table.rows : Identified(table, k)
                        ELSE UniqueKeys(table)
  <2>1. CASE i = 4
    BY <1>1, <2>1 DEF Holds
  <2>2. CASE i = 5
    BY <1>1, <2>2 DEF Holds
  <2>3. CASE i = 6
    BY <1>1, <2>3 DEF Holds
  <2>4. CASE i = 7
    BY <1>1, <2>4 DEF Holds
  <2> QED BY <2>1, <2>2, <2>3, <2>4
<1> QED BY <1>6, <1>7, AnswerOfCount

(* A verdict that a query gave is true of the file it was asked.           *)
LEMMA AnswersAreTrue ==
  ASSUME NEW f, IsFile(f), NEW i \in Indices, Executed(Answer(Pack[i], f))
  PROVE  /\ Answer(Pack[i], f).status = "pass" <=> Holds(Pack[i].name, f)
         /\ Pack[i].name \in {"missing_keys", "extra_keys"} => KeysOfOneType(f)
<1>1. i \in {1, 2, 3} \cup 4..7
  BY PackOfSeven
<1>2. CASE i = 1
  BY <1>2, RowCountAnswer, PackOfSeven
<1>3. CASE i \in {2, 3}
  BY <1>3, KeyDiffAnswer
<1>4. CASE i \in 4..7
  <2>1. Answer(Pack[i], f).status = "pass" <=> Holds(Pack[i].name, f)
    BY <1>4, SideKeyAnswer
  <2>2. Pack[i].name \in {"null_source_keys", "null_target_keys",
                          "duplicate_source_keys", "duplicate_target_keys"}
    <3>1. i \in {4, 5, 6, 7}
      BY <1>4
    <3> QED BY <3>1, PackOfSeven, KeySafetyFields
  <2> QED BY <2>1, <2>2
<1> QED BY <1>1, <1>2, <1>3, <1>4

---------------------------------------------------------------------------
(* The inductive invariant.  While the adapter has the file open nobody    *)
(* else has, so that the file of the first query is the file of the last;  *)
(* until then no check has a result.  A check that the guard has not come  *)
(* to is not allowed to scan, and one that it has allowed is allowed for   *)
(* what it saw of the file, if nobody wrote that since.                    *)
OpenInv ==
  /\ phase \in {"scan", "connect", "query", "close", "closed"}
  /\ Answering => connected
  /\ connected => other = "away"

FileInv == file \in Files \cup Rewrites

ResultsInv ==
  /\ position \in Indices /\ DOMAIN decisions = Indices
  /\ results = [i \in Indices |-> results[i]]
  /\ phase \in {"scan", "connect"} =>
       results = [i \in Indices |-> Unresolved]
  /\ Answering =>
       \A i \in Indices :
         results[i] \in {Unresolved, Refused, QueryError, Answer(Pack[i], file)}

(* Nothing but an allowed key-safety check reaches the database.           *)
AllowedInv ==
  /\ phase = "scan" => \A i \in Indices : i >= position => ~ decisions[i]
  /\ Answering =>
       \A i \in Indices :
         Executed(results[i]) => IsRowCount(i) \/ decisions[i]

FreshInv ==
  \A i \in fresh :
    /\ i \in Indices /\ ~ IsRowCount(i) /\ file.small
    /\ decisions[i] => BaseTables(file)

IInv == OpenInv /\ FileInv /\ ResultsInv /\ AllowedInv /\ FreshInv

LEMMA InitInv == Init => IInv
<1> SUFFICES ASSUME Init PROVE IInv
  OBVIOUS
<1>1. OpenInv /\ FileInv /\ FreshInv
  BY DEF Init, OpenInv, FileInv, FreshInv, Answering
<1>2. ResultsInv /\ AllowedInv
  BY PackOfSeven DEF Init, ResultsInv, AllowedInv, Answering
<1> QED BY <1>1, <1>2 DEF IInv

LEMMA NextPosition ==
  ASSUME position \in Indices, NEW next, NextCheck(next)
  PROVE  /\ position' \in Indices /\ phase' \in {phase, next}
         /\ phase' # next => \A i \in Indices : i >= position' => i > position
<1>1. Indices = 1..Len(Pack) /\ Len(Pack) = 7
  BY PackOfSeven DEF Pack, BasicEquivalence, Indices
<1> QED BY <1>1 DEF NextCheck

(* The steps before the file is open for good: all of them but the first   *)
(* one go on to the next check.                                            *)
LEMMA MeasureFileKeepsInv ==
  ASSUME IInv, MeasureFile, file.small
  PROVE  IInv'
<1>1. /\ phase = "scan" /\ ~ IsRowCount(position)
      /\ fresh' = fresh \cup {position}
      /\ UNCHANGED <<file, other, phase, position, decisions, connected, results>>
  BY DEF MeasureFile, world
<1>2. OpenInv' /\ FileInv' /\ ResultsInv' /\ AllowedInv'
  BY <1>1 DEF IInv, OpenInv, FileInv, ResultsInv, AllowedInv, Answering
<1>3. position \in Indices /\ ~ decisions[position]
  BY <1>1, PackOfSeven DEF IInv, ResultsInv, AllowedInv
<1>4. FreshInv'
  BY <1>1, <1>3 DEF IInv, FreshInv, IsRowCount
<1> QED BY <1>2, <1>4 DEF IInv

LEMMA ScanStepKeepsInv ==
  ASSUME IInv, NextCheck("connect"), phase = "scan",
         UNCHANGED <<file, other, connected, results, fresh>>,
         \/ decisions' = decisions
         \/ decisions' = [decisions EXCEPT
                            ![position] = other = "away" /\ BaseTables(file)]
  PROVE  IInv'
<1>1. /\ position \in Indices
      /\ position' \in Indices /\ phase' \in {"scan", "connect"}
      /\ phase' = "scan" => \A i \in Indices : i >= position' => i > position
  BY NextPosition DEF IInv, ResultsInv
<1>2. OpenInv' /\ FileInv'
  BY <1>1 DEF IInv, OpenInv, FileInv, Answering
<1>3. /\ DOMAIN decisions' = DOMAIN decisions
      /\ \A i \in Indices : i # position => decisions'[i] = decisions[i]
      /\ \/ decisions' = decisions
         \/ decisions'[position] => BaseTables(file)
  BY DEF IInv, ResultsInv
<1>4. ResultsInv'
  BY <1>1, <1>3 DEF IInv, ResultsInv, Answering
<1>5. AllowedInv'
  <2>1. \A i \in Indices : i > position => i >= position /\ i # position
    BY <1>1, PackOfSeven
  <2> QED BY <1>1, <1>3, <2>1 DEF IInv, AllowedInv, Answering
<1>6. FreshInv'
  <2> SUFFICES ASSUME NEW i \in fresh
               PROVE  /\ i \in Indices /\ ~ IsRowCount(i) /\ file.small
                      /\ decisions'[i] => BaseTables(file)
    BY DEF FreshInv, IsRowCount, BaseTables
  <2> QED BY <1>3 DEF IInv, FreshInv
<1> QED BY <1>2, <1>4, <1>5, <1>6 DEF IInv

LEMMA ConnectStepKeepsInv ==
  ASSUME IInv, Connect \/ ConnectFails
  PROVE  IInv'
<1>1. /\ phase = "connect"
      /\ UNCHANGED <<file, other, position, decisions, results, fresh>>
      /\ \/ phase' = "query" /\ connected' = TRUE /\ other = "away"
         \/ phase' = "closed" /\ connected' = connected
  BY DEF Connect, ConnectFails, world
<1>2. OpenInv' /\ FileInv' /\ FreshInv'
  BY <1>1 DEF IInv, OpenInv, FileInv, FreshInv, IsRowCount, BaseTables, Answering
<1>3. ResultsInv'
  BY <1>1 DEF IInv, ResultsInv, Answering
<1>4. AllowedInv'
  <2>1. \A i \in Indices : ~ Executed(results'[i])
    BY <1>1 DEF IInv, ResultsInv, Executed, Unresolved, Result
  <2> QED BY <1>1, <2>1 DEF AllowedInv
<1> QED BY <1>2, <1>3, <1>4 DEF IInv

(* One check gets its result, from the file that the others were asked of. *)
LEMMA QueryStepKeepsInv ==
  ASSUME IInv, QueryCheck \/ QueryBreaks \/ RefuseCheck
  PROVE  IInv'
<1>1. PICK result \in {Refused, QueryError, Answer(Pack[position], file)} :
        /\ phase = "query" /\ Resolve(result)
        /\ Executed(result) => IsRowCount(position) \/ decisions[position]
  BY DEF QueryCheck, QueryBreaks, RefuseCheck, Executed, Refused, Result
<1>2. /\ results' = [results EXCEPT ![position] = result]
      /\ NextCheck("close")
      /\ UNCHANGED <<file, other, decisions, connected, fresh>>
  BY <1>1 DEF Resolve
<1>3. position' \in Indices /\ phase' \in {"query", "close"}
  BY <1>1, <1>2, NextPosition DEF IInv, ResultsInv
<1>4. OpenInv' /\ FileInv' /\ FreshInv'
  BY <1>1, <1>2, <1>3
     DEF IInv, OpenInv, FileInv, FreshInv, IsRowCount, BaseTables, Answering
<1>5. /\ results' = [i \in Indices |-> results'[i]]
      /\ \A i \in Indices :
           results'[i] = IF i = position THEN result ELSE results[i]
  BY <1>2 DEF IInv, ResultsInv
<1>6. ASSUME NEW i \in Indices
      PROVE  results'[i] \in {Unresolved, Refused, QueryError,
                              Answer(Pack[i], file')}
  <2>1. CASE i = position
    BY <1>1, <1>2, <1>5, <2>1
  <2>2. CASE i # position
    BY <1>1, <1>2, <1>5, <2>2 DEF IInv, ResultsInv, Answering
  <2> QED BY <2>1, <2>2
<1>7. ResultsInv'
  BY <1>2, <1>3, <1>5, <1>6 DEF IInv, ResultsInv, Answering
<1>8. AllowedInv'
  BY <1>1, <1>2, <1>3, <1>5 DEF IInv, AllowedInv, Answering, IsRowCount
<1> QED BY <1>4, <1>7, <1>8 DEF IInv

LEMMA CloseKeepsInv ==
  ASSUME IInv, Close
  PROVE  IInv'
<1>1. /\ phase' = "closed" /\ connected' = FALSE
      /\ UNCHANGED <<file, other, position, decisions, results, fresh>>
  BY DEF Close, world
<1> QED BY <1>1 DEF IInv, OpenInv, FileInv, ResultsInv, AllowedInv, FreshInv,
                    IsRowCount, BaseTables, Answering

(* The other process has the file open, or opens it: the adapter has not.  *)
LEMMA OtherStepKeepsInv ==
  ASSUME IInv, OtherOpens \/ OtherWrites \/ OtherCloses
  PROVE  IInv'
<1>1. ~ connected
  BY DEF IInv, OpenInv, OtherOpens, OtherWrites, OtherCloses
<1>2. UNCHANGED <<phase, position, decisions, connected, results>>
  BY DEF OtherOpens, OtherWrites, OtherCloses, run
<1>3. OpenInv'
  BY <1>1, <1>2 DEF IInv, OpenInv, Answering
<1>4. FileInv' /\ FreshInv'
  BY <1>2 DEF IInv, FileInv, FreshInv, IsRowCount, BaseTables,
              OtherOpens, OtherWrites, OtherCloses
<1>5. ResultsInv' /\ AllowedInv'
  <2>1. ~ Answering
    BY <1>1 DEF IInv, OpenInv
  <2> QED BY <1>2, <2>1 DEF IInv, ResultsInv, AllowedInv, Answering
<1> QED BY <1>3, <1>4, <1>5 DEF IInv

LEMMA StutterKeepsInv ==
  ASSUME IInv, UNCHANGED vars
  PROVE  IInv'
BY DEF vars, world, IInv, OpenInv, FileInv, ResultsInv, AllowedInv, FreshInv,
       IsRowCount, BaseTables, Answering

LEMMA StepKeepsInv == IInv /\ [Next]_vars => IInv'
<1> SUFFICES ASSUME IInv, [Next]_vars PROVE IInv'
  OBVIOUS
<1>1. CASE MeasureFile \/ ReadCatalog \/ SkipScan \/ ScanBreaks
  <2>1. CASE MeasureFile /\ file.small
    BY <2>1, MeasureFileKeepsInv
  <2>2. CASE MeasureFile /\ ~ file.small
    BY <2>2, ScanStepKeepsInv DEF MeasureFile, world
  <2>3. CASE ReadCatalog
    BY <2>3, ScanStepKeepsInv DEF ReadCatalog, world
  <2>4. CASE SkipScan \/ ScanBreaks
    BY <2>4, ScanStepKeepsInv DEF SkipScan, ScanBreaks, world
  <2> QED BY <1>1, <2>1, <2>2, <2>3, <2>4
<1>2. CASE Connect \/ ConnectFails
  BY <1>2, ConnectStepKeepsInv
<1>3. CASE QueryCheck \/ QueryBreaks \/ RefuseCheck
  BY <1>3, QueryStepKeepsInv
<1>4. CASE Close
  BY <1>4, CloseKeepsInv
<1>5. CASE OtherOpens \/ OtherWrites \/ OtherCloses
  BY <1>5, OtherStepKeepsInv
<1>6. CASE UNCHANGED vars
  BY <1>6, StutterKeepsInv
<1> QED BY <1>1, <1>2, <1>3, <1>4, <1>5, <1>6 DEF Next, Run

---------------------------------------------------------------------------
(* The properties.                                                         *)

LEMMA VerdictsFromInv == IInv => VerdictsAreTrue
<1> SUFFICES ASSUME IInv, Answering, NEW i \in Indices, Executed(results[i])
             PROVE  /\ results[i].status = "pass" <=> Holds(Pack[i].name, file)
                    /\ Pack[i].name \in {"missing_keys", "extra_keys"} =>
                         KeysOfOneType(file)
  BY DEF VerdictsAreTrue
<1>1. IsFile(file)
  BY FilesAssumption DEF IInv, FileInv, IsFile, IsTable
<1>2. results[i] = Answer(Pack[i], file)
  BY DEF IInv, ResultsInv, Executed, Unresolved, Refused, QueryError, Result
<1> QED BY <1>1, <1>2, AnswersAreTrue

(* The seven verdicts together make the rows of both tables correspond.    *)
LEMMA RowsCorrespondFromChecks ==
  ASSUME NEW left, NEW right,
         \A i \in DOMAIN left.rows : Identified(left, i),
         Covered(left, right), UniqueKeys(right)
  PROVE  RowsCorrespond(left, right)
<1> SUFFICES ASSUME NEW i \in DOMAIN left.rows
             PROVE  /\ Identified(left, i)
                    /\ \E j \in DOMAIN right.rows :
                         /\ SameKey(left, i, right, j)
                         /\ \A k \in DOMAIN right.rows :
                              SameKey(left, i, right, k) => k = j
  BY DEF RowsCorrespond
<1>1. PICK j \in DOMAIN right.rows : SameKey(left, i, right, j)
  BY DEF Covered
<1>2. ASSUME NEW k \in DOMAIN right.rows, SameKey(left, i, right, k)
      PROVE  k = j
  <2>1. Identified(right, k) /\ SameKey(right, k, right, j)
    BY <1>1, <1>2 DEF Identified, SameKey
  <2> QED BY <2>1 DEF UniqueKeys
<1> QED BY <1>1, <1>2

LEMMA PassingPackFromInv == IInv => PassingPackMeansEqualKeys
<1> SUFFICES ASSUME IInv, Answering, \A i \in Indices : results[i].status = "pass"
             PROVE  /\ KeysOfOneType(file)
                    /\ RowsCorrespond(file.source, file.target)
                    /\ RowsCorrespond(file.target, file.source)
  BY DEF PassingPackMeansEqualKeys
<1>1. \A i \in 1..7 : Holds(Pack[i].name, file)
  BY VerdictsFromInv, PackOfSeven DEF VerdictsAreTrue, Executed
<1>2. KeysOfOneType(file)
  <2>1. Pack[2].name = "missing_keys"
    BY PackOfSeven, KeySafetyFields
  <2> QED BY <2>1, VerdictsFromInv, PackOfSeven DEF VerdictsAreTrue, Executed
<1>3. /\ Holds("missing_keys", file) /\ Holds("extra_keys", file)
      /\ Holds("null_source_keys", file) /\ Holds("null_target_keys", file)
      /\ Holds("duplicate_source_keys", file)
      /\ Holds("duplicate_target_keys", file)
  BY <1>1, PackOfSeven, KeySafetyFields
<1>4. /\ Covered(file.source, file.target) /\ Covered(file.target, file.source)
      /\ \A i \in DOMAIN file.source.rows : Identified(file.source, i)
      /\ \A i \in DOMAIN file.target.rows : Identified(file.target, i)
      /\ UniqueKeys(file.source) /\ UniqueKeys(file.target)
  BY <1>3 DEF Holds
<1> QED BY <1>2, <1>4, RowsCorrespondFromChecks

LEMMA BudgetFromInv == IInv => ScansStayInBudget
BY DEF IInv, AllowedInv, FreshInv, ScansStayInBudget, BaseTables

LEMMA Invariance == Spec => []IInv
<1> QED BY InitInv, StepKeepsInv, PTL DEF Spec

(* A check of the pack passes if and only if what it is named for holds of *)
(* the file, whatever the tables hold and whoever writes the file between  *)
(* the scan guard and the adapter (render_key_diff, render_null_key,       *)
(* render_duplicate_key, render_compare_counts and what reads them).       *)
THEOREM VerdictsHold == Spec => []VerdictsAreTrue
<1> QED BY Invariance, VerdictsFromInv, PTL

(* When all seven checks pass, each row of either table has exactly one    *)
(* row of the other table with its key (expand_basic_equivalence).         *)
THEOREM PassingPackIsEquivalence == Spec => []PassingPackMeansEqualKeys
<1> QED BY Invariance, PassingPackFromInv, PTL

(* The scan guard's decision is still true when the query runs, unless     *)
(* somebody wrote the file since (bounded_local_duckdb_scan_status).       *)
THEOREM BudgetHolds == Spec => []ScansStayInBudget
<1> QED BY Invariance, BudgetFromInv, PTL

---------------------------------------------------------------------------
(* Sums over finite sets: the recursion of MapThenSumSet takes the elements*)
(* in an order of its own, and the sum does not depend on it.              *)

RecursiveSum(h, f, S) ==
  h = [s \in SUBSET S |->
         IF s = {} THEN 0
                   ELSE f[CHOOSE x \in s : TRUE] + h[s \ {CHOOSE x \in s : TRUE}]]

IsSum(h, f, S) ==
  /\ h[{}] = 0
  /\ \A s \in SUBSET S : h[s] \in Int
  /\ \A s \in SUBSET S : \A x \in s : f[x] \in Int /\ h[s] = f[x] + h[s \ {x}]

(* Among sets of subsets of a finite set one is smallest.                  *)
LEMMA SmallestSubset ==
  ASSUME NEW S, IsFiniteSet(S), NEW T, T \subseteq SUBSET S, T # {}
  PROVE  \E s \in T : \A t \in T : t \subseteq s => t = s
<1> DEFINE R == StrictSubsetOrdering(S)
<1>1. SUBSET S = FiniteSubsetsOf(S)
  BY FS_Subset DEF FiniteSubsetsOf
<1>2. IsWellFoundedOn(R, SUBSET S)
  BY <1>1, FS_StrictSubsetOrderingWellFounded
<1>3. \A s, t \in SUBSET S : t \subseteq s /\ t # s => <<t, s>> \in R
  BY DEF StrictSubsetOrdering
<1> HIDE DEF R
<1>4. PICK s \in T : \A t \in T : ~ (<<t, s>> \in R)
  BY <1>2, WFMin
<1> QED
  BY <1>3, <1>4

(* There is such a sum: by induction on the number of elements.          *)
LEMMA SumExists ==
  ASSUME NEW S, IsFiniteSet(S), NEW f
  PROVE  \E h : RecursiveSum(h, f, S)
<1> DEFINE small(n) == {s \in SUBSET S : Cardinality(s) <= n}
           one(s) == CHOOSE x \in s : TRUE
           Ok(n, h) == h = [s \in small(n) |->
                              IF s = {} THEN 0 ELSE f[one(s)] + h[s \ {one(s)}]]
           bad == {n \in Nat : ~ \E h : Ok(n, h)}
<1>1. \A s \in SUBSET S : /\ IsFiniteSet(s) /\ Cardinality(s) \in Nat
                          /\ Cardinality(s) <= Cardinality(S)
  BY FS_Subset, FS_CardinalityType
<1>2. \A s \in SUBSET S :
        s # {} => /\ one(s) \in s /\ s \ {one(s)} \in SUBSET S
                  /\ Cardinality(s \ {one(s)}) = Cardinality(s) - 1
  <2>1. ASSUME NEW s \in SUBSET S, s # {}
        PROVE /\ one(s) \in s /\ s \ {one(s)} \in SUBSET S
              /\ Cardinality(s \ {one(s)}) = Cardinality(s) - 1
    <3>1. one(s) \in s
      BY <2>1
    <3> HIDE DEF one
    <3>2. Cardinality(s \ {one(s)}) = Cardinality(s) - 1
      BY <1>1, <3>1, FS_RemoveElement
    <3> QED
      BY <3>1, <3>2
  <2> QED
    BY <2>1
<1>3. bad = {}
  <2>1. SUFFICES ASSUME bad # {} PROVE FALSE
    OBVIOUS
  <2>2. PICK n \in bad : \A m \in bad : n <= m
    <3> DEFINE R == OpToRel(<, Nat)
    <3>1. IsWellFoundedOn(R, Nat)
      BY NatLessThanWellFounded
    <3>2. \A i, j \in Nat : i < j => <<i, j>> \in R
      BY DEF OpToRel
    <3> HIDE DEF R
    <3>3. bad \subseteq Nat
      OBVIOUS
    <3> HIDE DEF bad
    <3>4. PICK n \in bad : \A m \in bad : ~ <<m, n>> \in R
      BY <2>1, <3>1, <3>3, WFMin
    <3>5. ASSUME NEW m \in bad PROVE n <= m
      <4>1. n \in Nat /\ m \in Nat /\ ~ m < n
        BY <3>2, <3>3, <3>4
      <4> QED
        BY <4>1
    <3> QED
      BY <3>5
  <2>3. CASE n = 0
    <3> DEFINE h == [s \in small(0) |-> 0]
    <3>1. \A s \in small(0) : s = {}
      BY <1>1, FS_EmptySet
    <3>2. h = [s \in small(0) |->
                 IF s = {} THEN 0 ELSE f[one(s)] + h[s \ {one(s)}]]
      <4> HIDE DEF one, small
      <4> QED
        BY <3>1
    <3>3. Ok(0, h)
      BY <3>2
    <3> QED
      BY <2>3, <3>3
  <2>4. CASE n # 0
    <3>1. n - 1 \in Nat /\ n - 1 \notin bad /\ n \in Nat
      <4>1. bad \subseteq Nat
        OBVIOUS
      <4> HIDE DEF bad
      <4> QED
        BY <2>2, <2>4, <4>1
    <3>2. PICK g : Ok(n - 1, g)
      BY <3>1
    <3> DEFINE step(s) == IF s = {} THEN 0 ELSE f[one(s)] + g[s \ {one(s)}]
               h == [s \in small(n) |-> step(s)]
    <3>3. \A s \in small(n) : s # {} => s \ {one(s)} \in small(n - 1)
      BY <1>1, <1>2, <3>1
    <3>4. small(n - 1) \subseteq small(n)
      BY <1>1, <3>1
    <3>5. \A s \in small(n - 1) : g[s] = step(s)
      BY <3>2
    <3> HIDE DEF small, one
    <3>6. \A s \in small(n) : s # {} => h[s \ {one(s)}] = g[s \ {one(s)}]
      BY <3>3, <3>4, <3>5
    <3>7. h = [s \in small(n) |->
                 IF s = {} THEN 0 ELSE f[one(s)] + h[s \ {one(s)}]]
      BY <3>6
    <3>8. n \notin bad
      BY <3>7
    <3> QED
      BY <2>2, <3>8
  <2> QED
    BY <2>3, <2>4
<1>4. small(Cardinality(S)) = SUBSET S
  BY <1>1
<1>5. Cardinality(S) \in Nat
  BY FS_CardinalityType
<1>6. PICK h : Ok(Cardinality(S), h)
  BY <1>3, <1>5
<1>7. RecursiveSum(h, f, S)
  BY <1>4, <1>6 DEF RecursiveSum
<1> QED
  BY <1>7

(* Whatever element is taken away, the sum is less by its value.           *)
LEMMA SumIsSum ==
  ASSUME NEW S, IsFiniteSet(S), NEW f, \A x \in S : f[x] \in Int,
         NEW h, RecursiveSum(h, f, S)
  PROVE  IsSum(h, f, S)
<1> DEFINE one(s) == CHOOSE x \in s : TRUE
<1>1. /\ h[{}] = 0
      /\ \A s \in SUBSET S : s # {} =>
           one(s) \in s /\ h[s] = f[one(s)] + h[s \ {one(s)}]
  BY DEF RecursiveSum
<1> HIDE DEF one
<1>2. \A s \in SUBSET S : h[s] \in Int
  <2> DEFINE bad == {s \in SUBSET S : h[s] \notin Int}
  <2>1. SUFFICES ASSUME bad # {} PROVE FALSE
    OBVIOUS
  <2>0. bad \subseteq SUBSET S
    OBVIOUS
  <2>2. PICK s \in bad : \A t \in bad : t \subseteq s => t = s
    <3> HIDE DEF bad
    <3> QED
      BY <2>0, <2>1, SmallestSubset
  <2>3. s \in SUBSET S /\ s # {}
    <3>1. s \in SUBSET S /\ h[s] # 0
      BY <2>2
    <3> QED
      BY <1>1, <3>1
  <2>4. /\ one(s) \in s /\ h[s] = f[one(s)] + h[s \ {one(s)}]
    BY <1>1, <2>3
  <2>5. s \ {one(s)} \notin bad
    BY <2>2, <2>4
  <2>6. h[s \ {one(s)}] \in Int /\ f[one(s)] \in Int
    BY <2>3, <2>4, <2>5
  <2>7. h[s] \in Int
    BY <2>4, <2>6
  <2> QED
    BY <2>2, <2>7
<1>3. \A s \in SUBSET S : \A x \in s : h[s] = f[x] + h[s \ {x}]
  <2> DEFINE Ok(s) == \A x \in s : h[s] = f[x] + h[s \ {x}]
             bad == {s \in SUBSET S : ~ Ok(s)}
  <2>1. SUFFICES ASSUME bad # {} PROVE FALSE
    OBVIOUS
  <2>2. PICK s \in bad : \A t \in bad : t \subseteq s => t = s
    <3>1. bad \subseteq SUBSET S
      OBVIOUS
    <3> HIDE DEF bad
    <3> QED
      BY <2>1, <3>1, SmallestSubset
  <2>3. PICK x \in s : h[s] # f[x] + h[s \ {x}]
    BY <2>2
  <2>4. s \in SUBSET S
    BY <2>2
  <2> DEFINE y == one(s)
             rest == s \ {y}
             fewer == s \ {x}
             both == (s \ {x}) \ {y}
  <2>5. y \in s /\ h[s] = f[y] + h[rest]
    BY <1>1, <2>3, <2>4
  <2>6. x # y
    BY <2>3, <2>5
  <2>7. Ok(rest) /\ Ok(fewer)
    <3> HIDE DEF Ok
    <3> QED
      BY <2>2, <2>3, <2>4, <2>5
  <2>8. h[rest] = f[x] + h[rest \ {x}] /\ h[fewer] = f[y] + h[fewer \ {y}]
    BY <2>3, <2>5, <2>6, <2>7
  <2>9. rest \ {x} = both /\ fewer \ {y} = both
    OBVIOUS
  <2>10. f[x] \in Int /\ f[y] \in Int /\ h[both] \in Int
    BY <1>2, <2>3, <2>4, <2>5
  <2>11. h[s] = f[x] + h[fewer]
    <3> DEFINE a == f[x]
               b == f[y]
               c == h[both]
    <3>1. /\ h[s] = b + h[rest] /\ h[rest] = a + c /\ h[fewer] = b + c
          /\ a \in Int /\ b \in Int /\ c \in Int
      BY <2>5, <2>8, <2>9, <2>10
    <3> HIDE DEF a, b, c
    <3>2. h[s] = a + h[fewer]
      BY <3>1
    <3> QED
      BY <3>2 DEF a
  <2> QED
    BY <2>3, <2>11
<1> QED
  BY <1>1, <1>2, <1>3 DEF IsSum

(* Two sums of the same values are the same.                               *)
LEMMA SumsAgree ==
  ASSUME NEW S, IsFiniteSet(S), NEW R, R \subseteq S, NEW f,
         NEW h, IsSum(h, f, S), NEW k, IsSum(k, f, R)
  PROVE  \A s \in SUBSET R : h[s] = k[s]
<1> DEFINE bad == {s \in SUBSET R : h[s] # k[s]}
<1>1. SUFFICES ASSUME bad # {} PROVE FALSE
  OBVIOUS
<1>2. bad \subseteq SUBSET R /\ IsFiniteSet(R)
  BY FS_Subset
<1>3. PICK s \in bad : \A t \in bad : t \subseteq s => t = s
  <2> HIDE DEF bad
  <2> QED
    BY <1>1, <1>2, SmallestSubset
<1>4. s \in SUBSET R /\ s \in SUBSET S /\ h[s] # k[s]
  BY <1>3
<1>5. PICK x \in s : TRUE
  BY <1>4 DEF IsSum
<1>6. h[s \ {x}] = k[s \ {x}]
  BY <1>3, <1>4, <1>5
<1>7. h[s] = f[x] + h[s \ {x}] /\ k[s] = f[x] + k[s \ {x}]
  BY <1>4, <1>5 DEF IsSum
<1> QED
  BY <1>4, <1>6, <1>7

(* The sum over two sets that have nothing in common.                      *)
LEMMA SumOfTwo ==
  ASSUME NEW S, IsFiniteSet(S), NEW f, NEW h, IsSum(h, f, S), NEW b \in SUBSET S
  PROVE  \A a \in SUBSET S : a \cap b = {} => h[a \cup b] = h[a] + h[b]
<1> DEFINE bad == {a \in SUBSET S : a \cap b = {} /\ h[a \cup b] # h[a] + h[b]}
<1>1. SUFFICES ASSUME bad # {} PROVE FALSE
  OBVIOUS
<1>2. bad \subseteq SUBSET S
  OBVIOUS
<1>3. PICK a \in bad : \A t \in bad : t \subseteq a => t = a
  <2> HIDE DEF bad
  <2> QED
    BY <1>1, <1>2, SmallestSubset
<1>4. a \in SUBSET S /\ a \cap b = {} /\ h[a \cup b] # h[a] + h[b]
  BY <1>3
<1>5. h[{}] = 0 /\ h[b] \in Int /\ h[a] \in Int
  BY <1>4 DEF IsSum
<1>6. CASE a = {}
  <2>1. a \cup b = b
    BY <1>6
  <2> QED
    BY <1>4, <1>5, <1>6, <2>1
<1>7. CASE a # {}
  <2>1. PICK x \in a : TRUE
    BY <1>7
  <2> DEFINE rest == a \ {x}
             all == a \cup b
  <2>2. rest \notin bad /\ rest \in SUBSET S /\ rest \cap b = {}
    <3>1. rest # a /\ rest \subseteq a
      BY <2>1
    <3> HIDE DEF bad
    <3> QED
      BY <1>3, <1>4, <3>1
  <2>3. h[rest \cup b] = h[rest] + h[b]
    BY <2>2
  <2>4. all \in SUBSET S /\ x \in all /\ all \ {x} = rest \cup b
    BY <1>4, <2>1
  <2>5. /\ h[all] = f[x] + h[all \ {x}] /\ h[a] = f[x] + h[rest]
        /\ f[x] \in Int /\ h[rest] \in Int
    BY <1>4, <2>1, <2>2, <2>4 DEF IsSum
  <2>6. h[all] = h[a] + h[b]
    <3> DEFINE u == f[x]
               v == h[rest]
               w == h[b]
    <3>1. /\ h[all] = u + h[rest \cup b] /\ h[rest \cup b] = v + w /\ h[a] = u + v
          /\ u \in Int /\ v \in Int /\ w \in Int
      BY <1>5, <2>3, <2>4, <2>5
    <3> HIDE DEF u, v, w
    <3>2. h[all] = h[a] + w
      BY <3>1
    <3> QED
      BY <3>2 DEF w
  <2> QED
    BY <1>4, <2>6
<1> QED
  BY <1>6, <1>7

(* What MapThenSumSet returns: the amounts of rows are added, and the sums *)
(* of groups.                                                              *)
AmountOf(table, column, V) == [row \in V |-> table.rows[row][column]]
SumOfAmounts(table, column, V) ==
  MapThenSumSet(LAMBDA row : table.rows[row][column], V)

SideOf(side, V) == [r \in V |-> r[side]]
SumOfSides(side, V) == MapThenSumSet(LAMBDA r : r[side], V)

LEMMA AmountsAreAdded ==
  ASSUME NEW table, NEW column, NEW V, IsFiniteSet(V),
         \A row \in V : table.rows[row][column] \in Int
  PROVE  \E h : /\ IsSum(h, AmountOf(table, column, V), V)
                /\ SumOfAmounts(table, column, V) = h[V]
<1> DEFINE f == AmountOf(table, column, V)
           one(s) == CHOOSE row \in s : TRUE
           Rec(h) == h = [s \in SUBSET V |->
                            IF s = {} THEN 0
                              ELSE table.rows[one(s)][column] + h[s \ {one(s)}]]
           h == CHOOSE g : Rec(g)
<1>1. SumOfAmounts(table, column, V) = h[V]
  BY DEF SumOfAmounts, MapThenSumSet, MapThenFoldSet
<1>2. \A s \in SUBSET V : s # {} => f[one(s)] = table.rows[one(s)][column]
  BY DEF AmountOf
<1>3. \A g : Rec(g) <=> RecursiveSum(g, f, V)
  <2> HIDE DEF f
  <2> QED
    BY <1>2 DEF RecursiveSum
<1>4. \E g : Rec(g)
  <2> HIDE DEF Rec, f
  <2> QED
    BY <1>3, SumExists
<1>5. Rec(h)
  <2> HIDE DEF Rec
  <2> QED
    BY <1>4
<1>6. \A row \in V : f[row] \in Int
  BY DEF AmountOf
<1>7. RecursiveSum(h, f, V)
  <2> HIDE DEF Rec, f, h
  <2> QED
    BY <1>3, <1>5
<1>8. IsSum(h, f, V)
  <2> HIDE DEF f, h
  <2> QED
    BY <1>6, <1>7, SumIsSum
<1> QED
  BY <1>1, <1>8

(* The same of the sums that the rows of a comparison have.              *)
LEMMA SidesAreAdded ==
  ASSUME NEW side, NEW V, IsFiniteSet(V),
         \A r \in V : r[side] \in Int
  PROVE  \E h : /\ IsSum(h, SideOf(side, V), V)
                /\ SumOfSides(side, V) = h[V]
<1> DEFINE f == SideOf(side, V)
           one(s) == CHOOSE r \in s : TRUE
           Rec(h) == h = [s \in SUBSET V |->
                            IF s = {} THEN 0
                                      ELSE one(s)[side] + h[s \ {one(s)}]]
           h == CHOOSE g : Rec(g)
<1>1. SumOfSides(side, V) = h[V]
  BY DEF SumOfSides, MapThenSumSet, MapThenFoldSet
<1>2. \A s \in SUBSET V : s # {} => f[one(s)] = one(s)[side]
  BY DEF SideOf
<1>3. \A g : Rec(g) <=> RecursiveSum(g, f, V)
  <2> HIDE DEF f
  <2> QED
    BY <1>2 DEF RecursiveSum
<1>4. \E g : Rec(g)
  <2> HIDE DEF Rec, f
  <2> QED
    BY <1>3, SumExists
<1>5. Rec(h)
  <2> HIDE DEF Rec
  <2> QED
    BY <1>4
<1>6. \A r \in V : f[r] \in Int
  BY DEF SideOf
<1>7. RecursiveSum(h, f, V)
  <2> HIDE DEF Rec, f, h
  <2> QED
    BY <1>3, <1>5
<1>8. IsSum(h, f, V)
  <2> HIDE DEF f, h
  <2> QED
    BY <1>6, <1>7, SumIsSum
<1> QED
  BY <1>1, <1>8

(* The sum of the sums of parts that have nothing in common.               *)
LEMMA SumOfParts ==
  ASSUME NEW V, IsFiniteSet(V), NEW f, NEW h, IsSum(h, f, V),
         NEW P, IsFiniteSet(P), NEW part \in [P -> SUBSET V],
         \A p, q \in P : p # q => part[p] \cap part[q] = {},
         NEW g, \A p \in P : g[p] = h[part[p]],
         NEW k, IsSum(k, g, P)
  PROVE  k[P] = h[UNION {part[p] : p \in P}]
<1> DEFINE whole(T) == UNION {part[p] : p \in T}
           bad == {T \in SUBSET P : k[T] # h[whole(T)]}
<1>1. SUFFICES ASSUME bad # {} PROVE FALSE
  OBVIOUS
<1>2. bad \subseteq SUBSET P
  OBVIOUS
<1>3. PICK T \in bad : \A U \in bad : U \subseteq T => U = T
  <2> HIDE DEF bad
  <2> QED
    BY <1>1, <1>2, SmallestSubset
<1>4. T \in SUBSET P /\ k[T] # h[whole(T)]
  BY <1>3
<1>5. T # {}
  <2>1. k[{}] = 0 /\ h[{}] = 0
    BY DEF IsSum
  <2>2. whole({}) = {}
    OBVIOUS
  <2> HIDE DEF whole
  <2> QED
    BY <1>4, <2>1, <2>2
<1>6. PICK p \in T : TRUE
  BY <1>5
<1> DEFINE rest == T \ {p}
<1>7. rest \in SUBSET P /\ k[rest] = h[whole(rest)]
  <2>1. rest \in SUBSET P /\ rest # T /\ rest \subseteq T
    BY <1>4, <1>6
  <2> HIDE DEF rest, whole
  <2> QED
    BY <1>3, <2>1
<1>8. /\ whole(rest) \in SUBSET V /\ part[p] \in SUBSET V
      /\ part[p] \cap whole(rest) = {}
      /\ whole(T) = part[p] \cup whole(rest)
  BY <1>4, <1>6
<1>9. h[whole(T)] = h[part[p]] + h[whole(rest)]
  <2> HIDE DEF whole, rest
  <2> QED
    BY <1>8, SumOfTwo
<1>10. k[T] = g[p] + k[rest]
  BY <1>4, <1>6 DEF IsSum
<1> HIDE DEF whole, rest
<1> QED
  BY <1>4, <1>6, <1>7, <1>9, <1>10

---------------------------------------------------------------------------
(* The grouped comparison.                                                 *)

Valued(table, column) ==
  {row \in RowIds(table) : table.rows[row][column] # Null}

Amounts(table, column) ==
  \A row \in RowIds(table) : table.rows[row][column] \in Int \cup {Null}

(* The rows with an amount are finitely many.                            *)
LEMMA AmountsAreNumbers ==
  ASSUME NEW table, IsTable(table), NEW column, Amounts(table, column)
  PROVE  /\ IsFiniteSet(Valued(table, column))
         /\ \A row \in Valued(table, column) : table.rows[row][column] \in Int
<1>1. IsFiniteSet(RowIds(table))
  BY RowsAreFinite
<1>2. Valued(table, column) \in SUBSET RowIds(table)
  BY DEF Valued
<1>3. IsFiniteSet(Valued(table, column))
  BY <1>1, <1>2, FS_Subset
<1> QED
  BY <1>3 DEF Valued, Amounts

(* The query sums over some rows; one function has all of these sums.      *)
LEMMA SumOfRows ==
  ASSUME NEW table, IsTable(table), NEW column, Amounts(table, column),
         NEW h, IsSum(h, AmountOf(table, column, Valued(table, column)),
                  Valued(table, column)),
         NEW rows \in SUBSET RowIds(table)
  PROVE  SumOf(table, rows, column) =
           IF rows \cap Valued(table, column) = {}
             THEN Null ELSE h[rows \cap Valued(table, column)]
<1> DEFINE V == Valued(table, column)
           valued == rows \cap V
           f == AmountOf(table, column, valued)
<1>1. {row \in rows : table.rows[row][column] # Null} = valued
  BY DEF Valued
<1>2. SumOf(table, rows, column) =
        IF valued = {} THEN Null
                       ELSE SumOfAmounts(table, column, valued)
  BY <1>1 DEF SumOf, SumOfAmounts
<1>3. IsFiniteSet(V) /\ \A row \in V : table.rows[row][column] \in Int
  BY AmountsAreNumbers
<1>4. valued \subseteq V /\ IsFiniteSet(valued)
  BY <1>3, FS_Subset
<1>5. PICK k : /\ IsSum(k, f, valued)
               /\ SumOfAmounts(table, column, valued) = k[valued]
  <2>1. \A row \in valued : table.rows[row][column] \in Int
    BY <1>3
  <2> HIDE DEF valued
  <2> QED
    BY <1>4, <2>1, AmountsAreAdded
<1>6. IsSum(k, AmountOf(table, column, V), valued)
  <2>1. \A s \in SUBSET valued : \A row \in s :
          f[row] = AmountOf(table, column, V)[row]
    BY DEF AmountOf
  <2> HIDE DEF f, valued
  <2> QED
    BY <1>5, <2>1 DEF IsSum
<1>7. h[valued] = k[valued]
  <2>1. \A s \in SUBSET valued : h[s] = k[s]
    <3> HIDE DEF valued, V
    <3> QED
      BY <1>3, <1>4, <1>6, SumsAgree DEF V
  <2> QED
    BY <2>1
<1> QED
  BY <1>2, <1>5, <1>7

TotalOf(rows, side) ==
  LET valued == {r \in rows : r[side] # Null}
  IN  IF valued = {} THEN Null ELSE SumOfSides(side, valued)

GroupSum(table, group, column) ==
  SumOf(table, GroupRows(table, group, GroupBy), column)

(* The groups that a set of rows of a comparison is about, each once.      *)
AreOfGroups(rows, groups) ==
  /\ \A g \in groups : \E r \in rows : GroupOf(r) = g
  /\ \A q, r \in rows : GroupOf(q) = GroupOf(r) => q = r

(* Where every group has one row with its sum, the rows add up to the sum  *)
(* of the whole table.                                                     *)
LEMMA GroupsAddUp ==
  ASSUME NEW table, IsTable(table), NEW column, Amounts(table, column),
         NEW rows, IsFiniteSet(rows), AreOfGroups(rows, Groups(table, GroupBy)),
         NEW side, \A r \in rows : r[side] = GroupSum(table, GroupOf(r), column)
  PROVE  SumOf(table, RowIds(table), column) = TotalOf(rows, side)
<1> DEFINE V == Valued(table, column)
           f == AmountOf(table, column, V)
           P == {r \in rows : r[side] # Null}
           inGroup(r) == GroupRows(table, GroupOf(r), GroupBy) \cap V
           part == [r \in P |-> inGroup(r)]
           g == SideOf(side, P)
<1>1. IsFiniteSet(V) /\ \A row \in V : table.rows[row][column] \in Int
  BY AmountsAreNumbers
<1>2. PICK h : IsSum(h, f, V)
  <2> HIDE DEF V
  <2> QED
    BY <1>1, AmountsAreAdded
<1> HIDE DEF f
<1>3. \A some \in SUBSET RowIds(table) :
        SumOf(table, some, column) =
          IF some \cap V = {} THEN Null ELSE h[some \cap V]
  <2> HIDE DEF V
  <2> QED
    BY <1>2, SumOfRows DEF V, f
<1>4. SumOf(table, RowIds(table), column) = IF V = {} THEN Null ELSE h[V]
  <2>1. RowIds(table) \cap V = V
    BY DEF Valued
  <2> HIDE DEF V
  <2> QED
    BY <1>3, <2>1
<1>5. \A r \in rows : r[side] = IF inGroup(r) = {} THEN Null ELSE h[inGroup(r)]
  <2>1. \A r : GroupRows(table, GroupOf(r), GroupBy) \in SUBSET RowIds(table)
    BY DEF GroupRows
  <2> HIDE DEF V
  <2> QED
    BY <1>3, <2>1 DEF GroupSum
<1>6. \A r \in rows : inGroup(r) \in SUBSET V /\ h[inGroup(r)] \in Int
  <2> HIDE DEF V
  <2> QED
    BY <1>2 DEF IsSum
<1>7. \A r \in rows : r \in P <=> inGroup(r) # {}
  <2> HIDE DEF inGroup
  <2> QED
    BY <1>5, <1>6, NullAssumption
<1>8. UNION {part[r] : r \in P} = V
  <2>1. ASSUME NEW row \in V PROVE \E r \in P : row \in part[r]
    <3>1. row \in RowIds(table)
      BY DEF Valued
    <3>2. KeyOf(table, row, GroupBy) \in Groups(table, GroupBy)
      BY <3>1 DEF Groups
    <3>3. PICK r \in rows : GroupOf(r) = KeyOf(table, row, GroupBy)
      BY <3>2 DEF AreOfGroups
    <3>4. row \in inGroup(r)
      BY <3>1, <3>3 DEF GroupRows
    <3>5. r \in P
      BY <1>7, <3>4
    <3> QED
      BY <3>4, <3>5
  <2> QED
    BY <2>1
<1>9. \A q, r \in P : q # r => part[q] \cap part[r] = {}
  <2>1. ASSUME NEW q \in rows, NEW r \in rows, NEW row \in inGroup(q) \cap inGroup(r)
        PROVE  q = r
    <3>1. GroupOf(q) = KeyOf(table, row, GroupBy)
          /\ GroupOf(r) = KeyOf(table, row, GroupBy)
      BY <2>1 DEF GroupRows
    <3> QED
      BY <3>1 DEF AreOfGroups
  <2> HIDE DEF inGroup
  <2> QED
    BY <2>1
<1>10. IsFiniteSet(P) /\ \A r \in P : r[side] \in Int /\ g[r] = h[part[r]]
  <2>1. IsFiniteSet(P)
    BY FS_Subset
  <2>2. \A r \in P : r[side] = h[inGroup(r)] /\ h[inGroup(r)] \in Int
    <3> HIDE DEF inGroup
    <3> QED
      BY <1>5, <1>6, <1>7
  <2> HIDE DEF inGroup
  <2> QED
    BY <2>1, <2>2 DEF SideOf
<1>11. PICK k : IsSum(k, g, P) /\ SumOfSides(side, P) = k[P]
  <2>1. \A r \in P : r[side] \in Int
    BY <1>10
  <2> HIDE DEF P
  <2> QED
    BY <1>10, <2>1, SidesAreAdded
<1>12. part \in [P -> SUBSET V]
  BY <1>6
<1>13. k[P] = h[UNION {part[r] : r \in P}]
  <2>1. \A r \in P : g[r] = h[part[r]]
    BY <1>10
  <2> HIDE DEF P, part, g, V
  <2> QED
    BY <1>1, <1>2, <1>9, <1>10, <1>11, <1>12, <2>1, SumOfParts
<1>14. V = {} <=> P = {}
  <2>1. P = {} => V = {}
    BY <1>8
  <2>2. V = {} => P = {}
    BY <1>7
  <2> QED
    BY <2>1, <2>2
<1> QED
  BY <1>4, <1>8, <1>11, <1>13, <1>14 DEF TotalOf

(* What the comparison returns for a group.                                *)
SideOfGroup(table, group, column) ==
  IF group \in Groups(table, GroupBy)
    THEN [group |-> group, value |-> GroupSum(table, group, column)]
    ELSE Absent(GroupBy)

RowOfGroup(source, target, column, group) ==
  Joined(SideOfGroup(source, group, column), SideOfGroup(target, group, column))

(* Groups are the same if they are column by column.                       *)
LEMMA SameGroups ==
  ASSUME NEW left, NEW right, NEW g \in Groups(left, GroupBy),
         NEW k \in Groups(right, GroupBy)
  PROVE  StrictNullSafeEquality(GroupBy, g, k) <=> g = k
<1>1. PICK i : g = KeyOf(left, i, GroupBy)
  BY DEF Groups
<1>2. PICK j : k = KeyOf(right, j, GroupBy)
  BY DEF Groups
<1>3. g = [c \in GroupBy |-> g[c]] /\ k = [c \in GroupBy |-> k[c]]
  BY <1>1, <1>2 DEF KeyOf
<1> QED
  BY <1>3 DEF StrictNullSafeEquality

(* A table without a group has nothing to sum in it.                       *)
LEMMA RowOfGroupIsTold ==
  ASSUME NEW source, NEW target, NEW column,
         NEW g \in Groups(source, GroupBy) \cup Groups(target, GroupBy)
  PROVE  /\ GroupOf(RowOfGroup(source, target, column, g)) = g
         /\ RowOfGroup(source, target, column, g).source
              = GroupSum(source, g, column)
         /\ RowOfGroup(source, target, column, g).target
              = GroupSum(target, g, column)
<1>1. ASSUME NEW table, g \notin Groups(table, GroupBy)
      PROVE  GroupSum(table, g, column) = Null
  <2>1. GroupRows(table, g, GroupBy) = {}
    BY <1>1 DEF GroupRows, Groups
  <2> QED
    BY <2>1 DEF GroupSum, SumOf
<1>2. ASSUME NEW table
      PROVE  /\ SideOfGroup(table, g, column).value = GroupSum(table, g, column)
             /\ SideOfGroup(table, g, column).group
                  = IF g \in Groups(table, GroupBy) THEN g ELSE Absent(GroupBy).group
  BY <1>1 DEF SideOfGroup, Absent
<1> DEFINE s == SideOfGroup(source, g, column)
           t == SideOfGroup(target, g, column)
           row == Joined(s, t)
<1>3. /\ row.sourceGroup = s.group /\ row.targetGroup = t.group
      /\ row.source = s.value /\ row.target = t.value
  BY DEF Joined
<1> HIDE DEF s, t, row
<1>4. GroupOf(row) = g
  BY <1>2, <1>3 DEF GroupOf, s, t
<1> QED
  BY <1>2, <1>3, <1>4 DEF RowOfGroup, row, s, t

(* The full outer join has one row of every group, and no other rows.      *)
LEMMA JoinIsOfGroups ==
  ASSUME NEW source, NEW target, NEW column,
         SameTypes(source, target, GroupBy),
         AggregateTypesMatch(source, target, column)
  PROVE  CompareGroupedAggregates(source, target, column, GroupBy) =
           {RowOfGroup(source, target, column, g) :
              g \in Groups(source, GroupBy) \cup Groups(target, GroupBy)}
<1> DEFINE left == GroupedAggregates(source, column, GroupBy)
           right == GroupedAggregates(target, column, GroupBy)
           Matches(s, t) == StrictNullSafeEquality(GroupBy, s.group, t.group)
           inBoth == {Joined(m[1], m[2]) : m \in {p \in left \X right :
                                                    Matches(p[1], p[2])}}
           inLeft == {Joined(s, Absent(GroupBy)) :
                        s \in {l \in left : \A t \in right : ~ Matches(l, t)}}
           inRight == {Joined(Absent(GroupBy), t) :
                         t \in {r \in right : \A s \in left : ~ Matches(s, r)}}
           Gs == Groups(source, GroupBy)
           Gt == Groups(target, GroupBy)
           l(g) == [group |-> g, value |-> GroupSum(source, g, column)]
           r(g) == [group |-> g, value |-> GroupSum(target, g, column)]
           row(g) == RowOfGroup(source, target, column, g)
<1>1. CompareGroupedAggregates(source, target, column, GroupBy)
        = inBoth \cup inLeft \cup inRight
  BY DEF CompareGroupedAggregates
<1>2. /\ left = {l(g) : g \in Gs} /\ right = {r(g) : g \in Gt}
      /\ \A g : l(g).group = g /\ r(g).group = g
  BY DEF GroupedAggregates, GroupSum
<1>3. \A g \in Gs, k \in Gt : Matches(l(g), r(k)) <=> g = k
  BY SameGroups
<1>4. \A g : row(g) = Joined(IF g \in Gs THEN l(g) ELSE Absent(GroupBy),
                             IF g \in Gt THEN r(g) ELSE Absent(GroupBy))
  BY DEF RowOfGroup, SideOfGroup
<1> HIDE DEF left, right, Matches, Gs, Gt, l, r, row
<1>5. \A g \in Gs : l(g) \in left
  BY <1>2
<1>6. \A g \in Gt : r(g) \in right
  BY <1>2
<1>7. ASSUME NEW g \in Gs \cup Gt
      PROVE  row(g) \in inBoth \cup inLeft \cup inRight
  <2>1. CASE g \in Gs /\ g \in Gt
    <3>1. <<l(g), r(g)>> \in {p \in left \X right : Matches(p[1], p[2])}
      BY <1>3, <1>5, <1>6, <2>1
    <3>2. row(g) = Joined(<<l(g), r(g)>>[1], <<l(g), r(g)>>[2])
      BY <1>4, <2>1
    <3> QED
      BY <3>1, <3>2
  <2>2. CASE g \in Gs /\ g \notin Gt
    <3>1. l(g) \in {s \in left : \A t \in right : ~ Matches(s, t)}
      BY <1>2, <1>3, <1>5, <2>2
    <3> QED
      BY <1>4, <2>2, <3>1
  <2>3. CASE g \notin Gs /\ g \in Gt
    <3>1. r(g) \in {t \in right : \A s \in left : ~ Matches(s, t)}
      BY <1>2, <1>3, <1>6, <2>3
    <3> QED
      BY <1>4, <2>3, <3>1
  <2> QED
    BY <2>1, <2>2, <2>3
<1>8. ASSUME NEW q \in inBoth \cup inLeft \cup inRight
      PROVE  \E g \in Gs \cup Gt : q = row(g)
  <2>1. CASE q \in inBoth
    <3>1. PICK m \in left \X right : Matches(m[1], m[2]) /\ q = Joined(m[1], m[2])
      BY <2>1
    <3>2. m[1] \in left /\ m[2] \in right
      BY <3>1
    <3>3. PICK g \in Gs : m[1] = l(g)
      BY <1>2, <3>2
    <3>4. PICK k \in Gt : m[2] = r(k)
      BY <1>2, <3>2
    <3>5. g = k
      BY <1>3, <3>1, <3>3, <3>4
    <3>6. q = row(g)
      BY <1>4, <3>1, <3>3, <3>4, <3>5
    <3> QED
      BY <3>6
  <2>2. CASE q \in inLeft
    <3>1. PICK s \in left : /\ \A t \in right : ~ Matches(s, t)
                            /\ q = Joined(s, Absent(GroupBy))
      BY <2>2
    <3>2. PICK g \in Gs : s = l(g)
      BY <1>2, <3>1
    <3>3. g \notin Gt
      BY <1>3, <1>6, <3>1, <3>2
    <3>4. q = row(g)
      BY <1>4, <3>1, <3>2, <3>3
    <3> QED
      BY <3>4
  <2>3. CASE q \in inRight
    <3>1. PICK t \in right : /\ \A s \in left : ~ Matches(s, t)
                             /\ q = Joined(Absent(GroupBy), t)
      BY <2>3
    <3>2. PICK g \in Gt : t = r(g)
      BY <1>2, <3>1
    <3>3. g \notin Gs
      BY <1>3, <1>5, <3>1, <3>2
    <3>4. q = row(g)
      BY <1>4, <3>1, <3>2, <3>3
    <3> QED
      BY <3>4
  <2> QED
    BY <2>1, <2>2, <2>3
<1> HIDE DEF inBoth, inLeft, inRight
<1> QED
  BY <1>1, <1>7, <1>8 DEF row, Gs, Gt

(* A comparison of typed columns is complete, whatever is in the file.     *)
LEMMA ComparisonIsComplete ==
  ASSUME IInv PROVE GroupedComparisonIsComplete
<1> DEFINE rows == CompareGroupedAggregates(file.source, file.target,
                                            MetricColumn, GroupBy)
           Gs == Groups(file.source, GroupBy)
           Gt == Groups(file.target, GroupBy)
           groups == Gs \cup Gt
           row == [g \in groups |-> RowOfGroup(file.source, file.target,
                                               MetricColumn, g)]
<1>1. SUFFICES ASSUME SameTypes(file.source, file.target, GroupBy \cup {MetricColumn}),
                      file.source.types[MetricColumn] \in Numeric
               PROVE  /\ Cardinality(rows) = Cardinality(groups)
                      /\ \A g \in groups :
                           \E r \in rows :
                             /\ GroupOf(r) = g
                             /\ r.source = GroupSum(file.source, g, MetricColumn)
                             /\ r.target = GroupSum(file.target, g, MetricColumn)
                      /\ \A r \in CompareAggregates(file.source, file.target,
                                                    MetricColumn) :
                           /\ r.source = TotalOf(rows, "source")
                           /\ r.target = TotalOf(rows, "target")
  BY DEF GroupedComparisonIsComplete, GroupSum, TotalOf, SumOfSides
<1>2. /\ IsTable(file.source) /\ IsTable(file.target)
      /\ Amounts(file.source, MetricColumn) /\ Amounts(file.target, MetricColumn)
  <2>1. file \in Files \cup Rewrites
    BY DEF IInv, FileInv
  <2>2. file.target.types[MetricColumn] \in Numeric
    BY <1>1 DEF SameTypes
  <2> QED
    BY <1>1, <2>1, <2>2, FilesAssumption, AmountsAssumption
       DEF IsTable, Amounts, RowIds
<1>3. rows = {row[g] : g \in groups}
  <2>1. /\ SameTypes(file.source, file.target, GroupBy)
        /\ AggregateTypesMatch(file.source, file.target, MetricColumn)
    BY <1>1 DEF SameTypes, AggregateTypesMatch
  <2>2. rows = {RowOfGroup(file.source, file.target, MetricColumn, g) : g \in groups}
    BY <2>1, JoinIsOfGroups
  <2> HIDE DEF rows, groups
  <2> QED
    BY <2>2
<1>4. \A g \in groups : /\ GroupOf(row[g]) = g
                        /\ row[g].source = GroupSum(file.source, g, MetricColumn)
                        /\ row[g].target = GroupSum(file.target, g, MetricColumn)
  BY RowOfGroupIsTold
<1>5. IsFiniteSet(groups)
  <2>1. ASSUME NEW table, IsTable(table) PROVE IsFiniteSet(Groups(table, GroupBy))
    <3> DEFINE key == [i \in RowIds(table) |-> KeyOf(table, i, GroupBy)]
    <3>1. key \in Surjection(RowIds(table), Groups(table, GroupBy))
      BY DEF Groups, Surjection
    <3>2. IsFiniteSet(RowIds(table))
      BY <2>1, RowsAreFinite
    <3> QED
      BY <3>1, <3>2, FS_Surjection
  <2> QED
    BY <1>2, <2>1, FS_Union
<1> HIDE DEF rows, row, groups
<1>6. row \in Bijection(groups, rows)
  <2>1. row \in [groups -> rows]
    BY <1>3 DEF row
  <2>2. \A g, k \in groups : row[g] = row[k] => g = k
    BY <1>4
  <2>3. \A r \in rows : \E g \in groups : row[g] = r
    BY <1>3
  <2> QED
    BY <2>1, <2>2, <2>3 DEF Bijection, Injection, IsInjective, Surjection
<1>7. Cardinality(rows) = Cardinality(groups) /\ IsFiniteSet(rows)
  <2>1. ExistsBijection(groups, rows)
    BY <1>6 DEF ExistsBijection
  <2> QED
    BY <1>5, <2>1, FS_Bijection
<1>8. \A g \in groups :
        \E r \in rows : /\ GroupOf(r) = g
                        /\ r.source = GroupSum(file.source, g, MetricColumn)
                        /\ r.target = GroupSum(file.target, g, MetricColumn)
  BY <1>3, <1>4
<1>9. AreOfGroups(rows, Gs) /\ AreOfGroups(rows, Gt)
  BY <1>3, <1>4 DEF AreOfGroups, groups
<1>10. /\ SumOf(file.source, RowIds(file.source), MetricColumn)
            = TotalOf(rows, "source")
       /\ SumOf(file.target, RowIds(file.target), MetricColumn)
            = TotalOf(rows, "target")
  <2>1. /\ \A r \in rows :
             r["source"] = GroupSum(file.source, GroupOf(r), MetricColumn)
        /\ \A r \in rows :
             r["target"] = GroupSum(file.target, GroupOf(r), MetricColumn)
    BY <1>3, <1>4
  <2>2. SumOf(file.source, RowIds(file.source), MetricColumn)
          = TotalOf(rows, "source")
    BY <1>2, <1>7, <1>9, <2>1, GroupsAddUp
  <2>3. SumOf(file.target, RowIds(file.target), MetricColumn)
          = TotalOf(rows, "target")
    BY <1>2, <1>7, <1>9, <2>1, GroupsAddUp
  <2> QED
    BY <2>2, <2>3
<1>11. \A r \in CompareAggregates(file.source, file.target, MetricColumn) :
         /\ r.source = TotalOf(rows, "source")
         /\ r.target = TotalOf(rows, "target")
  BY <1>10 DEF CompareAggregates
<1> QED
  BY <1>7, <1>8, <1>11 DEF groups, rows

(* The comparison of a grouped metric has one row for every group of either*)
(* table, with the sums of that group, and its rows add up to what the     *)
(* metric without groups compares, for tables of any size.                 *)
THEOREM GroupedComparisonHolds == Spec => []GroupedComparisonIsComplete
<1> QED
  BY Invariance, ComparisonIsComplete, PTL
=============================================================================
