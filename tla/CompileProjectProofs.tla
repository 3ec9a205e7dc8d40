------------------------ MODULE CompileProjectProofs ------------------------
(***************************************************************************)
(* Proofs about compile_project for every set of names and of authored     *)
(* contracts and every bound: the names of the compiled contracts, the     *)
(* null sentinels of their columns, which contracts have diagnostics, to   *)
(* which checks the others are compiled, and that what reads the checks    *)
(* accepts them.                                                           *)
(***************************************************************************)
EXTENDS CompileProject, SequenceTheorems, FiniteSetTheorems,
        WellFoundedInduction, TLAPS

(* The diagnostics of a set of conditions leave none of them out.          *)
LEMMA DiagnosedLeavesNoneOut ==
  ASSUME NEW conditions, NEW code, NEW holds \in BOOLEAN,
         <<code, holds>> \in conditions, Diagnosed(conditions) = {}
  PROVE ~ holds
<1> DEFINE c == <<code, holds>>
<1>1. c[1] = code /\ c[2] = holds
  OBVIOUS
<1>2. SUFFICES ASSUME holds PROVE FALSE
  OBVIOUS
<1>3. c \in {d \in conditions : d[2]}
  BY <1>1, <1>2
<1>4. c[1] \in Diagnosed(conditions)
  BY <1>3 DEF Diagnosed
<1> QED
  BY <1>4

(* What it takes to append to a sequence whose elements have no set of     *)
(* their own: it is a sequence of whatever it contains.                    *)
LEMMA AppendKeepsSequence ==
  ASSUME NEW s, s \in Seq({s[i] : i \in DOMAIN s}), NEW e
  PROVE /\ Append(s, e) \in Seq({Append(s, e)[i] : i \in DOMAIN Append(s, e)})
        /\ Len(Append(s, e)) = Len(s) + 1
        /\ Len(s) \in Nat
        /\ DOMAIN s = 1..Len(s)
        /\ DOMAIN Append(s, e) = 1..(Len(s) + 1)
        /\ \A i \in DOMAIN s : Append(s, e)[i] = s[i]
        /\ Append(s, e)[Len(s) + 1] = e
<1> DEFINE S == {s[i] : i \in DOMAIN s} \cup {e}
           t == Append(s, e)
           T == {t[i] : i \in DOMAIN t}
<1>1. s \in Seq(S) /\ e \in S
  OBVIOUS
<1>2. /\ t \in Seq(S) /\ Len(t) = Len(s) + 1 /\ Len(s) \in Nat
      /\ DOMAIN s = 1..Len(s) /\ DOMAIN t = 1..Len(t)
      /\ \A i \in 1..Len(s) : t[i] = s[i]
      /\ t[Len(s) + 1] = e
  BY <1>1
<1>3. t \in [1..Len(t) -> S] /\ Len(t) \in Nat
  <2> HIDE DEF S, t
  <2> QED
    BY <1>2, LenProperties
<1>4. \A i \in 1..Len(t) : t[i] \in T
  BY <1>2
<1>5. t \in Seq(T)
  <2> HIDE DEF S, t, T
  <2> QED
    BY <1>3, <1>4, IsASeq
<1> QED
  BY <1>2, <1>5

---------------------------------------------------------------------------
(* The names of the contracts.                                             *)

(* What is known of the names that have been found: every one has its file *)
(* name taken, by itself if nothing was wrong.                             *)
NamesFound ==
  /\ names \in Seq(ContractNames)
  /\ \A i \in DOMAIN names : CaseFold[names[i]] \in DOMAIN files
  /\ fatal = {} => \A i \in DOMAIN names : files[CaseFold[names[i]]] = names[i]
  /\ fatal = {} => \A i, j \in DOMAIN names :
                      i # j => CaseFold[names[i]] # CaseFold[names[j]]

(* The contracts are compiled in the order of their names, the project     *)
(* permitting.                                                             *)
InOrder ==
  /\ artifacts \in Seq(Contracts)
  /\ Len(artifacts) <= Len(names)
  /\ \A i \in DOMAIN artifacts : artifacts[i].name = names[i]
  /\ stage = "project" \/ fatal # {} => artifacts = <<>>
  /\ stage \notin {"project", "done"} =>
       fatal = {} /\ Len(artifacts) < Len(names)
  /\ stage = "done" /\ fatal = {} => Len(artifacts) = Len(names)

(* A step that finds a name keeps what is known of the names.              *)
LEMMA FindContractKeepsNames ==
  ASSUME NamesFound, FindContract PROVE NamesFound'
<1> USE NamesAssumption
<1>1. PICK name \in ContractNames :
        LET key == CaseFold[name]
            collides == key \in DOMAIN files /\ files[key] # name
        IN /\ names' = Append(names, name)
           /\ fatal' = fatal \cup Diagnosed({
                <<"INVALID_STABLE_ID_PART", name \notin StableNames>>,
                <<"DUPLICATE_CONTRACT",
                  name \in {names[i] : i \in DOMAIN names}>>,
                <<"COMPILED_ARTIFACT_FILENAME_COLLISION", collides>>})
           /\ files' = IF collides
                         THEN files
                         ELSE [k \in DOMAIN files \cup {key} |->
                                 IF k = key THEN name ELSE files[k]]
  BY DEF FindContract
<1> DEFINE key == CaseFold[name]
           collides == key \in DOMAIN files /\ files[key] # name
           duplicate == name \in {names[i] : i \in DOMAIN names}
           unstable == name \notin StableNames
           conditions == {<<"INVALID_STABLE_ID_PART", unstable>>,
                          <<"DUPLICATE_CONTRACT", duplicate>>,
                          <<"COMPILED_ARTIFACT_FILENAME_COLLISION", collides>>}
           n == Len(names)
<1>2. /\ names' \in Seq(ContractNames) /\ n \in Nat
      /\ DOMAIN names = 1..n /\ DOMAIN names' = 1..(n + 1)
      /\ \A i \in 1..n : names'[i] = names[i]
      /\ names'[n + 1] = name
  BY <1>1 DEF NamesFound
<1>3. ASSUME fatal' = {}
      PROVE fatal = {} /\ ~ duplicate /\ ~ collides
  <2>1. fatal = {} /\ Diagnosed(conditions) = {}
    BY <1>1, <1>3
  <2>2. <<"DUPLICATE_CONTRACT", duplicate>> \in conditions
    OBVIOUS
  <2>3. <<"COMPILED_ARTIFACT_FILENAME_COLLISION", collides>> \in conditions
    OBVIOUS
  <2> HIDE DEF duplicate, collides, conditions
  <2>4. duplicate \in BOOLEAN /\ collides \in BOOLEAN
    BY DEF duplicate, collides
  <2> QED
    BY <2>1, <2>2, <2>3, <2>4, DiagnosedLeavesNoneOut
<1>4. /\ DOMAIN files' = DOMAIN files \cup {key}
      /\ \A k \in DOMAIN files : k # key => files'[k] = files[k]
      /\ ~ collides => files'[key] = name
  BY <1>1
<1>5. \A i \in DOMAIN names' : CaseFold[names'[i]] \in DOMAIN files'
  <2>1. \A i \in 1..n : CaseFold[names[i]] \in DOMAIN files
    BY <1>2 DEF NamesFound
  <2> HIDE DEF n, key
  <2>2. CaseFold[name] = key
    BY DEF key
  <2>3. \A i \in 1..(n + 1) : i \in 1..n \/ i = n + 1
    BY <1>2
  <2> QED
    BY <1>2, <1>4, <2>1, <2>2, <2>3
<1>6. ASSUME fatal' = {}, NEW i \in 1..n
      PROVE /\ CaseFold[names[i]] # key
            /\ files'[CaseFold[names[i]]] = names[i]
  <2>1. /\ files[CaseFold[names[i]]] = names[i]
        /\ CaseFold[names[i]] \in DOMAIN files
        /\ names[i] # name
    BY <1>2, <1>3, <1>6 DEF NamesFound
  <2>2. CaseFold[names[i]] # key
    BY <2>1, <1>3, <1>6
  <2> QED
    BY <2>1, <2>2, <1>4
<1>7. fatal' = {} =>
        \A i \in DOMAIN names' : files'[CaseFold[names'[i]]] = names'[i]
  <2> SUFFICES ASSUME fatal' = {}, NEW i \in DOMAIN names'
               PROVE files'[CaseFold[names'[i]]] = names'[i]
    OBVIOUS
  <2>1. CASE i \in 1..n
    BY <2>1, <1>2, <1>6
  <2>2. CASE i = n + 1
    BY <2>2, <1>2, <1>3, <1>4
  <2> QED
    BY <2>1, <2>2, <1>2
<1>8. fatal' = {} =>
        \A i, j \in DOMAIN names' :
          i # j => CaseFold[names'[i]] # CaseFold[names'[j]]
  <2> SUFFICES ASSUME fatal' = {}, NEW i \in DOMAIN names',
                      NEW j \in DOMAIN names', i # j
               PROVE CaseFold[names'[i]] # CaseFold[names'[j]]
    OBVIOUS
  <2>1. CASE i \in 1..n /\ j \in 1..n
    BY <2>1, <1>2, <1>3 DEF NamesFound
  <2>2. CASE i = n + 1 /\ j \in 1..n
    BY <2>2, <1>2, <1>6
  <2>3. CASE j = n + 1 /\ i \in 1..n
    BY <2>3, <1>2, <1>6
  <2> QED
    BY <2>1, <2>2, <2>3, <1>2
<1> QED
  BY <1>2, <1>5, <1>7, <1>8 DEF NamesFound

(* The other steps leave the names alone; a fatal diagnostic may be added. *)
LEMMA ProjectFoundKeepsNames ==
  ASSUME NamesFound, ProjectFound PROVE NamesFound'
<1>1. UNCHANGED <<names, files>> /\ (fatal' = {} => fatal = {})
  BY DEF ProjectFound
<1> QED
  BY <1>1 DEF NamesFound

NamesKept == UNCHANGED <<names, files, fatal>>

LEMMA OtherStepsKeepNames ==
  ASSUME \/ ReadSettings \/ ReadColumn \/ ColumnsRead \/ UseCheckPack
         \/ CheckPacksUsed \/ ReadMetric \/ MetricsRead \/ ContractCompiled
         \/ UNCHANGED vars
  PROVE NamesKept
BY DEF ReadSettings, ReadColumn, ColumnsRead, UseCheckPack, CheckPacksUsed,
       ReadMetric, MetricsRead, ContractCompiled, NextContract, NamesKept,
       vars, project

(* Between two contracts nothing is added to the artifacts.                *)
ReadingOn ==
  /\ UNCHANGED <<names, fatal, artifacts>>
  /\ stage \notin {"project", "done"} /\ stage' \notin {"project", "done"}

LEMMA StepsWithinContract ==
  ASSUME \/ ReadSettings \/ ReadColumn \/ ColumnsRead \/ UseCheckPack
         \/ CheckPacksUsed \/ ReadMetric \/ MetricsRead
  PROVE ReadingOn
BY DEF ReadSettings, ReadColumn, ColumnsRead, UseCheckPack, CheckPacksUsed,
       ReadMetric, MetricsRead, ReadingOn, project

(* A contract that is compiled takes its place after the others.           *)
LEMMA NextContractInOrder ==
  ASSUME InOrder, NamesFound, stage = "compiled", NEW a, NextContract(a),
         a.name = names[Len(artifacts) + 1]
  PROVE InOrder'
<1>1. /\ artifacts \in Seq({artifacts[i] : i \in DOMAIN artifacts})
      /\ artifacts' = Append(artifacts, a) /\ UNCHANGED <<names, fatal>>
      /\ stage' = IF Len(artifacts') = Len(names) THEN "done" ELSE "settings"
  BY DEF InOrder, NextContract, Contracts
<1>2. fatal = {} /\ Len(artifacts) < Len(names)
  BY DEF InOrder
<1>3. Len(names) \in Nat
  BY DEF NamesFound
<1>4. /\ artifacts' \in Seq(Contracts') /\ Len(artifacts') = Len(artifacts) + 1
      /\ Len(artifacts) \in Nat
      /\ DOMAIN artifacts = 1..Len(artifacts)
      /\ DOMAIN artifacts' = 1..(Len(artifacts) + 1)
      /\ \A i \in DOMAIN artifacts : artifacts'[i] = artifacts[i]
      /\ artifacts'[Len(artifacts) + 1] = a
  BY <1>1, AppendKeepsSequence DEF Contracts
<1>5. ASSUME NEW i \in DOMAIN artifacts' PROVE artifacts'[i].name = names'[i]
  <2>1. CASE i \in DOMAIN artifacts
    BY <2>1, <1>1, <1>4 DEF InOrder
  <2>2. CASE i = Len(artifacts) + 1
    BY <2>2, <1>1, <1>4
  <2> QED
    BY <2>1, <2>2, <1>4
<1>6. Len(artifacts') <= Len(names')
  BY <1>1, <1>2, <1>3, <1>4
<1>7. fatal' = {} /\ stage' # "project"
  BY <1>1, <1>2
<1>8. /\ stage' \notin {"project", "done"} => Len(artifacts') < Len(names')
      /\ stage' = "done" => Len(artifacts') = Len(names')
  BY <1>1, <1>2, <1>3, <1>4
<1> QED
  BY <1>4, <1>5, <1>6, <1>7, <1>8 DEF InOrder

(* Both invariants hold in every state.                                    *)
LEMMA NamesAndOrder == Spec => [](NamesFound /\ InOrder)
<1>1. Init => NamesFound /\ InOrder
  BY DEF Init, NamesFound, InOrder, Contracts
<1>2. ASSUME NamesFound /\ InOrder, [Next]_vars
      PROVE (NamesFound /\ InOrder)'
  <2>1. NamesFound'
    <3>1. CASE FindContract
      BY <3>1, <1>2, FindContractKeepsNames
    <3>2. CASE ProjectFound
      BY <3>2, <1>2, ProjectFoundKeepsNames
    <3>3. CASE NamesKept
      BY <3>3, <1>2 DEF NamesKept, NamesFound
    <3> QED
      BY <3>1, <3>2, <3>3, <1>2, OtherStepsKeepNames DEF Next
  <2>2. InOrder'
    <3>1. CASE FindContract
      <4>1. /\ stage = "project" /\ stage' = "project"
            /\ UNCHANGED artifacts /\ Len(names) \in Nat
            /\ Len(names') = Len(names) + 1
        BY <3>1, <1>2 DEF FindContract, NamesFound
      <4>2. artifacts = <<>> /\ Len(artifacts) = 0
        BY <4>1, <1>2 DEF InOrder
      <4> QED
        BY <4>1, <4>2, <1>2 DEF InOrder, Contracts
    <3>2. CASE ProjectFound
      <4>1. /\ stage = "project" /\ UNCHANGED <<names, artifacts>>
            /\ stage' = IF fatal' = {} THEN "settings" ELSE "done"
            /\ fatal' = {} => names # <<>>
        <5>1. ASSUME fatal' = {} PROVE names # <<>>
          <6> DEFINE none == names = <<>>
                     conditions == {<<"INVALID_STABLE_ID_PART", ~ projectStable>>,
                                    <<"NO_CONTRACTS_FOUND", none>>}
          <6>1. Diagnosed(conditions) = {}
            BY <3>2, <5>1 DEF ProjectFound
          <6>2. <<"NO_CONTRACTS_FOUND", none>> \in conditions
            OBVIOUS
          <6> HIDE DEF none, conditions
          <6>3. none \in BOOLEAN
            BY DEF none
          <6>4. ~ none
            BY <6>1, <6>2, <6>3, DiagnosedLeavesNoneOut
          <6> QED
            BY <6>4 DEF none
        <5> QED
          BY <3>2, <5>1 DEF ProjectFound
      <4>2. artifacts = <<>> /\ Len(artifacts) = 0
        BY <4>1, <1>2 DEF InOrder
      <4>3. names # <<>> => 0 < Len(names)
        BY <1>2 DEF NamesFound
      <4> QED
        BY <4>1, <4>2, <4>3, <1>2 DEF InOrder, Contracts
    <3>3. CASE ReadingOn
      BY <3>3, <1>2 DEF ReadingOn, InOrder, Contracts
    <3>4. CASE ContractCompiled
      <4>1. PICK codes, compiled : /\ stage = "compiled"
                                  /\ NextContract(Artifact(codes, compiled))
        BY <3>4 DEF ContractCompiled
      <4>2. Artifact(codes, compiled).name = names[Len(artifacts) + 1]
        BY DEF Artifact
      <4> QED
        BY <4>1, <4>2, <1>2, NextContractInOrder
    <3>5. CASE UNCHANGED vars
      BY <3>5, <1>2 DEF vars, project, InOrder, Contracts
    <3> QED
      BY <3>1, <3>2, <3>3, <3>4, <3>5, <1>2, StepsWithinContract DEF Next
  <2> QED
    BY <2>1, <2>2
<1> QED
  BY <1>1, <1>2, PTL DEF Spec

(* No two compiled contracts share a file name, whatever the case folding  *)
(* of the file system: the loop over the names remembers one contract per  *)
(* folded name, and with the duplicates it refuses that is enough.         *)
THEOREM FilesNeverCollide == Spec => []FilesAreDistinct
<1>1. NamesFound /\ InOrder => FilesAreDistinct
  <2> SUFFICES ASSUME NamesFound, InOrder,
                      NEW i \in DOMAIN artifacts, NEW j \in DOMAIN artifacts,
                      i # j
               PROVE CaseFold[artifacts[i].name] # CaseFold[artifacts[j].name]
    BY DEF FilesAreDistinct
  <2>1. fatal = {}
    <3>1. artifacts # <<>>
      OBVIOUS
    <3> QED
      BY <3>1 DEF InOrder
  <2>2. DOMAIN artifacts \subseteq DOMAIN names
    BY DEF InOrder, NamesFound
  <2>3. artifacts[i].name = names[i] /\ artifacts[j].name = names[j]
    BY DEF InOrder
  <2> QED
    BY <2>1, <2>2, <2>3 DEF NamesFound
<1> QED
  BY <1>1, NamesAndOrder, PTL

(* A project with fatal diagnostics compiles nothing, and any other one    *)
(* all of its contracts in their order.                                    *)
THEOREM AllOrNoContracts == Spec => []EveryContractIsCompiled
<1>1. NamesFound /\ InOrder => EveryContractIsCompiled
  <2> SUFFICES ASSUME NamesFound, InOrder, stage = "done", fatal = {}
               PROVE [i \in DOMAIN artifacts |-> artifacts[i].name] = names
    BY DEF EveryContractIsCompiled, InOrder
  <2>1. DOMAIN artifacts = DOMAIN names
    BY DEF InOrder, NamesFound
  <2>2. \A i \in DOMAIN artifacts : artifacts[i].name = names[i]
    BY DEF InOrder
  <2>3. names = [i \in DOMAIN names |-> names[i]]
    BY DEF NamesFound
  <2> QED
    BY <2>1, <2>2, <2>3
<1> QED
  BY <1>1, NamesAndOrder, PTL

---------------------------------------------------------------------------
(* The null sentinels of the columns.                                      *)

(* A column keeps its sentinels apart with those it may inherit.           *)
KeepsApart(column, inherited) ==
  ~ Collide(IF column.nulls = "absent" THEN inherited ELSE column.nulls,
            column.normalization)

(* What its own diagnostics leave possible for a column.                   *)
Settled(column) ==
  /\ column.category # "string" => column.normalization # "lower"
  /\ column.category = "string" => ~ Collide(column.nulls, column.normalization)

(* The columns read so far, and what is known when they are all read.      *)
ColumnsSettled ==
  /\ columns \in Seq(Columns)
  /\ stage \in {"project", "settings"} => columns = <<>>
  /\ columnDiagnostics = {} => \A i \in DOMAIN columns : Settled(columns[i])
  /\ stage \in {"packs", "metrics", "compiled"} /\ diagnostics = {} =>
       \A i \in DOMAIN columns : KeepsApart(columns[i], settings.nulls)

SentinelInvariant ==
  /\ artifacts \in Seq(Contracts)
  /\ ColumnsSettled
  /\ SentinelsStayDistinct

(* A column without diagnostics is settled.                                *)
LEMMA UndiagnosedColumn ==
  ASSUME NEW entry \in Columns, NEW before, ColumnDiagnostics(entry, before) = {}
  PROVE Settled(entry)
<1>1. IsColumn(entry) /\ PolicyDiagnostics(entry) = {}
  BY DEF ColumnDiagnostics
<1>2. entry.normalization = "lower" => entry.category = "string"
  <2> DEFINE incompatible ==
        \/ entry.tolerance = "valid" /\ entry.category # "numeric"
        \/ /\ entry.category # "string"
           /\ \/ entry.nulls \in {"distinct", "casing"}
              \/ entry.normalization \in {"trim", "lower"}
      conditions == {
        <<"INVALID_COLUMN_DECLARATION", entry.timezone>>,
        <<"INVALID_TOLERANCE", entry.tolerance = "invalid">>,
        <<"INVALID_NULL_POLICY", entry.nulls = "invalid">>,
        <<"INVALID_NORMALIZATION", entry.normalization = "invalid">>,
        <<"INCOMPATIBLE_COLUMN_TYPE", incompatible>>,
        <<"INVALID_NULL_SENTINEL",
          entry.category = "string" /\ Collide(entry.nulls, entry.normalization)>>}
  <2>1. Diagnosed(conditions) = {}
    BY <1>1 DEF PolicyDiagnostics
  <2>2. <<"INCOMPATIBLE_COLUMN_TYPE", incompatible>> \in conditions
    OBVIOUS
  <2> HIDE DEF incompatible, conditions
  <2>3. incompatible \in BOOLEAN
    BY DEF incompatible
  <2>4. ~ incompatible
    BY <2>1, <2>2, <2>3, DiagnosedLeavesNoneOut
  <2> QED
    BY <2>4 DEF incompatible
<1>3. entry.category = "string" => ~ Collide(entry.nulls, entry.normalization)
  <2> DEFINE colliding ==
        entry.category = "string" /\ Collide(entry.nulls, entry.normalization)
      conditions == {
        <<"INVALID_COLUMN_DECLARATION", entry.timezone>>,
        <<"INVALID_TOLERANCE", entry.tolerance = "invalid">>,
        <<"INVALID_NULL_POLICY", entry.nulls = "invalid">>,
        <<"INVALID_NORMALIZATION", entry.normalization = "invalid">>,
        <<"INCOMPATIBLE_COLUMN_TYPE",
          \/ entry.tolerance = "valid" /\ entry.category # "numeric"
          \/ /\ entry.category # "string"
             /\ \/ entry.nulls \in {"distinct", "casing"}
                \/ entry.normalization \in {"trim", "lower"} >>,
        <<"INVALID_NULL_SENTINEL", colliding>>}
  <2>1. Diagnosed(conditions) = {}
    BY <1>1 DEF PolicyDiagnostics
  <2>2. <<"INVALID_NULL_SENTINEL", colliding>> \in conditions
    OBVIOUS
  <2> HIDE DEF colliding, conditions
  <2>3. colliding \in BOOLEAN
    BY DEF colliding, Collide
  <2>4. ~ colliding
    BY <2>1, <2>2, <2>3, DiagnosedLeavesNoneOut
  <2> QED
    BY <2>4 DEF colliding
<1> QED
  BY <1>2, <1>3 DEF Settled

(* Reading a column.                                                       *)
LEMMA ReadColumnSettles ==
  ASSUME ColumnsSettled, ReadColumn PROVE ColumnsSettled'
<1>1. PICK entry \in AuthoredColumns :
        /\ columns' = Append(columns, entry)
        /\ columnDiagnostics' = columnDiagnostics \cup ColumnDiagnostics(entry, seen)
  BY DEF ReadColumn
<1>2. entry \in Columns /\ stage' = "columns"
  BY AuthoredAssumption DEF ReadColumn
<1>3. /\ columns' \in Seq(Columns) /\ Len(columns) \in Nat
      /\ DOMAIN columns = 1..Len(columns)
      /\ DOMAIN columns' = 1..(Len(columns) + 1)
      /\ \A i \in 1..Len(columns) : columns'[i] = columns[i]
      /\ columns'[Len(columns) + 1] = entry
  BY <1>1, <1>2 DEF ColumnsSettled
<1>4. ASSUME columnDiagnostics' = {}, NEW i \in DOMAIN columns'
      PROVE Settled(columns'[i])
  <2>1. columnDiagnostics = {} /\ ColumnDiagnostics(entry, seen) = {}
    BY <1>1, <1>4
  <2>2. CASE i \in 1..Len(columns)
    BY <2>1, <2>2, <1>3 DEF ColumnsSettled
  <2>3. CASE i = Len(columns) + 1
    BY <2>1, <2>3, <1>2, <1>3, UndiagnosedColumn
  <2> QED
    BY <2>2, <2>3, <1>3
<1> QED
  BY <1>2, <1>3, <1>4 DEF ColumnsSettled

(* All columns are read: a diagnostic of theirs is one of the contract, and *)
(* so is a collision of the sentinels that a column inherits.              *)
LEMMA ColumnsReadSettles ==
  ASSUME ColumnsSettled, ColumnsRead PROVE ColumnsSettled'
<1> DEFINE inherits == \E i \in DOMAIN columns :
             /\ columns[i].category = "string" /\ columns[i].nulls = "absent"
             /\ Collide(settings.nulls, columns[i].normalization)
           collide == /\ settings.nulls \in {"distinct", "casing"}
                      /\ columnDiagnostics = {}
                      /\ inherits
           conditions == {<<"INVALID_NULL_SENTINEL", collide>>}
<1>1. /\ diagnostics' = diagnostics \cup columnDiagnostics \cup Diagnosed(conditions)
      /\ UNCHANGED <<columns, columnDiagnostics, settings>> /\ stage' = "packs"
  BY DEF ColumnsRead, inputs
<1>2. ASSUME diagnostics' = {} PROVE columnDiagnostics = {} /\ ~ collide
  <2>1. Diagnosed(conditions) = {} /\ columnDiagnostics = {}
    BY <1>1, <1>2
  <2>2. <<"INVALID_NULL_SENTINEL", collide>> \in conditions
    OBVIOUS
  <2> HIDE DEF collide, conditions
  <2>3. collide \in BOOLEAN
    BY DEF collide
  <2> QED
    BY <2>1, <2>2, <2>3, DiagnosedLeavesNoneOut
<1>3. ASSUME diagnostics' = {}, NEW i \in DOMAIN columns
      PROVE KeepsApart(columns[i], settings.nulls)
  <2>1. Settled(columns[i])
    BY <1>2, <1>3 DEF ColumnsSettled
  <2>2. CASE columns[i].category # "string"
    BY <2>1, <2>2 DEF Settled, KeepsApart, Collide
  <2>3. CASE columns[i].category = "string" /\ columns[i].nulls # "absent"
    BY <2>1, <2>3 DEF Settled, KeepsApart
  <2>4. CASE columns[i].category = "string" /\ columns[i].nulls = "absent"
    BY <2>4, <1>2, <1>3 DEF KeepsApart, Collide
  <2> QED
    BY <2>2, <2>3, <2>4
<1> QED
  BY <1>1, <1>3 DEF ColumnsSettled

(* The steps after that only add diagnostics to the contract.              *)
AddsDiagnostics ==
  /\ UNCHANGED <<columns, columnDiagnostics, settings>>
  /\ diagnostics \subseteq diagnostics'
  /\ stage \in {"packs", "metrics", "compiled"}
  /\ stage' \in {"packs", "metrics", "compiled"}

LEMMA LaterStepsAddDiagnostics ==
  ASSUME UseCheckPack \/ CheckPacksUsed \/ ReadMetric \/ MetricsRead
  PROVE AddsDiagnostics
BY DEF UseCheckPack, CheckPacksUsed, ReadMetric, MetricsRead, AddsDiagnostics,
       inputs

LEMMA AddedDiagnosticsSettle ==
  ASSUME ColumnsSettled, AddsDiagnostics PROVE ColumnsSettled'
BY DEF ColumnsSettled, AddsDiagnostics

(* The steps before the columns are read, in which there are none.         *)
LEMMA EarlierStepsSettle ==
  ASSUME ColumnsSettled, FindContract \/ ProjectFound PROVE ColumnsSettled'
<1>1. /\ UNCHANGED <<columns, columnDiagnostics>> /\ stage = "project"
      /\ stage' \in {"project", "settings", "done"}
  BY DEF FindContract, ProjectFound, contract, inputs
<1> QED
  BY <1>1 DEF ColumnsSettled

(* A contract is begun, with no columns yet.                               *)
LEMMA ReadSettingsSettles ==
  ASSUME ColumnsSettled, ReadSettings PROVE ColumnsSettled'
<1>1. UNCHANGED columns /\ columns = <<>> /\ stage' = "columns"
  BY DEF ReadSettings, ColumnsSettled
<1> QED
  BY <1>1 DEF ColumnsSettled

(* A contract that is compiled: the next one has no columns yet, and its   *)
(* own are settled if it has no diagnostics.                               *)
LEMMA ContractCompiledSettles ==
  ASSUME SentinelInvariant, ContractCompiled PROVE SentinelInvariant'
<1>1. PICK codes, compiled :
        /\ stage = "compiled" /\ diagnostics \subseteq codes
        /\ NextContract(Artifact(codes, compiled))
  BY DEF ContractCompiled
<1> DEFINE a == Artifact(codes, compiled)
<1>2. /\ a.columns = columns /\ a.settings = settings /\ a.diagnostics = codes
  BY DEF Artifact
<1> HIDE DEF a
<1>3. /\ artifacts \in Seq({artifacts[i] : i \in DOMAIN artifacts})
      /\ artifacts' = Append(artifacts, a) /\ columns' = <<>>
      /\ stage' \in {"done", "settings"}
  BY <1>1 DEF SentinelInvariant, NextContract, Contracts, a
<1>4. /\ artifacts' \in Seq(Contracts')
      /\ DOMAIN artifacts = 1..Len(artifacts)
      /\ DOMAIN artifacts' = 1..(Len(artifacts) + 1) /\ Len(artifacts) \in Nat
      /\ \A i \in DOMAIN artifacts : artifacts'[i] = artifacts[i]
      /\ artifacts'[Len(artifacts) + 1] = a
  BY <1>3, AppendKeepsSequence DEF Contracts
<1>5. ColumnsSettled'
  BY <1>3 DEF ColumnsSettled
<1>6. ASSUME a.diagnostics = {}, NEW i \in DOMAIN a.columns
      PROVE KeepsApart(a.columns[i], a.settings.nulls)
  <2>1. diagnostics = {}
    BY <1>1, <1>2, <1>6
  <2> QED
    BY <2>1, <1>1, <1>2, <1>6 DEF SentinelInvariant, ColumnsSettled
<1>7. SentinelsStayDistinct'
  <2> SUFFICES ASSUME NEW authored \in Contracts', authored.diagnostics = {},
                      NEW i \in DOMAIN authored.columns
               PROVE KeepsApart(authored.columns[i], authored.settings.nulls)
    BY DEF SentinelsStayDistinct, EffectiveNulls, KeepsApart
  <2>1. authored \in Contracts \/ authored = a
    BY <1>4 DEF Contracts
  <2>2. CASE authored \in Contracts
    BY <2>2 DEF SentinelInvariant, SentinelsStayDistinct, EffectiveNulls,
                KeepsApart
  <2>3. CASE authored = a
    BY <2>3, <1>6
  <2> QED
    BY <2>1, <2>2, <2>3
<1> QED
  BY <1>4, <1>5, <1>7 DEF SentinelInvariant

LEMMA OtherStepsKeepArtifacts ==
  ASSUME \/ FindContract \/ ProjectFound \/ ReadSettings \/ ReadColumn
         \/ ColumnsRead \/ UseCheckPack \/ CheckPacksUsed \/ ReadMetric
         \/ MetricsRead
  PROVE UNCHANGED artifacts
BY DEF FindContract, ProjectFound, ReadSettings, ReadColumn, ColumnsRead,
       UseCheckPack, CheckPacksUsed, ReadMetric, MetricsRead, project

(* A string column of a contract that compiles has no two null sentinels   *)
(* that its normalization makes the same, were they written for the column *)
(* or inherited from the contract.  It takes the check of the column, the  *)
(* refusal of normalization for other categories, and the second look      *)
(* after the columns, which only happens when the first found nothing.     *)
THEOREM SentinelsNeverMerge == Spec => []SentinelsStayDistinct
<1>1. Init => SentinelInvariant
  BY DEF Init, SentinelInvariant, ColumnsSettled, SentinelsStayDistinct, Contracts
<1>2. ASSUME SentinelInvariant, [Next]_vars PROVE SentinelInvariant'
  <2>1. ASSUME ColumnsSettled', UNCHANGED artifacts PROVE SentinelInvariant'
    BY <1>2, <2>1 DEF SentinelInvariant, SentinelsStayDistinct, Contracts,
                      EffectiveNulls
  <2>2. ColumnsSettled
    BY <1>2 DEF SentinelInvariant
  <2>3. CASE FindContract \/ ProjectFound
    BY <2>1, <2>2, <2>3, EarlierStepsSettle, OtherStepsKeepArtifacts
  <2>4. CASE ReadSettings
    BY <2>1, <2>2, <2>4, ReadSettingsSettles, OtherStepsKeepArtifacts
  <2>5. CASE ReadColumn
    BY <2>1, <2>2, <2>5, ReadColumnSettles, OtherStepsKeepArtifacts
  <2>6. CASE ColumnsRead
    BY <2>1, <2>2, <2>6, ColumnsReadSettles, OtherStepsKeepArtifacts
  <2>7. CASE UseCheckPack \/ CheckPacksUsed \/ ReadMetric \/ MetricsRead
    BY <2>1, <2>2, <2>7, LaterStepsAddDiagnostics, AddedDiagnosticsSettle,
       OtherStepsKeepArtifacts
  <2>8. CASE ContractCompiled
    BY <1>2, <2>8, ContractCompiledSettles
  <2>9. CASE UNCHANGED vars
    <3>1. UNCHANGED <<artifacts, stage, columns, columnDiagnostics, diagnostics,
                      settings>>
      BY <2>9 DEF vars, project, contract, inputs
    <3>2. ColumnsSettled'
      BY <2>2, <3>1 DEF ColumnsSettled
    <3> QED
      BY <2>1, <3>1, <3>2
  <2> QED
    BY <1>2, <2>3, <2>4, <2>5, <2>6, <2>7, <2>8, <2>9 DEF Next
<1>3. SentinelInvariant => SentinelsStayDistinct
  BY DEF SentinelInvariant
<1> QED
  BY <1>1, <1>2, <1>3, PTL DEF Spec

---------------------------------------------------------------------------
(* Which contracts compile, and to what.                                   *)

(* What is asked of the settings, of a column, of the check packs and of a *)
(* metric: the parts of WellFormed, as they can be known one after another.*)
SettingsFine(s) ==
  /\ "invalid" \notin {s.grain, s.sampling, s.nulls, s.cdc}
  /\ s.cdc = "same_as_grain" => s.grain = "keys"

ColumnFine(entry) ==
  /\ entry.category \in Category /\ entry.wellFormed /\ ~ entry.timezone
  /\ entry.name # "*"
  /\ \/ entry.tolerance = "absent"
     \/ entry.tolerance = "valid" /\ entry.category = "numeric"
  /\ \/ entry.nulls = "absent" /\ entry.normalization = "absent"
     \/ /\ entry.category = "string"
        /\ "invalid" \notin {entry.nulls, entry.normalization}
  /\ ~ Collide(entry.nulls, entry.normalization)

NamesOf(items) == {items[i].name : i \in DOMAIN items}

Registry(entries) ==
  {[name |-> entries[i].name, category |-> entries[i].category] :
     i \in DOMAIN entries}

DistinctNames(items) ==
  \A i, j \in DOMAIN items : items[i].name = items[j].name => i = j

ColumnsFine(s, entries) ==
  /\ s.columns # "invalid"
  /\ \A i \in DOMAIN entries : ColumnFine(entries[i])
  /\ DistinctNames(entries)

SentinelsFine(s, entries) ==
  \A i \in DOMAIN entries : KeepsApart(entries[i], s.nulls)

UsesFine(s, packs) ==
  /\ packs \in {<<>>, <<[name |-> BasicPack, shape |-> "name"]>>}
  /\ packs # <<>> => s.grain = "keys"

MetricFine(metric, s, entries) ==
  /\ metric.shape = "valid" /\ metric.type = "sum"
  /\ metric.name \in StableNames /\ metric.tolerance # "invalid"
  /\ "*" \notin References(metric)
  /\ s.columns = "mapping" =>
       \A name \in References(metric) : \E k \in DOMAIN entries :
         /\ entries[k].name = name
         /\ name = metric.column => entries[k].category = "numeric"

MetricsFine(s, entries, all) ==
  /\ \A i \in DOMAIN all : MetricFine(all[i], s, entries)
  /\ DistinctNames(all)

(* The names that are left of a loop which keeps only some of its items.   *)
Keeping(items, shape) ==
  {items[i].name : i \in {j \in DOMAIN items : items[j].shape = shape}}

(* The checks of the packs and those of the metrics.                       *)
Invoked(packs) == Keeping(packs, "name")

PackChecks(s, packs) ==
  IF BasicPack \in Invoked(packs) /\ GrainKeys(s) # <<>>
    THEN BasicEquivalence(GrainKeys(s), s.sampling) ELSE <<>>

MetricChecks(s, all) == [i \in DOMAIN all |-> MetricCheck(all[i], s.sampling)]

(* The contract that is read: what it is made of, and that nothing of it   *)
(* is left from the one before.                                            *)
ContractTyped ==
  /\ settings \in Settings /\ columns \in Seq(Columns)
  /\ uses \in Seq(Uses) /\ metrics \in Seq(Metrics)
  /\ stage \in {"project", "settings", "columns", "packs", "metrics",
                "compiled", "done"}
  /\ columns # <<>> => settings.columns = "mapping"
  /\ uses # <<>> => settings.checks # "invalid" /\ settings.use = "list"

Unread ==
  /\ stage \in {"project", "settings", "done"} =>
       columns = <<>> /\ declared = {} /\ seen = {}
  /\ stage \in {"project", "settings", "columns", "done"} =>
       uses = <<>> /\ checks = <<>>
  /\ stage \in {"project", "settings", "columns", "packs", "done"} =>
       metrics = <<>> /\ metricDiagnostics = {}

Reading == {"columns", "packs", "metrics", "compiled"}

(* What the names remembered by the loops are.                             *)
Remembered ==
  /\ stage = "columns" /\ columnDiagnostics = {} => seen = NamesOf(columns)
  /\ stage \in Reading /\ columnDiagnostics = {} =>
       declared = Registry(columns)
  /\ stage = "packs" => seen = Invoked(uses)
  /\ stage = "metrics" => seen = Keeping(metrics, "valid")

(* The diagnostics are empty as long as everything read so far is fine,    *)
(* and not any longer.                                                     *)
ColumnsJudged ==
  stage \in Reading =>
    (columnDiagnostics = {} <=> ColumnsFine(settings, columns))

MetricsJudged ==
  stage \in Reading /\ columnDiagnostics = {} =>
    (metricDiagnostics = {} <=> MetricsFine(settings, columns, metrics))

FineUpTo(part) ==
  /\ SettingsFine(settings)
  /\ part >= 1 => /\ ColumnsFine(settings, columns)
                  /\ SentinelsFine(settings, columns)
                  /\ UsesFine(settings, uses)
  /\ part >= 2 => settings.checks = "mapping" /\ settings.use # "invalid"
  /\ part >= 3 => MetricsFine(settings, columns, metrics)

Judged ==
  /\ stage = "columns" => (diagnostics = {} <=> FineUpTo(0))
  /\ stage = "packs" => (diagnostics = {} <=> FineUpTo(1))
  /\ stage = "metrics" => (diagnostics = {} <=> FineUpTo(2))
  /\ stage = "compiled" => (diagnostics = {} <=> FineUpTo(3))

(* The checks compiled so far.                                             *)
ChecksBuilt ==
  /\ stage \in {"packs", "metrics"} => checks = PackChecks(settings, uses)
  /\ stage = "compiled" =>
       checks = IF metricDiagnostics = {}
                  THEN PackChecks(settings, uses) \o MetricChecks(settings, metrics)
                  ELSE PackChecks(settings, uses)

ContractInv ==
  /\ ContractTyped /\ Unread /\ Remembered
  /\ ColumnsJudged /\ MetricsJudged /\ Judged /\ ChecksBuilt

(* A condition, and how conditions diagnose nothing: if none of them holds.*)
LEMMA Condition ==
  ASSUME NEW code, NEW holds \in BOOLEAN PROVE <<code, holds>>[2] <=> holds
OBVIOUS

(* Two conditions diagnose nothing if neither holds.                       *)
LEMMA TwoConditions ==
  ASSUME NEW c1, NEW c2
  PROVE Diagnosed({c1, c2}) = {}
          <=> ~ c1[2] /\ ~ c2[2]
BY DEF Diagnosed

(* The same of four conditions.                                            *)
LEMMA FourConditions ==
  ASSUME NEW c1, NEW c2, NEW c3, NEW c4
  PROVE Diagnosed({c1, c2, c3, c4}) = {}
          <=> ~ c1[2] /\ ~ c2[2] /\ ~ c3[2] /\ ~ c4[2]
BY DEF Diagnosed

(* The same of five conditions.                                            *)
LEMMA FiveConditions ==
  ASSUME NEW c1, NEW c2, NEW c3, NEW c4, NEW c5
  PROVE Diagnosed({c1, c2, c3, c4, c5}) = {}
          <=> ~ c1[2] /\ ~ c2[2] /\ ~ c3[2] /\ ~ c4[2] /\ ~ c5[2]
BY DEF Diagnosed

(* The settings, a column and an item of `checks.use` are diagnosed if they*)
(* are not fine.                                                           *)
LEMMA SettingsJudged ==
  ASSUME NEW s \in Settings
  PROVE SettingsDiagnostics(s) = {} <=> SettingsFine(s)
<1> DEFINE grain == s.grain = "invalid"
           sampling == s.sampling = "invalid"
           nulls == s.nulls = "invalid"
           cdc == \/ s.cdc = "invalid"
                  \/ s.cdc = "same_as_grain" /\ GrainKeys(s) = <<>>
<1>1. SettingsDiagnostics(s) =
        Diagnosed({<<"INVALID_GRAIN_KEYS", grain>>,
                   <<"INVALID_SAMPLING", sampling>>,
                   <<"INVALID_NULL_POLICY", nulls>>,
                   <<"INVALID_CDC_KEYS", cdc>>})
  BY DEF SettingsDiagnostics
<1>2. /\ grain \in BOOLEAN /\ sampling \in BOOLEAN
      /\ nulls \in BOOLEAN /\ cdc \in BOOLEAN
  OBVIOUS
<1>3. GrainKeys(s) = <<>> <=> s.grain # "keys"
  BY DEF GrainKeys
<1>4. SettingsFine(s) <=> ~ grain /\ ~ sampling /\ ~ nulls /\ ~ cdc
  BY <1>3 DEF SettingsFine
<1> HIDE DEF grain, sampling, nulls, cdc
<1>5. SettingsDiagnostics(s) = {}
        <=> ~ grain /\ ~ sampling /\ ~ nulls /\ ~ cdc
  <2> DEFINE c1 == <<"INVALID_GRAIN_KEYS", grain>>
             c2 == <<"INVALID_SAMPLING", sampling>>
             c3 == <<"INVALID_NULL_POLICY", nulls>>
             c4 == <<"INVALID_CDC_KEYS", cdc>>
  <2>1. /\ c1[2] <=> grain
        /\ c2[2] <=> sampling
        /\ c3[2] <=> nulls
        /\ c4[2] <=> cdc
    BY <1>2
  <2> HIDE DEF c1, c2, c3, c4
  <2>2. SettingsDiagnostics(s) = Diagnosed({c1, c2, c3, c4})
    BY <1>1 DEF c1, c2, c3, c4
  <2> QED
    BY <2>1, <2>2, FourConditions
<1> QED
  BY <1>4, <1>5

(* An entry of a column has no diagnostics if the column is fine and new.  *)
LEMMA ColumnJudged ==
  ASSUME NEW entry \in Columns, NEW before
  PROVE ColumnDiagnostics(entry, before) = {}
          <=> ColumnFine(entry) /\ entry.name \notin before
<1> DEFINE timezone == entry.timezone
           tolerance == entry.tolerance = "invalid"
           nulls == entry.nulls = "invalid"
           normalization == entry.normalization = "invalid"
           incompatible ==
             \/ entry.tolerance = "valid" /\ entry.category # "numeric"
             \/ /\ entry.category # "string"
                /\ \/ entry.nulls \in {"distinct", "casing"}
                   \/ entry.normalization \in {"trim", "lower"}
           colliding ==
             entry.category = "string" /\ Collide(entry.nulls, entry.normalization)
           star == entry.name = "*"
           duplicate == entry.name \in before
           named == Diagnosed({<<"INVALID_COLUMN_SELECTION", star>>,
                               <<"DUPLICATE_COLUMN_NAME", duplicate>>})
<1>1. PolicyDiagnostics(entry) = Diagnosed({
        <<"INVALID_COLUMN_DECLARATION", timezone>>,
        <<"INVALID_TOLERANCE", tolerance>>,
        <<"INVALID_NULL_POLICY", nulls>>,
        <<"INVALID_NORMALIZATION", normalization>>,
        <<"INCOMPATIBLE_COLUMN_TYPE", incompatible>>,
        <<"INVALID_NULL_SENTINEL", colliding>>})
  BY DEF PolicyDiagnostics
<1>2. ColumnDiagnostics(entry, before) = {}
        <=> IsColumn(entry) /\ PolicyDiagnostics(entry) = {} /\ named = {}
  BY DEF ColumnDiagnostics
<1>3. /\ timezone \in BOOLEAN /\ tolerance \in BOOLEAN /\ nulls \in BOOLEAN
      /\ normalization \in BOOLEAN /\ incompatible \in BOOLEAN
      /\ colliding \in BOOLEAN /\ star \in BOOLEAN /\ duplicate \in BOOLEAN
  BY DEF Columns, Collide
<1>4. /\ entry.nulls \in Nulls /\ entry.tolerance \in Policy
      /\ entry.normalization \in {"absent", "invalid", "trim", "lower"}
  BY DEF Columns
<1>5. ColumnFine(entry) /\ entry.name \notin before
        <=> /\ IsColumn(entry)
            /\ ~ timezone /\ ~ tolerance /\ ~ nulls /\ ~ normalization
            /\ ~ incompatible /\ ~ colliding /\ ~ star /\ ~ duplicate
  BY <1>4 DEF ColumnFine, IsColumn, Collide, Nulls, Policy
<1> HIDE DEF timezone, tolerance, nulls, normalization, incompatible, colliding,
             star, duplicate
<1>6. named = {} <=> ~ star /\ ~ duplicate
  <2> DEFINE c1 == <<"INVALID_COLUMN_SELECTION", star>>
             c2 == <<"DUPLICATE_COLUMN_NAME", duplicate>>
  <2>1. (c1[2] <=> star) /\ (c2[2] <=> duplicate)
    BY <1>3
  <2> HIDE DEF c1, c2
  <2>2. named = Diagnosed({c1, c2})
    BY DEF c1, c2
  <2> QED
    BY <2>1, <2>2, TwoConditions
<1>7. PolicyDiagnostics(entry) = {}
        <=> /\ ~ timezone /\ ~ tolerance /\ ~ nulls /\ ~ normalization
            /\ ~ incompatible /\ ~ colliding
  <2> DEFINE c1 == <<"INVALID_COLUMN_DECLARATION", timezone>>
             c2 == <<"INVALID_TOLERANCE", tolerance>>
             c3 == <<"INVALID_NULL_POLICY", nulls>>
             c4 == <<"INVALID_NORMALIZATION", normalization>>
             c5 == <<"INCOMPATIBLE_COLUMN_TYPE", incompatible>>
             c6 == <<"INVALID_NULL_SENTINEL", colliding>>
  <2>1. /\ c1[2] <=> timezone
        /\ c2[2] <=> tolerance
        /\ c3[2] <=> nulls
        /\ c4[2] <=> normalization
        /\ c5[2] <=> incompatible
        /\ c6[2] <=> colliding
    BY <1>3
  <2> HIDE DEF c1, c2, c3, c4, c5, c6
  <2>2. PolicyDiagnostics(entry) = Diagnosed({c1, c2, c3, c4, c5, c6})
    BY <1>1 DEF c1, c2, c3, c4, c5, c6
  <2>3. Diagnosed({c1, c2, c3, c4, c5, c6}) = {}
          <=> ~ c1[2] /\ ~ c2[2] /\ ~ c3[2] /\ ~ c4[2] /\ ~ c5[2] /\ ~ c6[2]
    BY DEF Diagnosed
  <2> QED
    BY <2>1, <2>2, <2>3
<1> QED
  BY <1>2, <1>5, <1>6, <1>7

(* A use has no diagnostics if it is the first of the only pack, with keys. *)
LEMMA UseJudged ==
  ASSUME NEW use \in Uses
  PROVE UseDiagnostics(use) = {}
          <=> /\ use = [name |-> BasicPack, shape |-> "name"]
              /\ use.name \notin seen /\ GrainKeys(settings) # <<>>
<1> DEFINE invalid == use.shape = "invalid"
           config == use.shape = "more_fields"
           duplicate == use.shape = "name" /\ use.name \in seen
           unknown == Invokes(use) /\ use.name # BasicPack
           keyless ==
             Invokes(use) /\ use.name = BasicPack /\ GrainKeys(settings) = <<>>
<1>1. UseDiagnostics(use) = Diagnosed({
        <<"INVALID_CHECK_PACK_USE", invalid>>,
        <<"UNSUPPORTED_CHECK_PACK_CONFIG", config>>,
        <<"DUPLICATE_CHECK_PACK_INVOCATION", duplicate>>,
        <<"UNKNOWN_CHECK_PACK", unknown>>,
        <<"CHECK_PACK_REQUIRES_GRAIN_KEYS", keyless>>})
  BY DEF UseDiagnostics
<1>2. /\ invalid \in BOOLEAN /\ config \in BOOLEAN /\ duplicate \in BOOLEAN
      /\ unknown \in BOOLEAN /\ keyless \in BOOLEAN
  BY DEF Invokes
<1>3. use.shape \in {"name", "more_fields", "invalid"}
  BY DEF Uses
<1>4. use = [name |-> BasicPack, shape |-> "name"]
        <=> use.name = BasicPack /\ use.shape = "name"
  BY DEF Uses
<1>5. (/\ use = [name |-> BasicPack, shape |-> "name"]
       /\ use.name \notin seen /\ GrainKeys(settings) # <<>>)
        <=> ~ invalid /\ ~ config /\ ~ duplicate /\ ~ unknown /\ ~ keyless
  BY <1>3, <1>4 DEF Invokes
<1> HIDE DEF invalid, config, duplicate, unknown, keyless
<1>6. UseDiagnostics(use) = {}
        <=> ~ invalid /\ ~ config /\ ~ duplicate /\ ~ unknown /\ ~ keyless
  <2> DEFINE c1 == <<"INVALID_CHECK_PACK_USE", invalid>>
             c2 == <<"UNSUPPORTED_CHECK_PACK_CONFIG", config>>
             c3 == <<"DUPLICATE_CHECK_PACK_INVOCATION", duplicate>>
             c4 == <<"UNKNOWN_CHECK_PACK", unknown>>
             c5 == <<"CHECK_PACK_REQUIRES_GRAIN_KEYS", keyless>>
  <2>1. /\ c1[2] <=> invalid
        /\ c2[2] <=> config
        /\ c3[2] <=> duplicate
        /\ c4[2] <=> unknown
        /\ c5[2] <=> keyless
    BY <1>2
  <2> HIDE DEF c1, c2, c3, c4, c5
  <2>2. UseDiagnostics(use) = Diagnosed({c1, c2, c3, c4, c5})
    BY <1>1 DEF c1, c2, c3, c4, c5
  <2> QED
    BY <2>1, <2>2, FiveConditions
<1> QED
  BY <1>5, <1>6

(* The loop over the metrics reports one flaw of each: the first.          *)
LEMMA FirstIsDiagnosed ==
  ASSUME NEW c, NEW n \in Nat, DOMAIN c = 1..n
  PROVE FirstDiagnosed(c) = {} <=> \A i \in 1..n : ~ c[i][2]
<1> DEFINE hits == {i \in DOMAIN c : c[i][2]}
           first == {j \in hits : \A k \in hits : j <= k}
<1>1. FirstDiagnosed(c) = {c[i][1] : i \in first}
  BY DEF FirstDiagnosed
<1>2. hits # {} => first # {}
  <2> SUFFICES ASSUME hits # {} PROVE \E j \in hits : \A k \in hits : j <= k
    OBVIOUS
  <2> DEFINE R == OpToRel(<, Nat)
  <2>1. IsWellFoundedOn(R, Nat)
    BY NatLessThanWellFounded
  <2>2. \A i, j \in Nat : i < j => <<i, j>> \in R
    BY DEF OpToRel
  <2>3. hits \subseteq Nat
    OBVIOUS
  <2> HIDE DEF hits, R
  <2>4. PICK j \in hits : \A k \in hits : ~ <<k, j>> \in R
    BY <2>1, <2>3, WFMin
  <2>5. ASSUME NEW k \in hits PROVE j <= k
    <3>1. j \in Nat /\ k \in Nat
      BY <2>3
    <3>2. ~ k < j
      BY <3>1, <2>2, <2>4
    <3> QED
      BY <3>1, <3>2
  <2> QED
    BY <2>5
<1>3. hits = {} <=> \A i \in 1..n : ~ c[i][2]
  OBVIOUS
<1> QED
  BY <1>1, <1>2, <1>3

(* One item more.                                                          *)
LEMMA OneMore ==
  ASSUME NEW S, NEW s \in Seq(S), NEW e \in S
  PROVE /\ Append(s, e) \in Seq(S) /\ Len(s) \in Nat
        /\ DOMAIN s = 1..Len(s) /\ DOMAIN Append(s, e) = 1..(Len(s) + 1)
        /\ DOMAIN Append(s, e) = DOMAIN s \cup {Len(s) + 1}
        /\ Len(s) + 1 \notin DOMAIN s
        /\ \A i \in DOMAIN s : Append(s, e)[i] = s[i]
        /\ Append(s, e)[Len(s) + 1] = e
        /\ Append(s, e) # <<>>
<1>1. /\ Append(s, e) \in Seq(S) /\ Len(s) \in Nat
      /\ DOMAIN s = 1..Len(s) /\ DOMAIN Append(s, e) = 1..(Len(s) + 1)
      /\ \A i \in DOMAIN s : Append(s, e)[i] = s[i]
      /\ Append(s, e)[Len(s) + 1] = e
  OBVIOUS
<1>2. Append(s, e) # <<>>
  BY <1>1
<1> QED
  BY <1>1, <1>2

(* One more item adds its name, and names stay distinct if it is a new one. *)
LEMMA OneMoreName ==
  ASSUME NEW S, NEW s \in Seq(S), NEW e \in S
  PROVE /\ NamesOf(Append(s, e)) = NamesOf(s) \cup {e.name}
        /\ DistinctNames(Append(s, e))
             <=> DistinctNames(s) /\ e.name \notin NamesOf(s)
<1> DEFINE t == Append(s, e)
           n == Len(s) + 1
<1>1. /\ DOMAIN t = DOMAIN s \cup {n} /\ n \notin DOMAIN s
      /\ \A i \in DOMAIN s : t[i] = s[i]
      /\ t[n] = e
  BY OneMore
<1> HIDE DEF t, n
<1>2. NamesOf(t) = NamesOf(s) \cup {e.name}
  BY <1>1 DEF NamesOf
<1>3. ASSUME DistinctNames(t) PROVE DistinctNames(s) /\ e.name \notin NamesOf(s)
  BY <1>1, <1>3 DEF NamesOf, DistinctNames
<1>4. ASSUME DistinctNames(s), e.name \notin NamesOf(s) PROVE DistinctNames(t)
  BY <1>1, <1>4 DEF NamesOf, DistinctNames
<1> QED
  BY <1>2, <1>3, <1>4 DEF t

(* One more column is fine if it is fine by itself and of a new name.      *)
LEMMA OneMoreColumn ==
  ASSUME NEW s, NEW entries \in Seq(Columns), NEW entry \in Columns
  PROVE ColumnsFine(s, Append(entries, entry))
          <=> /\ ColumnsFine(s, entries) /\ ColumnFine(entry)
              /\ entry.name \notin NamesOf(entries)
<1> DEFINE t == Append(entries, entry)
<1>1. /\ DOMAIN t = DOMAIN entries \cup {Len(entries) + 1}
      /\ \A i \in DOMAIN entries : t[i] = entries[i]
      /\ t[Len(entries) + 1] = entry
  BY OneMore
<1>2. DistinctNames(t)
        <=> DistinctNames(entries) /\ entry.name \notin NamesOf(entries)
  BY OneMoreName
<1> HIDE DEF t
<1>3. (\A i \in DOMAIN t : ColumnFine(t[i]))
        <=> (\A i \in DOMAIN entries : ColumnFine(entries[i])) /\ ColumnFine(entry)
  BY <1>1
<1>4. ColumnsFine(s, t) <=> /\ ColumnsFine(s, entries) /\ ColumnFine(entry)
                            /\ entry.name \notin NamesOf(entries)
  BY <1>2, <1>3 DEF ColumnsFine
<1> QED
  BY <1>4 DEF t

(* One more metric is fine if it is fine by itself and of a new name.      *)
LEMMA OneMoreMetric ==
  ASSUME NEW s, NEW entries, NEW all \in Seq(Metrics), NEW metric \in Metrics
  PROVE MetricsFine(s, entries, Append(all, metric))
          <=> /\ MetricsFine(s, entries, all) /\ MetricFine(metric, s, entries)
              /\ metric.name \notin NamesOf(all)
<1> DEFINE t == Append(all, metric)
<1>1. /\ DOMAIN t = DOMAIN all \cup {Len(all) + 1}
      /\ \A i \in DOMAIN all : t[i] = all[i]
      /\ t[Len(all) + 1] = metric
  BY OneMore
<1>2. DistinctNames(t)
        <=> DistinctNames(all) /\ metric.name \notin NamesOf(all)
  BY OneMoreName
<1> HIDE DEF t
<1>3. (\A i \in DOMAIN t : MetricFine(t[i], s, entries))
        <=> /\ \A i \in DOMAIN all : MetricFine(all[i], s, entries)
            /\ MetricFine(metric, s, entries)
  BY <1>1
<1>4. MetricsFine(s, entries, t)
        <=> /\ MetricsFine(s, entries, all) /\ MetricFine(metric, s, entries)
            /\ metric.name \notin NamesOf(all)
  BY <1>2, <1>3 DEF MetricsFine
<1> QED
  BY <1>4 DEF t

(* One more item is remembered if it has the shape that is remembered.     *)
LEMMA OneMoreKept ==
  ASSUME NEW S, NEW s \in Seq(S), NEW e \in S, NEW shape
  PROVE Keeping(Append(s, e), shape) =
          IF e.shape = shape THEN Keeping(s, shape) \cup {e.name}
                             ELSE Keeping(s, shape)
<1> DEFINE t == Append(s, e)
           n == Len(s) + 1
           kept == {j \in DOMAIN s : s[j].shape = shape}
<1>1. /\ DOMAIN t = DOMAIN s \cup {n} /\ n \notin DOMAIN s
      /\ \A i \in DOMAIN s : t[i] = s[i]
      /\ t[n] = e
  BY OneMore
<1> HIDE DEF t, n
<1>2. {j \in DOMAIN t : t[j].shape = shape} =
        IF e.shape = shape THEN kept \cup {n} ELSE kept
  BY <1>1
<1>3. CASE e.shape = shape
  <2>1. Keeping(t, shape) = {t[i].name : i \in kept \cup {n}}
    BY <1>2, <1>3 DEF Keeping
  <2>2. Keeping(t, shape) = Keeping(s, shape) \cup {e.name}
    BY <2>1, <1>1 DEF Keeping
  <2> QED
    BY <2>2, <1>3 DEF t
<1>4. CASE e.shape # shape
  <2>1. Keeping(t, shape) = {t[i].name : i \in kept}
    BY <1>2, <1>4 DEF Keeping
  <2>2. Keeping(t, shape) = Keeping(s, shape)
    BY <2>1, <1>1 DEF Keeping
  <2> QED
    BY <2>2, <1>4 DEF t
<1> QED
  BY <1>3, <1>4

(* One more use is fine if it is the only one.                             *)
LEMMA OneMoreUse ==
  ASSUME NEW s, NEW packs \in Seq(Uses), NEW use \in Uses
  PROVE UsesFine(s, Append(packs, use))
          <=> /\ packs = <<>> /\ s.grain = "keys"
              /\ use = [name |-> BasicPack, shape |-> "name"]
<1> DEFINE t == Append(packs, use)
           basic == [name |-> BasicPack, shape |-> "name"]
<1>1. /\ t # <<>> /\ Len(packs) \in Nat /\ Len(t) = Len(packs) + 1
      /\ t[Len(packs) + 1] = use
  BY OneMore
<1>2. t = <<basic>> <=> packs = <<>> /\ use = basic
  <2>1. packs = <<>> => t = <<use>>
    OBVIOUS
  <2>2. ASSUME t = <<basic>> PROVE packs = <<>> /\ use = basic
    <3>1. Len(t) = 1 /\ t[1] = basic
      BY <2>2
    <3>2. Len(packs) = 0
      BY <1>1, <3>1
    <3> QED
      BY <1>1, <3>1, <3>2
  <2> QED
    BY <2>1, <2>2
<1> HIDE DEF t
<1>3. UsesFine(s, t) <=> packs = <<>> /\ s.grain = "keys" /\ use = basic
  BY <1>1, <1>2 DEF UsesFine
<1> QED
  BY <1>3 DEF t

(* The registry of columns knows their names and categories.               *)
LEMMA RegistryOfColumns ==
  ASSUME NEW entries
  PROVE /\ {d.name : d \in Registry(entries)} = NamesOf(entries)
        /\ \A name : (\E d \in Registry(entries) : d.name = name /\ d.category # "numeric")
             <=> \E k \in DOMAIN entries : /\ entries[k].name = name
                                           /\ entries[k].category # "numeric"
<1> DEFINE column(i) == [name |-> entries[i].name, category |-> entries[i].category]
<1>1. \A i : /\ column(i).name = entries[i].name
             /\ column(i).category = entries[i].category
  OBVIOUS
<1>2. Registry(entries) = {column(i) : i \in DOMAIN entries}
  BY DEF Registry
<1> HIDE DEF column
<1>3. {d.name : d \in Registry(entries)} = NamesOf(entries)
  BY <1>1, <1>2 DEF NamesOf
<1>4. ASSUME NEW name
      PROVE (\E d \in Registry(entries) : d.name = name /\ d.category # "numeric")
             <=> \E k \in DOMAIN entries : /\ entries[k].name = name
                                           /\ entries[k].category # "numeric"
  BY <1>1, <1>2
<1> QED
  BY <1>3, <1>4

(* A metric is diagnosed, by a registry that knows all columns or if none  *)
(* is asked, exactly if it is not fine.                                    *)
LEMMA MetricJudged ==
  ASSUME NEW metric \in Metrics, columnDiagnostics = {},
         ColumnsFine(settings, columns),
         declared = Registry(columns)
  PROVE MetricDiagnostics(metric) = {}
          <=> MetricFine(metric, settings, columns) /\ metric.name \notin seen
<1>0. /\ {d.name : d \in declared} = NamesOf(columns)
      /\ \A name : (\E d \in declared : d.name = name /\ d.category # "numeric")
           <=> \E k \in DOMAIN columns : /\ columns[k].name = name
                                         /\ columns[k].category # "numeric"
  BY RegistryOfColumns
<1> DEFINE p1 == metric.shape = "more_fields"
           p2 == metric.shape = "invalid"
           p3 == metric.name \in seen
           p4 == metric.name \notin StableNames
           p5 == metric.type # "sum"
           p6 == metric.tolerance = "invalid"
           p7 == "*" \in References(metric)
           p8 == Undeclared(metric)
           p9 == NotNumeric(metric)
           c == << <<"UNKNOWN_METRIC_FIELD", p1>>, <<"INVALID_METRIC", p2>>,
                   <<"DUPLICATE_METRIC_NAME", p3>>,
                   <<"INVALID_STABLE_ID_PART", p4>>,
                   <<"UNSUPPORTED_METRIC_TYPE", p5>>, <<"INVALID_TOLERANCE", p6>>,
                   <<"INVALID_COLUMN_SELECTION", p7>>,
                   <<"UNDECLARED_COLUMN_REFERENCE", p8>>,
                   <<"INCOMPATIBLE_COLUMN_TYPE", p9>> >>
<1>1. MetricDiagnostics(metric) = FirstDiagnosed(c)
  BY DEF MetricDiagnostics
<1>2. /\ p1 \in BOOLEAN /\ p2 \in BOOLEAN /\ p3 \in BOOLEAN /\ p4 \in BOOLEAN
      /\ p5 \in BOOLEAN /\ p6 \in BOOLEAN /\ p7 \in BOOLEAN /\ p8 \in BOOLEAN
      /\ p9 \in BOOLEAN
  BY DEF Undeclared, NotNumeric, HasRegistry
<1>3. metric.shape = "valid" <=> ~ p1 /\ ~ p2
  BY DEF Metrics
<1>4. /\ p8 <=> /\ settings.columns = "mapping"
                /\ \E name \in References(metric) :
                     \A k \in DOMAIN columns : columns[k].name # name
      /\ p9 <=> /\ settings.columns = "mapping"
                /\ \E k \in DOMAIN columns : /\ columns[k].name = metric.column
                                             /\ columns[k].category # "numeric"
  <2> HIDE DEF p1, p2, p3, p4, p5, p6, p7, c
  <2>3. p8 <=> /\ settings.columns = "mapping"
               /\ \E name \in References(metric) : name \notin NamesOf(columns)
    BY <1>0 DEF Undeclared, HasRegistry
  <2>4. p9 <=> /\ settings.columns = "mapping"
               /\ \E k \in DOMAIN columns : /\ columns[k].name = metric.column
                                            /\ columns[k].category # "numeric"
    BY <1>0 DEF NotNumeric, HasRegistry
  <2>5. \A name : name \notin NamesOf(columns)
          <=> \A k \in DOMAIN columns : columns[k].name # name
    BY DEF NamesOf
  <2> QED
    BY <2>3, <2>4, <2>5
<1>5. metric.column \in References(metric)
  BY DEF References
<1>6. ~ p8 /\ ~ p9
        <=> (settings.columns = "mapping" =>
              \A name \in References(metric) : \E k \in DOMAIN columns :
                /\ columns[k].name = name
                /\ name = metric.column => columns[k].category = "numeric")
  <2>1. \A i, j \in DOMAIN columns : columns[i].name = columns[j].name => i = j
    BY DEF ColumnsFine, DistinctNames
  <2> QED
    BY <1>4, <1>5, <2>1
<1>7. MetricFine(metric, settings, columns) /\ metric.name \notin seen
        <=> /\ ~ p1 /\ ~ p2 /\ ~ p3 /\ ~ p4 /\ ~ p5 /\ ~ p6 /\ ~ p7 /\ ~ p8 /\ ~ p9
  BY <1>3, <1>6 DEF MetricFine
<1> HIDE DEF p1, p2, p3, p4, p5, p6, p7, p8, p9
<1>8. /\ DOMAIN c = 1..9
      /\ c[1][2] <=> p1
      /\ c[2][2] <=> p2
      /\ c[3][2] <=> p3
      /\ c[4][2] <=> p4
      /\ c[5][2] <=> p5
      /\ c[6][2] <=> p6
      /\ c[7][2] <=> p7
      /\ c[8][2] <=> p8
      /\ c[9][2] <=> p9
  BY <1>2
<1> HIDE DEF c
<1>9. FirstDiagnosed(c) = {} <=> \A i \in 1..9 : ~ c[i][2]
  BY <1>8, FirstIsDiagnosed
<1>10. (\A i \in 1..9 : ~ c[i][2])
         <=> /\ ~ p1 /\ ~ p2 /\ ~ p3 /\ ~ p4 /\ ~ p5 /\ ~ p6 /\ ~ p7 /\ ~ p8 /\ ~ p9
  BY <1>8
<1> QED
  BY <1>1, <1>7, <1>9, <1>10

(* What the readers of compiled checks ask of one of a contract with these *)
(* grain keys.                                                             *)
Accepted(check, keys) ==
  /\ \A operation \in Operations(check) : ValidTypedOperation(operation)
  /\ LoadableCheck(check)
  /\ \/ check.type \in {"sum_diff", "grouped_aggregate_diff"}
     \/ ExecutablePlan(check, keys)
  /\ RenderablePlan(check)

(* Plans of one operation and of three.                                    *)
LEMMA OneOperation ==
  ASSUME NEW check, NEW operation, check.operations = <<operation>>,
         ValidTypedOperation(operation), LoadableOperation(operation),
         operation.type \notin {"compare_aggregates", "compare_grouped_aggregates"}
  PROVE /\ \A o \in Operations(check) : ValidTypedOperation(o)
        /\ LoadableCheck(check) /\ RenderablePlan(check)
<1>1. /\ check.operations # <<>> /\ DOMAIN check.operations = 1..1
      /\ check.operations[1] = operation /\ Len(check.operations) = 1
  OBVIOUS
<1>2. Operations(check) = {operation}
  BY <1>1 DEF Operations
<1>3. RenderablePlan(check)
  BY <1>1 DEF RenderablePlan
<1> QED
  BY <1>1, <1>2, <1>3 DEF LoadableCheck

(* A check of two sides and a comparison is loadable and renderable.       *)
LEMMA ThreeOperations ==
  ASSUME NEW check, NEW first, NEW second, NEW third,
         check.operations = <<first, second, third>>,
         \A o \in {first, second, third} :
           ValidTypedOperation(o) /\ LoadableOperation(o),
         first.type \notin {"compare_aggregates", "compare_grouped_aggregates"},
         second.type \notin {"compare_aggregates", "compare_grouped_aggregates"},
         \A type \in {"aggregate", "grouped_aggregate"} :
           third.type = (IF type = "aggregate" THEN "compare_aggregates"
                                               ELSE "compare_grouped_aggregates")
             => /\ first.type = type /\ first.side = "source"
                /\ second = [first EXCEPT !.side = "target"]
  PROVE /\ \A o \in Operations(check) : ValidTypedOperation(o)
        /\ LoadableCheck(check) /\ RenderablePlan(check)
<1> DEFINE ops == check.operations
<1>1. /\ ops # <<>> /\ DOMAIN ops = 1..3
      /\ ops[1] = first /\ ops[2] = second /\ ops[3] = third
  OBVIOUS
<1> HIDE DEF ops
<1>2. {ops[i] : i \in DOMAIN ops} = {first, second, third}
  BY <1>1
<1>3. ASSUME NEW i \in DOMAIN ops, NEW type \in {"aggregate", "grouped_aggregate"},
             ops[i].type = (IF type = "aggregate" THEN "compare_aggregates"
                                                  ELSE "compare_grouped_aggregates")
      PROVE \E s, t \in 1..(i - 1) :
              /\ ops[s].type = type /\ ops[s].side = "source"
              /\ ops[t] = [ops[s] EXCEPT !.side = "target"]
  <2>1. i = 3
    <3>1. ops[i].type \in {"compare_aggregates", "compare_grouped_aggregates"}
      BY <1>3
    <3>2. i \in 1..3 /\ i # 1 /\ i # 2
      BY <1>1, <3>1
    <3> QED
      BY <3>2
  <2>2. 1 \in 1..(i - 1) /\ 2 \in 1..(i - 1)
    BY <2>1
  <2>3. /\ ops[1].type = type /\ ops[1].side = "source"
        /\ ops[2] = [ops[1] EXCEPT !.side = "target"]
    BY <1>1, <1>3, <2>1
  <2> QED
    BY <2>2, <2>3
<1>4. RenderablePlan(check)
  BY <1>3 DEF RenderablePlan, ops
<1> QED
  BY <1>1, <1>2, <1>4 DEF LoadableCheck, Operations, ops

(* The row count check.                                                    *)
LEMMA RowCountIsAccepted ==
  ASSUME NEW check, NEW keys, check.type = "row_count_diff",
         check.operations = <<RowCount("source"), RowCount("target"),
                              Compare("compare_counts")>>
  PROVE Accepted(check, keys)
<1> DEFINE first == RowCount("source")
           second == RowCount("target")
           third == Compare("compare_counts")
<1>1. ExecutablePlan(check, keys)
  BY DEF ExecutablePlan, ExpectedRowCountPlan, RowCount, Compare
<1>2. /\ first.type = "row_count" /\ second.type = "row_count"
      /\ third.type = "compare_counts"
      /\ DOMAIN first = {"type", "side"} /\ DOMAIN second = {"type", "side"}
      /\ DOMAIN third = {"type"}
      /\ first.side = "source" /\ second.side = "target"
  BY DEF RowCount, Compare
<1>3. /\ PayloadFields("row_count") = {"side"}
      /\ PayloadFields("compare_counts") = {}
  BY DEF PayloadFields
<1> HIDE DEF first, second, third
<1>4. \A o \in {first, second, third} :
        ValidTypedOperation(o) /\ LoadableOperation(o)
  BY <1>2, <1>3 DEF ValidTypedOperation, LoadableOperation, KnownTypes, Side
<1>5. /\ \A o \in Operations(check) : ValidTypedOperation(o)
      /\ LoadableCheck(check) /\ RenderablePlan(check)
  <2>1. check.operations = <<first, second, third>>
    BY DEF first, second, third
  <2> QED
    BY <1>2, <1>4, <2>1, ThreeOperations
<1> QED
  BY <1>1, <1>5 DEF Accepted

(* The key-safety checks.                                                  *)
LEMMA SideKeyIsAccepted ==
  ASSUME NEW keys, keys # <<>>, NEW sampling,
         NEW kind \in {"null_key", "duplicate_key"}, NEW side \in Side,
         NEW type \in DOMAIN ExpectedKeyOperation,
         ExpectedKeyOperation[type] = [type |-> kind, side |-> side]
  PROVE Accepted(KeySafety(type, kind, SideKey(kind, side, keys), keys, sampling),
                 keys)
<1> DEFINE operation == SideKey(kind, side, keys)
           check == KeySafety(type, kind, operation, keys, sampling)
           expected == [type |-> kind, side |-> side]
<1>1. /\ operation.type = kind /\ operation.side = side
      /\ operation.identity = Grain(keys)
      /\ DOMAIN operation = {"type", "side", "identity"}
      /\ DOMAIN expected = {"type", "side"}
      /\ expected.type = kind /\ expected.side = side
  BY DEF SideKey
<1>2. operation.identity.kind = "grain" /\ operation.identity.keys = keys
  BY <1>1 DEF Grain, Identity
<1>3. check.type = type /\ check.operations = <<operation>>
  BY DEF KeySafety, Check
<1>4. PayloadFields(kind) = {"side", "identity"}
  BY DEF PayloadFields
<1> HIDE DEF operation, check, expected
<1>5. ValidTypedOperation(operation) /\ LoadableOperation(operation)
  BY <1>1, <1>2, <1>4 DEF ValidTypedOperation, LoadableOperation, HasKeys,
                          KnownTypes
<1>6. ExecutablePlan(check, keys)
  <2>1. Len(check.operations) = 1 /\ check.operations[1] = operation
    BY <1>3
  <2>2. ExecutableKeyOperation(operation, expected, keys)
    BY <1>1 DEF ExecutableKeyOperation
  <2> QED
    BY <1>3, <2>1, <2>2 DEF ExecutablePlan, expected
<1>7. /\ \A o \in Operations(check) : ValidTypedOperation(o)
      /\ LoadableCheck(check) /\ RenderablePlan(check)
  BY <1>1, <1>3, <1>5, OneOperation
<1>8. Accepted(check, keys)
  BY <1>6, <1>7 DEF Accepted
<1> QED
  BY <1>8 DEF check, operation

(* A check for the keys one side lacks is accepted, whichever the side.    *)
LEMMA KeyDiffIsAccepted ==
  ASSUME NEW keys, keys # <<>>, NEW sampling, NEW direction \in Direction,
         NEW type \in DOMAIN ExpectedKeyOperation,
         ExpectedKeyOperation[type] = [type |-> "key_diff", direction |-> direction]
  PROVE Accepted(KeySafety(type, "key_diff", KeyDiff(direction, keys), keys,
                           sampling), keys)
<1> DEFINE operation == KeyDiff(direction, keys)
           check == KeySafety(type, "key_diff", operation, keys, sampling)
           expected == [type |-> "key_diff", direction |-> direction]
<1>1. /\ operation.type = "key_diff" /\ operation.direction = direction
      /\ operation.identity = Grain(keys)
      /\ DOMAIN operation = {"type", "direction", "identity"}
      /\ DOMAIN expected = {"type", "direction"}
      /\ expected.type = "key_diff" /\ expected.direction = direction
  BY DEF KeyDiff
<1>2. operation.identity.kind = "grain" /\ operation.identity.keys = keys
  BY <1>1 DEF Grain, Identity
<1>3. check.type = type /\ check.operations = <<operation>>
  BY DEF KeySafety, Check
<1>4. PayloadFields("key_diff") = {"direction", "identity"}
  BY DEF PayloadFields
<1> HIDE DEF operation, check, expected
<1>5. ValidTypedOperation(operation) /\ LoadableOperation(operation)
  BY <1>1, <1>2, <1>4 DEF ValidTypedOperation, LoadableOperation, HasKeys,
                          KnownTypes
<1>6. ExecutablePlan(check, keys)
  <2>1. Len(check.operations) = 1 /\ check.operations[1] = operation
    BY <1>3
  <2>2. ExecutableKeyOperation(operation, expected, keys)
    BY <1>1 DEF ExecutableKeyOperation
  <2> QED
    BY <1>3, <2>1, <2>2 DEF ExecutablePlan, expected
<1>7. /\ \A o \in Operations(check) : ValidTypedOperation(o)
      /\ LoadableCheck(check) /\ RenderablePlan(check)
  BY <1>1, <1>3, <1>5, OneOperation
<1>8. Accepted(check, keys)
  BY <1>6, <1>7 DEF Accepted
<1> QED
  BY <1>8 DEF check, operation

(* The checks of metrics.                                                  *)
LEMMA MetricIsAccepted ==
  ASSUME NEW metric, NEW sampling, NEW keys
  PROVE Accepted(MetricCheck(metric, sampling), keys)
<1> DEFINE check == MetricCheck(metric, sampling)
<1>1. CASE metric.groups = <<>>
  <2> DEFINE first == Aggregate("source", metric)
             second == Aggregate("target", metric)
             third == Compare("compare_aggregates")
  <2>1. /\ check.type = "sum_diff"
        /\ check.operations = <<first, second, third>>
    BY <1>1 DEF MetricCheck, Check
  <2>2. /\ first.type = "aggregate" /\ second.type = "aggregate"
        /\ third.type = "compare_aggregates"
        /\ DOMAIN first = {"type", "side", "aggregate", "column"}
        /\ DOMAIN second = {"type", "side", "aggregate", "column"}
        /\ DOMAIN third = {"type"}
        /\ first.side = "source" /\ second.side = "target"
        /\ second = [first EXCEPT !.side = "target"]
    BY DEF Aggregate, Compare
  <2>3. /\ PayloadFields("aggregate") = {"side", "aggregate", "column"}
        /\ PayloadFields("compare_aggregates") = {}
    BY DEF PayloadFields
  <2> HIDE DEF check, first, second, third
  <2>4. \A o \in {first, second, third} :
          ValidTypedOperation(o) /\ LoadableOperation(o)
    BY <2>2, <2>3 DEF ValidTypedOperation, LoadableOperation, KnownTypes, Side
  <2>5. /\ \A o \in Operations(check) : ValidTypedOperation(o)
        /\ LoadableCheck(check) /\ RenderablePlan(check)
    BY <2>1, <2>2, <2>4, ThreeOperations
  <2>6. Accepted(check, keys)
    BY <2>1, <2>5 DEF Accepted
  <2> QED
    BY <2>6 DEF check
<1>2. CASE metric.groups # <<>>
  <2> DEFINE first == GroupedAggregate("source", metric)
             second == GroupedAggregate("target", metric)
             third == Compare("compare_grouped_aggregates")
  <2>1. /\ check.type = "grouped_aggregate_diff"
        /\ check.operations = <<first, second, third>>
    BY <1>2 DEF MetricCheck, Check
  <2>2. /\ first.type = "grouped_aggregate" /\ second.type = "grouped_aggregate"
        /\ third.type = "compare_grouped_aggregates"
        /\ DOMAIN first = {"type", "side", "aggregate", "column", "group_by"}
        /\ DOMAIN second = {"type", "side", "aggregate", "column", "group_by"}
        /\ DOMAIN third = {"type"}
        /\ first.side = "source" /\ second.side = "target"
        /\ first.group_by = metric.groups /\ second.group_by = metric.groups
        /\ second = [first EXCEPT !.side = "target"]
    BY DEF GroupedAggregate, Compare
  <2>3. /\ PayloadFields("grouped_aggregate")
             = {"side", "aggregate", "column", "group_by"}
        /\ PayloadFields("compare_grouped_aggregates") = {}
    BY DEF PayloadFields
  <2> HIDE DEF check, first, second, third
  <2>4. \A o \in {first, second, third} :
          ValidTypedOperation(o) /\ LoadableOperation(o)
    BY <1>2, <2>2, <2>3 DEF ValidTypedOperation, LoadableOperation, KnownTypes, Side
  <2>5. /\ \A o \in Operations(check) : ValidTypedOperation(o)
        /\ LoadableCheck(check) /\ RenderablePlan(check)
    BY <2>1, <2>2, <2>4, ThreeOperations
  <2>6. Accepted(check, keys)
    BY <2>1, <2>5 DEF Accepted
  <2> QED
    BY <2>6 DEF check
<1> QED
  BY <1>1, <1>2

(* A sequence whose elements have no set of their own.                     *)
IsSequence(s) == s \in Seq({s[i] : i \in DOMAIN s})

(* A function on the first numbers is a sequence.                          *)
LEMMA FunctionIsSequence ==
  ASSUME NEW n \in Nat, NEW S, NEW f \in [1..n -> S] PROVE f \in Seq(S)
BY SeqDef

(* The seven checks of the pack, whatever the sampling.                    *)
SevenChecks(pack, sampling) ==
  /\ IsSequence(pack)
  /\ Len(pack) = 7 /\ DOMAIN pack = 1..7
  /\ pack[1].name = "row_count_diff"
  /\ pack[2].name = "missing_keys" /\ pack[3].name = "extra_keys"
  /\ pack[4].name = "null_source_keys" /\ pack[5].name = "null_target_keys"
  /\ pack[6].name = "duplicate_source_keys"
  /\ pack[7].name = "duplicate_target_keys"
  /\ \A i \in 1..7 : pack[i].sampling = sampling

(* The pack consists of the seven checks.                                  *)
LEMMA PackHasSevenChecks ==
  ASSUME NEW keys, NEW sampling
  PROVE SevenChecks(BasicEquivalence(keys, sampling), sampling)
<1> DEFINE pack == BasicEquivalence(keys, sampling)
<1>1. Len(pack) = 7 /\ DOMAIN pack = 1..7
  BY DEF BasicEquivalence
<1>2. /\ pack[1].name = "row_count_diff"
      /\ pack[2].name = "missing_keys" /\ pack[3].name = "extra_keys"
      /\ pack[4].name = "null_source_keys" /\ pack[5].name = "null_target_keys"
      /\ pack[6].name = "duplicate_source_keys"
      /\ pack[7].name = "duplicate_target_keys"
  BY DEF BasicEquivalence, KeySafety, Check
<1>3. /\ pack[1].sampling = sampling
      /\ pack[2].sampling = sampling /\ pack[3].sampling = sampling
      /\ pack[4].sampling = sampling /\ pack[5].sampling = sampling
      /\ pack[6].sampling = sampling /\ pack[7].sampling = sampling
  BY DEF BasicEquivalence, KeySafety, Check
<1>4. pack \in [1..7 -> {pack[i] : i \in 1..7}]
  BY <1>1 DEF BasicEquivalence
<1>5. pack \in Seq({pack[i] : i \in 1..7})
  <2> DEFINE members == {pack[i] : i \in 1..7}
  <2> HIDE DEF members
  <2>1. pack \in [1..7 -> members] /\ 7 \in Nat
    BY <1>4 DEF members
  <2>2. pack \in Seq(members)
    BY <2>1, FunctionIsSequence
  <2> QED
    BY <2>2 DEF members
<1>6. \A i \in 1..7 : pack[i].sampling = sampling
  <2> HIDE DEF pack
  <2> QED
    BY <1>3
<1> HIDE DEF pack
<1> QED
  BY <1>1, <1>2, <1>5, <1>6 DEF SevenChecks, IsSequence, pack

(* The checks of the pack have names of their own, whatever the keys.      *)
LEMMA PackIsNamedApart ==
  ASSUME NEW keys, NEW sampling
  PROVE /\ DistinctNames(BasicEquivalence(keys, sampling))
        /\ NamesOf(BasicEquivalence(keys, sampling)) = PackNames
<1> DEFINE pack == BasicEquivalence(keys, sampling)
           full == BasicEquivalence(<<"id">>, "full")
           first == {"row_count_diff", "missing_keys", "extra_keys",
                     "null_source_keys", "null_target_keys",
                     "duplicate_source_keys", "duplicate_target_keys"}
<1>0. SevenChecks(pack, sampling) /\ SevenChecks(full, "full")
  BY PackHasSevenChecks
<1>3. PackNames = {full[i].name : i \in 1..7}
  BY DEF PackNames
<1> HIDE DEF pack, full
<1>1. /\ DOMAIN pack = 1..7
      /\ pack[1].name = "row_count_diff"
      /\ pack[2].name = "missing_keys" /\ pack[3].name = "extra_keys"
      /\ pack[4].name = "null_source_keys" /\ pack[5].name = "null_target_keys"
      /\ pack[6].name = "duplicate_source_keys"
      /\ pack[7].name = "duplicate_target_keys"
  BY <1>0 DEF SevenChecks
<1>2. /\ full[1].name = "row_count_diff"
      /\ full[2].name = "missing_keys" /\ full[3].name = "extra_keys"
      /\ full[4].name = "null_source_keys" /\ full[5].name = "null_target_keys"
      /\ full[6].name = "duplicate_source_keys"
      /\ full[7].name = "duplicate_target_keys"
  BY <1>0 DEF SevenChecks
<1>4. PackNames = first
  BY <1>2, <1>3
<1>5. NamesOf(pack) = first
  BY <1>1 DEF NamesOf
<1>6. DistinctNames(pack)
  BY <1>1 DEF DistinctNames
<1> QED
  BY <1>4, <1>5, <1>6 DEF pack

(* Each of the seven checks is accepted.                                   *)
LEMMA PackIsAccepted ==
  ASSUME NEW keys, keys # <<>>, NEW sampling
  PROVE \A i \in 1..7 : Accepted(BasicEquivalence(keys, sampling)[i], keys)
<1> DEFINE pack == BasicEquivalence(keys, sampling)
<1>1. Accepted(pack[1], keys)
  <2>1. /\ pack[1].type = "row_count_diff"
        /\ pack[1].operations = <<RowCount("source"), RowCount("target"),
                                  Compare("compare_counts")>>
    BY DEF BasicEquivalence, Check
  <2> QED
    BY <2>1, RowCountIsAccepted
<1>2. /\ pack[2] = KeySafety("missing_keys", "key_diff",
                             KeyDiff("source_minus_target", keys), keys, sampling)
      /\ pack[3] = KeySafety("extra_keys", "key_diff",
                             KeyDiff("target_minus_source", keys), keys, sampling)
      /\ pack[4] = KeySafety("null_source_keys", "null_key",
                             SideKey("null_key", "source", keys), keys, sampling)
      /\ pack[5] = KeySafety("null_target_keys", "null_key",
                             SideKey("null_key", "target", keys), keys, sampling)
      /\ pack[6] = KeySafety("duplicate_source_keys", "duplicate_key",
                             SideKey("duplicate_key", "source", keys), keys, sampling)
      /\ pack[7] = KeySafety("duplicate_target_keys", "duplicate_key",
                             SideKey("duplicate_key", "target", keys), keys, sampling)
  BY DEF BasicEquivalence
<1> HIDE DEF pack
<1>3. Accepted(pack[2], keys)
  BY <1>2, KeyDiffIsAccepted DEF ExpectedKeyOperation, Direction
<1>4. Accepted(pack[3], keys)
  BY <1>2, KeyDiffIsAccepted DEF ExpectedKeyOperation, Direction
<1>5. Accepted(pack[4], keys)
  BY <1>2, SideKeyIsAccepted DEF ExpectedKeyOperation, Side
<1>6. Accepted(pack[5], keys)
  BY <1>2, SideKeyIsAccepted DEF ExpectedKeyOperation, Side
<1>7. Accepted(pack[6], keys)
  BY <1>2, SideKeyIsAccepted DEF ExpectedKeyOperation, Side
<1>8. Accepted(pack[7], keys)
  BY <1>2, SideKeyIsAccepted DEF ExpectedKeyOperation, Side
<1>9. \A i \in 1..7 : i = 1 \/ i = 2 \/ i = 3 \/ i = 4 \/ i = 5 \/ i = 6 \/ i = 7
  OBVIOUS
<1> QED
  BY <1>1, <1>3, <1>4, <1>5, <1>6, <1>7, <1>8, <1>9 DEF pack

(* The checks of the packs come first, those of the metrics after them.    *)
LEMMA Concatenated ==
  ASSUME NEW p, NEW m, IsSequence(p), IsSequence(m)
  PROVE LET c == p \o m
        IN /\ IsSequence(c)
           /\ Len(p) \in Nat /\ Len(m) \in Nat
           /\ DOMAIN p = 1..Len(p) /\ DOMAIN m = 1..Len(m)
           /\ Len(c) = Len(p) + Len(m) /\ DOMAIN c = 1..(Len(p) + Len(m))
           /\ \A i \in DOMAIN p : c[i] = p[i]
           /\ \A i \in DOMAIN m : c[Len(p) + i] = m[i]
           /\ \A i \in DOMAIN c :
                \/ i \in DOMAIN p
                \/ i - Len(p) \in DOMAIN m /\ i = Len(p) + (i - Len(p))
<1> DEFINE S == {p[i] : i \in DOMAIN p} \cup {m[i] : i \in DOMAIN m}
           c == p \o m
           C == {c[i] : i \in DOMAIN c}
<1>1. p \in Seq(S) /\ m \in Seq(S)
  BY DEF IsSequence
<1>2. /\ Len(p) \in Nat /\ Len(m) \in Nat
      /\ DOMAIN p = 1..Len(p) /\ DOMAIN m = 1..Len(m)
  BY <1>1
<1>3. /\ c \in Seq(S) /\ Len(c) = Len(p) + Len(m)
      /\ \A i \in 1..(Len(p) + Len(m)) :
           c[i] = IF i <= Len(p) THEN p[i] ELSE m[i - Len(p)]
  <2> HIDE DEF S
  <2> QED
    BY <1>1, ConcatProperties
<1> HIDE DEF c, S
<1>4. DOMAIN c = 1..(Len(p) + Len(m))
  BY <1>2, <1>3
<1>5. c \in Seq(C)
  <2>1. c \in [1..Len(c) -> S] /\ Len(c) \in Nat
    BY <1>3, LenProperties
  <2>2. c \in [1..Len(c) -> C]
    BY <2>1
  <2> HIDE DEF C
  <2> QED
    BY <2>1, <2>2, FunctionIsSequence
<1>6. \A i \in DOMAIN m : /\ Len(p) + i \in 1..(Len(p) + Len(m))
                          /\ ~ Len(p) + i <= Len(p) /\ Len(p) + i - Len(p) = i
  BY <1>2
<1>7. \A i \in DOMAIN m : c[Len(p) + i] = m[i]
  BY <1>3, <1>6
<1>8. \A i \in DOMAIN p : c[i] = p[i]
  BY <1>2, <1>3
<1>9. ASSUME NEW i \in DOMAIN c
      PROVE \/ i \in DOMAIN p
            \/ i - Len(p) \in DOMAIN m /\ i = Len(p) + (i - Len(p))
  BY <1>2, <1>4
<1> QED
  BY <1>2, <1>3, <1>4, <1>5, <1>7, <1>8, <1>9 DEF c, IsSequence

(* The names of a concatenation, and when they are distinct.               *)
LEMMA ConcatenatedNames ==
  ASSUME NEW p, NEW m, IsSequence(p), IsSequence(m)
  PROVE /\ NamesOf(p \o m) = NamesOf(p) \cup NamesOf(m)
        /\ DistinctNames(p \o m)
             <=> /\ DistinctNames(p) /\ DistinctNames(m)
                 /\ NamesOf(p) \cap NamesOf(m) = {}
<1> DEFINE c == p \o m
           n == Len(p)
<1>1. /\ n \in Nat /\ Len(m) \in Nat
      /\ DOMAIN p = 1..n /\ DOMAIN m = 1..Len(m)
      /\ DOMAIN c = 1..(n + Len(m))
      /\ \A i \in DOMAIN p : c[i] = p[i]
      /\ \A i \in DOMAIN m : c[n + i] = m[i]
      /\ \A i \in DOMAIN c :
           \/ i \in DOMAIN p
           \/ i - n \in DOMAIN m /\ i = n + (i - n)
  BY Concatenated
<1> HIDE DEF c, n
<1>2. /\ DOMAIN p \subseteq DOMAIN c
      /\ \A i \in DOMAIN m : n + i \in DOMAIN c /\ n + i \notin DOMAIN p
  BY <1>1
<1>3. NamesOf(c) = NamesOf(p) \cup NamesOf(m)
  <2>1. NamesOf(p) \cup NamesOf(m) \subseteq NamesOf(c)
    BY <1>1, <1>2 DEF NamesOf
  <2>2. ASSUME NEW i \in DOMAIN c PROVE c[i].name \in NamesOf(p) \cup NamesOf(m)
    BY <1>1 DEF NamesOf
  <2> QED
    BY <2>1, <2>2 DEF NamesOf
<1>4. ASSUME DistinctNames(c)
      PROVE /\ DistinctNames(p) /\ DistinctNames(m)
            /\ NamesOf(p) \cap NamesOf(m) = {}
  <2>1. DistinctNames(p)
    BY <1>1, <1>2, <1>4 DEF DistinctNames
  <2>2. DistinctNames(m)
    <3> SUFFICES ASSUME NEW i \in DOMAIN m, NEW j \in DOMAIN m,
                        m[i].name = m[j].name
                 PROVE i = j
      BY DEF DistinctNames
    <3>1. n + i = n + j
      BY <1>1, <1>2, <1>4 DEF DistinctNames
    <3> QED
      BY <3>1, <1>1
  <2>3. NamesOf(p) \cap NamesOf(m) = {}
    <3> SUFFICES ASSUME NEW i \in DOMAIN p, NEW j \in DOMAIN m,
                        p[i].name = m[j].name
                 PROVE FALSE
      BY DEF NamesOf
    <3>1. i = n + j
      BY <1>1, <1>2, <1>4 DEF DistinctNames
    <3> QED
      BY <3>1, <1>2
  <2> QED
    BY <2>1, <2>2, <2>3
<1>5. ASSUME DistinctNames(p), DistinctNames(m), NamesOf(p) \cap NamesOf(m) = {}
      PROVE DistinctNames(c)
  <2> SUFFICES ASSUME NEW i \in DOMAIN c, NEW j \in DOMAIN c,
                      c[i].name = c[j].name
               PROVE i = j
    BY DEF DistinctNames
  <2>1. CASE i \in DOMAIN p /\ j \in DOMAIN p
    BY <2>1, <1>1, <1>5 DEF DistinctNames
  <2>2. CASE i \in DOMAIN p /\ j - n \in DOMAIN m /\ j = n + (j - n)
    <3>1. c[i].name \in NamesOf(p) /\ c[j].name \in NamesOf(m)
      BY <2>2, <1>1 DEF NamesOf
    <3> QED
      BY <3>1, <1>5
  <2>3. CASE j \in DOMAIN p /\ i - n \in DOMAIN m /\ i = n + (i - n)
    <3>1. c[j].name \in NamesOf(p) /\ c[i].name \in NamesOf(m)
      BY <2>3, <1>1 DEF NamesOf
    <3> QED
      BY <3>1, <1>5
  <2>4. CASE /\ i - n \in DOMAIN m /\ i = n + (i - n)
             /\ j - n \in DOMAIN m /\ j = n + (j - n)
    <3>1. c[i] = m[i - n] /\ c[j] = m[j - n]
      BY <2>4, <1>1
    <3>2. i - n = j - n
      BY <3>1, <2>4, <1>5 DEF DistinctNames
    <3> QED
      BY <3>2, <2>4
  <2> QED
    BY <2>1, <2>2, <2>3, <2>4, <1>1
<1> QED
  BY <1>3, <1>4, <1>5 DEF c

(* Distinct names are as many as there are items.                          *)
LEMMA AsManyNames ==
  ASSUME NEW s, IsSequence(s), DistinctNames(s)
  PROVE Len(s) = Cardinality(NamesOf(s))
<1> DEFINE n == Len(s)
           f == [i \in 1..n |-> s[i].name]
<1>1. n \in Nat /\ DOMAIN s = 1..n
  BY DEF IsSequence
<1> HIDE DEF n
<1>2. f \in [1..n -> NamesOf(s)]
  BY <1>1 DEF NamesOf
<1>3. \A i, j \in 1..n : f[i] = f[j] => i = j
  BY <1>1 DEF DistinctNames
<1>4. \A name \in NamesOf(s) : \E i \in 1..n : f[i] = name
  BY <1>1 DEF NamesOf
<1>5. f \in Bijection(1..n, NamesOf(s))
  <2> HIDE DEF f
  <2> QED
    BY <1>2, <1>3, <1>4 DEF Bijection, Injection, Surjection, IsInjective
<1>6. ExistsBijection(1..n, NamesOf(s))
  BY <1>5 DEF ExistsBijection
<1> QED
  BY <1>1, <1>6, FS_CountingElements DEF n

(* The checks of the packs of a contract, and those of its metrics.        *)
LEMMA ChecksOfPacks ==
  ASSUME NEW s, NEW packs
  PROVE /\ IsSequence(PackChecks(s, packs))
        /\ DistinctNames(PackChecks(s, packs))
        /\ PackChecks(s, packs) # <<>> => NamesOf(PackChecks(s, packs)) = PackNames
        /\ \A i \in DOMAIN PackChecks(s, packs) :
             /\ PackChecks(s, packs)[i].sampling = s.sampling
             /\ Accepted(PackChecks(s, packs)[i], GrainKeys(s))
<1> DEFINE keys == GrainKeys(s)
           pack == BasicEquivalence(keys, s.sampling)
           p == PackChecks(s, packs)
<1>1. CASE p = <<>>
  <2> HIDE DEF p
  <2>1. IsSequence(p) /\ DOMAIN p = {}
    BY <1>1 DEF IsSequence
  <2> QED
    BY <1>1, <2>1 DEF DistinctNames, p
<1>2. CASE p # <<>>
  <2>1. p = pack /\ keys # <<>>
    BY <1>2 DEF PackChecks
  <2>2. SevenChecks(pack, s.sampling)
    BY PackHasSevenChecks
  <2>3. DistinctNames(pack) /\ NamesOf(pack) = PackNames
    BY PackIsNamedApart
  <2>4. \A i \in 1..7 : Accepted(pack[i], keys)
    BY <2>1, PackIsAccepted
  <2> HIDE DEF pack, p, keys
  <2>5. /\ IsSequence(p) /\ DOMAIN p = 1..7
        /\ \A i \in 1..7 : p[i].sampling = s.sampling
    BY <2>1, <2>2 DEF SevenChecks
  <2>6. /\ DistinctNames(p) /\ NamesOf(p) = PackNames
        /\ \A i \in 1..7 : Accepted(p[i], keys)
    BY <2>1, <2>3, <2>4
  <2> QED
    BY <2>5, <2>6 DEF p, keys
<1> QED
  BY <1>1, <1>2

(* The checks of the metrics have their names and are accepted.            *)
LEMMA ChecksOfMetrics ==
  ASSUME NEW s, NEW all \in Seq(Metrics)
  PROVE /\ IsSequence(MetricChecks(s, all))
        /\ DOMAIN MetricChecks(s, all) = DOMAIN all
        /\ NamesOf(MetricChecks(s, all)) = NamesOf(all)
        /\ DistinctNames(MetricChecks(s, all)) <=> DistinctNames(all)
        /\ \A i \in DOMAIN MetricChecks(s, all) :
             /\ MetricChecks(s, all)[i].sampling = s.sampling
             /\ Accepted(MetricChecks(s, all)[i], GrainKeys(s))
<1> DEFINE m == MetricChecks(s, all)
           members == {m[i] : i \in DOMAIN m}
<1>1. /\ DOMAIN m = DOMAIN all /\ DOMAIN all = 1..Len(all) /\ Len(all) \in Nat
      /\ \A i \in DOMAIN all : m[i] = MetricCheck(all[i], s.sampling)
  BY DEF MetricChecks
<1>2. m \in [1..Len(all) -> members]
  BY <1>1 DEF MetricChecks
<1> HIDE DEF m
<1>3. m \in Seq(members)
  <2> HIDE DEF members
  <2> QED
    BY <1>1, <1>2, FunctionIsSequence
<1>4. ASSUME NEW metric
      PROVE /\ MetricCheck(metric, s.sampling).name = metric.name
            /\ MetricCheck(metric, s.sampling).sampling = s.sampling
  BY DEF MetricCheck, Check
<1>5. \A i \in DOMAIN all : /\ m[i].name = all[i].name
                            /\ m[i].sampling = s.sampling
  BY <1>1, <1>4
<1>6. \A i \in DOMAIN all : Accepted(m[i], GrainKeys(s))
  BY <1>1, MetricIsAccepted
<1>7. NamesOf(m) = NamesOf(all)
  BY <1>1, <1>5 DEF NamesOf
<1>8. DistinctNames(m) <=> DistinctNames(all)
  BY <1>1, <1>5 DEF DistinctNames
<1> QED
  BY <1>1, <1>3, <1>5, <1>6, <1>7, <1>8 DEF m, IsSequence

(* Every check is accepted and has the sampling of its contract, whether   *)
(* the metrics are compiled or not.                                        *)
BuiltWell(compiled, s) ==
  \A i \in DOMAIN compiled : /\ compiled[i].sampling = s.sampling
                             /\ Accepted(compiled[i], GrainKeys(s))

(* The checks are built well, with the metrics or without them.            *)
LEMMA ChecksAreBuiltWell ==
  ASSUME NEW s, NEW packs, NEW all \in Seq(Metrics)
  PROVE /\ BuiltWell(PackChecks(s, packs), s)
        /\ BuiltWell(PackChecks(s, packs) \o MetricChecks(s, all), s)
<1> DEFINE p == PackChecks(s, packs)
           m == MetricChecks(s, all)
           c == p \o m
           n == Len(p)
<1>1. IsSequence(p) /\ BuiltWell(p, s)
  BY ChecksOfPacks DEF BuiltWell
<1>2. IsSequence(m) /\ BuiltWell(m, s)
  BY ChecksOfMetrics DEF BuiltWell
<1> HIDE DEF p, m
<1>3. /\ n \in Nat
      /\ \A i \in DOMAIN p : c[i] = p[i]
      /\ \A i \in DOMAIN m : c[n + i] = m[i]
      /\ \A i \in DOMAIN c :
           \/ i \in DOMAIN p
           \/ i - n \in DOMAIN m /\ i = n + (i - n)
  BY <1>1, <1>2, Concatenated
<1> HIDE DEF c, n
<1>4. \A i \in DOMAIN c : \/ \E j \in DOMAIN p : c[i] = p[j]
                          \/ \E j \in DOMAIN m : c[i] = m[j]
  BY <1>3
<1>5. BuiltWell(c, s)
  BY <1>1, <1>2, <1>4 DEF BuiltWell
<1> QED
  BY <1>1, <1>5 DEF p, c, m

(* If the check packs are fine, they expand exactly if there are any.      *)
LEMMA FinePacksExpand ==
  ASSUME NEW s, NEW packs, UsesFine(s, packs)
  PROVE PackChecks(s, packs) = <<>> <=> packs = <<>>
<1>1. CASE packs = <<>>
  <2>1. Invoked(packs) = {}
    BY <1>1 DEF Invoked, Keeping
  <2> QED
    BY <1>1, <2>1 DEF PackChecks
<1>2. CASE packs # <<>>
  <2> DEFINE basic == [name |-> BasicPack, shape |-> "name"]
  <2>1. packs = <<basic>> /\ GrainKeys(s) # <<>>
    BY <1>2 DEF UsesFine, GrainKeys
  <2>2. DOMAIN packs = {1} /\ packs[1].name = BasicPack /\ packs[1].shape = "name"
    BY <2>1
  <2>3. BasicPack \in Invoked(packs)
    BY <2>2 DEF Invoked, Keeping
  <2>4. PackChecks(s, packs) = BasicEquivalence(GrainKeys(s), s.sampling)
    BY <2>1, <2>3 DEF PackChecks
  <2>5. BasicEquivalence(GrainKeys(s), s.sampling) # <<>>
    <3> DEFINE pack == BasicEquivalence(GrainKeys(s), s.sampling)
    <3>1. SevenChecks(pack, s.sampling)
      BY PackHasSevenChecks
    <3> HIDE DEF pack
    <3>2. Len(pack) = 7
      BY <3>1 DEF SevenChecks
    <3>3. Len(<<>>) = 0
      OBVIOUS
    <3> QED
      BY <3>2, <3>3 DEF pack
  <2> QED
    BY <1>2, <2>4, <2>5
<1> QED
  BY <1>1, <1>2

(* What is left to be wrong when all parts of a contract are fine: two     *)
(* checks of one name, or no check at all.                                 *)
LEMMA LastConditions ==
  ASSUME NEW s, NEW packs, NEW all \in Seq(Metrics),
         UsesFine(s, packs), DistinctNames(all)
  PROVE LET c == PackChecks(s, packs) \o MetricChecks(s, all)
        IN /\ c = <<>> <=> packs = <<>> /\ all = <<>>
           /\ DistinctNames(c) <=> (packs # <<>> => NamesOf(all) \cap PackNames = {})
           /\ NamesOf(c) = NamesOf(all) \cup (IF packs = <<>> THEN {} ELSE PackNames)
           /\ DistinctNames(c) => Len(c) = Cardinality(NamesOf(c))
<1> DEFINE p == PackChecks(s, packs)
           m == MetricChecks(s, all)
           c == p \o m
<1>1. /\ IsSequence(p) /\ DistinctNames(p)
      /\ p # <<>> => NamesOf(p) = PackNames
  BY ChecksOfPacks
<1>2. /\ IsSequence(m) /\ DOMAIN m = DOMAIN all
      /\ NamesOf(m) = NamesOf(all) /\ DistinctNames(m)
  BY ChecksOfMetrics
<1>3. p = <<>> <=> packs = <<>>
  BY FinePacksExpand
<1> HIDE DEF p, m
<1>4. /\ NamesOf(c) = NamesOf(p) \cup NamesOf(m)
      /\ DistinctNames(c)
           <=> DistinctNames(p) /\ DistinctNames(m) /\ NamesOf(p) \cap NamesOf(m) = {}
  BY <1>1, <1>2, ConcatenatedNames
<1>5. /\ IsSequence(c)
      /\ Len(p) \in Nat /\ Len(m) \in Nat /\ Len(c) = Len(p) + Len(m)
      /\ DOMAIN p = 1..Len(p) /\ DOMAIN m = 1..Len(m)
  BY <1>1, <1>2, Concatenated
<1>6. NamesOf(p) = IF packs = <<>> THEN {} ELSE PackNames
  BY <1>1, <1>3 DEF NamesOf
<1>7. m = <<>> <=> all = <<>>
  <2>1. m = <<>> <=> DOMAIN m = {}
    BY <1>2 DEF IsSequence
  <2>2. all = <<>> <=> DOMAIN all = {}
    OBVIOUS
  <2> QED
    BY <1>2, <2>1, <2>2
<1> HIDE DEF c
<1>8. c = <<>> <=> Len(c) = 0
  BY <1>5 DEF IsSequence
<1>9. c = <<>> <=> p = <<>> /\ m = <<>>
  <2>1. (p = <<>> <=> Len(p) = 0) /\ (m = <<>> <=> Len(m) = 0)
    BY <1>1, <1>2 DEF IsSequence
  <2> QED
    BY <2>1, <1>5, <1>8
<1>10. DistinctNames(c) => Len(c) = Cardinality(NamesOf(c))
  BY <1>5, AsManyNames
<1> QED
  BY <1>1, <1>2, <1>3, <1>4, <1>6, <1>7, <1>9, <1>10 DEF c, p, m

(* A well-formed contract is one whose parts are fine, with a check and    *)
(* with no metric that has the name of a check of the pack.                *)
LEMMA WellFormedColumnsAreFine ==
  ASSUME NEW a
  PROVE /\ WellFormedColumns(a)
        /\ \A i \in DOMAIN a.columns :
             ~ Collide(EffectiveNulls(a, a.columns[i]), a.columns[i].normalization)
        <=> /\ \A i \in DOMAIN a.columns : ColumnFine(a.columns[i])
            /\ DistinctNames(a.columns) /\ SentinelsFine(a.settings, a.columns)
<1> DEFINE entries == a.columns
           local(entry) ==
             /\ entry.category \in Category /\ entry.wellFormed /\ ~ entry.timezone
             /\ entry.name # "*"
             /\ \/ entry.tolerance = "absent"
                \/ entry.tolerance = "valid" /\ entry.category = "numeric"
             /\ \/ entry.nulls = "absent" /\ entry.normalization = "absent"
                \/ /\ entry.category = "string"
                   /\ "invalid" \notin {entry.nulls, entry.normalization}
           apart == \A i \in DOMAIN entries : KeepsApart(entries[i], a.settings.nulls)
<1>1. (\A i \in DOMAIN entries :
         ~ Collide(EffectiveNulls(a, entries[i]), entries[i].normalization))
        <=> apart
  BY DEF EffectiveNulls, KeepsApart
<1>2. WellFormedColumns(a)
        <=> (\A i \in DOMAIN entries : local(entries[i])) /\ DistinctNames(entries)
  <2> DEFINE alone(i) == \A j \in DOMAIN entries :
                           entries[j].name = entries[i].name => i = j
  <2>1. WellFormedColumns(a)
          <=> \A i \in DOMAIN entries : local(entries[i]) /\ alone(i)
    BY DEF WellFormedColumns
  <2>2. DistinctNames(entries) <=> \A i \in DOMAIN entries : alone(i)
    BY DEF DistinctNames
  <2> HIDE DEF local, alone, entries
  <2> QED
    BY <2>1, <2>2
<1>3. ASSUME NEW entry
      PROVE ColumnFine(entry)
              <=> local(entry) /\ ~ Collide(entry.nulls, entry.normalization)
  BY DEF ColumnFine
<1>4. ASSUME NEW entry, KeepsApart(entry, a.settings.nulls)
      PROVE ~ Collide(entry.nulls, entry.normalization)
  BY <1>4 DEF KeepsApart, Collide
<1>5. SentinelsFine(a.settings, entries) <=> apart
  BY DEF SentinelsFine
<1> HIDE DEF local
<1>6. apart => ((\A i \in DOMAIN entries : local(entries[i]))
                  <=> \A i \in DOMAIN entries : ColumnFine(entries[i]))
  BY <1>3, <1>4
<1> HIDE DEF apart
<1> QED
  BY <1>1, <1>2, <1>5, <1>6

(* The metrics of a contract are well formed if they are fine.             *)
LEMMA WellFormedMetricsAreFine ==
  ASSUME NEW a
  PROVE WellFormedMetrics(a) <=> MetricsFine(a.settings, a.columns, a.metrics)
<1> DEFINE all == a.metrics
           alone(i) == \A j \in DOMAIN all : all[j].name = all[i].name => i = j
           local(i) == MetricFine(all[i], a.settings, a.columns)
<1>1. WellFormedMetrics(a) <=> \A i \in DOMAIN all : local(i) /\ alone(i)
  BY DEF WellFormedMetrics, MetricFine
<1>2. DistinctNames(all) <=> \A i \in DOMAIN all : alone(i)
  BY DEF DistinctNames
<1>3. MetricsFine(a.settings, a.columns, all)
        <=> (\A i \in DOMAIN all : local(i)) /\ DistinctNames(all)
  BY DEF MetricsFine
<1> HIDE DEF all, alone, local
<1>4. WellFormedMetrics(a) <=> MetricsFine(a.settings, a.columns, all)
  BY <1>1, <1>2, <1>3
<1> QED
  BY <1>4 DEF all

PartsFine(s, entries, packs, all) ==
  /\ SettingsFine(s) /\ ColumnsFine(s, entries) /\ SentinelsFine(s, entries)
  /\ UsesFine(s, packs) /\ s.checks = "mapping" /\ s.use # "invalid"
  /\ MetricsFine(s, entries, all)

(* A contract is well formed if its parts are fine and it has some check.  *)
LEMMA WellFormedIsFine ==
  ASSUME NEW a, a.uses # <<>> => a.settings.use = "list"
  PROVE WellFormed(a)
          <=> /\ PartsFine(a.settings, a.columns, a.uses, a.metrics)
              /\ a.uses # <<>> => NamesOf(a.metrics) \cap PackNames = {}
              /\ a.uses # <<>> \/ a.metrics # <<>>
<1> DEFINE s == a.settings
           basic == <<[name |-> BasicPack, shape |-> "name"]>>
           apart == a.uses # <<>> => NamesOf(a.metrics) \cap PackNames = {}
<1>1. apart <=> (a.uses # <<>> => \A i \in DOMAIN a.metrics :
                                    a.metrics[i].name \notin PackNames)
  BY DEF NamesOf
<1>2. WellFormedChecks(a)
        <=> /\ s.checks = "mapping" /\ s.use # "invalid" /\ UsesFine(s, a.uses)
            /\ apart /\ (a.uses # <<>> \/ a.metrics # <<>>)
  <2> DEFINE packs == IF s.use = "list" THEN a.uses ELSE <<>>
  <2>1. packs = a.uses
    OBVIOUS
  <2>2. WellFormedChecks(a)
          <=> /\ s.checks = "mapping" /\ s.use # "invalid"
              /\ packs \in {<<>>, basic}
              /\ packs # <<>> =>
                   /\ s.grain = "keys"
                   /\ \A i \in DOMAIN a.metrics :
                        a.metrics[i].name \notin PackNames
              /\ packs # <<>> \/ a.metrics # <<>>
    BY DEF WellFormedChecks
  <2>3. UsesFine(s, a.uses) <=> /\ a.uses \in {<<>>, basic}
                                /\ a.uses # <<>> => s.grain = "keys"
    BY DEF UsesFine
  <2> HIDE DEF packs, s, apart, basic
  <2> QED
    BY <2>1, <2>2, <2>3, <1>1
<1>3. WellFormed(a)
        <=> /\ SettingsFine(s) /\ s.columns # "invalid"
            /\ WellFormedColumns(a)
            /\ \A i \in DOMAIN a.columns :
                 ~ Collide(EffectiveNulls(a, a.columns[i]),
                           a.columns[i].normalization)
            /\ WellFormedMetrics(a) /\ WellFormedChecks(a)
  BY DEF WellFormed, SettingsFine
<1>4. ColumnsFine(s, a.columns)
        <=> /\ s.columns # "invalid" /\ DistinctNames(a.columns)
            /\ \A i \in DOMAIN a.columns : ColumnFine(a.columns[i])
  BY DEF ColumnsFine
<1> HIDE DEF apart
<1>5. WellFormed(a)
        <=> /\ PartsFine(s, a.columns, a.uses, a.metrics) /\ apart
            /\ a.uses # <<>> \/ a.metrics # <<>>
  BY <1>2, <1>3, <1>4, WellFormedColumnsAreFine, WellFormedMetricsAreFine
     DEF PartsFine
<1> QED
  BY <1>5 DEF apart

(* What becomes of a contract that is read: the codes and the checks.      *)
ExpectedNames(a) ==
  {a.metrics[i].name : i \in DOMAIN a.metrics}
    \cup (IF a.uses = <<>> THEN {} ELSE PackNames)

AllFine(a) == PartsFine(a.settings, a.columns, a.uses, a.metrics)

AllChecks(a) == PackChecks(a.settings, a.uses) \o MetricChecks(a.settings, a.metrics)

(* A contract whose parts are fine compiles to what it should, or says why. *)
LEMMA CompiledAsItShould ==
  ASSUME NEW a, a.metrics \in Seq(Metrics), a.uses # <<>> => a.settings.use = "list",
         NEW compiled, AllFine(a) => compiled = AllChecks(a),
         NEW codes, codes = {} <=> /\ AllFine(a) /\ ~ DuplicateNames(compiled)
                                   /\ compiled # <<>>
  PROVE /\ codes = {} <=> WellFormed(a)
        /\ codes = {} => /\ NamesOf(compiled) = ExpectedNames(a)
                         /\ Len(compiled) = Cardinality(ExpectedNames(a))
<1> DEFINE s == a.settings
           packs == a.uses
           all == a.metrics
           c == AllChecks(a)
           fine == AllFine(a)
           apart == packs # <<>> => NamesOf(all) \cap PackNames = {}
           some == packs # <<>> \/ all # <<>>
<1>1. WellFormed(a) <=> fine /\ apart /\ some
  BY WellFormedIsFine DEF AllFine
<1>2. ASSUME fine
      PROVE /\ c = <<>> <=> ~ some
            /\ DistinctNames(c) <=> apart
            /\ NamesOf(c) = NamesOf(all) \cup (IF packs = <<>> THEN {} ELSE PackNames)
            /\ DistinctNames(c) => Len(c) = Cardinality(NamesOf(c))
  <2>1. UsesFine(s, packs) /\ DistinctNames(all)
    BY <1>2 DEF AllFine, PartsFine, MetricsFine
  <2> QED
    BY <2>1, LastConditions DEF AllChecks
<1>3. DuplicateNames(compiled) <=> ~ DistinctNames(compiled)
  BY DEF DuplicateNames, DistinctNames
<1>4. fine => compiled = c
  OBVIOUS
<1>5. codes = {} <=> fine /\ ~ DuplicateNames(compiled) /\ compiled # <<>>
  OBVIOUS
<1>6. ExpectedNames(a) = NamesOf(all) \cup (IF packs = <<>> THEN {} ELSE PackNames)
  BY DEF ExpectedNames, NamesOf
<1> HIDE DEF c, fine, apart, some, all, packs
<1>7. codes = {} <=> fine /\ apart /\ some
  BY <1>2, <1>3, <1>4, <1>5
<1>8. ASSUME codes = {}
      PROVE /\ NamesOf(compiled) = ExpectedNames(a)
            /\ Len(compiled) = Cardinality(ExpectedNames(a))
  BY <1>2, <1>3, <1>4, <1>5, <1>6, <1>7, <1>8
<1> QED
  BY <1>1, <1>7, <1>8

(* The steps of one contract.                                              *)
LEMMA NothingReadIsFine ==
  ASSUME NEW s, NEW entries
  PROVE /\ MetricsFine(s, entries, <<>>) /\ UsesFine(s, <<>>)
        /\ ColumnsFine(s, <<>>) <=> s.columns # "invalid"
        /\ NamesOf(<<>>) = {} /\ Registry(<<>>) = {} /\ Invoked(<<>>) = {}
        /\ Keeping(<<>>, "valid") = {} /\ PackChecks(s, <<>>) = <<>>
<1>1. Invoked(<<>>) = {} /\ Keeping(<<>>, "valid") = {}
  BY DEF Invoked, Keeping
<1>2. PackChecks(s, <<>>) = <<>>
  BY <1>1 DEF PackChecks
<1>3. MetricsFine(s, entries, <<>>)
  BY DEF MetricsFine, DistinctNames
<1>4. ColumnsFine(s, <<>>) <=> s.columns # "invalid"
  BY DEF ColumnsFine, DistinctNames
<1>5. UsesFine(s, <<>>)
  BY DEF UsesFine
<1>6. NamesOf(<<>>) = {} /\ Registry(<<>>) = {}
  BY DEF NamesOf, Registry
<1> QED
  BY <1>1, <1>2, <1>3, <1>4, <1>5, <1>6

(* Before the first contract there is nothing to keep.                     *)
LEMMA ProjectStepsKeepContract ==
  ASSUME ContractInv, FindContract \/ ProjectFound PROVE ContractInv'
<1>1. /\ UNCHANGED contract /\ stage = "project"
      /\ stage' \in {"project", "settings", "done"}
  BY DEF FindContract, ProjectFound, contract, inputs
<1>2. /\ UNCHANGED <<settings, columns, uses, metrics, seen, declared,
                     columnDiagnostics, metricDiagnostics, diagnostics, checks>>
  BY <1>1 DEF contract, inputs
<1>3. (ContractTyped /\ Unread)'
  BY <1>1, <1>2 DEF ContractInv, ContractTyped, Unread
<1>4. (Remembered /\ ColumnsJudged /\ MetricsJudged /\ Judged /\ ChecksBuilt)'
  BY <1>1 DEF Remembered, ColumnsJudged, MetricsJudged, Judged, ChecksBuilt,
              Reading
<1> QED
  BY <1>3, <1>4 DEF ContractInv

(* The settings are judged first.                                          *)
LEMMA ReadSettingsKeepsContract ==
  ASSUME ContractInv, ReadSettings PROVE ContractInv'
<1>1. PICK s \in Settings :
        /\ settings' = s /\ diagnostics' = SettingsDiagnostics(s)
        /\ columnDiagnostics' =
             Diagnosed({<<"INVALID_COLUMN_DECLARATION", s.columns = "invalid">>})
  BY AuthoredAssumption DEF ReadSettings
<1>2. /\ stage = "settings" /\ stage' = "columns"
      /\ UNCHANGED <<columns, uses, metrics, seen, declared,
                     metricDiagnostics, checks>>
  BY DEF ReadSettings
<1>3. /\ columns' = <<>> /\ uses' = <<>> /\ metrics' = <<>> /\ seen' = {}
      /\ declared' = {} /\ metricDiagnostics' = {} /\ checks' = <<>>
  BY <1>2 DEF ContractInv, Unread
<1>4. columnDiagnostics' = {} <=> s.columns # "invalid"
  <2> DEFINE p == s.columns = "invalid"
             c == <<"INVALID_COLUMN_DECLARATION", p>>
  <2>1. c[2] <=> p
    OBVIOUS
  <2>2. columnDiagnostics' = Diagnosed({c})
    BY <1>1
  <2> HIDE DEF c
  <2>3. Diagnosed({c}) = {} <=> ~ p
    BY <2>1 DEF Diagnosed
  <2> QED
    BY <2>2, <2>3
<1>5. diagnostics' = {} <=> SettingsFine(s)
  BY <1>1, SettingsJudged
<1>6. ContractTyped' /\ Unread'
  BY <1>1, <1>2, <1>3 DEF ContractTyped, Unread
<1>7. Remembered'
  BY <1>2, <1>3, NothingReadIsFine DEF Remembered
<1>8. ColumnsJudged' /\ MetricsJudged'
  BY <1>1, <1>3, <1>4, NothingReadIsFine DEF ColumnsJudged, MetricsJudged
<1>9. Judged' /\ ChecksBuilt'
  BY <1>1, <1>2, <1>5 DEF Judged, ChecksBuilt, FineUpTo
<1> QED
  BY <1>6, <1>7, <1>8, <1>9 DEF ContractInv

(* A column is judged as it is read, and enters the registry.              *)
LEMMA ReadColumnKeepsContract ==
  ASSUME ContractInv, ReadColumn PROVE ContractInv'
<1>1. PICK entry \in Columns :
        /\ columns' = Append(columns, entry)
        /\ columnDiagnostics' = columnDiagnostics \cup ColumnDiagnostics(entry, seen)
        /\ IF Declares(entry, seen)
             THEN /\ seen' = seen \cup {entry.name}
                  /\ declared' = declared \cup {[name |-> entry.name,
                                                 category |-> entry.category]}
             ELSE UNCHANGED <<seen, declared>>
  BY AuthoredAssumption DEF ReadColumn
<1>2. /\ stage = "columns" /\ stage' = "columns" /\ settings.columns = "mapping"
      /\ UNCHANGED <<settings, uses, metrics, metricDiagnostics, diagnostics,
                     checks>>
  BY DEF ReadColumn
<1>3. /\ uses = <<>> /\ metrics = <<>> /\ metricDiagnostics = {} /\ checks = <<>>
      /\ columns \in Seq(Columns) /\ stage \in Reading
  BY <1>2 DEF ContractInv, Unread, ContractTyped, Reading
<1>4. columns' \in Seq(Columns)
  BY <1>1, <1>3
<1>5. columnDiagnostics' = {}
        <=> columnDiagnostics = {} /\ ColumnFine(entry) /\ entry.name \notin seen
  BY <1>1, ColumnJudged
<1>6. ColumnsFine(settings, columns')
        <=> /\ ColumnsFine(settings, columns) /\ ColumnFine(entry)
            /\ entry.name \notin NamesOf(columns)
  BY <1>1, <1>3, OneMoreColumn
<1>7. columnDiagnostics = {} => seen = NamesOf(columns) /\ declared = Registry(columns)
  BY <1>2, <1>3 DEF ContractInv, Remembered
<1>8. columnDiagnostics = {} <=> ColumnsFine(settings, columns)
  BY <1>3 DEF ContractInv, ColumnsJudged
<1>9. ASSUME columnDiagnostics' = {}
      PROVE seen' = NamesOf(columns') /\ declared' = Registry(columns')
  <2>1. /\ columnDiagnostics = {} /\ ColumnFine(entry) /\ entry.name \notin seen
        /\ seen = NamesOf(columns) /\ declared = Registry(columns)
    BY <1>5, <1>7, <1>9
  <2>2. Declares(entry, seen)
    BY <2>1 DEF Declares, IsColumn, ColumnFine
  <2>3. NamesOf(columns') = NamesOf(columns) \cup {entry.name}
    BY <1>1, <1>3, OneMoreName
  <2>4. Registry(columns') = Registry(columns) \cup
          {[name |-> entry.name, category |-> entry.category]}
    <3> DEFINE t == Append(columns, entry)
               n == Len(columns) + 1
    <3>1. /\ DOMAIN t = DOMAIN columns \cup {n} /\ n \notin DOMAIN columns
          /\ \A i \in DOMAIN columns : t[i] = columns[i]
          /\ t[n] = entry
      BY <1>3, OneMore
    <3> HIDE DEF t, n
    <3>2. Registry(t) = Registry(columns) \cup
            {[name |-> entry.name, category |-> entry.category]}
      BY <3>1 DEF Registry
    <3> QED
      BY <1>1, <3>2 DEF t
  <2> QED
    BY <1>1, <2>1, <2>2, <2>3, <2>4
<1>10. ContractTyped' /\ Unread'
  BY <1>2, <1>3, <1>4 DEF ContractInv, ContractTyped, Unread
<1>11. Remembered'
  BY <1>2, <1>9 DEF Remembered
<1>12. ColumnsJudged'
  BY <1>2, <1>5, <1>6, <1>7, <1>8 DEF ColumnsJudged
<1>13. MetricsJudged'
  BY <1>2, <1>3, NothingReadIsFine DEF MetricsJudged
<1>14. Judged' /\ ChecksBuilt'
  BY <1>2 DEF ContractInv, Judged, ChecksBuilt, FineUpTo
<1> QED
  BY <1>10, <1>11, <1>12, <1>13, <1>14 DEF ContractInv

(* After the columns their sentinels are judged, if nothing else is wrong. *)
LEMMA ColumnsReadKeepsContract ==
  ASSUME ContractInv, ColumnsRead PROVE ContractInv'
<1> DEFINE inherits == \E i \in DOMAIN columns :
             /\ columns[i].category = "string" /\ columns[i].nulls = "absent"
             /\ Collide(settings.nulls, columns[i].normalization)
           collide == /\ settings.nulls \in {"distinct", "casing"}
                      /\ columnDiagnostics = {}
                      /\ inherits
           c == <<"INVALID_NULL_SENTINEL", collide>>
<1>1. /\ stage = "columns" /\ stage' = "packs" /\ seen' = {}
      /\ diagnostics' = diagnostics \cup columnDiagnostics \cup Diagnosed({c})
      /\ UNCHANGED <<settings, columns, uses, metrics, declared,
                     columnDiagnostics, metricDiagnostics, checks>>
  BY DEF ColumnsRead, inputs
<1>2. c[2] <=> collide
  OBVIOUS
<1> HIDE DEF c
<1>3. Diagnosed({c}) = {} <=> ~ collide
  BY <1>2 DEF Diagnosed
<1>4. /\ uses = <<>> /\ metrics = <<>> /\ metricDiagnostics = {} /\ checks = <<>>
      /\ columnDiagnostics = {} <=> ColumnsFine(settings, columns)
      /\ diagnostics = {} <=> SettingsFine(settings)
      /\ columnDiagnostics = {} => declared = Registry(columns)
  BY <1>1 DEF ContractInv, Unread, ColumnsJudged, Judged, Reading, FineUpTo,
              Remembered
<1>5. ASSUME ColumnsFine(settings, columns)
      PROVE collide <=> ~ SentinelsFine(settings, columns)
  <2>1. ASSUME NEW i \in DOMAIN columns
        PROVE ~ KeepsApart(columns[i], settings.nulls)
                <=> /\ columns[i].category = "string" /\ columns[i].nulls = "absent"
                    /\ Collide(settings.nulls, columns[i].normalization)
    <3>1. ColumnFine(columns[i])
      BY <1>5 DEF ColumnsFine
    <3> QED
      BY <3>1 DEF ColumnFine, KeepsApart, Collide
  <2>2. inherits <=> ~ SentinelsFine(settings, columns)
    BY <2>1 DEF SentinelsFine
  <2>3. inherits => settings.nulls \in {"distinct", "casing"}
    BY DEF Collide
  <2> HIDE DEF inherits
  <2> QED
    BY <1>4, <1>5, <2>2, <2>3
<1>6. diagnostics' = {} <=> /\ SettingsFine(settings)
                            /\ ColumnsFine(settings, columns)
                            /\ SentinelsFine(settings, columns)
  <2> HIDE DEF collide
  <2> QED
    BY <1>1, <1>3, <1>4, <1>5
<1>7. ContractTyped' /\ Unread'
  BY <1>1, <1>4 DEF ContractInv, ContractTyped, Unread
<1>8. Remembered'
  BY <1>1, <1>4, NothingReadIsFine DEF Remembered
<1>9. ColumnsJudged' /\ MetricsJudged'
  BY <1>1, <1>4, NothingReadIsFine DEF ColumnsJudged, MetricsJudged
<1>10. Judged'
  <2>1. UsesFine(settings, uses)
    BY <1>4, NothingReadIsFine
  <2>2. UNCHANGED <<settings, columns, uses>> /\ stage' = "packs"
    BY <1>1
  <2>3. FineUpTo(1)' <=> /\ SettingsFine(settings)
                         /\ ColumnsFine(settings, columns)
                         /\ SentinelsFine(settings, columns)
    BY <2>1, <2>2 DEF FineUpTo
  <2> QED
    BY <1>6, <2>2, <2>3 DEF Judged
<1>11. ChecksBuilt'
  BY <1>1, <1>4, NothingReadIsFine DEF ChecksBuilt
<1> QED
  BY <1>7, <1>8, <1>9, <1>10, <1>11 DEF ContractInv

(* The steps of the check packs and of the metrics keep the invariant of   *)
(* the contract.                                                           *)
LEMMA UseCheckPackKeepsContract ==
  ASSUME ContractInv, UseCheckPack PROVE ContractInv'
<1>1. PICK use \in Uses :
        /\ uses' = Append(uses, use)
        /\ diagnostics' = diagnostics \cup UseDiagnostics(use)
        /\ seen' = IF Invokes(use) THEN seen \cup {use.name} ELSE seen
        /\ checks' = IF Expands(use)
             THEN checks \o BasicEquivalence(GrainKeys(settings), settings.sampling)
             ELSE checks
  BY AuthoredAssumption DEF UseCheckPack
<1>2. /\ stage = "packs" /\ stage' = "packs"
      /\ settings.checks # "invalid" /\ settings.use = "list"
      /\ UNCHANGED <<settings, columns, metrics, declared, columnDiagnostics,
                     metricDiagnostics>>
  BY DEF UseCheckPack
<1>3. /\ uses \in Seq(Uses) /\ metrics = <<>> /\ metricDiagnostics = {}
      /\ seen = Invoked(uses) /\ checks = PackChecks(settings, uses)
      /\ diagnostics = {} <=> /\ SettingsFine(settings)
                              /\ ColumnsFine(settings, columns)
                              /\ SentinelsFine(settings, columns)
                              /\ UsesFine(settings, uses)
  BY <1>2 DEF ContractInv, ContractTyped, Unread, Remembered, ChecksBuilt, Judged,
              FineUpTo
<1>4. uses' \in Seq(Uses)
  BY <1>1, <1>3
<1>5. Invoked(uses') = IF use.shape = "name" THEN Invoked(uses) \cup {use.name}
                                             ELSE Invoked(uses)
  BY <1>1, <1>3, OneMoreKept DEF Invoked
<1>6. seen' = Invoked(uses')
  BY <1>1, <1>3, <1>5 DEF Invokes
<1>7. UsesFine(settings, uses')
        <=> /\ uses = <<>> /\ settings.grain = "keys"
            /\ use = [name |-> BasicPack, shape |-> "name"]
  BY <1>1, <1>3, OneMoreUse
<1>8. UseDiagnostics(use) = {}
        <=> /\ use = [name |-> BasicPack, shape |-> "name"]
            /\ use.name \notin seen /\ GrainKeys(settings) # <<>>
  BY UseJudged
<1>9. UsesFine(settings, uses')
        <=> UsesFine(settings, uses) /\ UseDiagnostics(use) = {}
  <2> DEFINE basic == [name |-> BasicPack, shape |-> "name"]
  <2>1. GrainKeys(settings) # <<>> <=> settings.grain = "keys"
    BY DEF GrainKeys
  <2>2. basic.name = BasicPack
    OBVIOUS
  <2>3. CASE uses = <<>>
    <3>1. seen = {} /\ UsesFine(settings, uses)
      BY <1>3, <2>3, NothingReadIsFine
    <3> QED
      BY <1>7, <1>8, <2>1, <2>3, <3>1
  <2>4. CASE uses # <<>>
    <3>1. ~ UsesFine(settings, uses')
      BY <1>7, <2>4
    <3>2. ASSUME UsesFine(settings, uses) PROVE BasicPack \in seen
      <4>1. uses = <<basic>>
        BY <2>4, <3>2 DEF UsesFine
      <4>2. DOMAIN uses = {1} /\ uses[1].name = BasicPack /\ uses[1].shape = "name"
        BY <4>1
      <4> QED
        BY <4>2, <1>3 DEF Invoked, Keeping
    <3> HIDE DEF basic
    <3>3. use = basic => use.name = BasicPack
      BY <2>2
    <3> QED
      BY <1>8, <3>1, <3>2, <3>3 DEF basic
  <2> QED
    BY <2>3, <2>4
<1>10. checks' = PackChecks(settings, uses')
  <2> DEFINE keys == GrainKeys(settings)
             pack == BasicEquivalence(keys, settings.sampling)
  <2>1. CASE Expands(use)
    <3>1. /\ use.shape = "name" /\ use.name \notin seen /\ use.name = BasicPack
          /\ keys # <<>>
      BY <2>1 DEF Expands, Invokes
    <3>2. checks = <<>>
      BY <1>3, <3>1 DEF PackChecks
    <3>3. BasicPack \in Invoked(uses')
      BY <1>5, <3>1
    <3>4. PackChecks(settings, uses') = pack
      BY <3>1, <3>3 DEF PackChecks
    <3>5. <<>> \o pack = pack
      <4>1. SevenChecks(pack, settings.sampling)
        BY PackHasSevenChecks
      <4> HIDE DEF pack
      <4>2. pack \in Seq({pack[i] : i \in DOMAIN pack})
        BY <4>1 DEF SevenChecks, IsSequence
      <4> QED
        BY <4>2, ConcatEmptySeq
    <3> QED
      BY <1>1, <2>1, <3>2, <3>4, <3>5
  <2>2. CASE ~ Expands(use)
    <3>1. \/ keys = <<>>
          \/ BasicPack \in Invoked(uses') <=> BasicPack \in Invoked(uses)
      BY <1>3, <1>5, <2>2 DEF Expands, Invokes
    <3>2. PackChecks(settings, uses') = PackChecks(settings, uses)
      BY <3>1 DEF PackChecks
    <3> QED
      BY <1>1, <1>3, <2>2, <3>2
  <2> QED
    BY <2>1, <2>2
<1>11. ContractTyped' /\ Unread'
  BY <1>2, <1>3, <1>4 DEF ContractInv, ContractTyped, Unread
<1>12. Remembered'
  BY <1>2, <1>6 DEF ContractInv, Remembered, Reading
<1>13. ColumnsJudged' /\ MetricsJudged'
  BY <1>2 DEF ContractInv, ColumnsJudged, MetricsJudged, Reading
<1>14. Judged'
  <2>1. diagnostics' = {} <=> diagnostics = {} /\ UseDiagnostics(use) = {}
    BY <1>1
  <2>2. FineUpTo(1)' <=> /\ SettingsFine(settings)
                         /\ ColumnsFine(settings, columns)
                         /\ SentinelsFine(settings, columns)
                         /\ UsesFine(settings, uses')
    BY <1>2 DEF FineUpTo
  <2> QED
    BY <1>2, <1>3, <1>9, <2>1, <2>2 DEF Judged
<1>15. ChecksBuilt'
  BY <1>2, <1>10 DEF ChecksBuilt
<1> QED
  BY <1>11, <1>12, <1>13, <1>14, <1>15 DEF ContractInv

(* After the packs, what checks and use hold is judged and names are forgotten. *)
LEMMA CheckPacksUsedKeepsContract ==
  ASSUME ContractInv, CheckPacksUsed PROVE ContractInv'
<1> DEFINE use == settings.checks # "invalid" /\ settings.use = "invalid"
           more == settings.checks # "mapping"
           c1 == <<"INVALID_CHECK_PACK_USE", use>>
           c2 == <<"UNSUPPORTED_EXPLICIT_CHECKS", more>>
<1>1. /\ stage = "packs" /\ stage' = "metrics" /\ seen' = {}
      /\ diagnostics' = diagnostics \cup Diagnosed({c1, c2})
      /\ UNCHANGED <<settings, columns, uses, metrics, declared,
                     columnDiagnostics, metricDiagnostics, checks>>
  BY DEF CheckPacksUsed, inputs
<1>2. (c1[2] <=> use) /\ (c2[2] <=> more)
  OBVIOUS
<1> HIDE DEF c1, c2
<1>3. Diagnosed({c1, c2}) = {}
        <=> settings.checks = "mapping" /\ settings.use # "invalid"
  BY <1>2, TwoConditions
<1>4. metrics = <<>> /\ metricDiagnostics = {} /\ checks = PackChecks(settings, uses)
  BY <1>1 DEF ContractInv, Unread, ChecksBuilt
<1>5. diagnostics = {} <=> FineUpTo(1)
  BY <1>1 DEF ContractInv, Judged
<1>6. diagnostics' = {} <=> /\ FineUpTo(1) /\ settings.checks = "mapping"
                            /\ settings.use # "invalid"
  BY <1>1, <1>3, <1>5
<1>7. FineUpTo(2)' <=> /\ FineUpTo(1) /\ settings.checks = "mapping"
                       /\ settings.use # "invalid"
  BY <1>1 DEF FineUpTo
<1>8. ContractTyped' /\ Unread'
  BY <1>1 DEF ContractInv, ContractTyped, Unread
<1>9. Remembered'
  BY <1>1, <1>4, NothingReadIsFine DEF ContractInv, Remembered, Reading
<1>10. ColumnsJudged' /\ MetricsJudged'
  BY <1>1 DEF ContractInv, ColumnsJudged, MetricsJudged, Reading
<1>11. Judged'
  BY <1>1, <1>6, <1>7 DEF Judged
<1>12. ChecksBuilt'
  BY <1>1, <1>4 DEF ChecksBuilt
<1> QED
  BY <1>8, <1>9, <1>10, <1>11, <1>12 DEF ContractInv

(* A metric is judged, and compiled only if it is fine.                    *)
LEMMA ReadMetricKeepsContract ==
  ASSUME ContractInv, ReadMetric PROVE ContractInv'
<1>1. PICK metric \in Metrics :
        /\ metrics' = Append(metrics, metric)
        /\ metricDiagnostics' = metricDiagnostics \cup MetricDiagnostics(metric)
        /\ seen' = IF metric.shape = "valid" THEN seen \cup {metric.name} ELSE seen
  BY AuthoredAssumption DEF ReadMetric
<1>2. /\ stage = "metrics" /\ stage' = "metrics"
      /\ UNCHANGED <<settings, columns, uses, declared, columnDiagnostics,
                     diagnostics, checks>>
  BY DEF ReadMetric
<1>3. /\ metrics \in Seq(Metrics) /\ seen = Keeping(metrics, "valid")
      /\ columnDiagnostics = {} <=> ColumnsFine(settings, columns)
      /\ columnDiagnostics = {} =>
           /\ declared = Registry(columns)
           /\ metricDiagnostics = {} <=> MetricsFine(settings, columns, metrics)
  BY <1>2 DEF ContractInv, ContractTyped, Remembered, ColumnsJudged,
              MetricsJudged, Reading
<1>4. metrics' \in Seq(Metrics)
  BY <1>1, <1>3
<1>5. seen' = Keeping(metrics', "valid")
  BY <1>1, <1>3, OneMoreKept
<1>6. ASSUME columnDiagnostics = {}
      PROVE metricDiagnostics' = {} <=> MetricsFine(settings, columns, metrics')
  <2>1. MetricDiagnostics(metric) = {}
          <=> MetricFine(metric, settings, columns) /\ metric.name \notin seen
    BY <1>3, <1>6, MetricJudged
  <2>2. MetricsFine(settings, columns, metrics')
          <=> /\ MetricsFine(settings, columns, metrics)
              /\ MetricFine(metric, settings, columns)
              /\ metric.name \notin NamesOf(metrics)
    BY <1>1, <1>3, OneMoreMetric
  <2>3. ASSUME MetricsFine(settings, columns, metrics) PROVE seen = NamesOf(metrics)
    <3>1. \A i \in DOMAIN metrics : metrics[i].shape = "valid"
      BY <2>3 DEF MetricsFine, MetricFine
    <3> QED
      BY <1>3, <3>1 DEF Keeping, NamesOf
  <2>4. metricDiagnostics' = {}
          <=> metricDiagnostics = {} /\ MetricDiagnostics(metric) = {}
    BY <1>1
  <2> QED
    BY <1>3, <1>6, <2>1, <2>2, <2>3, <2>4
<1>7. ContractTyped' /\ Unread'
  BY <1>2, <1>4 DEF ContractInv, ContractTyped, Unread
<1>8. Remembered'
  BY <1>2, <1>3, <1>5 DEF Remembered
<1>9. ColumnsJudged'
  BY <1>2, <1>3 DEF ColumnsJudged
<1>10. MetricsJudged'
  BY <1>2, <1>6 DEF MetricsJudged
<1>11. Judged'
  BY <1>2 DEF ContractInv, Judged, FineUpTo
<1>12. ChecksBuilt'
  BY <1>2 DEF ContractInv, ChecksBuilt
<1> QED
  BY <1>7, <1>8, <1>9, <1>10, <1>11, <1>12 DEF ContractInv

(* With the last metric everything is judged and all checks are built.     *)
LEMMA MetricsReadKeepsContract ==
  ASSUME ContractInv, MetricsRead PROVE ContractInv'
<1>1. /\ stage = "metrics" /\ stage' = "compiled"
      /\ diagnostics' = diagnostics \cup metricDiagnostics
      /\ checks' = IF metricDiagnostics = {}
           THEN checks \o MetricChecks(settings, metrics) ELSE checks
      /\ UNCHANGED <<settings, columns, uses, metrics, seen, declared,
                     columnDiagnostics, metricDiagnostics>>
  BY DEF MetricsRead, inputs, MetricChecks
<1>2. /\ checks = PackChecks(settings, uses)
      /\ diagnostics = {} <=> FineUpTo(2)
      /\ columnDiagnostics = {} <=> ColumnsFine(settings, columns)
      /\ columnDiagnostics = {} =>
           (metricDiagnostics = {} <=> MetricsFine(settings, columns, metrics))
  BY <1>1 DEF ContractInv, ChecksBuilt, Judged, ColumnsJudged, MetricsJudged,
              Reading
<1>3. FineUpTo(2) => ColumnsFine(settings, columns)
  BY DEF FineUpTo
<1>4. FineUpTo(3)' <=> FineUpTo(2) /\ MetricsFine(settings, columns, metrics)
  BY <1>1 DEF FineUpTo
<1>5. Judged'
  BY <1>1, <1>2, <1>3, <1>4 DEF Judged
<1>6. ContractTyped' /\ Unread'
  BY <1>1 DEF ContractInv, ContractTyped, Unread
<1>7. Remembered'
  BY <1>1 DEF ContractInv, Remembered, Reading
<1>8. ColumnsJudged' /\ MetricsJudged'
  BY <1>1 DEF ContractInv, ColumnsJudged, MetricsJudged, Reading
<1>9. ChecksBuilt'
  BY <1>1, <1>2 DEF ChecksBuilt
<1> QED
  BY <1>5, <1>6, <1>7, <1>8, <1>9 DEF ContractInv

(* What is promised of a compiled contract.                                *)
Promised(a) ==
  /\ a.diagnostics = {} <=> WellFormed(a)
  /\ IF a.diagnostics # {}
       THEN a.checks = <<>>
       ELSE /\ {check.name : check \in ChecksOf(a)} = ExpectedNames(a)
            /\ Len(a.checks) = Cardinality(ExpectedNames(a))
            /\ \A check \in ChecksOf(a) : check.sampling = a.settings.sampling
  /\ \A check \in ChecksOf(a) : Accepted(check, a.grainKeys)

(* The promise of every contract is what the three invariants say together. *)
LEMMA PromisesOfContracts ==
  DiagnosedIffIllFormed /\ ChecksAreComplete /\ CompiledChecksAreAccepted
    <=> \A a \in Contracts : Promised(a)
BY DEF DiagnosedIffIllFormed, ChecksAreComplete, CompiledChecksAreAccepted,
       Promised, Accepted, ExpectedNames

(* The contract that is finished keeps it.                                 *)
LEMMA ContractIsPromised ==
  ASSUME ContractInv, ContractCompiled
  PROVE \E a : NextContract(a) /\ Promised(a)
<1> DEFINE twice == DuplicateNames(checks)
           none == checks = <<>> /\ diagnostics = {}
           c1 == <<"DUPLICATE_COMPILED_CHECK", twice>>
           c2 == <<"NO_COMPILED_CHECKS", none>>
           codes == diagnostics \cup Diagnosed({c1, c2})
           compiled == IF codes = {} THEN checks ELSE <<>>
           a == Artifact(codes, compiled)
<1>1. stage = "compiled" /\ NextContract(a)
  BY DEF ContractCompiled
<1>2. (c1[2] <=> twice) /\ (c2[2] <=> none)
  BY DEF DuplicateNames
<1>3. /\ a.settings = settings /\ a.columns = columns /\ a.uses = uses
      /\ a.metrics = metrics /\ a.diagnostics = codes /\ a.checks = compiled
      /\ a.grainKeys = GrainKeys(settings)
  BY DEF Artifact
<1> HIDE DEF c1, c2
<1>4. Diagnosed({c1, c2}) = {} <=> ~ twice /\ ~ none
  BY <1>2, TwoConditions
<1>5. codes = {} <=> diagnostics = {} /\ ~ twice /\ ~ none
  BY <1>4
<1> HIDE DEF a, codes
<1>6. /\ metrics \in Seq(Metrics)
      /\ uses # <<>> => settings.use = "list"
      /\ diagnostics = {} <=> PartsFine(settings, columns, uses, metrics)
      /\ checks \in {PackChecks(settings, uses),
                     PackChecks(settings, uses) \o MetricChecks(settings, metrics)}
      /\ metricDiagnostics = {} =>
           checks = PackChecks(settings, uses) \o MetricChecks(settings, metrics)
  BY <1>1 DEF ContractInv, ContractTyped, Judged, FineUpTo, ChecksBuilt, PartsFine
<1>7. PartsFine(settings, columns, uses, metrics) => metricDiagnostics = {}
  BY <1>1 DEF ContractInv, PartsFine, ColumnsJudged, MetricsJudged, Reading
<1>8. /\ codes = {} <=> WellFormed(a)
      /\ codes = {} => /\ NamesOf(checks) = ExpectedNames(a)
                       /\ Len(checks) = Cardinality(ExpectedNames(a))
  <2>1. AllFine(a) <=> diagnostics = {}
    BY <1>3, <1>6 DEF AllFine
  <2>2. AllFine(a) => checks = AllChecks(a)
    BY <1>3, <1>6, <1>7 DEF AllFine, AllChecks
  <2>3. codes = {} <=> /\ AllFine(a) /\ ~ DuplicateNames(checks) /\ checks # <<>>
    BY <1>5, <2>1
  <2>4. a.metrics \in Seq(Metrics) /\ (a.uses # <<>> => a.settings.use = "list")
    BY <1>3, <1>6
  <2> QED
    BY <2>2, <2>3, <2>4, CompiledAsItShould
<1>9. BuiltWell(checks, settings)
  <2>1. /\ BuiltWell(PackChecks(settings, uses), settings)
        /\ BuiltWell(PackChecks(settings, uses) \o MetricChecks(settings, metrics),
                     settings)
    BY <1>6, ChecksAreBuiltWell
  <2> QED
    BY <1>6, <2>1
<1>10. CASE codes # {}
  <2>1. a.checks = <<>> /\ ChecksOf(a) = {}
    BY <1>3, <1>10 DEF ChecksOf
  <2> QED
    BY <1>1, <1>3, <1>8, <1>10, <2>1 DEF Promised
<1>11. CASE codes = {}
  <2>1. a.checks = checks /\ ChecksOf(a) = {checks[i] : i \in DOMAIN checks}
    BY <1>3, <1>11 DEF ChecksOf
  <2>2. {check.name : check \in ChecksOf(a)} = NamesOf(checks)
    BY <2>1 DEF NamesOf
  <2>3. \A check \in ChecksOf(a) : /\ check.sampling = a.settings.sampling
                                   /\ Accepted(check, a.grainKeys)
    BY <1>3, <1>9, <2>1 DEF BuiltWell
  <2>4. Promised(a)
    BY <1>3, <1>8, <1>11, <2>1, <2>2, <2>3 DEF Promised
  <2> QED
    BY <1>1, <2>4
<1> QED
  BY <1>10, <1>11

(* The next contract begins with nothing read.                             *)
LEMMA NextContractStartsAnew ==
  ASSUME NEW a, NextContract(a) PROVE ContractInv'
<1>1. /\ settings' = NoSettings /\ stage' \in {"done", "settings"}
      /\ columns' = <<>> /\ uses' = <<>> /\ metrics' = <<>>
      /\ seen' = {} /\ declared' = {} /\ checks' = <<>>
      /\ columnDiagnostics' = {} /\ metricDiagnostics' = {} /\ diagnostics' = {}
  BY DEF NextContract
<1>2. NoSettings \in Settings
  BY DEF NoSettings, Settings, Nulls
<1>3. (ContractTyped /\ Unread)'
  BY <1>1, <1>2 DEF ContractTyped, Unread
<1>4. (Remembered /\ ColumnsJudged /\ MetricsJudged /\ Judged /\ ChecksBuilt)'
  BY <1>1 DEF Remembered, ColumnsJudged, MetricsJudged, Judged, ChecksBuilt,
              Reading
<1> QED
  BY <1>3, <1>4 DEF ContractInv

CompileInv ==
  /\ ContractInv
  /\ artifacts \in Seq(Contracts)
  /\ \A a \in Contracts : Promised(a)

(* So the last step of a contract keeps the promise of all of them.        *)
LEMMA ContractCompiledKeepsInv ==
  ASSUME CompileInv, ContractCompiled PROVE CompileInv'
<1>1. PICK a : NextContract(a) /\ Promised(a)
  BY ContractIsPromised DEF CompileInv
<1>2. artifacts' = Append(artifacts, a)
  BY <1>1 DEF NextContract
<1>3. /\ artifacts' \in Seq(Contracts')
      /\ DOMAIN artifacts = 1..Len(artifacts) /\ Len(artifacts) \in Nat
      /\ DOMAIN artifacts' = 1..(Len(artifacts) + 1)
      /\ \A i \in DOMAIN artifacts : artifacts'[i] = artifacts[i]
      /\ artifacts'[Len(artifacts) + 1] = a
  <2>1. artifacts \in Seq({artifacts[i] : i \in DOMAIN artifacts})
    BY DEF CompileInv, Contracts
  <2> QED
    BY <1>2, <2>1, AppendKeepsSequence DEF Contracts
<1>4. ASSUME NEW b \in Contracts' PROVE b \in Contracts \/ b = a
  BY <1>3 DEF Contracts
<1>5. (\A b \in Contracts : Promised(b))'
  <2>1. \A b \in Contracts' : Promised(b)
    BY <1>1, <1>4 DEF CompileInv
  <2> QED
    BY <2>1
<1>6. ContractInv'
  BY <1>1, NextContractStartsAnew
<1> QED
  BY <1>3, <1>5, <1>6 DEF CompileInv

(* The promise is kept for good.                                           *)
LEMMA CompileInvHolds == Spec => []CompileInv
<1>1. Init => CompileInv
  <2> SUFFICES ASSUME Init PROVE CompileInv
    OBVIOUS
  <2>1. NoSettings \in Settings
    BY DEF NoSettings, Settings, Nulls
  <2>2. ContractTyped /\ Unread
    BY <2>1 DEF Init, ContractTyped, Unread
  <2>3. Remembered /\ ColumnsJudged /\ MetricsJudged /\ Judged /\ ChecksBuilt
    BY DEF Init, Remembered, ColumnsJudged, MetricsJudged, Judged, ChecksBuilt,
           Reading
  <2> QED
    BY <2>2, <2>3 DEF Init, CompileInv, ContractInv, Contracts
<1>2. ASSUME CompileInv, [Next]_vars PROVE CompileInv'
  <2>1. ASSUME ContractInv', UNCHANGED artifacts PROVE CompileInv'
    BY <1>2, <2>1 DEF CompileInv, Contracts
  <2>2. ContractInv
    BY <1>2 DEF CompileInv
  <2>3. CASE FindContract \/ ProjectFound
    BY <2>1, <2>2, <2>3, ProjectStepsKeepContract, OtherStepsKeepArtifacts
  <2>4. CASE ReadSettings
    BY <2>1, <2>2, <2>4, ReadSettingsKeepsContract, OtherStepsKeepArtifacts
  <2>5. CASE ReadColumn
    BY <2>1, <2>2, <2>5, ReadColumnKeepsContract, OtherStepsKeepArtifacts
  <2>6. CASE ColumnsRead
    BY <2>1, <2>2, <2>6, ColumnsReadKeepsContract, OtherStepsKeepArtifacts
  <2>7. CASE UseCheckPack
    BY <2>1, <2>2, <2>7, UseCheckPackKeepsContract, OtherStepsKeepArtifacts
  <2>8. CASE CheckPacksUsed
    BY <2>1, <2>2, <2>8, CheckPacksUsedKeepsContract, OtherStepsKeepArtifacts
  <2>9. CASE ReadMetric
    BY <2>1, <2>2, <2>9, ReadMetricKeepsContract, OtherStepsKeepArtifacts
  <2>10. CASE MetricsRead
    BY <2>1, <2>2, <2>10, MetricsReadKeepsContract, OtherStepsKeepArtifacts
  <2>11. CASE ContractCompiled
    BY <1>2, <2>11, ContractCompiledKeepsInv
  <2>12. CASE UNCHANGED vars
    <3>1. UNCHANGED <<stage, artifacts, settings, columns, uses, metrics, seen,
                      declared, columnDiagnostics, metricDiagnostics,
                      diagnostics, checks>>
      BY <2>12 DEF vars, project, contract, inputs
    <3>2. ContractInv'
      BY <2>2, <3>1 DEF ContractInv, ContractTyped, Unread, Remembered,
         ColumnsJudged, MetricsJudged, Judged, FineUpTo, ChecksBuilt
    <3> QED
      BY <2>1, <3>1, <3>2
  <2> QED
    BY <1>2, <2>3, <2>4, <2>5, <2>6, <2>7, <2>8, <2>9, <2>10, <2>11, <2>12 DEF Next
<1> QED
  BY <1>1, <1>2, PTL DEF Spec

(* A contract has diagnostics exactly if it is not well formed: the loops  *)
(* that stop at the first flaw, the registry that metrics are not asked    *)
(* for once a column is wrong and the names that are forgotten between the *)
(* loops let no flaw through and invent none.                              *)
THEOREM DiagnosticsAreExact == Spec => []DiagnosedIffIllFormed
<1>1. CompileInv => DiagnosedIffIllFormed
  BY PromisesOfContracts DEF CompileInv
<1> QED
  BY <1>1, CompileInvHolds, PTL

(* A contract is compiled as a whole or not at all: seven checks for the   *)
(* pack and one for every metric, of different names, if it has no         *)
(* diagnostics, and none otherwise.                                        *)
THEOREM CompiledAsAWhole == Spec => []ChecksAreComplete
<1>1. CompileInv => ChecksAreComplete
  BY PromisesOfContracts DEF CompileInv
<1> QED
  BY <1>1, CompileInvHolds, PTL

(* Whatever compile writes, run can read and use: every check satisfies    *)
(* the typed operations, the loader, the runtime and the renderer.         *)
THEOREM ReadersAcceptEveryCheck == Spec => []CompiledChecksAreAccepted
<1>1. CompileInv => CompiledChecksAreAccepted
  BY PromisesOfContracts DEF CompileInv
<1> QED
  BY <1>1, CompileInvHolds, PTL
=============================================================================
