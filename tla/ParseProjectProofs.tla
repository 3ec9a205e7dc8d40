-------------------------- MODULE ParseProjectProofs --------------------------
(***************************************************************************)
(* For all projects: the loops of `recon parse` over directories, files,   *)
(* contracts and names keep what AuthoredProject promises of the project   *)
(* as a whole, and blame the files in which something is wrong.            *)
(*                                                                         *)
(* The invariant says of every loop that what it did already and what it   *)
(* still has to do are together all there is to do.                        *)
(***************************************************************************)
EXTENDS ParseProject, SequenceTheorems, FiniteSetTheorems,
        WellFoundedInduction, TLAPS

(* The items of a sequence.                                                *)
ItemsOf(s) == {s[i] : i \in DOMAIN s}

Candidate == [path : Paths, kind : Kind, file : Files]
PathEntry ==
  [dir : Directories, kind : Kind, origin : {"authored", "defaulted"}]

(* What the directories of the configuration lead to.                      *)
PathsOf(entry) ==
  {path \in project.listing[entry.dir] :
     project.suffix[path] = SuffixOf(entry.kind)}

CandidatesOf(entry) ==
  IF project.directories[entry.dir] = "directory"
    THEN {[path |-> path, kind |-> entry.kind, file |-> project.file[path]] :
            path \in PathsOf(entry)}
    ELSE {}

IsMissing(entry) ==
  /\ project.directories[entry.dir] # "directory"
  /\ \/ project.directories[entry.dir] = "file"
     \/ ~ MissingPathIsAllowed(entry)

EveryPath == ItemsOf(ResourcePathEntries(project.config))

(* What was found already and what is still to be found are, together,     *)
(* what there is to find; the same of the directories that are missing.    *)
Blamed(file) == \E d \in diagnostics : d.file = file

DiscoverInv ==
  /\ candidates \in Seq(Candidate) /\ toDiscover \in Seq(PathEntry)
  /\ ItemsOf(candidates) \cup UNION {CandidatesOf(e) : e \in ItemsOf(toDiscover)}
       = UNION {CandidatesOf(e) : e \in EveryPath}
  /\ Blamed(NoFile) \/ (\E e \in ItemsOf(toDiscover) : IsMissing(e))
       <=> \E e \in EveryPath : IsMissing(e)

(* Every file that was classified is known by one candidate, unless it is  *)
(* of several kinds.                                                       *)
ClassifyInv ==
  /\ classified \subseteq {c.file : c \in ItemsOf(candidates)}
  /\ found \subseteq ItemsOf(candidates)
  /\ \A r \in found : /\ r.file \in classified /\ ~ Ambiguous(r.file)
                      /\ project.content[r.file].form # "unreadable"
  /\ \A r, s \in found : r.file = s.file => r = s
  /\ \A file \in classified : Ambiguous(file) \/ \E r \in found : r.file = file

(* The contracts are those of the entries that were read and are sound.    *)
EntriesIn(file) == project.content[file].entries
IsRead(file, i) ==
  \E path \in parsed : /\ FileAt(path) = file
                       /\ project.content[file].form \in {"single", "list"}
                       /\ path = open.path => i < open.next

SoundAt(file, i) == Authored!SoundEntry(EntriesIn(file)[i], project.content[file])
ContractAt(file, i) == [name |-> EntriesIn(file)[i].called, place |-> <<file, i>>]

ContractPaths == {r.path : r \in {s \in found : s.kind = "contract"}}

ParseInv ==
  /\ parsed \subseteq ContractPaths
  /\ \/ open = Nothing
     \/ /\ open \in [path : parsed, next : Nat \ {0}]
        /\ open.next <= Len(EntriesIn(FileAt(open.path))) + 1
        /\ ContentAt(open.path).form \in {"single", "list"}
  /\ contracts \in Seq([name : STRING, place : Files \X Nat])
  /\ \A i, j \in DOMAIN contracts : contracts[i].place = contracts[j].place => i = j
  /\ \A n \in DOMAIN contracts : \E file \in Files : \E i \in DOMAIN EntriesIn(file) :
       IsRead(file, i) /\ SoundAt(file, i) /\ contracts[n] = ContractAt(file, i)
  /\ \A file \in Files : \A i \in DOMAIN EntriesIn(file) :
       IsRead(file, i) /\ SoundAt(file, i) =>
         \E n \in DOMAIN contracts : contracts[n] = ContractAt(file, i)

(* The manifest has the first contract of every name so far.               *)
ManifestInv ==
  /\ listed \in 0..Len(contracts)
  /\ DOMAIN manifest = {contracts[n].name : n \in 1..listed}
  /\ \A name \in DOMAIN manifest : \E n \in 1..listed :
       contracts[n] = [name |-> name, place |-> manifest[name]]

(* A file has a diagnostic for what was found wrong in it, and for nothing *)
(* else.                                                                   *)
IsWrong(file) ==
  \/ file \in classified /\ Ambiguous(file)
  \/ /\ \E path \in parsed : FileAt(path) = file
     /\ ContentDiagnostics(project.content[file]) # {}
  \/ \E i \in DOMAIN EntriesIn(file) : IsRead(file, i) /\ ~ SoundAt(file, i)
  \/ \E n \in 1..listed : /\ contracts[n].place[1] = file
                          /\ manifest[contracts[n].name] # contracts[n].place

BlameInv ==
  /\ \A d \in diagnostics : d.file \in Files \cup {NoFile}
  /\ \A file \in Files : Blamed(file) <=> IsWrong(file)

(* What the stages leave and what they begin with.                         *)
StageInv ==
  /\ stage \in {"discover", "classify", "parse", "manifest", "done"}
  /\ Authored!SoundConfig(project.config)
  /\ stage # "discover" => toDiscover = <<>>
  /\ stage = "discover" => classified = {} /\ found = {}
  /\ stage \in {"discover", "classify"} =>
       open = Nothing /\ parsed = {} /\ contracts = <<>>
  /\ stage \in {"parse", "manifest", "done"} => Unclassified = {}
  /\ stage \in {"manifest", "done"} => open = Nothing /\ Unparsed = {}
  /\ stage \in {"discover", "classify", "parse"} =>
       listed = 0 /\ manifest = NoManifest
  /\ stage = "done" => listed = Len(contracts)
  /\ stage # "done" <=> exit = "none"

Fresh ==
  /\ stage = "config" /\ exit = "none" /\ diagnostics = {}
  /\ candidates = <<>> /\ classified = {} /\ found = {}
  /\ open = Nothing /\ parsed = {} /\ contracts = <<>>
  /\ listed = 0 /\ manifest = NoManifest

Running ==
  /\ exit # "configuration_error"
  /\ StageInv /\ DiscoverInv /\ ClassifyInv /\ ParseInv /\ ManifestInv
  /\ BlameInv

IInv ==
  /\ project \in Projects
  /\ \/ Fresh
     \/ stage = "done" /\ exit = "configuration_error"
     \/ stage = "crashed" /\ exit = "none"
     \/ Running

(* The operators of AuthoredProject are those of AuthoredFiles.            *)
LEMMA OneVocabulary ==
  /\ Authored!Kind = Kind
  /\ \A kind : Authored!SuffixOf(kind) = SuffixOf(kind)
  /\ \A kind : Authored!RequiredByDefault(kind) = RequiredByDefault(kind)
  /\ \A config, kind :
       Authored!DirectoriesOf(config, kind) = DirectoriesOf(config, kind)
BY DEF Authored!Kind, Authored!Kinds, Kind, Kinds, Authored!SuffixOf, SuffixOf,
       Authored!RequiredByDefault, RequiredByDefault, Authored!DirectoriesOf,
       DirectoriesOf

(* What the parts of a project are.                                      *)
LEMMA ProjectTyped ==
  ASSUME project \in Projects
  PROVE /\ project.config \in Config
        /\ project.directories
             \in [Directories -> {"absent", "file", "directory"}]
        /\ project.listing \in [Directories -> SUBSET Paths]
        /\ project.suffix \in [Paths -> {"yaml", "sql"}]
        /\ project.file \in [Paths -> Files]
        /\ project.content \in [Files -> Content]
BY ProjectsAssumption DEF Project

(* A set of numbers has a least one.                                       *)
LEMMA LeastIsLeast ==
  ASSUME NEW S \in SUBSET Nat, S # {}
  PROVE Least(S) \in S /\ \A m \in S : Least(S) <= m
<1>1. \E n \in S : \A m \in S : n <= m
  <2> DEFINE R == OpToRel(<, Nat)
  <2>1. IsWellFoundedOn(R, Nat)
    BY NatLessThanWellFounded
  <2>2. \A i, j \in Nat : i < j => <<i, j>> \in R
    BY DEF OpToRel
  <2> HIDE DEF R
  <2>3. PICK n \in S : \A m \in S : ~ <<m, n>> \in R
    BY <2>1, WFMin
  <2>4. ASSUME NEW m \in S PROVE n <= m
    <3>1. n \in Nat /\ m \in Nat /\ ~ m < n
      BY <2>2, <2>3
    <3> QED
      BY <3>1
  <2> QED
    BY <2>4
<1> QED
  BY <1>1 DEF Least

(* Sorting loses nothing: the ranks of n numbers are 0..n-1.               *)
LEMMA SortedKeepsAll ==
  ASSUME NEW S \in SUBSET Nat, IsFiniteSet(S)
  PROVE /\ Cardinality(S) \in Nat
        /\ DOMAIN Sorted(S) = 1..Cardinality(S)
        /\ ItemsOf(Sorted(S)) = S
<1> DEFINE n == Cardinality(S)
           below(k) == {m \in S : m < k}
           rank == [k \in S |-> Cardinality(below(k))]
<1>1. n \in Nat
  BY FS_CardinalityType
<1>2. ASSUME NEW k \in S
      PROVE /\ IsFiniteSet(below(k)) /\ Cardinality(below(k)) \in Nat
            /\ Cardinality(below(k)) < n
  <2>1. below(k) \in SUBSET S /\ below(k) # S
    OBVIOUS
  <2>2. /\ IsFiniteSet(below(k)) /\ Cardinality(below(k)) <= n
        /\ Cardinality(below(k)) # n
    BY <2>1, FS_Subset
  <2>3. Cardinality(below(k)) \in Nat
    BY <2>2, FS_CardinalityType
  <2> QED
    BY <1>1, <2>2, <2>3
<1>3. ASSUME NEW j \in S, NEW k \in S, j < k
      PROVE rank[j] < rank[k]
  <2>0. \A m \in S : m \in Nat
    OBVIOUS
  <2>1. below(j) \in SUBSET below(k) /\ j \in below(k) /\ j \notin below(j)
    <3>1. ASSUME NEW m \in S, m < j PROVE m < k
      <4>1. m \in Nat /\ j \in Nat /\ k \in Nat
        BY <2>0
      <4> QED
        BY <1>3, <3>1, <4>1
    <3>2. ~ j < j
      BY <2>0
    <3> QED
      BY <1>3, <3>1, <3>2
  <2>2. /\ Cardinality(below(j)) <= Cardinality(below(k))
        /\ Cardinality(below(j)) # Cardinality(below(k))
    BY <1>2, <2>1, FS_Subset
  <2> QED
    BY <1>2, <2>2
<1>4. rank \in Injection(S, 0..(n - 1))
  <2>1. rank \in [S -> 0..(n - 1)]
    BY <1>1, <1>2
  <2>2. ASSUME NEW j \in S, NEW k \in S, rank[j] = rank[k] PROVE j = k
    <3>1. ~ rank[j] < rank[k] /\ ~ rank[k] < rank[j]
      BY <1>2, <2>2
    <3>2. j \in Nat /\ k \in Nat /\ ~ j < k /\ ~ k < j
      BY <1>3, <3>1
    <3> QED
      BY <3>2
  <2> HIDE DEF rank
  <2> QED
    BY <2>1, <2>2 DEF Injection, IsInjective
<1>5. IsFiniteSet(0..(n - 1)) /\ Cardinality(0..(n - 1)) = n
  <2> HIDE DEF n
  <2>1. 0 \in Int /\ n - 1 \in Int
    BY <1>1
  <2>2. /\ IsFiniteSet(0..(n - 1))
        /\ Cardinality(0..(n - 1)) = IF 0 > n - 1 THEN 0 ELSE (n - 1) - 0 + 1
    BY <2>1, FS_Interval
  <2> QED
    BY <1>1, <2>2
<1>6. rank \in Surjection(S, 0..(n - 1))
  <2> HIDE DEF rank
  <2> QED
    BY <1>4, <1>5, FS_Injection
<1>7. \A i \in 1..n : \E k \in S : rank[k] = i - 1
  <2> HIDE DEF rank
  <2>1. \A r \in 0..(n - 1) : \E k \in S : rank[k] = r
    BY <1>6 DEF Surjection
  <2> QED
    BY <1>1, <2>1
<1>8. DOMAIN Sorted(S) = 1..n
  BY DEF Sorted
<1>9. ASSUME NEW i \in 1..n
      PROVE Sorted(S)[i] \in S /\ rank[Sorted(S)[i]] = i - 1
  <2>1. Sorted(S)[i] = CHOOSE k \in S : Cardinality(below(k)) = i - 1
    BY DEF Sorted
  <2>2. \E k \in S : Cardinality(below(k)) = i - 1
    BY <1>7
  <2> HIDE DEF below
  <2>3. Sorted(S)[i] \in S /\ Cardinality(below(Sorted(S)[i])) = i - 1
    BY <2>1, <2>2
  <2> QED
    BY <2>3
<1>10. ASSUME NEW k \in S PROVE k \in ItemsOf(Sorted(S))
  <2> DEFINE i == rank[k] + 1
  <2>1. i \in 1..n /\ rank[k] = i - 1
    BY <1>1, <1>2
  <2>2. Sorted(S)[i] \in S /\ rank[Sorted(S)[i]] = rank[k]
    BY <1>9, <2>1
  <2> HIDE DEF rank, i
  <2>3. Sorted(S)[i] = k
    BY <1>4, <2>2 DEF Injection, IsInjective
  <2> QED
    BY <1>8, <2>1, <2>3 DEF ItemsOf
<1> QED
  BY <1>1, <1>8, <1>9, <1>10 DEF ItemsOf

(* The items of sequences.                                                 *)
LEMMA ItemsOfEmpty == ItemsOf(<<>>) = {}
BY DEF ItemsOf

(* Both parts of a concatenation are in it.                              *)
LEMMA ItemsOfConcat ==
  ASSUME NEW S, NEW s \in Seq(S), NEW t \in Seq(S)
  PROVE ItemsOf(s \o t) = ItemsOf(s) \cup ItemsOf(t)
<1> DEFINE c == s \o t
<1>1. /\ Len(s) \in Nat /\ Len(t) \in Nat
      /\ DOMAIN s = 1..Len(s) /\ DOMAIN t = 1..Len(t)
      /\ DOMAIN c = 1..(Len(s) + Len(t))
      /\ \A i \in 1..(Len(s) + Len(t)) :
           c[i] = IF i <= Len(s) THEN s[i] ELSE t[i - Len(s)]
  BY ConcatProperties, LenProperties
<1> HIDE DEF c
<1>2. ASSUME NEW i \in DOMAIN s PROVE i \in DOMAIN c /\ c[i] = s[i]
  BY <1>1
<1>3. ASSUME NEW i \in DOMAIN t
      PROVE Len(s) + i \in DOMAIN c /\ c[Len(s) + i] = t[i]
  BY <1>1
<1>4. ASSUME NEW i \in DOMAIN c
      PROVE \/ i \in DOMAIN s /\ c[i] = s[i]
            \/ i - Len(s) \in DOMAIN t /\ c[i] = t[i - Len(s)]
  BY <1>1
<1>5. ItemsOf(c) = ItemsOf(s) \cup ItemsOf(t)
  BY <1>2, <1>3, <1>4 DEF ItemsOf
<1> QED
  BY <1>5 DEF c

(* A sequence is its first item and the others.                          *)
LEMMA ItemsOfHeadAndTail ==
  ASSUME NEW S, NEW s \in Seq(S), s # <<>>
  PROVE /\ ItemsOf(s) = {Head(s)} \cup ItemsOf(Tail(s))
        /\ Head(s) \in S /\ Tail(s) \in Seq(S)
<1>1. /\ Len(s) \in Nat \ {0} /\ DOMAIN s = 1..Len(s)
      /\ Tail(s) \in Seq(S) /\ Len(Tail(s)) = Len(s) - 1
      /\ DOMAIN Tail(s) = 1..(Len(s) - 1)
      /\ \A i \in 1..(Len(s) - 1) : Tail(s)[i] = s[i + 1]
      /\ Head(s) = s[1] /\ Head(s) \in S
  BY EmptySeq, LenProperties, HeadTailProperties
<1>2. ASSUME NEW i \in DOMAIN s
      PROVE i = 1 \/ (i - 1 \in DOMAIN Tail(s) /\ Tail(s)[i - 1] = s[i])
  BY <1>1
<1>3. 1 \in DOMAIN s /\ \A i \in DOMAIN Tail(s) : i + 1 \in DOMAIN s
  BY <1>1
<1>4. ASSUME NEW e \in ItemsOf(s) PROVE e = Head(s) \/ e \in ItemsOf(Tail(s))
  <2>1. PICK i \in DOMAIN s : e = s[i]
    BY DEF ItemsOf
  <2> QED
    BY <1>1, <1>2, <2>1 DEF ItemsOf
<1>5. Head(s) \in ItemsOf(s)
  BY <1>1, <1>3 DEF ItemsOf
<1>6. ASSUME NEW e \in ItemsOf(Tail(s)) PROVE e \in ItemsOf(s)
  <2>1. PICK i \in DOMAIN Tail(s) : e = Tail(s)[i]
    BY DEF ItemsOf
  <2>2. i + 1 \in DOMAIN s /\ e = s[i + 1]
    BY <1>1, <1>3, <2>1
  <2> QED
    BY <2>2 DEF ItemsOf
<1> QED
  BY <1>1, <1>4, <1>5, <1>6

(* An appended item leaves the others where they are.                    *)
LEMMA OneMoreItem ==
  ASSUME NEW S, NEW s \in Seq(S), NEW e \in S
  PROVE /\ Append(s, e) \in Seq(S)
        /\ Len(s) \in Nat /\ Len(Append(s, e)) = Len(s) + 1
        /\ DOMAIN s = 1..Len(s) /\ DOMAIN Append(s, e) = 1..(Len(s) + 1)
        /\ \A i \in DOMAIN s : Append(s, e)[i] = s[i]
        /\ Append(s, e)[Len(s) + 1] = e
BY AppendProperties, LenProperties

(* A report blames one file, if it has a code at all.                      *)
LEMMA ReportBlames ==
  ASSUME NEW codes, NEW file, diagnostics' = diagnostics \cup Report(codes, file),
         NEW other
  PROVE Blamed(other)' <=> Blamed(other) \/ (other = file /\ codes # {})
<1>1. ASSUME NEW d \in Report(codes, file) PROVE d.file = file /\ codes # {}
  BY DEF Report
<1>2. ASSUME NEW c \in codes
      PROVE \E d \in Report(codes, file) : d.file = file
  <2>1. [code |-> c, file |-> file] \in Report(codes, file)
    BY DEF Report
  <2> QED
    BY <2>1
<1> HIDE DEF Report
<1>3. (\E d \in diagnostics' : d.file = other)
        <=> (\E d \in diagnostics : d.file = other) \/ (other = file /\ codes # {})
  BY <1>1, <1>2
<1> QED
  BY <1>3 DEF Blamed

---------------------------------------------------------------------------
(* The configuration and what it leads to.                                 *)

(* Codes are reported if one of their conditions holds.                  *)
LEMMA ThreeCodes ==
  ASSUME NEW c1, NEW c2, NEW c3
  PROVE Codes({c1, c2, c3}) = {} <=> ~ c1[2] /\ ~ c2[2] /\ ~ c3[2]
BY DEF Codes

(* The same of two codes.                                                *)
LEMMA TwoCodes ==
  ASSUME NEW c1, NEW c2
  PROVE Codes({c1, c2}) = {} <=> ~ c1[2] /\ ~ c2[2]
BY DEF Codes

(* A configuration has diagnostics if it is not sound.                     *)
LEMMA ConfigJudged ==
  ASSUME NEW config \in Config, config.file # "undecodable"
  PROVE ConfigDiagnostics(config) = {} <=> Authored!SoundConfig(config)
<1> DEFINE wrong ==
             \/ config.file \in {"unreadable", "not_mapping", "bad_keys"}
             \/ /\ config.file = "mapping"
                /\ \/ config.unknown
                   \/ RequiredString(config.name)
                   \/ OptionalString(config.version) \/ OptionalString(config.profile)
                   \/ config.configVersion \in {"bad", "unsupported"}
                   \/ \E kind \in Kind :
                        config.paths[kind].written \in {"not_list", "bad_item"}
                   \/ \E value \in {config.target, config.report, config.state} :
                        StringWithDefault(value)
           c1 == <<"INVALID_PROJECT_YAML", config.file = "bad_yaml">>
           c2 == <<"PROJECT_NOT_FOUND", config.file = "not_found">>
           c3 == <<"INVALID_PROJECT_CONFIG", wrong>>
<1>1. ConfigDiagnostics(config) = Codes({c1, c2, c3})
  BY DEF ConfigDiagnostics
<1>2. /\ c1[2] <=> config.file = "bad_yaml"
      /\ c2[2] <=> config.file = "not_found"
      /\ c3[2] <=> wrong
  OBVIOUS
<1> HIDE DEF c1, c2, c3
<1>3. ConfigDiagnostics(config) = {}
        <=> config.file \notin {"bad_yaml", "not_found"} /\ ~ wrong
  BY <1>1, <1>2, ThreeCodes
<1>4. /\ config.file \in {"not_found", "unreadable", "undecodable", "bad_yaml",
                          "not_mapping", "bad_keys", "mapping"}
      /\ {config.name, config.version, config.profile, config.target,
          config.report, config.state} \subseteq Value
      /\ config.configVersion \in {"absent", "bad", "unsupported", "good"}
      /\ \A kind \in Kind : config.paths[kind].written
                              \in {"absent", "not_list", "bad_item", "list"}
  BY DEF Config, PathList
<1>5. (\A kind \in Kind : config.paths[kind].written \in {"absent", "list"})
        <=> ~ \E kind \in Kind :
                config.paths[kind].written \in {"not_list", "bad_item"}
  BY <1>4
<1>6. Authored!Kind = Kind
  BY OneVocabulary
<1> QED
  BY <1>3, <1>4, <1>5, <1>6 DEF Authored!SoundConfig, RequiredString,
     OptionalString, StringWithDefault, Value

(* A function on 1..n is a sequence.                                     *)
LEMMA FunctionIsSequence ==
  ASSUME NEW n \in Nat, NEW S, NEW f \in [1..n -> S] PROVE f \in Seq(S)
BY SeqDef

(* The directories of a kind become path entries, each of them.            *)
EntryOf(dir, kind) ==
  [dir |-> dir, kind |-> kind, origin |-> Origin(project.config, kind)]

(* The entries of a kind are those of its directories.                   *)
LEMMA EntriesOfKind ==
  ASSUME project \in Projects, NEW kind \in Kind
  PROVE /\ EntriesOf(project.config, kind) \in Seq(PathEntry)
        /\ Authored!Configured(kind) \subseteq Directories
        /\ ItemsOf(EntriesOf(project.config, kind)) =
             {EntryOf(dir, kind) : dir \in Authored!Configured(kind)}
<1> DEFINE dirs == DirectoriesOf(project.config, kind)
           entries == EntriesOf(project.config, kind)
<1>1. dirs \in Seq(Directories)
  <2>1. /\ project.config.paths[kind].values \in Seq(Directories)
        /\ kind \in Directories
    BY ProjectTyped, DefaultsAssumption DEF Config, PathList
  <2>2. <<kind>> \in Seq(Directories)
    BY <2>1
  <2> QED
    BY <2>1, <2>2 DEF DirectoriesOf
<1>2. /\ Len(dirs) \in Nat /\ DOMAIN dirs = 1..Len(dirs)
      /\ \A i \in 1..Len(dirs) : dirs[i] \in Directories
  BY <1>1, LenProperties, ElementOfSeq
<1>3. /\ DOMAIN entries = DOMAIN dirs
      /\ \A i \in DOMAIN dirs : entries[i] = EntryOf(dirs[i], kind)
      /\ entries = [i \in DOMAIN dirs |-> entries[i]]
  BY DEF EntriesOf, EntryOf
<1>4. Authored!Configured(kind) = {dirs[i] : i \in DOMAIN dirs}
  BY OneVocabulary DEF Authored!Configured
<1> HIDE DEF dirs, entries
<1>5. ASSUME NEW dir \in Directories PROVE EntryOf(dir, kind) \in PathEntry
  BY DEF EntryOf, PathEntry, Origin
<1>6. entries \in [1..Len(dirs) -> PathEntry]
  BY <1>2, <1>3, <1>5
<1>7. entries \in Seq(PathEntry)
  BY <1>2, <1>6, FunctionIsSequence
<1>8. ItemsOf(entries) = {EntryOf(dir, kind) : dir \in {dirs[i] : i \in DOMAIN dirs}}
  BY <1>3 DEF ItemsOf
<1> QED
  BY <1>2, <1>4, <1>7, <1>8 DEF entries

(* The path entries are those of all kinds.                                *)
LEMMA EveryPathIsOfSomeKind ==
  ASSUME project \in Projects
  PROVE /\ ResourcePathEntries(project.config) \in Seq(PathEntry)
        /\ \A entry : entry \in EveryPath
             <=> \E kind \in Kind : \E dir \in Authored!Configured(kind) :
                   entry = EntryOf(dir, kind)
<1> DEFINE of(kind) == EntriesOf(project.config, kind)
           k1 == of(Kinds[1])
           k2 == of(Kinds[2])
           k3 == of(Kinds[3])
           k4 == of(Kinds[4])
           k5 == of(Kinds[5])
           k6 == of(Kinds[6])
<1>1. Kind = {Kinds[1], Kinds[2], Kinds[3], Kinds[4], Kinds[5], Kinds[6]}
  BY DEF Kind, Kinds
<1>2. /\ k1 \in Seq(PathEntry) /\ k2 \in Seq(PathEntry) /\ k3 \in Seq(PathEntry)
      /\ k4 \in Seq(PathEntry) /\ k5 \in Seq(PathEntry) /\ k6 \in Seq(PathEntry)
  BY <1>1, EntriesOfKind
<1>3. ResourcePathEntries(project.config) = k1 \o k2 \o k3 \o k4 \o k5 \o k6
  BY DEF ResourcePathEntries
<1>4. ASSUME NEW entry
      PROVE (\E kind \in Kind : entry \in ItemsOf(of(kind)))
              <=> \E kind \in Kind : \E dir \in Authored!Configured(kind) :
                    entry = EntryOf(dir, kind)
  <2>1. \A kind \in Kind : ItemsOf(of(kind)) =
          {EntryOf(dir, kind) : dir \in Authored!Configured(kind)}
    BY EntriesOfKind
  <2> HIDE DEF of
  <2> QED
    BY <2>1
<1>5. ASSUME NEW entry
      PROVE entry \in ItemsOf(k1) \cup ItemsOf(k2) \cup ItemsOf(k3)
                        \cup ItemsOf(k4) \cup ItemsOf(k5) \cup ItemsOf(k6)
              <=> \E kind \in Kind : entry \in ItemsOf(of(kind))
  <2> HIDE DEF of
  <2> QED
    BY <1>1
<1> DEFINE s2 == k1 \o k2
           s3 == s2 \o k3
           s4 == s3 \o k4
           s5 == s4 \o k5
           s6 == s5 \o k6
<1> HIDE DEF k1, k2, k3, k4, k5, k6
<1>6. s2 \in Seq(PathEntry) /\ ItemsOf(s2) = ItemsOf(k1) \cup ItemsOf(k2)
  BY <1>2, ConcatProperties, ItemsOfConcat
<1> HIDE DEF s2
<1>7. s3 \in Seq(PathEntry) /\ ItemsOf(s3) = ItemsOf(s2) \cup ItemsOf(k3)
  BY <1>2, <1>6, ConcatProperties, ItemsOfConcat
<1> HIDE DEF s3
<1>8. s4 \in Seq(PathEntry) /\ ItemsOf(s4) = ItemsOf(s3) \cup ItemsOf(k4)
  BY <1>2, <1>7, ConcatProperties, ItemsOfConcat
<1> HIDE DEF s4
<1>9. s5 \in Seq(PathEntry) /\ ItemsOf(s5) = ItemsOf(s4) \cup ItemsOf(k5)
  BY <1>2, <1>8, ConcatProperties, ItemsOfConcat
<1> HIDE DEF s5
<1>10. s6 \in Seq(PathEntry) /\ ItemsOf(s6) = ItemsOf(s5) \cup ItemsOf(k6)
  BY <1>2, <1>9, ConcatProperties, ItemsOfConcat
<1> HIDE DEF s6
<1>11. ResourcePathEntries(project.config) = s6
  BY <1>3 DEF s2, s3, s4, s5, s6
<1>12. EveryPath = ItemsOf(k1) \cup ItemsOf(k2) \cup ItemsOf(k3)
                     \cup ItemsOf(k4) \cup ItemsOf(k5) \cup ItemsOf(k6)
  BY <1>6, <1>7, <1>8, <1>9, <1>10, <1>11 DEF EveryPath
<1> QED
  BY <1>4, <1>5, <1>10, <1>11, <1>12

(* A directory is missing if it has to be there and is not.                *)
LEMMA SameDirectories ==
  ASSUME project \in Projects
  PROVE (\E entry \in EveryPath : IsMissing(entry))
          <=> ~ Authored!DirectoriesExist
<1>1. ASSUME NEW kind \in Kind, NEW dir \in Authored!Configured(kind)
      PROVE ~ IsMissing(EntryOf(dir, kind))
              <=> \/ project.directories[dir] = "directory"
                  \/ /\ project.directories[dir] = "absent"
                     /\ project.config.paths[kind].written = "absent"
                     /\ ~ RequiredByDefault(kind)
  <2>1. project.directories[dir] \in {"absent", "file", "directory"}
    BY ProjectTyped, EntriesOfKind
  <2>2. MissingPathIsAllowed(EntryOf(dir, kind))
          <=> /\ project.config.paths[kind].written = "absent"
              /\ ~ RequiredByDefault(kind)
    BY DEF MissingPathIsAllowed, EntryOf, Origin
  <2>3. EntryOf(dir, kind).dir = dir
    BY DEF EntryOf
  <2> QED
    BY <2>1, <2>2, <2>3 DEF IsMissing
<1>2. Authored!DirectoriesExist
        <=> \A kind \in Kind : \A dir \in Authored!Configured(kind) :
              ~ IsMissing(EntryOf(dir, kind))
  BY <1>1, OneVocabulary DEF Authored!DirectoriesExist
<1> QED
  BY <1>2, EveryPathIsOfSomeKind

(* The candidates of a file are of the kinds through which it is reached.  *)
LEMMA SameKinds ==
  ASSUME project \in Projects, NEW file
  PROVE \A kind :
    kind \in Authored!KindsOf(file)
      <=> \E c \in UNION {CandidatesOf(e) : e \in EveryPath} :
            c.kind = kind /\ c.file = file
<1>1. ASSUME NEW kind \in Kind, NEW dir \in Authored!Configured(kind)
      PROVE (\E c \in CandidatesOf(EntryOf(dir, kind)) : c.file = file)
              <=> /\ project.directories[dir] = "directory"
                  /\ \E path \in project.listing[dir] :
                       /\ project.suffix[path] = SuffixOf(kind)
                       /\ project.file[path] = file
  <2> DEFINE entry == EntryOf(dir, kind)
  <2>1. entry.dir = dir /\ entry.kind = kind
    BY DEF EntryOf
  <2> HIDE DEF entry
  <2>2. \A path : path \in PathsOf(entry)
          <=> path \in project.listing[dir] /\ project.suffix[path] = SuffixOf(kind)
    BY <2>1 DEF PathsOf
  <2>3. CASE project.directories[dir] = "directory"
    <3>1. CandidatesOf(entry) =
            {[path |-> path, kind |-> entry.kind, file |-> project.file[path]] :
               path \in PathsOf(entry)}
      BY <2>1, <2>3 DEF CandidatesOf
    <3>2. (\E c \in CandidatesOf(entry) : c.file = file)
            <=> \E path \in PathsOf(entry) : project.file[path] = file
      <4>1. ASSUME NEW c \in CandidatesOf(entry), c.file = file
            PROVE \E path \in PathsOf(entry) : project.file[path] = file
        <5>1. PICK path \in PathsOf(entry) :
                c = [path |-> path, kind |-> entry.kind, file |-> project.file[path]]
          BY <3>1
        <5>2. c.file = project.file[path]
          BY <5>1
        <5> QED
          BY <4>1, <5>2
      <4>2. ASSUME NEW path \in PathsOf(entry), project.file[path] = file
            PROVE \E c \in CandidatesOf(entry) : c.file = file
        <5> DEFINE c == [path |-> path, kind |-> entry.kind,
                         file |-> project.file[path]]
        <5>1. c \in CandidatesOf(entry) /\ c.file = file
          BY <3>1, <4>2
        <5> QED
          BY <5>1
      <4> QED
        BY <4>1, <4>2
    <3> QED
      BY <2>2, <2>3, <3>2 DEF entry
  <2>4. CASE project.directories[dir] # "directory"
    <3>1. CandidatesOf(entry) = {}
      BY <2>1, <2>4 DEF CandidatesOf
    <3> QED
      BY <2>4, <3>1 DEF entry
  <2> QED
    BY <2>3, <2>4
<1>2. ASSUME NEW kind \in Kind, NEW dir \in Authored!Configured(kind),
             NEW c \in CandidatesOf(EntryOf(dir, kind))
      PROVE c.kind = kind
  <2>1. EntryOf(dir, kind).kind = kind
    BY DEF EntryOf
  <2> QED
    BY <1>2, <2>1 DEF CandidatesOf
<1>3. ASSUME NEW kind
      PROVE kind \in Authored!KindsOf(file)
              <=> /\ kind \in Kind
                  /\ \E dir \in Authored!Configured(kind) :
                       \E c \in CandidatesOf(EntryOf(dir, kind)) : c.file = file
  BY <1>1, OneVocabulary DEF Authored!KindsOf
<1>4. ASSUME NEW c
      PROVE c \in UNION {CandidatesOf(e) : e \in EveryPath}
              <=> \E kind \in Kind : \E dir \in Authored!Configured(kind) :
                    c \in CandidatesOf(EntryOf(dir, kind))
  BY EveryPathIsOfSomeKind
<1> QED
  BY <1>2, <1>3, <1>4

---------------------------------------------------------------------------
(* What does not change as long as what it is made of does not.            *)

(* What depends on the project only.                                     *)
LEMMA SameProject ==
  ASSUME project' = project
  PROVE /\ EveryPath' = EveryPath
        /\ \A e : CandidatesOf(e)' = CandidatesOf(e)
        /\ \A e : IsMissing(e)' <=> IsMissing(e)
        /\ \A file : EntriesIn(file)' = EntriesIn(file)
        /\ \A path : FileAt(path)' = FileAt(path)
        /\ \A path : ContentAt(path)' = ContentAt(path)
        /\ \A file, i : SoundAt(file, i)' <=> SoundAt(file, i)
        /\ \A file, i : ContractAt(file, i)' = ContractAt(file, i)
        /\ Authored!SoundConfig(project.config)' <=> Authored!SoundConfig(project.config)
<1>1. EveryPath' = EveryPath
  BY DEF EveryPath
<1>2. /\ \A e : CandidatesOf(e)' = CandidatesOf(e)
      /\ \A e : IsMissing(e)' <=> IsMissing(e)
  BY DEF CandidatesOf, PathsOf, IsMissing
<1>3. /\ \A file : EntriesIn(file)' = EntriesIn(file)
      /\ \A path : FileAt(path)' = FileAt(path)
      /\ \A path : ContentAt(path)' = ContentAt(path)
      /\ \A file, i : ContractAt(file, i)' = ContractAt(file, i)
  BY DEF EntriesIn, FileAt, ContentAt, ContractAt
<1>4. \A file, i : SoundAt(file, i)' <=> SoundAt(file, i)
  BY DEF SoundAt, EntriesIn
<1>5. Authored!SoundConfig(project.config)' <=> Authored!SoundConfig(project.config)
  OBVIOUS
<1> QED
  BY <1>1, <1>2, <1>3, <1>4, <1>5

(* The kinds of a file depend on the candidates only.                    *)
LEMMA SameKindsOfFiles ==
  ASSUME candidates' = candidates
  PROVE \A file : Ambiguous(file)' <=> Ambiguous(file)
BY DEF Ambiguous, CandidateKinds

(* What was read depends on the files that were and the one that is open.*)
LEMMA SameReading ==
  ASSUME UNCHANGED <<project, parsed, open>>
  PROVE \A file, i : IsRead(file, i)' <=> IsRead(file, i)
BY DEF IsRead, FileAt

(* Each part of the invariant depends on some variables only.            *)
LEMMA DiscoverInvStays ==
  ASSUME DiscoverInv, UNCHANGED <<project, candidates, toDiscover>>,
         Blamed(NoFile)' <=> Blamed(NoFile)
  PROVE DiscoverInv'
BY SameProject DEF DiscoverInv

(* Classification, on the files that were found.                         *)
LEMMA ClassifyInvStays ==
  ASSUME ClassifyInv, UNCHANGED <<project, candidates, classified, found>>
  PROVE ClassifyInv'
BY SameProject, SameKindsOfFiles DEF ClassifyInv

(* Parsing, on the files that were read.                                 *)
LEMMA ParseInvStays ==
  ASSUME ParseInv, UNCHANGED <<project, found, parsed, open, contracts>>
  PROVE ParseInv'
BY SameProject, SameReading DEF ParseInv, ContractPaths

(* The manifest, on the contracts and itself.                            *)
LEMMA ManifestInvStays ==
  ASSUME ManifestInv, UNCHANGED <<contracts, listed, manifest>>
  PROVE ManifestInv'
BY DEF ManifestInv

(* The blame, on all that can be wrong.                                  *)
LEMMA BlameInvStays ==
  ASSUME BlameInv, UNCHANGED <<project, candidates, classified, parsed, open,
                               contracts, listed, manifest, diagnostics>>
  PROVE BlameInv'
<1>1. \A file : IsWrong(file)' <=> IsWrong(file)
  BY SameProject, SameKindsOfFiles, SameReading DEF IsWrong
<1>2. \A file : Blamed(file)' <=> Blamed(file)
  BY DEF Blamed
<1> QED
  BY <1>1, <1>2 DEF BlameInv

(* Before anything is classified, read or listed nothing is wrong, and     *)
(* there is nothing to keep.                                               *)
LEMMA NothingYet ==
  /\ classified = {} /\ found = {} => ClassifyInv
  /\ open = Nothing /\ parsed = {} /\ contracts = <<>> => ParseInv
  /\ contracts = <<>> /\ listed = 0 /\ manifest = NoManifest => ManifestInv
  /\ classified = {} /\ parsed = {} /\ listed = 0 => \A file : ~ IsWrong(file)
<1>1. classified = {} /\ found = {} => ClassifyInv
  BY DEF ClassifyInv
<1>2. open = Nothing /\ parsed = {} /\ contracts = <<>> => ParseInv
  BY DEF ParseInv, IsRead
<1>3. contracts = <<>> /\ listed = 0 /\ manifest = NoManifest => ManifestInv
  BY DEF ManifestInv, NoManifest
<1>4. classified = {} /\ parsed = {} /\ listed = 0 => \A file : ~ IsWrong(file)
  BY DEF IsWrong, IsRead
<1> QED
  BY <1>1, <1>2, <1>3, <1>4

---------------------------------------------------------------------------
(* The configuration is loaded, and the directories are visited.           *)

(* A sound configuration leads to all of its directories.                *)
LEMMA LoadConfigKeepsInv ==
  ASSUME project \in Projects, Fresh, LoadConfig PROVE IInv'
<1> DEFINE codes == ConfigDiagnostics(project.config)
<1>1. /\ UNCHANGED <<project, candidates, classified, found, parsing, manifest,
                     listed>>
      /\ diagnostics' = Report(codes, NoFile)
      /\ project.config.file # "undecodable"
  BY DEF LoadConfig
<1>2. CASE codes # {}
  <2>1. stage' = "done" /\ exit' = "configuration_error"
    BY <1>2 DEF LoadConfig
  <2> QED
    BY <1>1, <2>1 DEF IInv
<1>3. CASE codes = {}
  <2>1. /\ stage' = "discover" /\ exit' = "none" /\ exit' # "configuration_error"
        /\ toDiscover' = ResourcePathEntries(project.config)
        /\ diagnostics' = {}
    BY <1>1, <1>3 DEF LoadConfig, Report, Fresh
  <2>2. /\ candidates' = <<>> /\ classified' = {} /\ found' = {}
        /\ open' = Nothing /\ parsed' = {} /\ contracts' = <<>>
        /\ listed' = 0 /\ manifest' = NoManifest
    BY <1>1 DEF Fresh, parsing
  <2>3. Authored!SoundConfig(project.config)
    BY <1>1, <1>3, ConfigJudged, ProjectTyped
  <2>4. StageInv'
    BY <1>1, <2>1, <2>2, <2>3, SameProject DEF StageInv
  <2>5. DiscoverInv'
    <3>1. toDiscover' \in Seq(PathEntry) /\ candidates' \in Seq(Candidate)
      BY <2>1, <2>2, EveryPathIsOfSomeKind
    <3>2. ItemsOf(toDiscover') = EveryPath /\ ItemsOf(candidates') = {}
      BY <2>1, <2>2, ItemsOfEmpty DEF EveryPath
    <3>3. ~ Blamed(NoFile)'
      BY <2>1 DEF Blamed
    <3>4. /\ ItemsOf(toDiscover)' = EveryPath' /\ ItemsOf(candidates)' = {}
      BY <1>1, <3>2, SameProject DEF ItemsOf
    <3> QED
      BY <3>1, <3>3, <3>4 DEF DiscoverInv
  <2>6. ClassifyInv' /\ ParseInv' /\ ManifestInv' /\ \A file : ~ IsWrong(file)'
    <3>1. NothingYet!:'
      BY NothingYet, PTL
    <3> QED
      BY <2>2, <3>1
  <2>7. BlameInv'
    BY <2>1, <2>6 DEF BlameInv, Blamed
  <2> QED
    BY <1>1, <2>1, <2>4, <2>5, <2>6, <2>7 DEF IInv, Running
<1> QED
  BY <1>2, <1>3

(* One directory more is visited: its candidates are no longer to come.    *)
LEMMA DiscoverPathKeepsInv ==
  ASSUME project \in Projects, Running, DiscoverPath PROVE Running'
<1> DEFINE entry == Head(toDiscover)
           paths == ResourceFiles(entry)
           more == [i \in DOMAIN paths |->
                      [path |-> paths[i], kind |-> entry.kind,
                       file |-> project.file[paths[i]]]]
           codes == Codes({<<"RESOURCE_PATH_NOT_FOUND",
                             \/ project.directories[entry.dir] = "file"
                             \/ ~ MissingPathIsAllowed(entry)>>})
<1>1. /\ stage = "discover" /\ toDiscover # <<>> /\ toDiscover' = Tail(toDiscover)
      /\ UNCHANGED <<project, stage, classified, found, parsing, ending>>
  BY DEF DiscoverPath
<1>2. UNCHANGED <<project, stage, classified, found, open, parsed, contracts,
                  manifest, listed, exit>>
  BY <1>1 DEF parsing, ending
<1>3. /\ classified = {} /\ found = {} /\ open = Nothing /\ parsed = {}
      /\ contracts = <<>> /\ listed = 0 /\ manifest = NoManifest
  BY <1>1 DEF Running, StageInv
<1>4. toDiscover \in Seq(PathEntry) /\ candidates \in Seq(Candidate)
  BY DEF Running, DiscoverInv
<1>5. /\ ItemsOf(toDiscover) = {entry} \cup ItemsOf(toDiscover')
      /\ entry \in PathEntry /\ toDiscover' \in Seq(PathEntry)
  BY <1>1, <1>4, ItemsOfHeadAndTail
<1>6. project.directories[entry.dir] \in {"absent", "file", "directory"}
  BY <1>5, ProjectTyped DEF PathEntry
<1>7. /\ paths = Sorted(PathsOf(entry))
      /\ PathsOf(entry) \subseteq Paths /\ PathsOf(entry) \subseteq Nat
      /\ IsFiniteSet(PathsOf(entry))
  <2>1. project.listing[entry.dir] \subseteq Paths
    BY <1>5, ProjectTyped DEF PathEntry
  <2>2. PathsOf(entry) \in SUBSET Paths
    BY <2>1 DEF PathsOf
  <2> QED
    BY <2>2, PathsAssumption, FS_Subset DEF ResourceFiles, PathsOf
<1>8. /\ more \in Seq(Candidate)
      /\ ItemsOf(more) = {[path |-> path, kind |-> entry.kind,
                           file |-> project.file[path]] : path \in PathsOf(entry)}
  <2> DEFINE n == Cardinality(PathsOf(entry))
             candidate(path) == [path |-> path, kind |-> entry.kind,
                                 file |-> project.file[path]]
  <2>1. n \in Nat /\ DOMAIN paths = 1..n /\ ItemsOf(paths) = PathsOf(entry)
    BY <1>7, SortedKeepsAll
  <2>2. \A path \in PathsOf(entry) : candidate(path) \in Candidate
    BY <1>5, <1>7, ProjectTyped DEF Candidate, PathEntry
  <2>3. /\ DOMAIN more = DOMAIN paths
        /\ \A i \in DOMAIN paths : more[i] = candidate(paths[i])
        /\ more = [i \in DOMAIN paths |-> more[i]]
    OBVIOUS
  <2>4. \A i \in DOMAIN paths : paths[i] \in PathsOf(entry)
    BY <2>1 DEF ItemsOf
  <2> HIDE DEF paths, more, n, candidate
  <2>5. more \in [1..n -> Candidate]
    BY <2>1, <2>2, <2>3, <2>4
  <2>6. more \in Seq(Candidate)
    BY <2>1, <2>5, FunctionIsSequence
  <2>7. ItemsOf(more) = {candidate(path) : path \in ItemsOf(paths)}
    BY <2>3 DEF ItemsOf
  <2> QED
    BY <2>1, <2>6, <2>7 DEF candidate, more
<1>9. /\ candidates' \in Seq(Candidate)
      /\ ItemsOf(candidates') = ItemsOf(candidates) \cup CandidatesOf(entry)
      /\ Blamed(NoFile)' <=> Blamed(NoFile) \/ IsMissing(entry)
      /\ \A file \in Files : Blamed(file)' <=> Blamed(file)
      /\ \A d \in diagnostics' : d \in diagnostics \/ d.file = NoFile
  <2>1. CASE project.directories[entry.dir] = "directory"
    <3>1. candidates' = candidates \o more /\ diagnostics' = diagnostics
      BY <2>1 DEF DiscoverPath
    <3>2. ~ IsMissing(entry)
      BY <2>1 DEF IsMissing
    <3>3. CandidatesOf(entry) = ItemsOf(more)
      BY <1>8, <2>1 DEF CandidatesOf
    <3>4. /\ candidates \o more \in Seq(Candidate)
          /\ ItemsOf(candidates \o more) = ItemsOf(candidates) \cup ItemsOf(more)
      <4> HIDE DEF more
      <4> QED
        BY <1>4, <1>8, ConcatProperties, ItemsOfConcat
    <3> QED
      BY <3>1, <3>2, <3>3, <3>4 DEF Blamed
  <2>2. CASE project.directories[entry.dir] # "directory"
    <3>1. /\ candidates' = candidates
          /\ diagnostics' = diagnostics \cup Report(codes, NoFile)
      BY <2>2 DEF DiscoverPath
    <3>2. CandidatesOf(entry) = {}
      BY <2>2 DEF CandidatesOf
    <3>3. codes # {} <=> IsMissing(entry)
      <4> DEFINE missing == \/ project.directories[entry.dir] = "file"
                            \/ ~ MissingPathIsAllowed(entry)
                 c == <<"RESOURCE_PATH_NOT_FOUND", missing>>
      <4>1. c[2] <=> missing
        OBVIOUS
      <4> HIDE DEF c
      <4>2. Codes({c}) # {} <=> missing
        BY <4>1 DEF Codes
      <4> QED
        BY <2>2, <4>2 DEF IsMissing, c
    <3> HIDE DEF codes
    <3>4. \A file : Blamed(file)' <=> Blamed(file) \/ (file = NoFile /\ codes # {})
      BY <3>1, ReportBlames
    <3>5. \A file \in Files : file # NoFile
      BY NoFileAssumption
    <3>6. \A d \in Report(codes, NoFile) : d.file = NoFile
      BY DEF Report
    <3> QED
      BY <1>4, <3>1, <3>2, <3>3, <3>4, <3>5, <3>6
  <2> QED
    BY <2>1, <2>2
<1> HIDE DEF entry, more, codes
<1>10. DiscoverInv'
  <2>1. ItemsOf(candidates') \cup UNION {CandidatesOf(e) : e \in ItemsOf(toDiscover')}
          = UNION {CandidatesOf(e) : e \in EveryPath}
    BY <1>5, <1>9 DEF Running, DiscoverInv
  <2>2. Blamed(NoFile)' \/ (\E e \in ItemsOf(toDiscover') : IsMissing(e))
          <=> \E e \in EveryPath : IsMissing(e)
    BY <1>5, <1>9 DEF Running, DiscoverInv
  <2>3. /\ ItemsOf(candidates)' = ItemsOf(candidates')
        /\ ItemsOf(toDiscover)' = ItemsOf(toDiscover')
    BY DEF ItemsOf
  <2> QED
    BY <1>2, <1>5, <1>9, <2>1, <2>2, <2>3, SameProject DEF DiscoverInv
<1>11. ClassifyInv' /\ ParseInv' /\ ManifestInv' /\ \A file : ~ IsWrong(file)'
  <2>1. NothingYet!:'
    BY NothingYet, PTL
  <2> QED
    BY <1>2, <1>3, <2>1
<1>12. BlameInv'
  <2>1. \A file : ~ IsWrong(file)
    BY <1>3, NothingYet
  <2>2. \A file \in Files : ~ Blamed(file)
    BY <2>1 DEF Running, BlameInv
  <2>3. \A d \in diagnostics' : d.file \in Files \cup {NoFile}
    BY <1>9 DEF Running, BlameInv
  <2> QED
    BY <1>9, <1>11, <2>2, <2>3 DEF BlameInv
<1>13. StageInv'
  BY <1>1, <1>2, <1>3, SameProject DEF Running, StageInv
<1> QED
  BY <1>2, <1>10, <1>11, <1>12, <1>13 DEF Running

(* With the last directory every candidate is known.                       *)
LEMMA AllDiscoveredKeepsInv ==
  ASSUME project \in Projects, Running, AllDiscovered PROVE Running'
<1>1. /\ stage = "discover" /\ stage' = "classify" /\ toDiscover = <<>>
      /\ UNCHANGED <<project, toDiscover, candidates, classified, found, open,
                     parsed, contracts, diagnostics, manifest, listed, exit>>
  BY DEF AllDiscovered, discovery, parsing, ending
<1>2. StageInv'
  BY <1>1, SameProject DEF Running, StageInv
<1> QED
  BY <1>1, <1>2, DiscoverInvStays, ClassifyInvStays, ParseInvStays,
     ManifestInvStays, BlameInvStays DEF Running, Blamed

---------------------------------------------------------------------------
(* The files are classified.                                               *)

(* Until the first file is read only files of several kinds are wrong.     *)
LEMMA OnlyKindsAreWrong ==
  parsed = {} /\ listed = 0 =>
    \A file : IsWrong(file) <=> file \in classified /\ Ambiguous(file)
BY DEF IsWrong, IsRead

(* The file that is looked at is one of those that were found.             *)
LEMMA FirstCandidateIsNew ==
  ASSUME candidates \in Seq(Candidate), Unclassified # {}
  PROVE /\ FirstCandidate \in ItemsOf(candidates)
        /\ FirstCandidate \in Candidate
        /\ FirstCandidate.file \notin classified
<1>1. DOMAIN candidates = 1..Len(candidates) /\ Len(candidates) \in Nat
  BY LenProperties
<1>2. Unclassified \in SUBSET Nat
  BY <1>1 DEF Unclassified
<1>3. Least(Unclassified) \in Unclassified
  BY <1>2, LeastIsLeast
<1>4. /\ Least(Unclassified) \in 1..Len(candidates)
      /\ FirstCandidate.file \notin classified
  BY <1>1, <1>3 DEF Unclassified, FirstCandidate
<1>5. FirstCandidate \in Candidate
  BY <1>4, ElementOfSeq DEF FirstCandidate
<1> QED
  BY <1>1, <1>4, <1>5 DEF ItemsOf, FirstCandidate

(* A file more is classified: it is known by a candidate or is blamed.   *)
LEMMA ClassifyFileKeepsInv ==
  ASSUME project \in Projects, Running, ClassifyFile PROVE Running'
<1> DEFINE first == FirstCandidate
           file == FirstCandidate.file
<1>1. /\ stage = "classify" /\ Unclassified # {}
      /\ classified' = classified \cup {file}
      /\ Ambiguous(file) \/ project.content[file].form # "unreadable"
      /\ UNCHANGED <<project, stage, toDiscover, candidates, parsing, ending>>
  BY DEF ClassifyFile
<1>2. UNCHANGED <<project, stage, toDiscover, candidates, open, parsed,
                  contracts, manifest, listed, exit>>
  BY <1>1 DEF parsing, ending
<1>3. /\ open = Nothing /\ parsed = {} /\ contracts = <<>>
      /\ listed = 0 /\ manifest = NoManifest
  BY <1>1 DEF Running, StageInv
<1>4. /\ first \in ItemsOf(candidates) /\ first \in Candidate
      /\ file \notin classified
  BY <1>1, FirstCandidateIsNew DEF Running, DiscoverInv
<1>5. file \in Files /\ file # NoFile /\ file = first.file
  BY <1>4, NoFileAssumption DEF Candidate
<1>6. \/ Ambiguous(file) /\ found' = found
      \/ ~ Ambiguous(file) /\ found' = found \cup {first}
  BY DEF ClassifyFile
<1>7. /\ \A f : Blamed(f)' <=> Blamed(f) \/ (f = file /\ Ambiguous(file))
      /\ \A d \in diagnostics' : d \in diagnostics \/ d.file = file
  <2>1. CASE Ambiguous(file)
    <3>1. diagnostics' = diagnostics \cup Report({"AMBIGUOUS_RESOURCE_FILE"}, file)
      BY <2>1 DEF ClassifyFile
    <3>2. \A d \in Report({"AMBIGUOUS_RESOURCE_FILE"}, file) : d.file = file
      BY DEF Report
    <3> QED
      BY <2>1, <3>1, <3>2, ReportBlames
  <2>2. CASE ~ Ambiguous(file)
    BY <2>2 DEF ClassifyFile, Blamed
  <2> QED
    BY <2>1, <2>2
<1> HIDE DEF file, first
<1>8. \A f : Ambiguous(f)' <=> Ambiguous(f)
  BY <1>2, SameKindsOfFiles
<1>9. ClassifyInv'
  <2>1. ItemsOf(candidates)' = ItemsOf(candidates)
    BY <1>2
  <2>2. /\ classified' \subseteq {c.file : c \in ItemsOf(candidates)}
        /\ found' \subseteq ItemsOf(candidates)
    BY <1>1, <1>4, <1>5, <1>6 DEF Running, ClassifyInv
  <2>3. \A r \in found' : /\ r.file \in classified' /\ ~ Ambiguous(r.file)
                          /\ project.content[r.file].form # "unreadable"
    BY <1>1, <1>5, <1>6 DEF Running, ClassifyInv
  <2>4. \A r, s \in found' : r.file = s.file => r = s
    BY <1>4, <1>5, <1>6 DEF Running, ClassifyInv
  <2>5. \A f \in classified' : Ambiguous(f) \/ \E r \in found' : r.file = f
    BY <1>1, <1>5, <1>6 DEF Running, ClassifyInv
  <2> QED
    BY <1>2, <1>8, <2>1, <2>2, <2>3, <2>4, <2>5 DEF ClassifyInv
<1>10. ParseInv' /\ ManifestInv'
  <2>1. NothingYet!:'
    BY NothingYet, PTL
  <2> QED
    BY <1>2, <1>3, <2>1
<1>11. BlameInv'
  <2>1. OnlyKindsAreWrong!:'
    BY OnlyKindsAreWrong, PTL
  <2>2. \A f : IsWrong(f)' <=> f \in classified' /\ Ambiguous(f)
    BY <1>2, <1>3, <1>8, <2>1
  <2>3. \A f \in Files : Blamed(f) <=> f \in classified /\ Ambiguous(f)
    BY <1>3, OnlyKindsAreWrong DEF Running, BlameInv
  <2>4. \A f \in Files : Blamed(f)' <=> IsWrong(f)'
    BY <1>1, <1>7, <2>2, <2>3
  <2>5. \A d \in diagnostics' : d.file \in Files \cup {NoFile}
    BY <1>5, <1>7 DEF Running, BlameInv
  <2> QED
    BY <2>4, <2>5 DEF BlameInv
<1>12. DiscoverInv'
  BY <1>2, <1>5, <1>7, DiscoverInvStays DEF Running
<1>13. StageInv'
  BY <1>1, <1>2, <1>3, SameProject DEF Running, StageInv
<1> QED
  BY <1>2, <1>9, <1>10, <1>11, <1>12, <1>13 DEF Running

(* With the last file every candidate is classified.                     *)
LEMMA AllClassifiedKeepsInv ==
  ASSUME project \in Projects, Running, AllClassified PROVE Running'
<1>1. /\ stage = "classify" /\ stage' = "parse" /\ Unclassified = {}
      /\ UNCHANGED <<project, toDiscover, candidates, classified, found, open,
                     parsed, contracts, diagnostics, manifest, listed, exit>>
  BY DEF AllClassified, discovery, parsing, ending
<1>2. Unclassified' = {}
  BY <1>1 DEF Unclassified
<1>3. StageInv'
  BY <1>1, <1>2, SameProject DEF Running, StageInv
<1> QED
  BY <1>1, <1>3, DiscoverInvStays, ClassifyInvStays, ParseInvStays,
     ManifestInvStays, BlameInvStays DEF Running, Blamed

---------------------------------------------------------------------------
(* The contract files are read.                                            *)

(* What the content of a file is.                                        *)
LEMMA ContentTyped ==
  ASSUME project \in Projects, NEW file \in Files
  PROVE /\ project.content[file] \in Content
        /\ EntriesIn(file) \in Seq(Entry)
        /\ Len(EntriesIn(file)) \in Nat
        /\ DOMAIN EntriesIn(file) = 1..Len(EntriesIn(file))
        /\ \A i \in DOMAIN EntriesIn(file) : EntriesIn(file)[i] \in Entry
<1>1. project.content[file] \in Content /\ EntriesIn(file) \in Seq(Entry)
  BY ProjectTyped DEF Content, EntriesIn
<1> QED
  BY <1>1, LenProperties, ElementOfSeq

(* No two paths of contract files lead to one file.                        *)
LEMMA ContractPathsApart ==
  ASSUME project \in Projects, DiscoverInv, ClassifyInv
  PROVE /\ ContractPaths \subseteq Paths /\ ContractPaths \subseteq Nat
        /\ \A r \in found : r \in Candidate /\ r.file = FileAt(r.path)
        /\ \A path \in ContractPaths :
             /\ FileAt(path) \in Files /\ FileAt(path) # NoFile
             /\ ContentAt(path) = project.content[FileAt(path)]
             /\ ContentAt(path).form # "unreadable"
        /\ \A p, q \in ContractPaths : FileAt(p) = FileAt(q) => p = q
<1>1. ASSUME NEW r \in found PROVE r \in Candidate /\ r.file = FileAt(r.path)
  <2>1. r \in ItemsOf(candidates)
    BY DEF ClassifyInv
  <2>2. r \in Candidate
    <3>1. PICK i \in DOMAIN candidates : r = candidates[i]
      BY <2>1 DEF ItemsOf
    <3> QED
      BY <3>1, ElementOfSeq, LenProperties DEF DiscoverInv
  <2>3. PICK e : r \in CandidatesOf(e)
    BY <2>1 DEF DiscoverInv
  <2>4. PICK path : r = [path |-> path, kind |-> e.kind, file |-> project.file[path]]
    BY <2>3 DEF CandidatesOf
  <2>5. r.path = path /\ r.file = project.file[path]
    BY <2>4
  <2> QED
    BY <2>2, <2>5 DEF FileAt
<1>2. ASSUME NEW path \in ContractPaths
      PROVE \E r \in found : r.path = path /\ r.file = FileAt(path)
                             /\ r \in Candidate
  BY <1>1 DEF ContractPaths
<1>3. ContractPaths \subseteq Paths /\ ContractPaths \subseteq Nat
  BY <1>2, PathsAssumption DEF Candidate
<1>4. \A path \in ContractPaths :
        /\ FileAt(path) \in Files /\ FileAt(path) # NoFile
        /\ ContentAt(path) = project.content[FileAt(path)]
        /\ ContentAt(path).form # "unreadable"
  BY <1>2, NoFileAssumption DEF Candidate, ContentAt, ClassifyInv
<1>5. \A p, q \in ContractPaths : FileAt(p) = FileAt(q) => p = q
  BY <1>2 DEF ClassifyInv
<1> QED
  BY <1>1, <1>3, <1>4, <1>5

(* An entry that lets no assertion fail has diagnostics if it is not sound.*)
LEMMA EndpointJudged ==
  ASSUME NEW end \in Endpoint
  PROVE EndpointDiagnostics(end) = {}
          <=> /\ end.value \in {"absent", "null", "good"}
              /\ end.value = "good" => end.connection /\ end.relation # end.query
<1> DEFINE badKeys == end.value = "bad_keys"
           bad == \/ end.value = "bad"
                  \/ /\ end.value = "good"
                     /\ ~ end.connection \/ end.relation = end.query
           c1 == <<"INVALID_CONTRACT", badKeys>>
           c2 == <<"INVALID_ENDPOINT", bad>>
<1>1. EndpointDiagnostics(end) = Codes({c1, c2})
  BY DEF EndpointDiagnostics
<1>2. (c1[2] <=> badKeys) /\ (c2[2] <=> bad)
  OBVIOUS
<1> HIDE DEF c1, c2
<1>3. EndpointDiagnostics(end) = {} <=> ~ badKeys /\ ~ bad
  BY <1>1, <1>2, TwoCodes
<1>4. end.value \in {"absent", "null", "bad", "good", "bad_keys"}
  BY DEF Endpoint, Value
<1> QED
  BY <1>3, <1>4

(* The same of a whole entry.                                            *)
LEMMA EntryJudged ==
  ASSUME NEW entry \in Entry, NEW content \in Content,
         ~ AssertionFails(entry, content)
  PROVE EntryDiagnostics(entry, content) = {}
          <=> Authored!SoundEntry(entry, content)
<1> DEFINE values == RequiredValues(entry, content)
           version == VersionOf(entry, content)
           missing == "absent" \in values
           wrong == \/ "bad" \in {version, entry.name, entry.checks}
                    \/ ~ entry.optional
           c1 == <<"UNKNOWN_FIELD", entry.unknown>>
           c2 == <<"MISSING_REQUIRED_FIELD", missing>>
           c3 == <<"INVALID_CONTRACT", wrong>>
           others == Codes({c1, c2, c3})
           ends == EndpointDiagnostics(entry.source)
                     \cup EndpointDiagnostics(entry.target)
<1>1. EntryDiagnostics(entry, content) =
        IF entry.shape # "mapping" THEN {"INVALID_CONTRACT"} ELSE ends \cup others
  BY DEF EntryDiagnostics
<1>2. /\ c1[2] <=> entry.unknown
      /\ c2[2] <=> missing
      /\ c3[2] <=> wrong
  BY DEF Entry
<1> HIDE DEF c1, c2, c3
<1>3. others = {} <=> ~ entry.unknown /\ ~ missing /\ ~ wrong
  BY <1>2, ThreeCodes
<1>4. entry.source \in Endpoint /\ entry.target \in Endpoint
  BY DEF Entry
<1>5. /\ EndpointDiagnostics(entry.source) = {}
           <=> /\ entry.source.value \in {"absent", "null", "good"}
               /\ entry.source.value = "good" =>
                    entry.source.connection /\ entry.source.relation # entry.source.query
      /\ EndpointDiagnostics(entry.target) = {}
           <=> /\ entry.target.value \in {"absent", "null", "good"}
               /\ entry.target.value = "good" =>
                    entry.target.connection /\ entry.target.relation # entry.target.query
  BY <1>4, EndpointJudged
<1>6. values = {version, entry.name, entry.source.value, entry.target.value,
                entry.checks}
  BY DEF RequiredValues
<1>7. /\ version \in Value /\ entry.name \in Value /\ entry.checks \in Value
      /\ version = "good"
           <=> \/ entry.version = "good"
               \/ /\ entry.version = "absent"
                  /\ content.form = "list" /\ content.version = "good"
  BY DEF VersionOf, Entry, Content, Value
<1>8. EntryDiagnostics(entry, content) # {} \/ "null" \notin values
  BY DEF AssertionFails
<1> HIDE DEF values, version, others
<1>9. EntryDiagnostics(entry, content) = {}
        <=> entry.shape = "mapping" /\ ends = {} /\ others = {}
  BY <1>1
<1>10. entry.source.value \in {"absent", "null", "good"} /\ "absent" \notin values
         /\ "null" \notin values => entry.source.value = "good"
  BY <1>6
<1>11. entry.target.value \in {"absent", "null", "good"} /\ "absent" \notin values
         /\ "null" \notin values => entry.target.value = "good"
  BY <1>6
<1>12. ~ missing /\ ~ wrong /\ "null" \notin values =>
         version = "good" /\ entry.name = "good" /\ entry.checks = "good"
  BY <1>6, <1>7 DEF Value
<1>13. ASSUME EntryDiagnostics(entry, content) = {}
       PROVE Authored!SoundEntry(entry, content)
  BY <1>3, <1>5, <1>7, <1>8, <1>9, <1>10, <1>11, <1>12, <1>13
     DEF Authored!SoundEntry, Authored!SoundEndpoint
<1>14. ASSUME Authored!SoundEntry(entry, content)
       PROVE EntryDiagnostics(entry, content) = {}
  BY <1>3, <1>5, <1>6, <1>7, <1>9, <1>14
     DEF Authored!SoundEntry, Authored!SoundEndpoint
<1> QED
  BY <1>13, <1>14

(* A file that can be read has diagnostics of its own if its form is wrong.*)
LEMMA ContentJudged ==
  ASSUME NEW content \in Content, content.form # "unreadable"
  PROVE ContentDiagnostics(content) = {}
          <=> /\ content.form \in {"single", "list"}
              /\ content.form = "list" => content.version # "bad"
<1> DEFINE wrong == \/ content.form \in {"not_mapping", "bad_keys", "mixed",
                                         "not_list"}
                    \/ content.form = "list" /\ content.version = "bad"
           c1 == <<"FILE_READ_ERROR", content.form = "undecodable">>
           c2 == <<"INVALID_YAML", content.form = "bad_yaml">>
           c3 == <<"INVALID_CONTRACT", wrong>>
<1>1. ContentDiagnostics(content) = Codes({c1, c2, c3})
  BY DEF ContentDiagnostics
<1>2. /\ c1[2] <=> content.form = "undecodable"
      /\ c2[2] <=> content.form = "bad_yaml"
      /\ c3[2] <=> wrong
  OBVIOUS
<1> HIDE DEF c1, c2, c3
<1>3. ContentDiagnostics(content) = {}
        <=> content.form \notin {"undecodable", "bad_yaml"} /\ ~ wrong
  BY <1>1, <1>2, ThreeCodes
<1>4. content.form \in {"unreadable", "undecodable", "bad_yaml", "not_mapping",
                        "bad_keys", "single", "mixed", "not_list", "list"}
  BY DEF Content
<1> QED
  BY <1>3, <1>4

(* What has been read changes by the entry that is read, and by nothing    *)
(* else: opening and closing a file changes none of it.                    *)
ReadingKept(file, index) ==
  \A f \in Files : \A i \in DOMAIN EntriesIn(f) :
    IsRead(f, i)' <=> IsRead(f, i) \/ (f = file /\ i = index)

(* How far the parser got.                                                 *)
Opened ==
  \/ open = Nothing
  \/ /\ open \in [path : parsed, next : Nat \ {0}]
     /\ open.next <= Len(EntriesIn(FileAt(open.path))) + 1
     /\ ContentAt(open.path).form \in {"single", "list"}

(* No path is that of Nothing.                                           *)
LEMMA NothingIsOpen == open = Nothing => open.path \notin Nat
BY DEF Nothing

(* A file is opened: its form is judged, none of its entries is read.    *)
LEMMA ParseFileKeepsInv ==
  ASSUME project \in Projects, Running, ParseFile PROVE Running'
<1> DEFINE path == Least(Unparsed)
           file == FileAt(path)
           codes == ContentDiagnostics(ContentAt(path))
<1>1. /\ stage = "parse" /\ open = Nothing /\ Unparsed # {}
      /\ parsed' = parsed \cup {path}
      /\ diagnostics' = diagnostics \cup Report(codes, file)
      /\ open' = IF ContentAt(path).form \in {"single", "list"}
                   THEN [path |-> path, next |-> 1] ELSE Nothing
      /\ UNCHANGED <<project, stage, discovery, contracts, ending>>
  BY DEF ParseFile
<1>2. UNCHANGED <<project, stage, toDiscover, candidates, classified, found,
                  contracts, manifest, listed, exit>>
  BY <1>1 DEF discovery, ending
<1>3. /\ ContractPaths \subseteq Nat
      /\ \A p \in ContractPaths :
           /\ FileAt(p) \in Files /\ FileAt(p) # NoFile
           /\ ContentAt(p) = project.content[FileAt(p)]
      /\ \A p, q \in ContractPaths : FileAt(p) = FileAt(q) => p = q
      /\ parsed \subseteq ContractPaths
  BY ContractPathsApart DEF Running, ParseInv
<1>4. path \in ContractPaths /\ path \notin parsed
  <2>1. Unparsed \in SUBSET Nat /\ Unparsed = ContractPaths \ parsed
    BY <1>3 DEF Unparsed, ContractPaths
  <2>2. path \in Unparsed
    BY <1>1, <2>1, LeastIsLeast
  <2> QED
    BY <2>1, <2>2
<1>5. /\ path \in Nat /\ file \in Files /\ file # NoFile
      /\ ContentAt(path) = project.content[file]
      /\ \A p \in parsed : FileAt(p) # file
  BY <1>3, <1>4
<1> HIDE DEF path, codes
<1>6. listed = 0
  BY <1>1 DEF Running, StageInv
<1>7. ASSUME NEW f \in Files, NEW i \in DOMAIN EntriesIn(f)
      PROVE IsRead(f, i)' <=> IsRead(f, i)
  <2>1. i \in Nat /\ ~ i < 1
    BY ContentTyped
  <2>2. ~ \E p \in {path} : /\ FileAt(p) = f
                            /\ project.content[f].form \in {"single", "list"}
                            /\ p = open'.path => i < open'.next
    BY <1>1, <1>5, <2>1
  <2>3. \A p \in parsed : p # open.path /\ p # open'.path
    BY <1>1, <1>3, <1>4, NothingIsOpen DEF Nothing
  <2>4. \A p : FileAt(p)' = FileAt(p)
    BY <1>2, SameProject
  <2>5. IsRead(f, i)' <=>
          \E p \in parsed' : /\ FileAt(p) = f
                             /\ project.content[f].form \in {"single", "list"}
                             /\ p = open'.path => i < open'.next
    BY <1>2, <2>4 DEF IsRead
  <2>6. IsRead(f, i) <=>
          \E p \in parsed : /\ FileAt(p) = f
                            /\ project.content[f].form \in {"single", "list"}
    BY <2>3 DEF IsRead
  <2> QED
    BY <1>1, <2>2, <2>3, <2>5, <2>6
<1>8. ParseInv'
  <2>1. parsed' \subseteq ContractPaths' /\ ContractPaths' = ContractPaths
    BY <1>1, <1>2, <1>3, <1>4 DEF ContractPaths
  <2>2. \/ open' = Nothing
        \/ /\ open' \in [path : parsed', next : Nat \ {0}]
           /\ open'.next <= Len(EntriesIn(FileAt(open'.path))) + 1
           /\ ContentAt(open'.path).form \in {"single", "list"}
    <3>1. CASE ContentAt(path).form \in {"single", "list"}
      <4>1. /\ open' = [path |-> path, next |-> 1]
            /\ open'.path = path /\ open'.next = 1
        BY <1>1, <3>1
      <4>2. open' \in [path : parsed', next : Nat \ {0}]
        BY <1>1, <4>1
      <4>3. Len(EntriesIn(FileAt(path))) \in Nat
        BY <1>5, ContentTyped
      <4>4. 1 <= Len(EntriesIn(FileAt(path))) + 1
        BY <4>3
      <4> QED
        BY <3>1, <4>1, <4>2, <4>4
    <3>2. CASE ContentAt(path).form \notin {"single", "list"}
      BY <1>1, <3>2
    <3> QED
      BY <3>1, <3>2
  <2>3. Opened'
    <3>1. /\ \A f : EntriesIn(f)' = EntriesIn(f)
          /\ \A p : FileAt(p)' = FileAt(p) /\ ContentAt(p)' = ContentAt(p)
      BY <1>2, SameProject
    <3> QED
      BY <1>2, <2>2, <3>1 DEF Opened, EntriesIn, FileAt, ContentAt
  <2> QED
    BY <1>2, <1>7, <2>1, <2>3, SameProject DEF Running, ParseInv, Opened
<1>9. \A f : Blamed(f)' <=> Blamed(f) \/ (f = file /\ codes # {})
  BY <1>1, ReportBlames
<1>10. BlameInv'
  <2>1. ASSUME NEW f \in Files PROVE Blamed(f)' <=> IsWrong(f)'
    <3>1. Blamed(f) <=> IsWrong(f)
      BY DEF Running, BlameInv
    <3>2. (\E p \in parsed' : FileAt(p) = f)
            <=> (\E p \in parsed : FileAt(p) = f) \/ f = file
      BY <1>1
    <3>3. IsWrong(f)' <=>
            \/ f \in classified /\ Ambiguous(f)
            \/ /\ \E p \in parsed' : FileAt(p) = f
               /\ ContentDiagnostics(project.content[f]) # {}
            \/ \E i \in DOMAIN EntriesIn(f) : IsRead(f, i) /\ ~ SoundAt(f, i)
            \/ \E n \in 1..listed : /\ contracts[n].place[1] = f
                                    /\ manifest[contracts[n].name] # contracts[n].place
      BY <1>2, <1>7, SameProject, SameKindsOfFiles DEF IsWrong
    <3>4. f = file => ContentDiagnostics(project.content[f]) = codes
      BY <1>5 DEF codes
    <3> QED
      BY <1>9, <3>1, <3>2, <3>3, <3>4 DEF IsWrong
  <2>2. \A d \in diagnostics' : d.file \in Files \cup {NoFile}
    <3>1. \A d \in Report(codes, file) : d.file = file
      BY DEF Report
    <3> QED
      BY <1>1, <1>5, <3>1 DEF Running, BlameInv
  <2> QED
    BY <2>1, <2>2 DEF BlameInv
<1>11. DiscoverInv' /\ ClassifyInv' /\ ManifestInv'
  BY <1>2, <1>5, <1>9, DiscoverInvStays, ClassifyInvStays, ManifestInvStays
     DEF Running
<1>12. StageInv'
  <2>1. Unclassified' = Unclassified
    BY <1>2 DEF Unclassified
  <2> QED
    BY <1>1, <1>2, <2>1, SameProject DEF Running, StageInv
<1> QED
  BY <1>2, <1>8, <1>10, <1>11, <1>12 DEF Running

(* An entry more is read: it gives a contract, or blames its file.       *)
LEMMA ParseEntryKeepsInv ==
  ASSUME project \in Projects, Running, ParseEntry PROVE Running'
<1> DEFINE file == FileAt(open.path)
           index == open.next
           codes == EntryDiagnostics(OpenEntry, OpenContent)
           contract == ContractAt(file, index)
<1>1. /\ stage = "parse" /\ EntryIsOpen
      /\ ~ AssertionFails(OpenEntry, OpenContent)
      /\ diagnostics' = diagnostics \cup Report(codes, file)
      /\ open' = [open EXCEPT !.next = index + 1]
      /\ UNCHANGED <<project, stage, discovery, parsed, ending>>
  BY DEF ParseEntry
<1>2. UNCHANGED <<project, stage, toDiscover, candidates, classified, found,
                  parsed, manifest, listed, exit>>
  BY <1>1 DEF discovery, ending
<1>3. open # Nothing /\ open \in [path : parsed, next : Nat \ {0}]
  BY <1>1 DEF EntryIsOpen, Running, ParseInv
<1>4. /\ open.path \in parsed /\ index \in Nat \ {0}
      /\ open' = [path |-> open.path, next |-> index + 1]
      /\ open'.path = open.path /\ open'.next = index + 1
  BY <1>1, <1>3
<1>5. /\ ContractPaths \subseteq Nat
      /\ \A p \in ContractPaths :
           /\ FileAt(p) \in Files /\ FileAt(p) # NoFile
           /\ ContentAt(p) = project.content[FileAt(p)]
      /\ \A p, q \in ContractPaths : FileAt(p) = FileAt(q) => p = q
      /\ parsed \subseteq ContractPaths
  BY ContractPathsApart DEF Running, ParseInv
<1>6. /\ file \in Files /\ file # NoFile /\ OpenContent = project.content[file]
      /\ OpenContent.form \in {"single", "list"}
      /\ \A p \in parsed : FileAt(p) = file => p = open.path
  <2>1. ContentAt(open.path).form \in {"single", "list"}
    BY <1>3 DEF Running, ParseInv
  <2> QED
    BY <1>4, <1>5, <2>1 DEF OpenContent
<1>7. /\ index \in DOMAIN EntriesIn(file) /\ OpenEntry = EntriesIn(file)[index]
      /\ OpenEntry \in Entry /\ OpenContent \in Content
      /\ Len(EntriesIn(file)) \in Nat /\ index <= Len(EntriesIn(file))
  <2>1. index \in DOMAIN EntriesIn(file) /\ OpenEntry = EntriesIn(file)[index]
    BY <1>1, <1>6 DEF EntryIsOpen, OpenEntry, EntriesIn
  <2> QED
    BY <1>6, <2>1, ContentTyped
<1>8. codes = {} <=> SoundAt(file, index)
  BY <1>1, <1>6, <1>7, EntryJudged DEF SoundAt
<1>9. listed = 0
  BY <1>1 DEF Running, StageInv
<1> HIDE DEF codes
<1>10. \/ SoundAt(file, index) /\ contracts' = Append(contracts, contract)
       \/ ~ SoundAt(file, index) /\ contracts' = contracts
  BY <1>7, <1>8 DEF ParseEntry, codes, ContractAt
<1>11. ReadingKept(file, index) /\ ~ IsRead(file, index)
  <2>1. ~ IsRead(file, index)
    BY <1>4, <1>6 DEF IsRead
  <2>2. ASSUME NEW f \in Files, NEW i \in DOMAIN EntriesIn(f)
        PROVE IsRead(f, i)' <=> IsRead(f, i) \/ (f = file /\ i = index)
    <3>1. i \in Nat /\ (i < index + 1 <=> i < index \/ i = index)
      BY <1>4, ContentTyped
    <3>2. \A p : FileAt(p)' = FileAt(p)
      BY <1>2, SameProject
    <3>3. IsRead(f, i)' <=>
            \E p \in parsed : /\ FileAt(p) = f
                              /\ project.content[f].form \in {"single", "list"}
                              /\ p = open.path => i < index + 1
      BY <1>2, <1>4, <3>2 DEF IsRead
    <3>4. CASE f = file
      <4>1. IsRead(f, i)' <=> i < index + 1
        BY <1>4, <1>6, <3>3, <3>4
      <4>2. IsRead(f, i) <=> i < index
        BY <1>4, <1>6, <3>4 DEF IsRead
      <4> QED
        BY <3>1, <3>4, <4>1, <4>2
    <3>5. CASE f # file
      BY <3>3, <3>5 DEF IsRead
    <3> QED
      BY <3>4, <3>5
  <2> QED
    BY <2>1, <2>2 DEF ReadingKept
<1> HIDE DEF file, index
<1>12. ParseInv'
  <2> DEFINE kept == [name : STRING, place : Files \X Nat]
  <2>1. contract \in kept
    BY <1>4, <1>6, <1>7 DEF ContractAt, Entry, index
  <2>2. contract.place = <<file, index>>
    BY DEF ContractAt
  <2>3. contracts \in Seq(kept)
    BY DEF Running, ParseInv
  <2> HIDE DEF contract, kept
  <2>4. /\ contracts' \in Seq(kept)
        /\ Len(contracts) \in Nat /\ DOMAIN contracts = 1..Len(contracts)
        /\ \A n \in DOMAIN contracts :
             n \in DOMAIN contracts' /\ contracts'[n] = contracts[n]
        /\ \A n \in DOMAIN contracts' :
             \/ n \in DOMAIN contracts
             \/ /\ SoundAt(file, index) /\ n = Len(contracts) + 1
                /\ contracts'[n] = contract
        /\ SoundAt(file, index) =>
             \E n \in DOMAIN contracts' : contracts'[n] = contract
    <3>1. CASE SoundAt(file, index)
      <4>1. contracts' = Append(contracts, contract)
        BY <1>10, <3>1
      <4>2. /\ Append(contracts, contract) \in Seq(kept)
            /\ Len(contracts) \in Nat /\ DOMAIN contracts = 1..Len(contracts)
            /\ DOMAIN Append(contracts, contract) = 1..(Len(contracts) + 1)
            /\ \A n \in DOMAIN contracts :
                 Append(contracts, contract)[n] = contracts[n]
            /\ Append(contracts, contract)[Len(contracts) + 1] = contract
        BY <2>1, <2>3, OneMoreItem
      <4> QED
        BY <3>1, <4>1, <4>2
    <3>2. CASE ~ SoundAt(file, index)
      <4>1. contracts' = contracts
        BY <1>10, <3>2
      <4> QED
        BY <2>3, <3>2, <4>1, LenProperties
    <3> QED
      BY <3>1, <3>2
  <2>5. ASSUME NEW n \in DOMAIN contracts PROVE contracts[n].place # contract.place
    <3>1. PICK f \in Files : \E i \in DOMAIN EntriesIn(f) :
            IsRead(f, i) /\ contracts[n] = ContractAt(f, i)
      BY DEF Running, ParseInv
    <3>2. PICK i \in DOMAIN EntriesIn(f) :
            IsRead(f, i) /\ contracts[n] = ContractAt(f, i)
      BY <3>1
    <3>3. contracts[n].place = <<f, i>>
      BY <3>2 DEF ContractAt
    <3> QED
      BY <1>11, <2>2, <3>2, <3>3
  <2>6. \A i, j \in DOMAIN contracts' :
          contracts'[i].place = contracts'[j].place => i = j
    <3> SUFFICES ASSUME NEW i \in DOMAIN contracts', NEW j \in DOMAIN contracts',
                        contracts'[i].place = contracts'[j].place
                 PROVE i = j
      OBVIOUS
    <3>1. CASE i \in DOMAIN contracts /\ j \in DOMAIN contracts
      BY <2>4, <3>1 DEF Running, ParseInv
    <3>2. CASE i \notin DOMAIN contracts /\ j \notin DOMAIN contracts
      BY <2>4, <3>2
    <3>3. CASE i \in DOMAIN contracts /\ j \notin DOMAIN contracts
      BY <2>4, <2>5, <3>3
    <3>4. CASE i \notin DOMAIN contracts /\ j \in DOMAIN contracts
      BY <2>4, <2>5, <3>4
    <3> QED
      BY <3>1, <3>2, <3>3, <3>4
  <2>7. ASSUME NEW n \in DOMAIN contracts'
        PROVE \E f \in Files : \E i \in DOMAIN EntriesIn(f) :
                IsRead(f, i)' /\ SoundAt(f, i) /\ contracts'[n] = ContractAt(f, i)
    <3>1. CASE n \in DOMAIN contracts
      <4>1. PICK f \in Files : \E i \in DOMAIN EntriesIn(f) :
              IsRead(f, i) /\ SoundAt(f, i) /\ contracts[n] = ContractAt(f, i)
        BY <3>1 DEF Running, ParseInv
      <4>2. PICK i \in DOMAIN EntriesIn(f) :
              IsRead(f, i) /\ SoundAt(f, i) /\ contracts[n] = ContractAt(f, i)
        BY <4>1
      <4>3. IsRead(f, i)' /\ contracts'[n] = contracts[n]
        BY <1>11, <2>4, <3>1, <4>2 DEF ReadingKept
      <4> QED
        BY <4>2, <4>3
    <3>2. CASE n \notin DOMAIN contracts
      <4>1. SoundAt(file, index) /\ contracts'[n] = ContractAt(file, index)
        BY <2>4, <3>2 DEF contract
      <4>2. PICK f \in Files : f = file
        BY <1>6
      <4>3. PICK i \in DOMAIN EntriesIn(f) : i = index
        BY <1>7, <4>2
      <4>4. IsRead(f, i)'
        BY <1>11, <4>2, <4>3 DEF ReadingKept
      <4> QED
        BY <4>1, <4>2, <4>3, <4>4
    <3> QED
      BY <3>1, <3>2
  <2>8. ASSUME NEW f \in Files, NEW i \in DOMAIN EntriesIn(f),
               IsRead(f, i)', SoundAt(f, i)
        PROVE \E n \in DOMAIN contracts' : contracts'[n] = ContractAt(f, i)
    <3>1. CASE IsRead(f, i)
      <4>1. PICK n \in DOMAIN contracts : contracts[n] = ContractAt(f, i)
        BY <2>8, <3>1 DEF Running, ParseInv
      <4> QED
        BY <2>4, <4>1
    <3>2. CASE ~ IsRead(f, i)
      <4>1. f = file /\ i = index
        BY <1>11, <2>8, <3>2 DEF ReadingKept
      <4> QED
        BY <2>4, <2>8, <4>1 DEF contract
    <3> QED
      BY <3>1, <3>2
  <2>9. parsed' \subseteq ContractPaths'
    BY <1>2, <1>5 DEF ContractPaths
  <2>10. Opened'
    <3>1. open' \in [path : parsed', next : Nat \ {0}]
      BY <1>2, <1>4
    <3>2. open'.next <= Len(EntriesIn(file)) + 1
      BY <1>4, <1>7
    <3>3. FileAt(open'.path) = file /\ ContentAt(open'.path) = OpenContent
      BY <1>4 DEF file, OpenContent
    <3>4. /\ open'.next <= Len(EntriesIn(FileAt(open'.path))) + 1
          /\ ContentAt(open'.path).form \in {"single", "list"}
      BY <1>6, <3>2, <3>3
    <3> QED
      BY <1>2, <3>1, <3>4 DEF Opened, EntriesIn, FileAt, ContentAt
  <2>11. /\ \A f : EntriesIn(f)' = EntriesIn(f)
         /\ \A f, i : SoundAt(f, i)' <=> SoundAt(f, i)
         /\ \A f, i : ContractAt(f, i)' = ContractAt(f, i)
    BY <1>2, SameProject
  <2> QED
    BY <2>4, <2>6, <2>7, <2>8, <2>9, <2>10, <2>11 DEF ParseInv, Opened, kept
<1>13. \A f : Blamed(f)' <=> Blamed(f) \/ (f = file /\ codes # {})
  BY <1>1, ReportBlames DEF file
<1>14. BlameInv'
  <2>1. ASSUME NEW f \in Files PROVE Blamed(f)' <=> IsWrong(f)'
    <3>1. Blamed(f) <=> IsWrong(f)
      BY DEF Running, BlameInv
    <3>2. IsWrong(f)' <=>
            \/ f \in classified /\ Ambiguous(f)
            \/ /\ \E p \in parsed : FileAt(p) = f
               /\ ContentDiagnostics(project.content[f]) # {}
            \/ \E i \in DOMAIN EntriesIn(f) : IsRead(f, i)' /\ ~ SoundAt(f, i)
      BY <1>2, <1>9, SameProject, SameKindsOfFiles DEF IsWrong
    <3>3. IsWrong(f) <=>
            \/ f \in classified /\ Ambiguous(f)
            \/ /\ \E p \in parsed : FileAt(p) = f
               /\ ContentDiagnostics(project.content[f]) # {}
            \/ \E i \in DOMAIN EntriesIn(f) : IsRead(f, i) /\ ~ SoundAt(f, i)
      BY <1>9 DEF IsWrong
    <3>4. (\E i \in DOMAIN EntriesIn(f) : IsRead(f, i)' /\ ~ SoundAt(f, i))
            <=> \/ \E i \in DOMAIN EntriesIn(f) : IsRead(f, i) /\ ~ SoundAt(f, i)
                \/ f = file /\ ~ SoundAt(file, index)
      BY <1>7, <1>11 DEF ReadingKept
    <3> QED
      BY <1>8, <1>13, <3>1, <3>2, <3>3, <3>4
  <2>2. \A d \in diagnostics' : d.file \in Files \cup {NoFile}
    <3>1. \A d \in Report(codes, file) : d.file = file
      BY DEF Report
    <3> QED
      BY <1>1, <1>6, <3>1 DEF Running, BlameInv, file
  <2> QED
    BY <2>1, <2>2 DEF BlameInv
<1>15. DiscoverInv' /\ ClassifyInv'
  BY <1>2, <1>6, <1>13, DiscoverInvStays, ClassifyInvStays DEF Running
<1>16. ManifestInv'
  <2>1. /\ listed' = 0 /\ manifest' = NoManifest /\ manifest = NoManifest
    BY <1>1, <1>2, <1>9 DEF Running, StageInv
  <2>2. Len(contracts') \in Nat
    <3>1. ParseInv' => contracts' \in Seq([name : STRING, place : Files \X Nat])
      BY DEF ParseInv
    <3> QED
      BY <1>12, <3>1, LenProperties
  <2> QED
    BY <2>1, <2>2 DEF ManifestInv, NoManifest
<1>17. StageInv'
  <2>1. Unclassified' = Unclassified
    BY <1>2 DEF Unclassified
  <2> QED
    BY <1>1, <1>2, <2>1, SameProject DEF Running, StageInv
<1> QED
  BY <1>2, <1>12, <1>14, <1>15, <1>16, <1>17 DEF Running

(* A file is done when all of its entries are read.                        *)
LEMMA FileParsedKeepsInv ==
  ASSUME project \in Projects, Running, FileParsed PROVE Running'
<1>1. /\ stage = "parse" /\ open # Nothing /\ ~ EntryIsOpen /\ open' = Nothing
      /\ UNCHANGED <<project, stage, toDiscover, candidates, classified, found,
                     parsed, contracts, diagnostics, manifest, listed, exit>>
  BY DEF FileParsed, discovery, ending
<1>2. /\ open.path \in parsed /\ open.next \in Nat \ {0}
      /\ open.next <= Len(EntriesIn(FileAt(open.path))) + 1
  BY <1>1 DEF Running, ParseInv
<1>3. /\ parsed \subseteq ContractPaths /\ ContractPaths \subseteq Nat
      /\ \A p \in parsed : FileAt(p) \in Files
      /\ ContentAt(open.path) = project.content[FileAt(open.path)]
  BY <1>2, ContractPathsApart DEF Running, ParseInv
<1>4. open.next \notin DOMAIN EntriesIn(FileAt(open.path))
  BY <1>1, <1>3 DEF EntryIsOpen, OpenContent, EntriesIn
<1>5. ASSUME NEW f \in Files, NEW i \in DOMAIN EntriesIn(f)
      PROVE IsRead(f, i)' <=> IsRead(f, i)
  <2>1. /\ Len(EntriesIn(f)) \in Nat
        /\ DOMAIN EntriesIn(f) = 1..Len(EntriesIn(f)) /\ i \in Nat
    BY ContentTyped
  <2>2. FileAt(open.path) = f => i < open.next
    BY <1>2, <1>4, <2>1
  <2>3. \A p \in parsed : p # open'.path
    BY <1>1, <1>3 DEF Nothing
  <2>4. \A p : FileAt(p)' = FileAt(p)
    BY <1>1, SameProject
  <2>5. IsRead(f, i)' <=>
          \E p \in parsed : /\ FileAt(p) = f
                            /\ project.content[f].form \in {"single", "list"}
    BY <1>1, <2>3, <2>4 DEF IsRead
  <2> QED
    BY <2>2, <2>5 DEF IsRead
<1>6. ParseInv'
  <2>1. ContractPaths' = ContractPaths
    BY <1>1 DEF ContractPaths
  <2> QED
    BY <1>1, <1>5, <2>1, SameProject DEF Running, ParseInv
<1>7. \A f \in Files : IsWrong(f)' <=> IsWrong(f)
  BY <1>1, <1>5, SameProject, SameKindsOfFiles DEF IsWrong
<1>8. \A f : Blamed(f)' <=> Blamed(f)
  BY <1>1 DEF Blamed
<1>9. BlameInv'
  BY <1>1, <1>7, <1>8 DEF Running, BlameInv
<1>10. StageInv'
  <2>1. Unclassified' = Unclassified
    BY <1>1 DEF Unclassified
  <2> QED
    BY <1>1, <2>1, SameProject DEF Running, StageInv
<1> QED
  BY <1>1, <1>6, <1>8, <1>9, <1>10, DiscoverInvStays, ClassifyInvStays,
     ManifestInvStays DEF Running

(* With the last file every contract file was read.                      *)
LEMMA AllParsedKeepsInv ==
  ASSUME project \in Projects, Running, AllParsed PROVE Running'
<1>1. /\ stage = "parse" /\ stage' = "manifest" /\ open = Nothing /\ Unparsed = {}
      /\ UNCHANGED <<project, toDiscover, candidates, classified, found, open,
                     parsed, contracts, diagnostics, manifest, listed, exit>>
  BY DEF AllParsed, discovery, parsing, ending
<1>2. Unclassified' = Unclassified /\ Unparsed' = {}
  BY <1>1 DEF Unclassified, Unparsed
<1>3. StageInv'
  BY <1>1, <1>2, SameProject DEF Running, StageInv
<1> QED
  BY <1>1, <1>3, DiscoverInvStays, ClassifyInvStays, ParseInvStays,
     ManifestInvStays, BlameInvStays DEF Running, Blamed

---------------------------------------------------------------------------
(* The manifest is built.                                                  *)

(* One contract more is listed: it is the first of its name, or its file   *)
(* is blamed for it.                                                       *)
LEMMA AddContractKeepsInv ==
  ASSUME project \in Projects, Running, AddContract PROVE Running'
<1> DEFINE n == listed + 1
           contract == contracts[listed + 1]
           again == contract.name \in DOMAIN manifest
           file == contract.place[1]
<1>1. /\ stage = "manifest" /\ listed < Len(contracts) /\ listed' = listed + 1
      /\ UNCHANGED <<project, stage, toDiscover, candidates, classified, found,
                     open, parsed, contracts, exit>>
  BY DEF AddContract, discovery, parsing
<1>2. /\ contracts \in Seq([name : STRING, place : Files \X Nat])
      /\ Len(contracts) \in Nat /\ DOMAIN contracts = 1..Len(contracts)
  BY LenProperties DEF Running, ParseInv
<1>3. /\ listed \in Nat /\ n \in DOMAIN contracts
      /\ \A m \in 1..listed : m \in DOMAIN contracts /\ m # n
      /\ 1..(listed + 1) = 1..listed \cup {n}
  BY <1>1, <1>2 DEF Running, ManifestInv
<1>4. contract \in [name : STRING, place : Files \X Nat]
  BY <1>2, <1>3, ElementOfSeq
<1>5. file \in Files /\ file # NoFile
  BY <1>4, NoFileAssumption
<1>6. /\ DOMAIN manifest = {contracts[m].name : m \in 1..listed}
      /\ \A name \in DOMAIN manifest : \E m \in 1..listed :
           contracts[m] = [name |-> name, place |-> manifest[name]]
  BY DEF Running, ManifestInv
<1>7. /\ again => /\ manifest' = manifest
                  /\ diagnostics' = diagnostics \cup
                                      Report({"DUPLICATE_CONTRACT"}, file)
      /\ ~ again => /\ diagnostics' = diagnostics
                    /\ manifest' =
                         [name \in DOMAIN manifest \cup {contract.name} |->
                            IF name = contract.name
                              THEN contract.place ELSE manifest[name]]
  BY DEF AddContract
<1>8. /\ \A f : Blamed(f)' <=> Blamed(f) \/ (f = file /\ again)
      /\ \A d \in diagnostics' : d \in diagnostics \/ d.file = file
  <2>1. CASE again
    <3>1. diagnostics' = diagnostics \cup Report({"DUPLICATE_CONTRACT"}, file)
      BY <1>7, <2>1
    <3>2. \A d \in Report({"DUPLICATE_CONTRACT"}, file) : d.file = file
      BY DEF Report
    <3> HIDE DEF again, file
    <3> QED
      BY <2>1, <3>1, <3>2, ReportBlames
  <2>2. CASE ~ again
    BY <1>7, <2>2 DEF Blamed
  <2> QED
    BY <2>1, <2>2
<1>9. again => manifest[contract.name] # contract.place
  <2> SUFFICES ASSUME again, manifest[contract.name] = contract.place PROVE FALSE
    OBVIOUS
  <2>1. PICK m \in 1..listed :
          contracts[m] = [name |-> contract.name, place |-> manifest[contract.name]]
    BY <1>6
  <2>2. contracts[m].place = contracts[n].place
    BY <2>1
  <2> QED
    BY <1>3, <2>2 DEF Running, ParseInv
<1>10. \A m \in 1..listed : contracts[m].name \in DOMAIN manifest
  BY <1>6
<1>11. /\ DOMAIN manifest' = DOMAIN manifest \cup {contract.name}
       /\ \A name \in DOMAIN manifest : manifest'[name] = manifest[name]
       /\ ~ again => manifest'[contract.name] = contract.place
  <2> HIDE DEF contract
  <2> QED
    BY <1>7
<1> HIDE DEF again, file
<1>12. ManifestInv'
  <2>1. /\ listed' \in 0..Len(contracts')
        /\ 1..listed' = 1..listed \cup {n}
    BY <1>1, <1>2, <1>3
  <2>2. DOMAIN manifest' = {contracts[m].name : m \in 1..listed'}
    BY <1>6, <1>11, <2>1
  <2>3. ASSUME NEW name \in DOMAIN manifest'
        PROVE \E m \in 1..listed' :
                contracts[m] = [name |-> name, place |-> manifest'[name]]
    <3>1. CASE name \in DOMAIN manifest
      BY <1>6, <1>11, <2>1, <3>1
    <3>2. CASE name \notin DOMAIN manifest
      <4>1. name = contract.name /\ ~ again
        BY <1>11, <3>2 DEF again
      <4>2. contracts[n] = [name |-> name, place |-> manifest'[name]]
        BY <1>4, <1>11, <4>1
      <4> QED
        BY <2>1, <4>2
    <3> QED
      BY <3>1, <3>2
  <2> QED
    BY <1>1, <2>1, <2>2, <2>3 DEF ManifestInv
<1>13. ASSUME NEW f \in Files PROVE Blamed(f)' <=> IsWrong(f)'
  <2> DEFINE before ==
               \/ f \in classified /\ Ambiguous(f)
               \/ /\ \E path \in parsed : FileAt(path) = f
                  /\ ContentDiagnostics(project.content[f]) # {}
               \/ \E i \in DOMAIN EntriesIn(f) : IsRead(f, i) /\ ~ SoundAt(f, i)
             duplicate(m, known) == /\ contracts[m].place[1] = f
                                    /\ known[contracts[m].name] # contracts[m].place
  <2>1. IsWrong(f) <=> before \/ \E m \in 1..listed : duplicate(m, manifest)
    BY DEF IsWrong
  <2>2. IsWrong(f)' <=> before \/ \E m \in 1..listed' : duplicate(m, manifest')
    BY <1>1, SameProject, SameKindsOfFiles, SameReading DEF IsWrong
  <2>3. \A m \in 1..listed : duplicate(m, manifest') <=> duplicate(m, manifest)
    BY <1>10, <1>11
  <2>4. duplicate(n, manifest') <=> f = file /\ again
    <3>1. again => manifest'[contract.name] = manifest[contract.name]
      BY <1>11 DEF again
    <3> QED
      BY <1>9, <1>11, <3>1 DEF file
  <2>5. 1..listed' = 1..listed \cup {n}
    BY <1>1, <1>3
  <2> HIDE DEF before, duplicate
  <2>6. IsWrong(f)' <=> IsWrong(f) \/ (f = file /\ again)
    BY <2>1, <2>2, <2>3, <2>4, <2>5
  <2> QED
    BY <1>8, <2>6 DEF Running, BlameInv
<1>14. BlameInv'
  BY <1>5, <1>8, <1>13 DEF Running, BlameInv
<1>15. DiscoverInv' /\ ClassifyInv' /\ ParseInv'
  BY <1>1, <1>5, <1>8, DiscoverInvStays, ClassifyInvStays, ParseInvStays DEF Running
<1>16. StageInv'
  <2>1. Unclassified' = Unclassified /\ Unparsed' = Unparsed
    BY <1>1 DEF Unclassified, Unparsed
  <2> QED
    BY <1>1, <2>1, SameProject DEF Running, StageInv
<1> QED
  BY <1>1, <1>12, <1>14, <1>15, <1>16 DEF Running

(* The manifest is written, or cannot be.                                  *)
LEMMA FinishKeepsInv ==
  ASSUME project \in Projects, Running, WriteManifest \/ WriteFails PROVE Running'
<1>1. /\ stage = "manifest" /\ listed = Len(contracts) /\ stage' = "done"
      /\ exit' \in {"success", "validation_error", "runtime_error"}
      /\ UNCHANGED <<project, toDiscover, candidates, classified, found, open,
                     parsed, contracts, diagnostics, manifest, listed>>
  BY DEF WriteManifest, WriteFails, Finish, discovery, parsing
<1>2. Unclassified' = Unclassified /\ Unparsed' = Unparsed
  BY <1>1 DEF Unclassified, Unparsed
<1>3. StageInv'
  BY <1>1, <1>2, SameProject DEF Running, StageInv
<1>4. exit' # "configuration_error"
  BY <1>1
<1> QED
  BY <1>1, <1>3, <1>4, DiscoverInvStays, ClassifyInvStays, ParseInvStays,
     ManifestInvStays, BlameInvStays DEF Running, Blamed

(* The invariant depends on the variables only.                          *)
LEMMA StutterKeepsInv ==
  ASSUME IInv, UNCHANGED vars PROVE IInv'
<1>1. UNCHANGED <<project, stage, toDiscover, candidates, classified, found,
                  open, parsed, contracts, diagnostics, manifest, listed, exit>>
  BY DEF vars, discovery, parsing, ending
<1>2. ASSUME Running PROVE Running'
  <2>1. Unclassified' = Unclassified /\ Unparsed' = Unparsed
    BY <1>1 DEF Unclassified, Unparsed
  <2>2. StageInv'
    BY <1>1, <1>2, <2>1, SameProject DEF Running, StageInv
  <2> QED
    BY <1>1, <1>2, <2>2, DiscoverInvStays, ClassifyInvStays, ParseInvStays,
       ManifestInvStays, BlameInvStays DEF Running, Blamed
<1>3. ASSUME Fresh PROVE Fresh'
  BY <1>1, <1>3 DEF Fresh
<1> QED
  BY <1>1, <1>2, <1>3 DEF IInv

(* A crash ends the process without an answer.                           *)
LEMMA CrashKeepsInv ==
  ASSUME IInv, ConfigRaises \/ ChecksumRaises \/ AssertionRaises PROVE IInv'
<1>1. /\ stage \in {"config", "classify", "parse"} /\ stage' = "crashed"
      /\ UNCHANGED <<project, exit>>
  BY DEF ConfigRaises, ChecksumRaises, AssertionRaises, Crash
<1>2. exit = "none"
  BY <1>1 DEF IInv, Fresh, Running, StageInv
<1> QED
  BY <1>1, <1>2 DEF IInv

(* Every step keeps the invariant.                                       *)
LEMMA StepKeepsInv == IInv /\ [Next]_vars => IInv'
<1> SUFFICES ASSUME IInv, [Next]_vars PROVE IInv'
  OBVIOUS
<1>1. project \in Projects
  BY DEF IInv
<1>2. CASE LoadConfig
  <2>1. Fresh
    BY <1>2 DEF IInv, LoadConfig, Running, StageInv
  <2> QED
    BY <1>1, <1>2, <2>1, LoadConfigKeepsInv
<1>3. CASE ConfigRaises \/ ChecksumRaises \/ AssertionRaises
  BY <1>3, CrashKeepsInv
<1>4. ASSUME stage \in {"discover", "classify", "parse", "manifest"}
      PROVE Running
  BY <1>4 DEF IInv, Fresh
<1>5. ASSUME Running', project' = project PROVE IInv'
  BY <1>1, <1>5 DEF IInv
<1>6. CASE DiscoverPath
  <2>1. Running /\ project' = project
    BY <1>4, <1>6 DEF DiscoverPath
  <2> QED
    BY <1>1, <1>5, <1>6, <2>1, DiscoverPathKeepsInv
<1>7. CASE AllDiscovered
  <2>1. Running /\ project' = project
    BY <1>4, <1>7 DEF AllDiscovered
  <2> QED
    BY <1>1, <1>5, <1>7, <2>1, AllDiscoveredKeepsInv
<1>8. CASE ClassifyFile
  <2>1. Running /\ project' = project
    BY <1>4, <1>8 DEF ClassifyFile
  <2> QED
    BY <1>1, <1>5, <1>8, <2>1, ClassifyFileKeepsInv
<1>9. CASE AllClassified
  <2>1. Running /\ project' = project
    BY <1>4, <1>9 DEF AllClassified
  <2> QED
    BY <1>1, <1>5, <1>9, <2>1, AllClassifiedKeepsInv
<1>10. CASE ParseFile
  <2>1. Running /\ project' = project
    BY <1>4, <1>10 DEF ParseFile
  <2> QED
    BY <1>1, <1>5, <1>10, <2>1, ParseFileKeepsInv
<1>11. CASE ParseEntry
  <2>1. Running /\ project' = project
    BY <1>4, <1>11 DEF ParseEntry
  <2> QED
    BY <1>1, <1>5, <1>11, <2>1, ParseEntryKeepsInv
<1>12. CASE FileParsed
  <2>1. Running /\ project' = project
    BY <1>4, <1>12 DEF FileParsed
  <2> QED
    BY <1>1, <1>5, <1>12, <2>1, FileParsedKeepsInv
<1>13. CASE AllParsed
  <2>1. Running /\ project' = project
    BY <1>4, <1>13 DEF AllParsed
  <2> QED
    BY <1>1, <1>5, <1>13, <2>1, AllParsedKeepsInv
<1>14. CASE AddContract
  <2>1. Running /\ project' = project
    BY <1>4, <1>14 DEF AddContract
  <2> QED
    BY <1>1, <1>5, <1>14, <2>1, AddContractKeepsInv
<1>15. CASE WriteManifest \/ WriteFails
  <2>1. Running /\ project' = project
    BY <1>4, <1>15 DEF WriteManifest, WriteFails, Finish
  <2> QED
    BY <1>1, <1>5, <1>15, <2>1, FinishKeepsInv
<1>16. CASE UNCHANGED vars
  BY <1>16, StutterKeepsInv
<1> QED
  BY <1>2, <1>3, <1>6, <1>7, <1>8, <1>9, <1>10, <1>11, <1>12, <1>13, <1>14,
     <1>15, <1>16 DEF Next

(* The invariant holds of every state.                                   *)
LEMMA Invariance == Spec => []IInv
<1>1. Init => IInv
  BY DEF Init, IInv, Fresh
<1> QED
  BY <1>1, StepKeepsInv, PTL DEF Spec

---------------------------------------------------------------------------
(* What is known once every file was read.                                 *)

(* The numbers of kinds, and what it means to be of one kind only.       *)
LEMMA FewKinds ==
  ASSUME NEW S, S \subseteq Kind
  PROVE /\ Cardinality(S) \in Nat
        /\ Cardinality(S) > 1 => S # {}
        /\ \A kind : S = {kind} <=> kind \in S /\ ~ Cardinality(S) > 1
<1>1. IsFiniteSet(Kind)
  <2> DEFINE two == {"contract"} \cup {"sample_policy"}
             four == two \cup {"tolerance_policy"} \cup {"schema_policy"}
             six == four \cup {"check_pack"} \cup {"macro_file"}
  <2>1. IsFiniteSet(two)
    BY FS_Singleton, FS_AddElement
  <2>2. IsFiniteSet(two \cup {"tolerance_policy"})
    BY <2>1, FS_AddElement
  <2>3. IsFiniteSet(four)
    BY <2>2, FS_AddElement
  <2>4. IsFiniteSet(four \cup {"check_pack"})
    BY <2>3, FS_AddElement
  <2>5. IsFiniteSet(six)
    BY <2>4, FS_AddElement
  <2>6. Kind = six
    BY DEF Kind, Kinds
  <2> QED
    BY <2>5, <2>6
<1>2. IsFiniteSet(S) /\ Cardinality(S) \in Nat
  BY <1>1, FS_Subset, FS_CardinalityType
<1>3. Cardinality({}) = 0 /\ \A kind : Cardinality({kind}) = 1
  BY FS_EmptySet, FS_Singleton
<1>4. ASSUME NEW kind \in S, ~ Cardinality(S) > 1 PROVE S = {kind}
  <2>1. {kind} \in SUBSET S
    OBVIOUS
  <2>2. /\ Cardinality({kind}) <= Cardinality(S)
        /\ Cardinality({kind}) = Cardinality(S) => {kind} = S
    BY <1>2, <2>1, FS_Subset
  <2>3. Cardinality({kind}) = 1
    BY <1>3
  <2>4. Cardinality({kind}) = Cardinality(S)
    BY <1>2, <1>4, <2>2, <2>3
  <2> QED
    BY <2>2, <2>4
<1> QED
  BY <1>2, <1>3, <1>4

AllRead ==
  project \in Projects /\ Running /\ stage \in {"manifest", "done"}

(* The candidates of a file are of the kinds it is reached through.      *)
LEMMA FilesAreFound ==
  ASSUME AllRead
  PROVE /\ \A file : CandidateKinds(file) = Authored!KindsOf(file)
        /\ \A file : CandidateKinds(file) \subseteq Kind
        /\ \A file : \A kind \in CandidateKinds(file) :
             \E c \in ItemsOf(candidates) : c.file = file /\ c.kind = kind
        /\ \A c \in ItemsOf(candidates) : c.kind \in CandidateKinds(c.file)
        /\ \A c \in ItemsOf(candidates) : c.file \in classified
<1>1. ItemsOf(candidates) = UNION {CandidatesOf(e) : e \in EveryPath}
  <2>1. ItemsOf(toDiscover) = {}
    BY ItemsOfEmpty DEF AllRead, Running, StageInv
  <2> QED
    BY <2>1 DEF AllRead, Running, DiscoverInv
<1>2. ASSUME NEW file, NEW kind
      PROVE kind \in CandidateKinds(file)
              <=> \E c \in ItemsOf(candidates) : c.kind = kind /\ c.file = file
  BY DEF CandidateKinds, ItemsOf
<1>3. ASSUME NEW file PROVE CandidateKinds(file) = Authored!KindsOf(file)
  <2>1. \A kind : kind \in Authored!KindsOf(file)
          <=> \E c \in UNION {CandidatesOf(e) : e \in EveryPath} :
                c.kind = kind /\ c.file = file
    BY SameKinds DEF AllRead
  <2>2. \A kind : kind \in Authored!KindsOf(file) <=> kind \in CandidateKinds(file)
    BY <1>1, <1>2, <2>1
  <2> QED
    BY <2>2
<1>4. \A file : CandidateKinds(file) \subseteq Kind
  BY <1>3, OneVocabulary DEF Authored!KindsOf
<1>5. \A c \in ItemsOf(candidates) : c.file \in classified
  BY DEF AllRead, Running, StageInv, Unclassified, ItemsOf
<1> QED
  BY <1>2, <1>3, <1>4, <1>5

(* A file was read as a contract file if contracts is all it can be.       *)
LEMMA ContractFilesAreRead ==
  ASSUME AllRead, NEW file \in Files
  PROVE (\E path \in parsed : FileAt(path) = file)
          <=> file \in Authored!ContractFiles
<1>1. \A path : path \in parsed <=> path \in ContractPaths
  <2>1. parsed \subseteq ContractPaths /\ Unparsed = {}
    BY DEF AllRead, Running, ParseInv, StageInv
  <2> QED
    BY <2>1 DEF Unparsed, ContractPaths
<1>2. Ambiguous(file) <=> Cardinality(CandidateKinds(file)) > 1
  BY DEF Ambiguous
<1>3. CandidateKinds(file) = {"contract"}
        <=> "contract" \in CandidateKinds(file) /\ ~ Ambiguous(file)
  BY <1>2, FilesAreFound, FewKinds
<1>4. file \in Authored!ContractFiles <=> CandidateKinds(file) = {"contract"}
  BY FilesAreFound DEF Authored!ContractFiles
<1>5. /\ found \subseteq ItemsOf(candidates)
      /\ \A r \in found : ~ Ambiguous(r.file)
      /\ \A f \in classified : Ambiguous(f) \/ \E r \in found : r.file = f
  BY DEF AllRead, Running, ClassifyInv
<1>6. \A r \in found : r.file = FileAt(r.path)
  BY ContractPathsApart DEF AllRead, Running
<1>7. ASSUME NEW path \in parsed, FileAt(path) = file
      PROVE file \in Authored!ContractFiles
  <2>1. PICK r \in found : r.kind = "contract" /\ r.path = path
    BY <1>1 DEF ContractPaths
  <2>2. r \in ItemsOf(candidates) /\ r.file = file /\ ~ Ambiguous(file)
    BY <1>5, <1>6, <1>7, <2>1
  <2>3. "contract" \in CandidateKinds(file)
    BY <2>1, <2>2, FilesAreFound
  <2> QED
    BY <1>3, <1>4, <2>2, <2>3
<1>8. ASSUME file \in Authored!ContractFiles
      PROVE \E path \in parsed : FileAt(path) = file
  <2>1. CandidateKinds(file) = {"contract"} /\ ~ Ambiguous(file)
    BY <1>3, <1>4, <1>8
  <2>2. PICK c \in ItemsOf(candidates) : c.file = file
    BY <2>1, FilesAreFound
  <2>3. file \in classified
    BY <2>2, FilesAreFound
  <2>4. PICK r \in found : r.file = file
    BY <1>5, <2>1, <2>3
  <2>5. r.kind \in CandidateKinds(file)
    BY <1>5, <2>4, FilesAreFound
  <2>6. r.kind = "contract"
    BY <2>1, <2>5
  <2>7. r.path \in ContractPaths
    BY <2>6 DEF ContractPaths
  <2> QED
    BY <1>1, <1>6, <2>4, <2>7
<1> QED
  BY <1>7, <1>8

(* All entries of the contract files were read, and no others.           *)
LEMMA EntriesAreRead ==
  ASSUME AllRead, NEW file \in Files
  PROVE \A i : IsRead(file, i)
          <=> /\ file \in Authored!ContractFiles
              /\ project.content[file].form \in {"single", "list"}
<1>1. parsed \subseteq Nat
  BY ContractPathsApart DEF AllRead, Running, ParseInv
<1>2. open = Nothing
  BY DEF AllRead, Running, StageInv
<1>3. \A path \in parsed : path # open.path
  BY <1>1, <1>2, NothingIsOpen
<1> QED
  BY <1>3, ContractFilesAreRead DEF IsRead

(* The contracts are those of the definitions.                             *)
LEMMA DefinitionsAreRead ==
  ASSUME AllRead
  PROVE /\ \A place \in Authored!Definitions :
             place = <<place[1], place[2]>> /\ place[1] \in Files
        /\ \A file \in Files : \A i : <<file, i>> \in Authored!Definitions
             <=> /\ i \in DOMAIN EntriesIn(file)
                 /\ IsRead(file, i) /\ SoundAt(file, i)
<1> DEFINE files == Authored!ContractFiles
           indexes == UNION {DOMAIN project.content[f].entries : f \in files}
           good(place) ==
             LET content == project.content[place[1]]
             IN /\ content.form \in {"single", "list"}
                /\ place[2] \in DOMAIN content.entries
                /\ Authored!SoundEntry(content.entries[place[2]], content)
<1>1. Authored!Definitions = {place \in files \X indexes : good(place)}
  BY DEF Authored!Definitions
<1>2. files \subseteq Files
  BY DEF Authored!ContractFiles
<1>3. \A place \in Authored!Definitions :
        place = <<place[1], place[2]>> /\ place[1] \in Files
  <2> HIDE DEF good, files, indexes
  <2> QED
    BY <1>1, <1>2
<1>4. ASSUME NEW file \in Files, NEW i
      PROVE good(<<file, i>>)
              <=> /\ project.content[file].form \in {"single", "list"}
                  /\ i \in DOMAIN EntriesIn(file) /\ SoundAt(file, i)
  BY DEF EntriesIn, SoundAt
<1>5. ASSUME NEW file \in files, NEW i \in DOMAIN EntriesIn(file)
      PROVE <<file, i>> \in files \X indexes
  BY DEF EntriesIn
<1> HIDE DEF good, files, indexes
<1>6. ASSUME NEW file \in Files, NEW i
      PROVE <<file, i>> \in Authored!Definitions
              <=> file \in files /\ good(<<file, i>>)
  <2>1. <<file, i>> \in Authored!Definitions
          <=> <<file, i>> \in files \X indexes /\ good(<<file, i>>)
    BY <1>1
  <2>2. <<file, i>> \in files \X indexes => file \in files
    OBVIOUS
  <2> QED
    BY <1>4, <1>5, <2>1, <2>2
<1>7. \A file \in Files : \A i : <<file, i>> \in Authored!Definitions
        <=> i \in DOMAIN EntriesIn(file) /\ IsRead(file, i) /\ SoundAt(file, i)
  BY <1>4, <1>6, EntriesAreRead DEF files
<1> QED
  BY <1>3, <1>7

(* The same, said of the contracts.                                      *)
LEMMA ContractsAreDefinitions ==
  ASSUME AllRead
  PROVE /\ \A n \in DOMAIN contracts :
             /\ contracts[n].place \in Authored!Definitions
             /\ contracts[n].name = Authored!EntryAt(contracts[n].place).called
        /\ \A place \in Authored!Definitions :
             \E n \in DOMAIN contracts : contracts[n].place = place
<1>1. \A file, i : /\ ContractAt(file, i).place = <<file, i>>
                   /\ ContractAt(file, i).name = Authored!EntryAt(<<file, i>>).called
  BY DEF ContractAt, Authored!EntryAt, EntriesIn
<1>2. ASSUME NEW n \in DOMAIN contracts
      PROVE /\ contracts[n].place \in Authored!Definitions
            /\ contracts[n].name = Authored!EntryAt(contracts[n].place).called
  <2>1. PICK file \in Files : \E i \in DOMAIN EntriesIn(file) :
          IsRead(file, i) /\ SoundAt(file, i) /\ contracts[n] = ContractAt(file, i)
    BY DEF AllRead, Running, ParseInv
  <2>2. PICK i \in DOMAIN EntriesIn(file) :
          IsRead(file, i) /\ SoundAt(file, i) /\ contracts[n] = ContractAt(file, i)
    BY <2>1
  <2>3. <<file, i>> \in Authored!Definitions
    BY <2>2, DefinitionsAreRead
  <2> QED
    BY <1>1, <2>2, <2>3
<1>3. ASSUME NEW place \in Authored!Definitions
      PROVE \E n \in DOMAIN contracts : contracts[n].place = place
  <2> DEFINE file == place[1]
             i == place[2]
  <2>1. place = <<file, i>> /\ file \in Files
    BY DefinitionsAreRead
  <2>2. i \in DOMAIN EntriesIn(file) /\ IsRead(file, i) /\ SoundAt(file, i)
    BY <2>1, DefinitionsAreRead
  <2> HIDE DEF file, i
  <2>3. PICK n \in DOMAIN contracts : contracts[n] = ContractAt(file, i)
    BY <2>1, <2>2 DEF AllRead, Running, ParseInv
  <2> QED
    BY <1>1, <2>1, <2>3
<1> QED
  BY <1>2, <1>3

(* With all contracts listed, the manifest is what was promised of it.     *)
LEMMA ManifestIsKept ==
  ASSUME AllRead, listed = Len(contracts)
  PROVE /\ Authored!KeepsContracts(manifest)
        /\ \A place \in Authored!Definitions :
             LET name == Authored!EntryAt(place).called
             IN /\ manifest[name] \in Authored!Definitions
                /\ Authored!EntryAt(manifest[name]).called = name
<1>1. DOMAIN contracts = 1..listed
  BY LenProperties DEF AllRead, Running, ParseInv
<1>2. /\ DOMAIN manifest = {contracts[n].name : n \in 1..listed}
      /\ \A name \in DOMAIN manifest : \E n \in 1..listed :
           contracts[n] = [name |-> name, place |-> manifest[name]]
  BY DEF AllRead, Running, ManifestInv
<1>3. DOMAIN manifest = Authored!Names
  <2>1. \A n \in 1..listed : contracts[n].name \in Authored!Names
    BY <1>1, ContractsAreDefinitions DEF Authored!Names
  <2>2. ASSUME NEW name \in Authored!Names
        PROVE \E n \in 1..listed : contracts[n].name = name
    <3>1. PICK place \in Authored!Definitions : name = Authored!EntryAt(place).called
      BY DEF Authored!Names
    <3>2. PICK n \in 1..listed : contracts[n].place = place
      BY <1>1, ContractsAreDefinitions
    <3> QED
      BY <1>1, <3>1, <3>2, ContractsAreDefinitions
  <2> QED
    BY <1>2, <2>1, <2>2
<1>4. ASSUME NEW name \in DOMAIN manifest
      PROVE /\ manifest[name] \in Authored!Definitions
            /\ Authored!EntryAt(manifest[name]).called = name
  <2>1. PICK n \in 1..listed :
          contracts[n] = [name |-> name, place |-> manifest[name]]
    BY <1>2
  <2>2. contracts[n].name = name /\ contracts[n].place = manifest[name]
    BY <2>1
  <2> QED
    BY <1>1, <2>2, ContractsAreDefinitions
<1>5. \A place \in Authored!Definitions :
        Authored!EntryAt(place).called \in Authored!Names
  BY DEF Authored!Names
<1> QED
  BY <1>3, <1>4, <1>5 DEF Authored!KeepsContracts

(* With all contracts listed, a file has what was found wrong in it.       *)
LEMMA WrongIfIllFormed ==
  ASSUME AllRead, listed = Len(contracts), NEW file \in Files
  PROVE Blamed(file) <=> IllFormed(file)
<1>1. file \in classified /\ Ambiguous(file)
        <=> Cardinality(Authored!KindsOf(file)) > 1
  <2>1. CandidateKinds(file) = Authored!KindsOf(file)
        /\ CandidateKinds(file) \subseteq Kind
    BY FilesAreFound
  <2>2. Ambiguous(file) <=> Cardinality(CandidateKinds(file)) > 1
    BY DEF Ambiguous
  <2>3. ASSUME Cardinality(CandidateKinds(file)) > 1 PROVE file \in classified
    <3>1. PICK kind : kind \in CandidateKinds(file)
      BY <2>1, <2>3, FewKinds
    <3>2. PICK c \in ItemsOf(candidates) : c.file = file
      BY <3>1, FilesAreFound
    <3> QED
      BY <3>2, FilesAreFound
  <2> QED
    BY <2>1, <2>2, <2>3
<1>2. (\/ /\ \E path \in parsed : FileAt(path) = file
          /\ ContentDiagnostics(project.content[file]) # {}
       \/ \E i \in DOMAIN EntriesIn(file) : IsRead(file, i) /\ ~ SoundAt(file, i))
        <=> /\ file \in Authored!ContractFiles
            /\ ~ Authored!SoundContent(project.content[file])
  <2> DEFINE content == project.content[file]
  <2>1. (\E path \in parsed : FileAt(path) = file)
          <=> file \in Authored!ContractFiles
    BY ContractFilesAreRead
  <2>2. \A i : IsRead(file, i) <=> /\ file \in Authored!ContractFiles
                                   /\ content.form \in {"single", "list"}
    BY EntriesAreRead
  <2>3. file \in Authored!ContractFiles => content.form # "unreadable"
    <3>1. \A path \in parsed : ContentAt(path).form # "unreadable"
      BY ContractPathsApart DEF AllRead, Running, ParseInv
    <3> QED
      BY <2>1, <3>1 DEF ContentAt
  <2>4. file \in Authored!ContractFiles =>
          (ContentDiagnostics(content) = {}
             <=> /\ content.form \in {"single", "list"}
                 /\ content.form = "list" => content.version # "bad")
    BY <2>3, ContentJudged, ContentTyped DEF AllRead
  <2>5. Authored!SoundContent(content)
          <=> /\ content.form \in {"single", "list"}
              /\ content.form = "list" => content.version # "bad"
              /\ \A i \in DOMAIN EntriesIn(file) : SoundAt(file, i)
    BY DEF Authored!SoundContent, SoundAt, EntriesIn
  <2> HIDE DEF content
  <2> QED
    BY <2>1, <2>2, <2>4, <2>5 DEF content
<1>3. (\E n \in 1..listed : /\ contracts[n].place[1] = file
                            /\ manifest[contracts[n].name] # contracts[n].place)
        <=> /\ file \in Authored!ContractFiles
            /\ \E place \in Authored!Definitions :
                 /\ place[1] = file
                 /\ manifest[Authored!EntryAt(place).called] # place
  <2>1. DOMAIN contracts = 1..listed
    BY LenProperties DEF AllRead, Running, ParseInv
  <2>2. \A place \in Authored!Definitions :
          place[1] \in Files /\ place[1] \in Authored!ContractFiles
    <3>1. ASSUME NEW place \in Authored!Definitions
          PROVE place[1] \in Files /\ place[1] \in Authored!ContractFiles
      <4>1. place = <<place[1], place[2]>> /\ place[1] \in Files
        BY DefinitionsAreRead
      <4>2. IsRead(place[1], place[2])
        BY <4>1, DefinitionsAreRead
      <4> QED
        BY <4>1, <4>2, EntriesAreRead
    <3> QED
      BY <3>1
  <2>3. /\ \A n \in 1..listed :
             /\ contracts[n].place \in Authored!Definitions
             /\ contracts[n].name = Authored!EntryAt(contracts[n].place).called
        /\ \A place \in Authored!Definitions :
             \E n \in 1..listed : contracts[n].place = place
    BY <2>1, ContractsAreDefinitions
  <2> QED
    BY <2>2, <2>3
<1>4. Blamed(file) <=> IsWrong(file)
  BY DEF AllRead, Running, BlameInv
<1> QED
  BY <1>1, <1>2, <1>3, <1>4 DEF IsWrong, IllFormed

(* Cardinality is the same in both modules.                              *)
LEMMA OneCardinality == \A S : Authored!Cardinality(S) = Cardinality(S)
BY DEF Authored!Cardinality, Cardinality

(* With all contracts listed, nothing was reported if nothing is wrong.    *)
LEMMA SilentIfSound ==
  ASSUME AllRead, listed = Len(contracts)
  PROVE diagnostics = {} <=> Authored!SoundProject
<1>1. diagnostics = {} <=> ~ Blamed(NoFile) /\ \A file \in Files : ~ IllFormed(file)
  <2>1. diagnostics = {} <=> \A file \in Files \cup {NoFile} : ~ Blamed(file)
    BY DEF AllRead, Running, BlameInv, Blamed
  <2> QED
    BY <2>1, WrongIfIllFormed
<1>2. ~ Blamed(NoFile) <=> Authored!DirectoriesExist
  <2>1. ItemsOf(toDiscover) = {}
    BY ItemsOfEmpty DEF AllRead, Running, StageInv
  <2>2. Blamed(NoFile) <=> \E e \in EveryPath : IsMissing(e)
    BY <2>1 DEF AllRead, Running, DiscoverInv
  <2> QED
    BY <2>2, SameDirectories DEF AllRead
<1>3. \A file \in Files : ~ Cardinality(Authored!KindsOf(file)) > 1
                           <=> Cardinality(Authored!KindsOf(file)) <= 1
  BY FilesAreFound, FewKinds
<1>4. Authored!ContractFiles \subseteq Files
  BY DEF Authored!ContractFiles
<1>5. \A place \in Authored!Definitions :
        /\ place[1] \in Files /\ place[1] \in Authored!ContractFiles
        /\ LET name == Authored!EntryAt(place).called
           IN /\ manifest[name] \in Authored!Definitions
              /\ Authored!EntryAt(manifest[name]).called = name
  <2>1. ASSUME NEW place \in Authored!Definitions
        PROVE place[1] \in Files /\ place[1] \in Authored!ContractFiles
    <3>1. place = <<place[1], place[2]>> /\ place[1] \in Files
      BY DefinitionsAreRead
    <3>2. IsRead(place[1], place[2])
      BY <3>1, DefinitionsAreRead
    <3> QED
      BY <3>1, <3>2, EntriesAreRead
  <2> QED
    BY <2>1, ManifestIsKept
<1>6. (\A place \in Authored!Definitions :
         manifest[Authored!EntryAt(place).called] = place)
        <=> \A p, q \in Authored!Definitions :
              Authored!EntryAt(p).called = Authored!EntryAt(q).called => p = q
  BY <1>5
<1>7. (\A file \in Files : ~ IllFormed(file))
        <=> /\ \A file \in Files : ~ Cardinality(Authored!KindsOf(file)) > 1
            /\ \A file \in Authored!ContractFiles :
                 Authored!SoundContent(project.content[file])
            /\ \A place \in Authored!Definitions :
                 manifest[Authored!EntryAt(place).called] = place
  BY <1>4, <1>5 DEF IllFormed
<1> QED
  BY <1>1, <1>2, <1>3, <1>6, <1>7, OneCardinality DEF Authored!SoundProject

---------------------------------------------------------------------------
(* The theorems.                                                           *)

(* A parse that ends with a manifest has a diagnostic for exactly the files*)
(* in which something is wrong, whatever project it reads and in whatever  *)
(* order its directories, files and contracts come.                        *)
THEOREM FilesAreBlamedRightly == Spec => []FilesAreBlamed
<1>1. IInv => FilesAreBlamed
  <2>1. SUFFICES ASSUME IInv, exit \in {"success", "validation_error"},
                        NEW file \in Files
                 PROVE (\E d \in diagnostics : d.file = file) <=> IllFormed(file)
    BY DEF FilesAreBlamed
  <2>2. Running /\ project \in Projects
    BY <2>1 DEF IInv, Fresh
  <2>3. stage = "done" /\ listed = Len(contracts)
    BY <2>1, <2>2 DEF Running, StageInv
  <2>4. AllRead
    BY <2>2, <2>3 DEF AllRead
  <2> QED
    BY <2>3, <2>4, WrongIfIllFormed DEF Blamed
<1> QED
  BY <1>1, Invariance, PTL

(* Every step answers as AuthoredProject does, or leaves what was answered.*)
LEMMA StepRefines ==
  ASSUME IInv, [Next]_vars
  PROVE [Authored!Answer]_<<project, Answered>>
<1>1. ASSUME UNCHANGED <<project, exit>>, exit = "none" \/ UNCHANGED manifest
      PROVE UNCHANGED <<project, Answered>>
  BY <1>1 DEF Answered
<1>2. CASE LoadConfig
  <2>1. Fresh
    BY <1>2 DEF IInv, LoadConfig, Running, StageInv
  <2>2. project' = project /\ exit = "none"
    BY <1>2, <2>1 DEF LoadConfig, Fresh
  <2>3. CASE ConfigDiagnostics(project.config) = {}
    BY <1>1, <1>2, <2>2, <2>3 DEF LoadConfig
  <2>4. CASE ConfigDiagnostics(project.config) # {}
    <3>1. ~ Authored!SoundConfig(project.config)
      BY <1>2, <2>4, ConfigJudged, ProjectTyped DEF IInv, LoadConfig
    <3>2. exit' = "configuration_error"
      BY <1>2, <2>4 DEF LoadConfig
    <3>3. /\ Answered = Authored!NoOutcome
          /\ Answered' = Authored!Ended("configuration_error", Authored!NoContracts)
      BY <2>2, <3>2 DEF Answered, Authored!NoOutcome, Authored!Ended, NoManifest,
                        Authored!NoContracts
    <3> QED
      BY <2>2, <3>1, <3>3 DEF Authored!Answer, Authored!RefuseConfig
  <2> QED
    BY <2>3, <2>4
<1>3. CASE WriteManifest \/ WriteFails
  <2>1. /\ stage = "manifest" /\ listed = Len(contracts)
        /\ project' = project /\ manifest' = manifest
    BY <1>3 DEF WriteManifest, WriteFails, Finish
  <2>2. Running /\ project \in Projects
    BY <2>1 DEF IInv, Fresh
  <2>3. AllRead /\ exit = "none" /\ Authored!SoundConfig(project.config)
    BY <2>1, <2>2 DEF AllRead, Running, StageInv
  <2>4. Answered = Authored!NoOutcome
    BY <2>3 DEF Answered, Authored!NoOutcome, Authored!Ended, NoManifest,
                Authored!NoContracts
  <2>5. CASE WriteFails
    <3>1. exit' = "runtime_error"
      BY <2>5 DEF WriteFails, Finish
    <3>2. Answered' = Authored!Ended("runtime_error", Authored!NoContracts)
      BY <3>1 DEF Answered, Authored!Ended, NoManifest, Authored!NoContracts
    <3> QED
      BY <2>1, <2>3, <2>4, <3>2 DEF Authored!Answer, Authored!WriteFails
  <2>6. CASE WriteManifest
    <3>1. exit' = IF diagnostics = {} THEN "success" ELSE "validation_error"
      BY <2>6 DEF WriteManifest, Finish
    <3>2. Answered'.exit = exit' /\ Answered'.contracts = manifest
      BY <2>1, <3>1 DEF Answered
    <3>3. Answered'.exit = IF Authored!SoundProject THEN "success"
                             ELSE "validation_error"
      BY <2>1, <2>3, <3>1, <3>2, SilentIfSound
    <3>4. Authored!KeepsContracts(Answered'.contracts)
      BY <2>1, <2>3, <3>2, ManifestIsKept
    <3> QED
      BY <2>1, <2>3, <2>4, <3>3, <3>4 DEF Authored!Answer, Authored!WriteManifest
  <2> QED
    BY <1>3, <2>5, <2>6
<1>4. CASE AddContract
  <2>1. stage = "manifest" /\ UNCHANGED <<project, exit>>
    BY <1>4 DEF AddContract
  <2>2. exit = "none"
    BY <2>1 DEF IInv, Fresh, Running, StageInv
  <2> QED
    BY <1>1, <2>1, <2>2
<1>5. CASE \/ DiscoverPath \/ AllDiscovered \/ ClassifyFile \/ AllClassified
           \/ ParseFile \/ ParseEntry \/ FileParsed \/ AllParsed
  <2>1. UNCHANGED <<project, exit, manifest>>
    BY <1>5 DEF DiscoverPath, AllDiscovered, ClassifyFile, AllClassified,
                ParseFile, ParseEntry, FileParsed, AllParsed, ending
  <2> QED
    BY <1>1, <2>1
<1>6. CASE ConfigRaises \/ ChecksumRaises \/ AssertionRaises
  <2>1. UNCHANGED <<project, exit, manifest>>
    BY <1>6 DEF ConfigRaises, ChecksumRaises, AssertionRaises, Crash
  <2> QED
    BY <1>1, <2>1
<1>7. CASE UNCHANGED vars
  <2>1. UNCHANGED <<project, exit, manifest>>
    BY <1>7 DEF vars, ending
  <2> QED
    BY <1>1, <2>1
<1> QED
  BY <1>2, <1>3, <1>4, <1>5, <1>6, <1>7 DEF Next

(* The parser answers once, and what AuthoredProject promises: the loops   *)
(* implement the statement of what a parsed project is.                    *)
THEOREM ParseKeepsItsPromise == Spec => AuthoredSpec
<1>1. Init => Authored!Init
  BY DEF Init, Authored!Init, Answered, Authored!NoOutcome, Authored!Ended,
         NoManifest, Authored!NoContracts
<1>2. IInv /\ [Next]_vars => [Authored!Answer]_<<project, Answered>>
  BY StepRefines
<1> QED
  BY <1>1, <1>2, Invariance, PTL DEF Spec, AuthoredSpec, Authored!Spec
===============================================================================
