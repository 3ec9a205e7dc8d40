---------------------- MODULE ArtifactPublicationProofs ----------------------
(***************************************************************************)
(* Theorems about ArtifactPublication, for every set of contracts and      *)
(* every number of compiles and runs, whatever failed or was killed.       *)
(***************************************************************************)
EXTENDS ArtifactPublication, WellFoundedInduction, TLAPS

WritingYaml ==
  {"write contract", "finish contract", "write checks", "finish checks"}

FinishedContract == File(invocation, TRUE, "none", FALSE)

(* The three directories are cleared in turn.                              *)
DirectoriesCleared ==
  /\ phase \in {"clear checks", "clear sql", "compile"} =>
       contractFiles = NoFiles
  /\ phase \in {"clear sql", "compile"} => checkFiles = NoFiles
  /\ phase = "compile" => sqlFiles = NoFiles
  /\ phase = "clear contracts" => before = Present(checkFiles)
  /\ phase # "idle" => invocation > 0

(* How far a compile came with the contracts it writes.                    *)
WritingProgress ==
  /\ todo \subseteq project
  /\ phase = "write sql" => contractFiles = NoFiles /\ checkFiles = NoFiles
  /\ phase \in WritingYaml \cup {"published"} =>
       \A c \in Contracts :
         /\ c \in project \ todo => /\ contractFiles[c] = FinishedContract
                                    /\ checkFiles[c].by = invocation
                                    /\ checkFiles[c].whole
         /\ c \notin project => checkFiles[c] = NoFile
  /\ phase = "published" => todo = {}
  /\ phase \in {"finish contract", "write checks", "finish checks"} =>
       todo # {}
  /\ phase \in {"write contract", "finish contract", "write checks"} =>
       \A c \in todo : checkFiles[c] = NoFile
  /\ phase = "finish checks" =>
       \A c \in todo \ {First(todo)} : checkFiles[c] = NoFile
  /\ phase \in {"write checks", "finish checks"} =>
       contractFiles[First(todo)] = FinishedContract

(* SQL is complete before the first check that refers to it.               *)
SqlBeforeYaml ==
  /\ phase = "write sql" =>
       /\ rendering = "rendered"
       /\ \A c \in project \ todo : sqlFiles[c].by = invocation
  /\ phase \in WritingYaml \cup {"published"} =>
       \A c \in Contracts :
         /\ checkFiles[c] # NoFile => /\ checkFiles[c].rendering = rendering
                                      /\ checkFiles[c].by = invocation
         /\ rendering = "rendered" /\ c \in project =>
              sqlFiles[c].by = invocation

(* Checks stand beside their contract or beside none, in any phase.        *)
JoinsOnDisk ==
  \A c \in Contracts :
    /\ checkFiles[c].by <= invocation
    /\ contractFiles[c] # NoFile /\ checkFiles[c] # NoFile =>
         /\ contractFiles[c].whole
         /\ contractFiles[c].by = checkFiles[c].by

DiskInv == /\ DirectoriesCleared
           /\ OneCompileOnDisk
           /\ WritingProgress
           /\ SqlBeforeYaml
           /\ JoinsOnDisk

(* What a run has read is what is on disk, if no compile stepped in.       *)
UndisturbedReads ==
  ~ disturbed =>
    /\ ~ Running
    /\ reader = "read checks" =>
         \A c \in Contracts : c \notin unread => readChecks[c] = checkFiles[c]
    /\ reader \in {"find contracts", "read contracts", "loaded"} =>
         readChecks = checkFiles /\ Present(readChecks) # {}
    /\ reader = "find contracts" =>
         Present(readChecks) \ unread \subseteq Present(contractFiles)
    /\ reader \in {"read contracts", "loaded"} =>
         Present(readChecks) \subseteq Present(contractFiles)
    /\ reader = "read contracts" =>
         \A c \in Present(readChecks) \ unread :
           readContracts[c] = contractFiles[c]
    /\ reader = "loaded" =>
         \A c \in Present(readChecks) : readContracts[c] = contractFiles[c]

(* A contract still to be read is no older than the checks read before it. *)
ContractsKeepUp ==
  /\ \A c \in Contracts :
       /\ readChecks[c].by <= invocation
       /\ contractFiles[c] = NoFile \/ contractFiles[c].by >= readChecks[c].by
       /\ readContracts[c] = NoFile \/ readContracts[c].by >= readChecks[c].by
  /\ reader \in {"read checks", "find contracts"} => readContracts = NoFiles
  /\ reader = "read contracts" =>
       Present(readChecks) \ unread \subseteq Present(readContracts)
  /\ reader = "loaded" => Present(readChecks) \subseteq Present(readContracts)

RunInv == UndisturbedReads /\ ContractsKeepUp

IInv == TypeOK /\ DiskInv /\ RunInv

---------------------------------------------------------------------------
(* Helpers.                                                                *)

(* The first of some contract names is one of them: they are numbers.      *)
LEMMA FirstIsMember ==
  ASSUME NEW S, S \subseteq Nat, S # {}
  PROVE  First(S) \in S
<1> DEFINE Less == {p \in Nat \X Nat : p[1] < p[2]}
<1>1. OpToRel(<, Nat) = Less
  BY Zenon DEF OpToRel
<1>. HIDE DEF Less
<1>2. IsWellFoundedOn(Less, Nat)
  BY <1>1, NatLessThanWellFounded, Zenon
<1>3. PICK n \in S : \A m \in S : ~ (<<m, n>> \in Less)
  BY <1>2, WFMin
<1>4. \A m \in S : n <= m
  <2>. SUFFICES ASSUME NEW m \in S, m < n PROVE FALSE
    BY <1>3
  <2>1. <<m, n>> \in Nat \X Nat /\ <<m, n>>[1] < <<m, n>>[2]
    OBVIOUS
  <2>2. <<m, n>> \in Less
    BY <2>1, Zenon DEF Less
  <2>. QED BY <1>3, <2>2
<1>. QED BY <1>3, <1>4 DEF First

(* The contract that is written is one that is still to be written.        *)
LEMMA FirstIsToDo ==
  ASSUME TypeOK, todo # {}
  PROVE  First(todo) \in todo /\ First(todo) \in Contracts
<1>1. todo \subseteq Contracts
  BY DEF TypeOK
<1>2. First(todo) \in todo
  BY <1>1, FirstIsMember, ContractsAssumption
<1>. QED BY <1>1, <1>2

(* The fields of a file, and what tells it from no file.                   *)
LEMMA FileFields ==
  /\ \A by, whole, status, empty :
       /\ File(by, whole, status, empty).by = by
       /\ File(by, whole, status, empty).whole = whole
       /\ File(by, whole, status, empty).rendering = status
       /\ by # 0 => File(by, whole, status, empty) # NoFile
  /\ NoFile.by = 0 /\ NoFile.whole = FALSE /\ NoFile.rendering = "none"
BY DEF File, NoFile

LEMMA NoFilesType == NoFiles \in Files
BY BoundsAssumption DEF Files, File, NoFile, NoFiles, Rendering

LEMMA WrittenType ==
  ASSUME NEW files \in Files, NEW c, NEW by \in 0..MaxCompiles,
         NEW whole \in BOOLEAN, NEW status \in Rendering, NEW empty \in BOOLEAN
  PROVE  [files EXCEPT ![c] = File(by, whole, status, empty)] \in Files
BY DEF Files, File

LEMMA RemovedType ==
  ASSUME NEW files \in Files, NEW c
  PROVE  [files EXCEPT ![c] = NoFile] \in Files
<1>1. 0 \in 0..MaxCompiles /\ "none" \in Rendering
  BY BoundsAssumption DEF Rendering
<1>. QED BY <1>1, WrittenType DEF NoFile

---------------------------------------------------------------------------
(* Types.                                                                  *)

LEMMA InitTypeOK == Init => TypeOK
<1>. SUFFICES ASSUME Init PROVE TypeOK
  OBVIOUS
<1>1. {contractFiles, checkFiles, sqlFiles, readChecks, readContracts}
        \subseteq Files
  BY NoFilesType DEF Init
<1>2. invocation \in 0..MaxCompiles /\ runs \in 0..MaxRuns
  BY BoundsAssumption DEF Init
<1>. QED BY <1>1, <1>2 DEF Init, TypeOK, Rendering

(* What a compile leaves alone of the types, and what is left to show.     *)
LEMMA CompileTypes ==
  ASSUME TypeOK, UNCHANGED runVars, disturbed' = TRUE,
         {contractFiles', checkFiles', sqlFiles'} \subseteq Files,
         phase' \in {"idle", "compile", "published"}
                     \cup Clearing \cup Writing \cup Discarding,
         exit' \in {"none", "success", "validation_error",
                    "configuration_error", "runtime_error", "killed"},
         invocation' \in 0..MaxCompiles, rendering' \in Rendering,
         {project', broken', todo', before'} \subseteq SUBSET Contracts
  PROVE  TypeOK'
BY DEF TypeOK, runVars

LEMMA CompileTypeOK ==
  ASSUME TypeOK, CompileStep
  PROVE  TypeOK'
<1>0. UNCHANGED runVars /\ disturbed' = TRUE
  BY DEF CompileStep
<1>1. CASE Start
  <2>1. UNCHANGED <<disk, rendering, project, broken, todo>>
          /\ phase' = "clear contracts" /\ exit' = "none"
          /\ before' \subseteq Contracts
    BY <1>1 DEF Start, Present
  <2>2. invocation' \in 0..MaxCompiles
    <3>1. invocation' = invocation + 1 /\ invocation < MaxCompiles
      BY <1>1 DEF Start
    <3>2. invocation \in 0..MaxCompiles
      BY DEF TypeOK
    <3>. QED BY <3>1, <3>2, BoundsAssumption
  <2>. QED BY <1>0, <2>1, <2>2, CompileTypes DEF TypeOK, disk, Clearing
<1>2. CASE RemoveContract
  <2>1. contractFiles' \in Files
    BY <1>2, RemovedType DEF RemoveContract, Removes, TypeOK
  <2>. QED BY <1>0, <1>2, <2>1, CompileTypes
           DEF RemoveContract, Removes, TypeOK, compiling
<1>3. CASE RemoveChecks
  <2>1. checkFiles' \in Files
    BY <1>3, RemovedType DEF RemoveChecks, Removes, TypeOK
  <2>. QED BY <1>0, <1>3, <2>1, CompileTypes
           DEF RemoveChecks, Removes, TypeOK, compiling
<1>4. CASE RemoveSql
  <2>1. sqlFiles' \in Files
    BY <1>4, RemovedType DEF RemoveSql, Removes, TypeOK
  <2>. QED BY <1>0, <1>4, <2>1, CompileTypes
           DEF RemoveSql, Removes, TypeOK, compiling
<1>5. CASE Cleared \/ WriteFails
  <2>1. UNCHANGED <<disk, exit, compiling, todo, before>>
    BY <1>5 DEF Cleared, WriteFails, Goto
  <2>2. phase' \in {"compile"} \cup Clearing \cup Discarding
    BY <1>5 DEF Cleared, WriteFails, Goto, Clearing, Discarding
  <2>. QED BY <1>0, <2>1, <2>2, CompileTypes DEF TypeOK, disk, compiling
<1>6. CASE ClearFails \/ NothingToWrite \/ Crash
  <2>1. UNCHANGED <<disk, phase, compiling, todo, before>>
          /\ exit' \in {"validation_error", "configuration_error",
                        "runtime_error", "killed"}
    BY <1>6 DEF ClearFails, NothingToWrite, Crash, End
  <2>. QED BY <1>0, <2>1, CompileTypes DEF TypeOK, disk, compiling
<1>7. CASE Discarded \/ DiscardFails
  <2>1. UNCHANGED <<disk, compiling, todo, before>>
          /\ exit' \in {exit, "runtime_error"}
          /\ phase' \in {phase, "discard contracts", "discard checks"}
    BY <1>7 DEF Discarded, DiscardFails, Discards, Goto, End
  <2>. QED BY <1>0, <2>1, CompileTypes DEF TypeOK, disk, compiling, Discarding
<1>8. CASE Compiled
  <2>1. UNCHANGED <<disk, exit, invocation, before>>
          /\ project' \subseteq Contracts /\ todo' = project'
          /\ broken' \subseteq project'
          /\ phase' \in {"write sql", "write contract"}
    BY <1>8 DEF Compiled
  <2>2. rendering' \in Rendering
    BY <1>8 DEF Compiled, Rendering
  <2>. QED BY <1>0, <2>1, <2>2, CompileTypes DEF TypeOK, disk, Writing
<1>9. CASE WriteSql
  <2>1. UNCHANGED <<contractFiles, checkFiles, exit, compiling, before>>
          /\ todo' \subseteq Contracts
          /\ phase' \in {"write sql", "write contract"}
    BY <1>9 DEF WriteSql, TypeOK, compiling
  <2>2. "rendered" \in Rendering
    BY DEF Rendering
  <2>3. sqlFiles' \in Files
    <3>1. sqlFiles \in Files /\ invocation \in 0..MaxCompiles
      BY DEF TypeOK
    <3>2. [sqlFiles EXCEPT ![First(todo)] =
             File(invocation, TRUE, "rendered", FALSE)] \in Files
      BY <2>2, <3>1, WrittenType
    <3>. QED BY <1>9, <3>1, <3>2 DEF WriteSql
  <2>. QED BY <1>0, <2>1, <2>3, CompileTypes DEF TypeOK, Writing, compiling
<1>10. CASE OpenContract \/ WriteContract
  <2>1. UNCHANGED <<checkFiles, sqlFiles, exit, compiling, todo, before>>
          /\ phase' \in {"finish contract", "write checks"}
    BY <1>10 DEF OpenContract, WriteContract
  <2>2. "none" \in Rendering
    BY DEF Rendering
  <2>3. contractFiles' \in Files
    <3>1. contractFiles \in Files /\ invocation \in 0..MaxCompiles
      BY DEF TypeOK
    <3>2. \A whole \in BOOLEAN :
            [contractFiles EXCEPT ![First(todo)] =
               File(invocation, whole, "none", FALSE)] \in Files
      BY <2>2, <3>1, WrittenType
    <3>. QED BY <1>10, <3>2 DEF OpenContract, WriteContract
  <2>. QED BY <1>0, <2>1, <2>3, CompileTypes DEF TypeOK, Writing, compiling
<1>11. CASE OpenChecks \/ WriteChecks
  <2>1. UNCHANGED <<contractFiles, sqlFiles, exit, compiling, before>>
          /\ todo' \subseteq Contracts
          /\ phase' \in {"finish checks", "write contract"}
    BY <1>11 DEF OpenChecks, WriteChecks, TypeOK
  <2>2. checkFiles' \in Files
    <3>1. checkFiles \in Files /\ invocation \in 0..MaxCompiles
            /\ rendering \in Rendering
      BY DEF TypeOK
    <3>2. \A whole, empty \in BOOLEAN :
            [checkFiles EXCEPT ![First(todo)] =
               File(invocation, whole, rendering, empty)] \in Files
      BY <3>1, WrittenType
    <3>3. (First(todo) \in broken) \in BOOLEAN
      OBVIOUS
    <3>. QED BY <1>11, <3>2, <3>3 DEF OpenChecks, WriteChecks
  <2>. QED BY <1>0, <2>1, <2>2, CompileTypes DEF TypeOK, Writing, compiling
<1>12. CASE Published
  <2>1. UNCHANGED <<disk, compiling, todo, before>> /\ phase' = "published"
          /\ exit' \in {"validation_error", "configuration_error", "success"}
    BY <1>12 DEF Published
  <2>. QED BY <1>0, <2>1, CompileTypes DEF TypeOK, disk, compiling
<1>. QED
  BY <1>1, <1>2, <1>3, <1>4, <1>5, <1>6, <1>7, <1>8, <1>9, <1>10, <1>11, <1>12
     DEF CompileStep

LEMMA RunTypeOK ==
  ASSUME TypeOK, RunStep
  PROVE  TypeOK'
<1>1. CASE StartRun
  <2>1. UNCHANGED compileVars /\ reader' = "read checks"
          /\ unread' \subseteq Contracts /\ disturbed' \in BOOLEAN
          /\ readChecks' = NoFiles /\ readContracts' = NoFiles
    BY <1>1 DEF StartRun, Present, Running
  <2>2. runs' \in 0..MaxRuns
    <3>1. runs' = runs + 1 /\ runs < MaxRuns
      BY <1>1 DEF StartRun
    <3>2. runs \in 0..MaxRuns
      BY DEF TypeOK
    <3>. QED BY <3>1, <3>2, BoundsAssumption
  <2>. QED BY <2>1, <2>2, NoFilesType DEF TypeOK, compileVars, disk, compiling
<1>2. ASSUME NEW r \in unread, ReadChecks(r) \/ ReadContract(r)
      PROVE  TypeOK'
  <2>1. UNCHANGED <<compileVars, runs, disturbed>>
          /\ reader' \in {"read checks", "read contracts", "refused"}
          /\ unread' \subseteq unread
    BY <1>2 DEF ReadChecks, ReadContract, Reads, Refuse
  <2>2. {readChecks', readContracts'} \subseteq Files
    <3>1. {checkFiles, contractFiles, readChecks, readContracts} \subseteq Files
      BY DEF TypeOK
    <3>2. \A files, read \in Files : \A c \in Contracts :
            [read EXCEPT ![c] = files[c]] \in Files
      BY DEF Files
    <3>3. r \in Contracts
      BY DEF TypeOK
    <3>4. CASE ReadChecks(r)
      <4>2. [readChecks EXCEPT ![r] = checkFiles[r]] \in Files
        BY <3>1, <3>2, <3>3
      <4>. QED BY <3>1, <3>4, <4>2 DEF ReadChecks, Refuse
    <3>5. CASE ReadContract(r)
      <4>2. [readContracts EXCEPT ![r] = contractFiles[r]] \in Files
        BY <3>1, <3>2, <3>3
      <4>. QED BY <3>1, <3>5, <4>2 DEF ReadContract, Refuse
    <3>. QED BY <1>2, <3>4, <3>5
  <2>. QED BY <2>1, <2>2 DEF TypeOK, compileVars, disk, compiling
<1>3. CASE \/ ChecksRead \/ ContractsFound \/ Loaded
           \/ \E r \in unread : FindContract(r)
  <2>1. UNCHANGED <<compileVars, runs, disturbed, readChecks, readContracts>>
          /\ reader' \in {"find contracts", "read contracts", "loaded", "refused"}
          /\ unread' \subseteq Contracts
    BY <1>3 DEF ChecksRead, FindContract, ContractsFound, Loaded, Reads, Refuse,
                TypeOK, Present
  <2>. QED BY <2>1 DEF TypeOK, compileVars, disk, compiling
<1>. QED BY <1>1, <1>2, <1>3 DEF RunStep

LEMMA Numbers ==
  TypeOK => /\ invocation \in Nat
            /\ \A c \in Contracts : contractFiles[c].by \in Nat
            /\ \A c \in Contracts : checkFiles[c].by \in Nat
            /\ \A c \in Contracts : readChecks[c].by \in Nat
            /\ \A c \in Contracts : readContracts[c].by \in Nat
<1>. SUFFICES ASSUME TypeOK
     PROVE  /\ invocation \in Nat
            /\ \A c \in Contracts : contractFiles[c].by \in Nat
            /\ \A c \in Contracts : checkFiles[c].by \in Nat
            /\ \A c \in Contracts : readChecks[c].by \in Nat
            /\ \A c \in Contracts : readContracts[c].by \in Nat
  OBVIOUS
<1>1. \A n \in 0..MaxCompiles : n \in Nat
  BY BoundsAssumption
<1>2. \A files \in Files, c \in Contracts : files[c].by \in 0..MaxCompiles
  BY DEF Files
<1>3. invocation \in 0..MaxCompiles
        /\ {contractFiles, checkFiles, sqlFiles, readChecks, readContracts}
             \subseteq Files
  BY DEF TypeOK
<1>. QED BY <1>1, <1>2, <1>3

LEMMA SameInvocation ==
  ASSUME TypeOK, UNCHANGED invocation
  PROVE  invocation <= invocation'
<1>1. invocation \in Nat
  BY Numbers
<1>. QED BY <1>1

---------------------------------------------------------------------------
(* The disk, one compile action after the other.                           *)

(* A step of a compile removes contract files or writes its own.           *)
ContractsGrow ==
  /\ invocation <= invocation'
  /\ \A c \in Contracts : \/ contractFiles'[c] = contractFiles[c]
                          \/ contractFiles'[c] = NoFile
                          \/ contractFiles'[c].by = invocation'

(* A new compile starts with whatever the last one left.                   *)
LEMMA StartDisk ==
  ASSUME TypeOK, DiskInv, Start
  PROVE  DiskInv' /\ ContractsGrow
<1>1. UNCHANGED <<contractFiles, checkFiles, sqlFiles, rendering, project, todo>>
        /\ phase' = "clear contracts" /\ before' = Present(checkFiles)
        /\ invocation' = invocation + 1
  BY DEF Start, disk
<1>2. invocation \in Nat /\ invocation' > 0 /\ invocation <= invocation'
  <2>1. invocation \in Nat
    BY Numbers
  <2>2. invocation' = invocation + 1
    BY <1>1
  <2>3. invocation' > 0
    BY <2>1, <2>2
  <2>. QED BY <2>1, <2>2, <2>3
<1>3. DirectoriesCleared'
  BY <1>1, <1>2 DEF DirectoriesCleared, Present
<1>4. OneCompileOnDisk'
  BY <1>1 DEF OneCompileOnDisk, Writing
<1>5. WritingProgress' /\ SqlBeforeYaml'
  BY <1>1 DEF DiskInv, WritingProgress, SqlBeforeYaml, WritingYaml
<1>6. JoinsOnDisk'
  <2>0. invocation' = invocation + 1
    BY <1>1
  <2>1. \A c \in Contracts : checkFiles[c].by <= invocation'
    <3>1. \A c \in Contracts : checkFiles[c].by <= invocation
      BY DEF DiskInv, JoinsOnDisk
    <3>2. \A c \in Contracts : checkFiles[c].by \in Nat
      BY Numbers
    <3>. QED BY <1>2, <2>0, <3>1, <3>2
  <2>. QED BY <1>1, <2>1 DEF DiskInv, JoinsOnDisk
<1>7. ContractsGrow
  BY <1>1, <1>2 DEF ContractsGrow
<1>. QED BY <1>3, <1>4, <1>5, <1>6, <1>7 DEF DiskInv

(* Steps that leave the directories and only move on or end.               *)
QuietStep ==
  /\ UNCHANGED <<contractFiles, checkFiles, sqlFiles, invocation, rendering,
                 project, todo, before>>
  /\ \/ phase' = phase
     \/ phase' \in Discarding /\ phase # "idle"
     \/ /\ phase = "clear contracts" /\ phase' = "clear checks"
        /\ contractFiles = NoFiles
     \/ /\ phase = "clear checks" /\ phase' = "clear sql"
        /\ checkFiles = NoFiles
     \/ phase = "clear sql" /\ phase' = "compile" /\ sqlFiles = NoFiles
     \/ phase = "write contract" /\ phase' = "published" /\ todo = {}

LEMMA QuietDisk ==
  ASSUME TypeOK, DiskInv, QuietStep
  PROVE  DiskInv' /\ ContractsGrow
<1>. USE DEF QuietStep
<1>1. DirectoriesCleared'
  BY DEF DiskInv, DirectoriesCleared, Discarding, Present
<1>2. OneCompileOnDisk'
  BY DEF DiskInv, OneCompileOnDisk, Writing, Discarding
<1>3. WritingProgress'
  BY DEF DiskInv, WritingProgress, WritingYaml, Discarding, FinishedContract,
         First
<1>4. SqlBeforeYaml'
  BY DEF DiskInv, SqlBeforeYaml, WritingYaml, Discarding
<1>5. JoinsOnDisk'
  BY DEF DiskInv, JoinsOnDisk
<1>6. ContractsGrow
  <2>. HIDE DEF QuietStep
  <2>1. invocation \in Nat /\ invocation' = invocation
    BY Numbers DEF QuietStep
  <2>2. invocation <= invocation'
    BY <2>1
  <2>. QED BY <2>2 DEF ContractsGrow, QuietStep
<1>. QED BY <1>1, <1>2, <1>3, <1>4, <1>5, <1>6 DEF DiskInv

LEMMA EmptyDirectory ==
  ASSUME NEW files \in Files, Present(files) = {}
  PROVE  files = NoFiles
BY DEF Present, NoFiles, Files

(* Removing files from the directory of a clearing or discarding phase.    *)
LEMMA RemoveDisk ==
  ASSUME TypeOK, DiskInv, RemoveContract \/ RemoveChecks \/ RemoveSql
  PROVE  DiskInv' /\ ContractsGrow
<1>1. UNCHANGED <<phase, invocation, rendering, project, todo, before>>
        /\ \/ /\ phase \in {"clear contracts", "discard contracts"}
              /\ UNCHANGED <<checkFiles, sqlFiles>>
           \/ /\ phase \in {"clear checks", "discard checks"}
              /\ UNCHANGED <<contractFiles, sqlFiles>>
           \/ /\ phase \in {"clear sql", "discard sql"}
              /\ UNCHANGED <<contractFiles, checkFiles>>
  BY DEF RemoveContract, RemoveChecks, RemoveSql, Removes, compiling
<1>2. \A c \in Contracts : /\ contractFiles'[c] \in {contractFiles[c], NoFile}
                           /\ checkFiles'[c] \in {checkFiles[c], NoFile}
  BY DEF RemoveContract, RemoveChecks, RemoveSql, Removes, TypeOK, Files
<1>3. DirectoriesCleared'
  BY <1>1 DEF DiskInv, DirectoriesCleared, Present
<1>4. OneCompileOnDisk' /\ WritingProgress' /\ SqlBeforeYaml'
  BY <1>1 DEF DiskInv, OneCompileOnDisk, WritingProgress, SqlBeforeYaml, Writing,
              WritingYaml
<1>5. JoinsOnDisk'
  <2>1. NoFile.by <= invocation
    BY FileFields, Numbers
  <2>. QED BY <1>1, <1>2, <2>1 DEF DiskInv, JoinsOnDisk
<1>6. ContractsGrow
  <2>1. invocation \in Nat
    BY Numbers
  <2>2. invocation' = invocation
    BY <1>1
  <2>. QED BY <1>2, <2>1, <2>2 DEF ContractsGrow
<1>. QED BY <1>3, <1>4, <1>5, <1>6 DEF DiskInv

LEMMA QuietActions ==
  ASSUME TypeOK, DiskInv,
         \/ Cleared \/ ClearFails \/ NothingToWrite \/ Published
         \/ WriteFails \/ Discarded \/ DiscardFails \/ Crash
  PROVE  QuietStep
<1>1. CASE ClearFails \/ NothingToWrite \/ Crash
  BY <1>1 DEF ClearFails, NothingToWrite, Crash, End, QuietStep, disk, compiling
<1>2. CASE Cleared
  <2>1. {contractFiles, checkFiles, sqlFiles} \subseteq Files
    BY DEF TypeOK
  <2>. QED BY <1>2, <2>1, EmptyDirectory
           DEF Cleared, Goto, QuietStep, disk, compiling
<1>3. CASE WriteFails
  BY <1>3 DEF WriteFails, Goto, QuietStep, disk, compiling, Writing, Discarding
<1>4. CASE Discarded \/ DiscardFails
  BY <1>4 DEF Discarded, DiscardFails, Discards, Goto, End, QuietStep, disk,
              compiling, Discarding
<1>5. CASE Published
  BY <1>5 DEF Published, QuietStep, disk, compiling
<1>. QED BY <1>1, <1>2, <1>3, <1>4, <1>5

(* Nothing is on disk when the writing begins.                             *)
LEMMA CompiledDisk ==
  ASSUME TypeOK, DiskInv, Compiled
  PROVE  DiskInv' /\ ContractsGrow
<1>1. /\ UNCHANGED <<contractFiles, checkFiles, sqlFiles, invocation, before>>
      /\ phase = "compile" /\ todo' = project'
      /\ rendering' = "rendered" => phase' = "write sql"
      /\ rendering' # "rendered" => phase' = "write contract"
  BY DEF Compiled, disk
<1>2. /\ contractFiles = NoFiles /\ checkFiles = NoFiles /\ sqlFiles = NoFiles
      /\ invocation > 0
  BY <1>1 DEF DiskInv, DirectoriesCleared
<1>3. \A c \in Contracts : NoFiles[c] = NoFile
  BY DEF NoFiles
<1>4. DirectoriesCleared'
  BY <1>1, <1>2 DEF DirectoriesCleared
<1>5. OneCompileOnDisk'
  BY <1>1, <1>2, <1>3, FileFields DEF OneCompileOnDisk
<1>6. WritingProgress'
  <2>1. phase' \in {"write sql", "write contract"}
    BY <1>1
  <2>2. \A c \in Contracts : checkFiles'[c] = NoFile
    BY <1>1, <1>2, <1>3
  <2>3. \A c \in todo' : checkFiles'[c] = NoFile
    BY <1>1, <2>2 DEF Compiled
  <2>. QED BY <1>1, <1>2, <2>1, <2>2, <2>3 DEF WritingProgress, WritingYaml
<1>7. SqlBeforeYaml'
  BY <1>1, <1>2, <1>3 DEF SqlBeforeYaml, WritingYaml
<1>8. JoinsOnDisk' /\ ContractsGrow
  <2>1. invocation <= invocation'
    BY <1>1, SameInvocation
  <2>. QED BY <1>1, <2>1 DEF DiskInv, JoinsOnDisk, ContractsGrow
<1>. QED BY <1>4, <1>5, <1>6, <1>7, <1>8 DEF DiskInv

LEMMA WriteSqlDisk ==
  ASSUME TypeOK, DiskInv, WriteSql
  PROVE  DiskInv' /\ ContractsGrow
<1>1. /\ UNCHANGED <<contractFiles, checkFiles, invocation, rendering, project,
                     before>>
      /\ phase = "write sql"
  BY DEF WriteSql, compiling
<1>2. \/ /\ todo # {} /\ todo' = todo \ {First(todo)} /\ phase' = "write sql"
         /\ sqlFiles' = [sqlFiles EXCEPT ![First(todo)] =
                           File(invocation, TRUE, "rendered", FALSE)]
      \/ /\ todo = {} /\ todo' = project /\ phase' = "write contract"
         /\ sqlFiles' = sqlFiles
  BY DEF WriteSql
<1>3. /\ contractFiles = NoFiles /\ checkFiles = NoFiles
      /\ rendering = "rendered" /\ todo \subseteq project
      /\ \A c \in project \ todo : sqlFiles[c].by = invocation
  BY <1>1 DEF DiskInv, WritingProgress, SqlBeforeYaml
<1>4. \A c \in Contracts : checkFiles[c] = NoFile
  BY <1>3 DEF NoFiles
<1>5. \A c \in Contracts :
        sqlFiles'[c].by = IF todo # {} /\ c = First(todo)
                            THEN invocation ELSE sqlFiles[c].by
  <2>1. DOMAIN sqlFiles = Contracts
    BY DEF TypeOK, Files
  <2>2. File(invocation, TRUE, "rendered", FALSE).by = invocation
    BY DEF File
  <2>. QED BY <1>2, <2>1, <2>2
<1>6. project \subseteq Contracts
  BY DEF TypeOK
<1>7. DirectoriesCleared'
  BY <1>1, <1>2 DEF DiskInv, DirectoriesCleared
<1>8. OneCompileOnDisk'
  BY <1>1, <1>5 DEF DiskInv, OneCompileOnDisk, Writing
<1>9. WritingProgress'
  BY <1>1, <1>2, <1>3, <1>4, <1>6 DEF WritingProgress, WritingYaml
<1>10. SqlBeforeYaml'
  BY <1>1, <1>2, <1>3, <1>4, <1>5, <1>6 DEF SqlBeforeYaml, WritingYaml
<1>11. JoinsOnDisk' /\ ContractsGrow
  <2>1. invocation <= invocation'
    BY <1>1, SameInvocation
  <2>. QED BY <1>1, <2>1 DEF DiskInv, JoinsOnDisk, ContractsGrow
<1>. QED BY <1>7, <1>8, <1>9, <1>10, <1>11 DEF DiskInv

(* A contract file is opened or finished; its checks are not written yet.  *)
LEMMA ContractDisk ==
  ASSUME TypeOK, DiskInv, OpenContract \/ WriteContract
  PROVE  DiskInv' /\ ContractsGrow
<1> DEFINE written == First(todo)
<1>1. /\ UNCHANGED <<checkFiles, sqlFiles, invocation, rendering, project, todo,
                     before>>
      /\ todo # {}
      /\ phase \in {"write contract", "finish contract"}
      /\ phase = "write contract" => phase' = "finish contract"
      /\ phase = "finish contract" => phase' = "write checks"
  BY DEF OpenContract, WriteContract, compiling, DiskInv, WritingProgress
<1>2. \E whole \in BOOLEAN :
        /\ contractFiles' = [contractFiles EXCEPT ![written] =
                               File(invocation, whole, "none", FALSE)]
        /\ phase' = "write checks" => whole = TRUE
  BY DEF OpenContract, WriteContract
<1>3. written \in todo /\ written \in Contracts
  BY <1>1, FirstIsToDo
<1>4. \A c \in Contracts : c # written => contractFiles'[c] = contractFiles[c]
  BY <1>2, <1>3 DEF TypeOK, Files
<1>5. /\ contractFiles'[written].by = invocation
      /\ phase' = "write checks" => contractFiles'[written] = FinishedContract
  <2>1. DOMAIN contractFiles = Contracts
    BY DEF TypeOK, Files
  <2>2. \A whole : File(invocation, whole, "none", FALSE).by = invocation
    BY DEF File
  <2>3. PICK whole \in BOOLEAN :
          /\ contractFiles' = [contractFiles EXCEPT ![written] =
                                 File(invocation, whole, "none", FALSE)]
          /\ phase' = "write checks" => whole = TRUE
    BY <1>2
  <2>4. contractFiles'[written] = File(invocation, whole, "none", FALSE)
    BY <1>3, <2>1, <2>3
  <2>. QED BY <2>2, <2>3, <2>4 DEF FinishedContract
<1>6. checkFiles[written] = NoFile
  BY <1>1, <1>3 DEF DiskInv, WritingProgress
<1>. HIDE DEF written
<1>7. DirectoriesCleared'
  BY <1>1 DEF DiskInv, DirectoriesCleared
<1>8. OneCompileOnDisk'
  BY <1>1, <1>4, <1>5 DEF DiskInv, OneCompileOnDisk, Writing
<1>9. WritingProgress'
  <2>1. phase' = "write checks" => contractFiles'[First(todo')] = FinishedContract'
    BY <1>1, <1>5 DEF written, FinishedContract
  <2>. QED BY <1>1, <1>3, <1>4, <2>1
           DEF DiskInv, WritingProgress, WritingYaml, FinishedContract
<1>10. SqlBeforeYaml'
  BY <1>1 DEF DiskInv, SqlBeforeYaml, WritingYaml
<1>11. JoinsOnDisk'
  BY <1>1, <1>4, <1>6 DEF DiskInv, JoinsOnDisk
<1>12. ContractsGrow
  <2>1. invocation <= invocation'
    BY <1>1, SameInvocation
  <2>. QED BY <1>1, <1>4, <1>5, <2>1 DEF ContractsGrow
<1>. QED BY <1>7, <1>8, <1>9, <1>10, <1>11, <1>12 DEF DiskInv

(* A checks file is opened or finished, beside its finished contract.      *)
LEMMA ChecksDisk ==
  ASSUME TypeOK, DiskInv, OpenChecks \/ WriteChecks
  PROVE  DiskInv' /\ ContractsGrow
<1> DEFINE written == First(todo)
<1>1. /\ UNCHANGED <<contractFiles, sqlFiles, invocation, rendering, project,
                     before>>
      /\ todo # {} /\ todo \subseteq project
      /\ phase \in {"write checks", "finish checks"}
      /\ phase = "write checks" => phase' = "finish checks" /\ todo' = todo
      /\ phase = "finish checks" => /\ phase' = "write contract"
                                    /\ todo' = todo \ {written}
  BY DEF OpenChecks, WriteChecks, compiling, DiskInv, WritingProgress
<1>2. written \in todo /\ written \in Contracts
  BY <1>1, FirstIsToDo
<1>3. contractFiles[written] = FinishedContract /\ invocation > 0
  BY <1>1 DEF DiskInv, WritingProgress, DirectoriesCleared
<1>4. /\ contractFiles[written].by = invocation
      /\ contractFiles[written].whole
  BY <1>3 DEF FinishedContract, File
<1>5. \A c \in Contracts : c # written => checkFiles'[c] = checkFiles[c]
  BY <1>2 DEF OpenChecks, WriteChecks, TypeOK, Files
<1>6. /\ checkFiles'[written].by = invocation
      /\ checkFiles'[written].rendering = rendering
      /\ phase = "finish checks" => checkFiles'[written].whole
  <2>1. DOMAIN checkFiles = Contracts
    BY DEF TypeOK, Files
  <2>2. CASE OpenChecks
    <3>1. checkFiles'[written] = File(invocation, FALSE, rendering, FALSE)
      BY <1>2, <2>1, <2>2 DEF OpenChecks
    <3>2. phase = "write checks"
      BY <2>2 DEF OpenChecks
    <3>3. /\ checkFiles'[written].by = invocation
          /\ checkFiles'[written].rendering = rendering
      BY <3>1 DEF File
    <3>. QED BY <3>2, <3>3
  <2>3. CASE WriteChecks
    <3>1. checkFiles'[written] =
            File(invocation, TRUE, rendering, written \in broken)
      BY <1>2, <2>1, <2>3 DEF WriteChecks
    <3>. QED BY <3>1 DEF File
  <2>. QED BY <2>2, <2>3
<1>. HIDE DEF written
<1>7. DirectoriesCleared'
  BY <1>1 DEF DiskInv, DirectoriesCleared
<1>8. OneCompileOnDisk'
  BY <1>1, <1>5, <1>6 DEF DiskInv, OneCompileOnDisk, Writing
<1>9. WritingProgress'
  <2>1. FinishedContract' = FinishedContract
    BY <1>1 DEF FinishedContract
  <2>2. \A c \in Contracts :
          /\ c \in project' \ todo' => /\ contractFiles'[c] = FinishedContract'
                                       /\ checkFiles'[c].by = invocation'
                                       /\ checkFiles'[c].whole
          /\ c \notin project' => checkFiles'[c] = NoFile
    <3>1. \A c \in Contracts :
            /\ c \in project \ todo => /\ contractFiles[c] = FinishedContract
                                       /\ checkFiles[c].by = invocation
                                       /\ checkFiles[c].whole
            /\ c \notin project => checkFiles[c] = NoFile
      BY <1>1 DEF DiskInv, WritingProgress, WritingYaml
    <3>2. ASSUME NEW c \in Contracts, c # written
          PROVE  /\ checkFiles'[c] = checkFiles[c]
                 /\ c \in project' \ todo' <=> c \in project \ todo
      BY <1>1, <1>5, <3>2
    <3>3. written \in project \ todo' => phase = "finish checks"
      BY <1>1, <1>2
    <3>. QED BY <1>1, <1>2, <1>3, <1>6, <2>1, <3>1, <3>2, <3>3
  <2>3. phase' = "finish checks" =>
          /\ \A c \in todo' \ {First(todo')} : checkFiles'[c] = NoFile
          /\ contractFiles'[First(todo')] = FinishedContract'
    <3>1. \A c \in todo : c \in Contracts
      BY DEF TypeOK
    <3>. QED BY <1>1, <1>3, <1>5, <2>1, <3>1
             DEF DiskInv, WritingProgress, written
  <2>4. phase' = "write contract" => \A c \in todo' : checkFiles'[c] = NoFile
    <3>1. \A c \in todo : c \in Contracts
      BY DEF TypeOK
    <3>. QED BY <1>1, <1>5, <3>1 DEF DiskInv, WritingProgress, written
  <2>. QED BY <1>1, <2>2, <2>3, <2>4 DEF WritingProgress, WritingYaml
<1>10. SqlBeforeYaml'
  BY <1>1, <1>5, <1>6 DEF DiskInv, SqlBeforeYaml, WritingYaml
<1>11. JoinsOnDisk'
  <2>1. invocation <= invocation
    BY Numbers
  <2>. QED BY <1>1, <1>4, <1>5, <1>6, <2>1 DEF DiskInv, JoinsOnDisk
<1>12. ContractsGrow
  <2>1. invocation <= invocation'
    BY <1>1, SameInvocation
  <2>. QED BY <1>1, <2>1 DEF ContractsGrow
<1>. QED BY <1>7, <1>8, <1>9, <1>10, <1>11, <1>12 DEF DiskInv

LEMMA CompileDisk ==
  ASSUME TypeOK, DiskInv, CompileStep
  PROVE  DiskInv' /\ ContractsGrow
BY StartDisk, RemoveDisk, QuietActions, QuietDisk, CompiledDisk, WriteSqlDisk,
   ContractDisk, ChecksDisk
   DEF CompileStep

---------------------------------------------------------------------------
(* What a run has read, while compiles go on.                              *)

LEMMA CompileRunInv ==
  ASSUME TypeOK, DiskInv, RunInv, CompileStep
  PROVE  RunInv'
<1>1. UNCHANGED <<reader, unread, readChecks, readContracts>> /\ disturbed' = TRUE
  BY DEF CompileStep, runVars
<1>2. ContractsGrow
  BY CompileDisk
<1>3. UndisturbedReads'
  BY <1>1 DEF UndisturbedReads
<1>4. ASSUME NEW c \in Contracts
      PROVE  /\ readChecks[c].by <= invocation'
             /\ contractFiles'[c] = NoFile
                  \/ contractFiles'[c].by >= readChecks[c].by
  <2>1. /\ readChecks[c].by <= invocation
        /\ contractFiles[c] = NoFile \/ contractFiles[c].by >= readChecks[c].by
    BY DEF RunInv, ContractsKeepUp
  <2>2. /\ invocation <= invocation'
        /\ \/ contractFiles'[c] = contractFiles[c]
           \/ contractFiles'[c] = NoFile
           \/ contractFiles'[c].by = invocation'
    BY <1>2 DEF ContractsGrow
  <2>3. /\ invocation \in Nat /\ invocation' \in Nat
        /\ readChecks[c].by \in Nat
    <3>1. TypeOK'
      BY CompileTypeOK
    <3>2. invocation' \in 0..MaxCompiles
      BY <3>1 DEF TypeOK
    <3>3. invocation' \in Nat
      BY <3>2, BoundsAssumption
    <3>. QED BY <3>3, Numbers
  <2>. QED BY <2>1, <2>2, <2>3
<1>5. ContractsKeepUp'
  BY <1>1, <1>4 DEF RunInv, ContractsKeepUp, Present
<1>. QED BY <1>3, <1>5 DEF RunInv

(* The run only reads: it takes contracts at least as old as their checks. *)
LEMMA ReadKeepsUp ==
  ASSUME TypeOK, DiskInv, ContractsKeepUp, RunStep
  PROVE  ContractsKeepUp'
<1>1. CASE StartRun
  <2>1. UNCHANGED <<contractFiles, invocation>> /\ reader' = "read checks"
          /\ readChecks' = NoFiles /\ readContracts' = NoFiles
    BY <1>1 DEF StartRun, compileVars, disk, compiling
  <2>2. \A c \in Contracts : NoFiles[c] = NoFile
    BY DEF NoFiles
  <2>3. invocation \in Nat /\ \A c \in Contracts : contractFiles[c].by \in Nat
    BY Numbers
  <2>4. 0 <= invocation /\ \A n \in Nat : n >= 0
    BY <2>3
  <2>. QED BY <2>1, <2>2, <2>3, <2>4, FileFields DEF ContractsKeepUp
<1>2. ASSUME NEW r \in unread, ReadChecks(r)
      PROVE  ContractsKeepUp'
  <2>1. UNCHANGED <<contractFiles, invocation, readContracts>>
          /\ reader = "read checks"
    BY <1>2 DEF ReadChecks, Refuse, Reads, compileVars, disk, compiling
  <2>2. reader' \in {"read checks", "refused"}
    BY <1>2 DEF ReadChecks, Refuse, Reads
  <2>3. readContracts = NoFiles /\ \A c \in Contracts : NoFiles[c] = NoFile
    BY <2>1 DEF ContractsKeepUp, NoFiles
  <2>4. \A c \in Contracts : \/ readChecks'[c] = readChecks[c]
                             \/ readChecks'[c] = checkFiles[c] /\ checkFiles[c] # NoFile
    BY <1>2 DEF ReadChecks, Refuse, TypeOK, Files
  <2>5. ASSUME NEW c \in Contracts
        PROVE  /\ readChecks'[c].by <= invocation
               /\ contractFiles[c] = NoFile
                    \/ contractFiles[c].by >= readChecks'[c].by
    <3>1. /\ checkFiles[c].by <= invocation
          /\ contractFiles[c] = NoFile \/ checkFiles[c] = NoFile
               \/ contractFiles[c].by = checkFiles[c].by
      BY DEF DiskInv, JoinsOnDisk
    <3>2. /\ readChecks[c].by <= invocation
          /\ contractFiles[c] = NoFile
               \/ contractFiles[c].by >= readChecks[c].by
      BY DEF ContractsKeepUp
    <3>3. checkFiles[c].by \in Nat
      BY Numbers
    <3>. QED BY <2>4, <3>1, <3>2, <3>3
  <2>. QED BY <2>1, <2>2, <2>3, <2>5 DEF ContractsKeepUp
<1>3. ASSUME NEW r \in unread, ReadContract(r)
      PROVE  ContractsKeepUp'
  <2>1. UNCHANGED <<contractFiles, invocation, readChecks>>
          /\ reader = "read contracts" /\ unread # {}
          /\ reader' \in {"read contracts", "refused"}
    BY <1>3 DEF ReadContract, Refuse, Reads, compileVars, disk, compiling
  <2>2. \A c \in Contracts : readContracts'[c] \in {readContracts[c], contractFiles[c]}
    BY <1>3 DEF ReadContract, Refuse, TypeOK, Files
  <2>3. reader' = "read contracts" =>
          Present(readChecks) \ unread' \subseteq Present(readContracts')
    <3>1. SUFFICES ASSUME reader' = "read contracts"
                   PROVE  Present(readChecks) \ unread' \subseteq Present(readContracts')
      OBVIOUS
    <3>2. /\ contractFiles[r] # NoFile
          /\ unread' = unread \ {r}
          /\ readContracts' = [readContracts EXCEPT
                                 ![r] = contractFiles[r]]
      BY <1>3, <3>1 DEF ReadContract, Refuse, Reads
    <3>3. r \in Contracts
      BY DEF TypeOK
    <3>4. Present(readChecks) \ unread \subseteq Present(readContracts)
      BY <2>1 DEF ContractsKeepUp
    <3>. QED BY <3>2, <3>3, <3>4 DEF Present, TypeOK, Files
  <2>. QED BY <2>1, <2>2, <2>3 DEF ContractsKeepUp
<1>4. CASE \/ ChecksRead \/ ContractsFound \/ Loaded
           \/ \E r \in unread : FindContract(r)
  <2>1. UNCHANGED <<contractFiles, invocation, readChecks, readContracts>>
    BY <1>4 DEF ChecksRead, FindContract, ContractsFound, Loaded, Refuse, Reads,
                compileVars, disk, compiling
  <2>2. /\ reader' = "find contracts" => reader \in {"read checks", "find contracts"}
        /\ reader' = "read contracts" => unread' = Present(readChecks)
        /\ reader' = "loaded" => reader = "read contracts" /\ unread = {}
        /\ reader' # "read checks"
    BY <1>4 DEF ChecksRead, FindContract, ContractsFound, Loaded, Refuse, Reads
  <2>. QED BY <2>1, <2>2 DEF ContractsKeepUp, Present
<1>. QED BY <1>1, <1>2, <1>3, <1>4 DEF RunStep

LEMMA ReadUndisturbed ==
  ASSUME TypeOK, DiskInv, UndisturbedReads, RunStep
  PROVE  UndisturbedReads'
<1>. SUFFICES ASSUME ~ disturbed' PROVE UndisturbedReads'
  BY DEF UndisturbedReads
<1>0. UNCHANGED <<contractFiles, checkFiles, exit>>
  BY DEF RunStep, StartRun, ReadChecks, ChecksRead, FindContract, ContractsFound,
         ReadContract, Loaded, Refuse, Reads, compileVars, disk
<1>1. CASE StartRun
  <2>1. reader' = "read checks" /\ unread' = Present(checkFiles)
          /\ readChecks' = NoFiles /\ ~ Running'
    BY <1>0, <1>1 DEF StartRun, Running
  <2>. QED BY <1>0, <2>1 DEF UndisturbedReads, Present, NoFiles
<1>2. ASSUME NEW r \in unread, ReadChecks(r)
      PROVE  UndisturbedReads'
  <2>0. reader = "read checks" /\ UNCHANGED disturbed
    BY <1>2 DEF ReadChecks, Refuse, Reads
  <2>1. reader = "read checks" /\ ~ disturbed /\ ~ Running'
    BY <1>0, <2>0 DEF UndisturbedReads, Running
  <2>2. CASE reader' = "read checks"
    <3>1. /\ unread' = unread \ {r}
          /\ readChecks' = [readChecks EXCEPT
                              ![r] = checkFiles[r]]
      BY <1>2, <2>2 DEF ReadChecks, Refuse, Reads
    <3>2. \A c \in Contracts : c \notin unread' => readChecks'[c] = checkFiles[c]
      BY <2>1, <3>1 DEF UndisturbedReads, TypeOK, Files
    <3>. QED BY <1>0, <2>1, <2>2, <3>2 DEF UndisturbedReads
  <2>3. CASE reader' # "read checks"
    <3>1. reader' = "refused"
      BY <1>2, <2>3 DEF ReadChecks, Refuse, Reads
    <3>. QED BY <2>1, <3>1 DEF UndisturbedReads
  <2>. QED BY <2>2, <2>3
<1>3. CASE ChecksRead
  <2>1. reader = "read checks" /\ unread = {} /\ ~ disturbed /\ ~ Running'
          /\ UNCHANGED readChecks
    BY <1>0, <1>3 DEF ChecksRead, Refuse, Reads, UndisturbedReads, Running
  <2>2. readChecks = checkFiles
    <3>1. \A c \in Contracts : readChecks[c] = checkFiles[c]
      BY <2>1 DEF UndisturbedReads
    <3>2. readChecks \in Files /\ checkFiles \in Files
      BY DEF TypeOK
    <3>. QED BY <3>1, <3>2 DEF Files
  <2>3. \/ reader' = "refused"
        \/ /\ reader' = "find contracts" /\ unread' = Present(readChecks)
           /\ Present(readChecks) # {}
    BY <1>3 DEF ChecksRead, Refuse, Reads
  <2>. QED BY <1>0, <2>1, <2>2, <2>3 DEF UndisturbedReads, Present
<1>4. ASSUME NEW r \in unread, FindContract(r)
      PROVE  UndisturbedReads'
  <2>1. reader = "find contracts" /\ unread # {} /\ ~ disturbed /\ ~ Running'
          /\ UNCHANGED readChecks
    BY <1>0, <1>4 DEF FindContract, Refuse, Reads, UndisturbedReads, Running
  <2>2. r \in Contracts
    BY DEF TypeOK
  <2>3. \/ reader' = "refused"
        \/ /\ reader' = "find contracts" /\ unread' = unread \ {r}
           /\ contractFiles[r] # NoFile
    BY <1>4 DEF FindContract, Refuse, Reads
  <2>. QED BY <1>0, <2>1, <2>2, <2>3 DEF UndisturbedReads, Present
<1>5. CASE ContractsFound
  <2>1. reader = "find contracts" /\ unread = {} /\ ~ disturbed /\ ~ Running'
          /\ UNCHANGED <<readChecks, readContracts>>
          /\ reader' = "read contracts" /\ unread' = Present(readChecks)
    BY <1>0, <1>5 DEF ContractsFound, Reads, UndisturbedReads, Running
  <2>. QED BY <1>0, <2>1 DEF UndisturbedReads, Present
<1>6. ASSUME NEW r \in unread, ReadContract(r)
      PROVE  UndisturbedReads'
  <2>0. reader = "read contracts" /\ UNCHANGED <<disturbed, readChecks>>
    BY <1>6 DEF ReadContract, Refuse, Reads
  <2>1. reader = "read contracts" /\ ~ disturbed /\ ~ Running'
          /\ UNCHANGED readChecks
    BY <1>0, <2>0 DEF UndisturbedReads, Running
  <2>2. CASE reader' = "read contracts"
    <3>1. /\ unread' = unread \ {r}
          /\ readContracts' = [readContracts EXCEPT
                                 ![r] = contractFiles[r]]
      BY <1>6, <2>2 DEF ReadContract, Refuse, Reads
    <3>2. \A c \in Present(readChecks) \ unread' :
            readContracts'[c] = contractFiles[c]
      BY <2>1, <3>1 DEF UndisturbedReads, TypeOK, Files, Present
    <3>. QED BY <1>0, <2>1, <2>2, <3>2 DEF UndisturbedReads, Present
  <2>3. CASE reader' # "read contracts"
    <3>1. reader' = "refused"
      BY <1>6, <2>3 DEF ReadContract, Refuse, Reads
    <3>. QED BY <2>1, <3>1 DEF UndisturbedReads
  <2>. QED BY <2>2, <2>3
<1>7. CASE Loaded
  <2>1. reader = "read contracts" /\ unread = {} /\ ~ disturbed /\ ~ Running'
          /\ UNCHANGED <<readChecks, readContracts>> /\ reader' = "loaded"
    BY <1>0, <1>7 DEF Loaded, Reads, UndisturbedReads, Running
  <2>. QED BY <1>0, <2>1 DEF UndisturbedReads, Present
<1>. QED BY <1>1, <1>2, <1>3, <1>4, <1>5, <1>6, <1>7 DEF RunStep

---------------------------------------------------------------------------
(* The invariant, and the properties that follow from it.                  *)

LEMMA InitIInv == Init => IInv
<1>. SUFFICES ASSUME Init PROVE IInv
  OBVIOUS
<1>1. TypeOK
  BY InitTypeOK
<1>2. /\ contractFiles = NoFiles /\ checkFiles = NoFiles /\ sqlFiles = NoFiles
      /\ readChecks = NoFiles /\ readContracts = NoFiles
      /\ phase = "idle" /\ exit = "success" /\ reader = "idle"
      /\ todo = {} /\ project = {} /\ invocation = 0
  BY DEF Init
<1>3. \A c \in Contracts : NoFiles[c] = NoFile
  BY DEF NoFiles
<1>4. DirectoriesCleared /\ OneCompileOnDisk /\ WritingProgress /\ SqlBeforeYaml
  BY <1>2 DEF DirectoriesCleared, OneCompileOnDisk, WritingProgress,
              SqlBeforeYaml, Writing, WritingYaml
<1>5. JoinsOnDisk
  <2>1. \A c \in Contracts : checkFiles[c] = NoFile
    BY <1>2, <1>3
  <2>2. NoFile.by <= invocation
    BY <1>2, FileFields
  <2>. QED BY <2>1, <2>2 DEF JoinsOnDisk
<1>6. RunInv
  BY <1>2, <1>3, FileFields DEF RunInv, UndisturbedReads, ContractsKeepUp, Running
<1>. QED BY <1>1, <1>4, <1>5, <1>6 DEF IInv, DiskInv

LEMMA StepIInv == IInv /\ [Next]_vars => IInv'
<1>. SUFFICES ASSUME IInv, [Next]_vars PROVE IInv'
  OBVIOUS
<1>. USE DEF IInv
<1>1. CASE CompileStep
  BY <1>1, CompileTypeOK, CompileDisk, CompileRunInv
<1>2. CASE RunStep
  <2>1. UNCHANGED compileVars
    BY <1>2 DEF RunStep, StartRun, ReadChecks, ChecksRead, FindContract,
                ContractsFound, ReadContract, Loaded, Refuse, Reads
  <2>2. DiskInv'
    BY <2>1 DEF compileVars, disk, compiling, DiskInv, DirectoriesCleared,
                OneCompileOnDisk, WritingProgress, SqlBeforeYaml, JoinsOnDisk,
                Present, FinishedContract
  <2>3. TypeOK'
    BY <1>2, RunTypeOK
  <2>4. RunInv'
    BY <1>2, ReadKeepsUp, ReadUndisturbed DEF RunInv
  <2>. QED BY <2>2, <2>3, <2>4
<1>3. CASE UNCHANGED vars
  <2>1. UNCHANGED <<compileVars, runVars, disturbed>>
    BY <1>3 DEF vars
  <2>2. TypeOK'
    BY <2>1 DEF compileVars, disk, compiling, runVars, TypeOK
  <2>3. DiskInv'
    BY <2>1 DEF compileVars, disk, compiling, DiskInv, DirectoriesCleared,
                OneCompileOnDisk, WritingProgress, SqlBeforeYaml, JoinsOnDisk,
                Present, FinishedContract
  <2>4. UndisturbedReads' /\ ContractsKeepUp'
    BY <2>1 DEF compileVars, disk, compiling, runVars, RunInv, UndisturbedReads,
                ContractsKeepUp, Present, Running
  <2>. QED BY <2>2, <2>3, <2>4 DEF RunInv
<1>. QED BY <1>1, <1>2, <1>3 DEF Next

LEMMA SpecIInv == Spec => []IInv
BY InitIInv, StepIInv, PTL DEF Spec

(* Files and progress of both processes have their types (compile.py,      *)
(* _compile_artifacts.py, the loaders).                                    *)
THEOREM TypeCorrect == Spec => []TypeOK
<1>1. IInv => TypeOK
  BY DEF IInv
<1>. QED BY SpecIInv, <1>1, PTL

(* Whatever failed or was killed before, files of two compiles never stand *)
(* side by side when compile writes (clear_compiled_artifacts).            *)
THEOREM FilesOfOneCompile == Spec => []OneCompileOnDisk
<1>1. IInv => OneCompileOnDisk
  BY DEF IInv, DiskInv
<1>. QED BY SpecIInv, <1>1, PTL

(* A compile stopped before it wrote leaves nothing to run.                *)
THEOREM NothingIsLeft == Spec => []FailedCompilesLeaveNothing
<1>1. IInv => FailedCompilesLeaveNothing
  <2>. SUFFICES ASSUME IInv, phase = "compile", NEW c \in Contracts
                PROVE  {contractFiles[c], checkFiles[c], sqlFiles[c]} = {NoFile}
    BY DEF FailedCompilesLeaveNothing
  <2>1. contractFiles = NoFiles /\ checkFiles = NoFiles /\ sqlFiles = NoFiles
    BY DEF IInv, DiskInv, DirectoriesCleared
  <2>. QED BY <2>1 DEF NoFiles
<1>. QED BY SpecIInv, <1>1, PTL

(* Checks that say they are rendered have their SQL beside them.           *)
THEOREM SqlIsThere == Spec => []RenderedHasSql
<1>1. IInv => RenderedHasSql
  <2>. SUFFICES ASSUME IInv, phase \in Writing \cup {"published"},
                       NEW c \in Contracts, checkFiles[c].rendering = "rendered"
                PROVE  sqlFiles[c].by = checkFiles[c].by
    BY DEF RenderedHasSql
  <2>1. checkFiles[c] # NoFile
    BY FileFields
  <2>2. phase # "write sql"
    BY <2>1 DEF IInv, DiskInv, WritingProgress, NoFiles
  <2>3. phase \in WritingYaml \cup {"published"}
    BY <2>2 DEF Writing, WritingYaml
  <2>4. c \in project
    BY <2>1, <2>3 DEF IInv, DiskInv, WritingProgress
  <2>. QED BY <2>1, <2>3, <2>4 DEF IInv, DiskInv, SqlBeforeYaml
<1>. QED BY SpecIInv, <1>1, PTL

(* No run, not even one that a compile overtakes, joins checks with an     *)
(* older contract (load_for_compiled_checks after CompiledCheckLoader).    *)
THEOREM ContractsNeverOlder == Spec => []ContractsAreNeverOlder
<1>1. IInv => ContractsAreNeverOlder
  BY DEF IInv, RunInv, ContractsKeepUp, ContractsAreNeverOlder, Present
<1>. QED BY SpecIInv, <1>1, PTL

(* Wherever a compile was killed, a run joins what belongs together.       *)
THEOREM JoinsAreSound == Spec => []UndisturbedJoinsAreSound
<1>1. IInv => UndisturbedJoinsAreSound
  <2>. SUFFICES ASSUME IInv, reader = "loaded", ~ disturbed,
                       NEW c \in Present(readChecks)
                PROVE  /\ readContracts[c].whole
                       /\ readContracts[c].by = readChecks[c].by
    BY DEF UndisturbedJoinsAreSound
  <2>1. /\ readChecks = checkFiles /\ readContracts[c] = contractFiles[c]
        /\ c \in Present(contractFiles)
    BY DEF IInv, RunInv, UndisturbedReads
  <2>2. c \in Contracts /\ checkFiles[c] # NoFile /\ contractFiles[c] # NoFile
    BY <2>1 DEF Present
  <2>. QED BY <2>1, <2>2 DEF IInv, DiskInv, JoinsOnDisk
<1>. QED BY SpecIInv, <1>1, PTL

(* A run beside no compile loads all of a complete compile, or all there   *)
(* was before a compile that did not get beyond clearing, or nothing.      *)
THEOREM EverythingOrNothing == Spec => []UndisturbedRunsAreComplete
<1>1. IInv => UndisturbedRunsAreComplete
  <2>. SUFFICES ASSUME IInv, reader = "loaded", ~ disturbed
       PROVE  /\ phase = "published" =>
                   /\ Present(readChecks) = project
                   /\ \A c \in project :
                        \A file \in {readChecks[c], readContracts[c]} :
                          file.whole /\ file.by = invocation
              /\ phase \in Clearing => Present(readChecks) = before
    BY DEF UndisturbedRunsAreComplete
  <2>1. /\ readChecks = checkFiles /\ Present(readChecks) # {}
        /\ Present(readChecks) \subseteq Present(contractFiles)
        /\ \A c \in Present(readChecks) : readContracts[c] = contractFiles[c]
    BY DEF IInv, RunInv, UndisturbedReads
  <2>2. CASE phase = "published"
    <3>1. /\ todo = {} /\ invocation > 0 /\ project \subseteq Contracts
          /\ \A c \in Contracts :
               /\ c \in project => /\ contractFiles[c] = FinishedContract
                                   /\ checkFiles[c].by = invocation
                                   /\ checkFiles[c].whole
               /\ c \notin project => checkFiles[c] = NoFile
      BY <2>2 DEF IInv, DiskInv, DirectoriesCleared, WritingProgress, TypeOK
    <3>2. NoFile.by # invocation
      BY <3>1, FileFields
    <3>3. Present(readChecks) = project
      BY <2>1, <3>1, <3>2 DEF Present
    <3>4. FinishedContract.whole /\ FinishedContract.by = invocation
      BY DEF FinishedContract, File
    <3>5. \A c \in project : \A file \in {readChecks[c], readContracts[c]} :
            file.whole /\ file.by = invocation
      BY <2>1, <3>1, <3>3, <3>4
    <3>. QED BY <2>2, <3>3, <3>5 DEF Clearing
  <2>3. CASE phase = "clear contracts"
    BY <2>1, <2>3 DEF IInv, DiskInv, DirectoriesCleared
  <2>4. phase \notin {"clear checks", "clear sql"}
    BY <2>1 DEF IInv, DiskInv, DirectoriesCleared, Present, NoFiles
  <2>. QED BY <2>2, <2>3, <2>4 DEF Clearing
<1>. QED BY SpecIInv, <1>1, PTL
=============================================================================
