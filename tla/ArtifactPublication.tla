------------------------ MODULE ArtifactPublication ------------------------
(***************************************************************************)
(* The target directory between `recon compile`, which clears and rewrites *)
(* it file by file, and `recon run`, which reads it file by file.  They    *)
(* are separate processes without a lock, and either may be killed.        *)
(* Translated from services/compile.py and _compile_artifacts.py, the      *)
(* writers of artifacts/ and the two loaders.                              *)
(*                                                                         *)
(* A contract has three files: its compiled contract, its compiled checks  *)
(* and its SQL, the SQL files of its checks being taken as one.  A file is *)
(* [by, whole, rendering, empty]: the invocation that wrote it, whether    *)
(* it was written to its end, the rendering status of its checks and       *)
(* whether it has no checks.  Compiling and rendering appear as what they  *)
(* may produce.  Contracts are numbered in the order of their source files,*)
(* in which compile writes them; run reads them in the order of their      *)
(* names, which may be any other.                                          *)
(***************************************************************************)
EXTENDS Naturals

CONSTANTS Contracts,   \* names of the contracts the project ever has
          MaxCompiles, \* bound: number of compile invocations
          MaxRuns      \* bound: number of run invocations

ASSUME ContractsAssumption == Contracts \subseteq Nat
ASSUME BoundsAssumption == MaxCompiles \in Nat /\ MaxRuns \in Nat

VARIABLES
  contractFiles, checkFiles, sqlFiles, \* the three directories, by contract
  phase,      \* how far the last compile came
  exit,       \* its exit category, "none" while it is running
  invocation, \* its invocation_id
  rendering,  \* --render-sql and its outcome, for the checks it compiled
  project,    \* the contracts it compiled
  broken,     \* those with compile diagnostics, whose checks are none
  todo,       \* those it still has to write
  reader,     \* the phase of the run
  unread,     \* contracts the run has listed and not read in this phase
  readChecks, readContracts, \* files by contract, as the run has read them
  runs,       \* number of runs started
  before,     \* history: the contracts a run could list before this compile
  disturbed   \* history: a compile took a step since the run started

disk == <<contractFiles, checkFiles, sqlFiles>>
compiling == <<invocation, rendering, project, broken>>
compileVars == <<disk, phase, exit, compiling, todo, before>>
runVars == <<reader, unread, readChecks, readContracts, runs>>
vars == <<compileVars, runVars, disturbed>>

Rendering == {"none", "rendered", "blocked", "failed"}
File(by, whole, status, empty) ==
  [by |-> by, whole |-> whole, rendering |-> status, empty |-> empty]
NoFile == File(0, FALSE, "none", FALSE)
NoFiles == [c \in Contracts |-> NoFile]

Present(files) == {c \in Contracts : files[c] # NoFile}
First(contracts) == CHOOSE c \in contracts : \A d \in contracts : c <= d

Clearing == {"clear contracts", "clear checks", "clear sql"}
Writing == {"write sql", "write contract", "finish contract", "write checks",
            "finish checks"}
Discarding == {"discard sql", "discard contracts", "discard checks"}
Running == exit = "none"

Init ==
  /\ contractFiles = NoFiles /\ checkFiles = NoFiles /\ sqlFiles = NoFiles
  /\ phase = "idle" /\ exit = "success" /\ invocation = 0
  /\ rendering = "none" /\ project = {} /\ broken = {} /\ todo = {}
  /\ reader = "idle" /\ unread = {} /\ runs = 0
  /\ readChecks = NoFiles /\ readContracts = NoFiles
  /\ before = {} /\ disturbed = FALSE

---------------------------------------------------------------------------
(* recon compile.                                                          *)

Goto(next) ==
  /\ Running
  /\ phase' = next
  /\ UNCHANGED <<disk, exit, compiling, todo, before>>

End(category) ==
  /\ Running
  /\ exit' = category
  /\ UNCHANGED <<disk, phase, compiling, todo, before>>

(* Mutant: the stale checks are cleared before the stale contracts.        *)
StartWithChecks ==
  /\ ~ Running
  /\ invocation < MaxCompiles
  /\ invocation' = invocation + 1
  /\ phase' = "clear checks"
  /\ exit' = "none"
  /\ before' = Present(checkFiles)
  /\ UNCHANGED <<disk, rendering, project, broken, todo>>

(* Mutant: only the compiled contracts are overwritten, nothing is cleared.*)
StartWithoutClearing ==
  /\ ~ Running
  /\ invocation < MaxCompiles
  /\ invocation' = invocation + 1
  /\ phase' = "compile"
  /\ exit' = "none"
  /\ before' = Present(checkFiles)
  /\ UNCHANGED <<disk, rendering, project, broken, todo>>

(* The project configuration has been loaded.                              *)
Start ==
  /\ ~ Running
  /\ invocation < MaxCompiles
  /\ invocation' = invocation + 1
  /\ phase' = "clear contracts"
  /\ exit' = "none"
  /\ before' = Present(checkFiles)
  /\ UNCHANGED <<disk, rendering, project, broken, todo>>

(* One file of the directory that `step` empties is removed.               *)
Removes(step, files, files1) ==
  /\ Running /\ phase = step
  /\ \E c \in Present(files) : files1 = [files EXCEPT ![c] = NoFile]
  /\ UNCHANGED <<phase, exit, compiling, todo, before>>

RemoveContract ==
  /\ \/ Removes("clear contracts", contractFiles, contractFiles')
     \/ Removes("discard contracts", contractFiles, contractFiles')
  /\ UNCHANGED <<checkFiles, sqlFiles>>

RemoveChecks ==
  /\ \/ Removes("clear checks", checkFiles, checkFiles')
     \/ Removes("discard checks", checkFiles, checkFiles')
  /\ UNCHANGED <<contractFiles, sqlFiles>>

RemoveSql ==
  /\ \/ Removes("clear sql", sqlFiles, sqlFiles')
     \/ Removes("discard sql", sqlFiles, sqlFiles')
  /\ UNCHANGED <<contractFiles, checkFiles>>

(* clear_compiled_artifacts: a directory is done, then the next one.       *)
Cleared ==
  \/ phase = "clear contracts" /\ Present(contractFiles) = {}
       /\ Goto("clear checks")
  \/ phase = "clear checks" /\ Present(checkFiles) = {} /\ Goto("clear sql")
  \/ phase = "clear sql" /\ Present(sqlFiles) = {} /\ Goto("compile")

(* A path that is a symlink or no directory, or a file that stays.         *)
ClearFails == phase \in Clearing /\ End("runtime_error")

(* Mutant: ends as a run whose checks fail.                                *)
NothingToWriteCheckFailure == phase = "compile" /\ End("check_failure")

(* Parsing fails, compiling fails for the whole project, or the profile of *)
(* --render-sql is refused: nothing is written.                            *)
NothingToWrite ==
  /\ phase = "compile"
  /\ End("validation_error") \/ End("configuration_error")

(* Mutant: the YAML files are written before the SQL they refer to.        *)
CompiledYamlFirst ==
  /\ Running /\ phase = "compile"
  /\ project' \in SUBSET Contracts \ {{}}
  /\ todo' = project'
  /\ broken' \in SUBSET project'
  /\ rendering' \in {"none"} \cup
       IF broken' = {} THEN {"rendered", "failed"} ELSE {"blocked"}
  /\ phase' = "write contract"
  /\ UNCHANGED <<disk, exit, invocation, before>>

(* Contracts were compiled.  With --render-sql compile diagnostics block   *)
(* the rendering of every check, and one that cannot be rendered suppresses*)
(* the SQL of all; only if all of it rendered there is SQL, written first. *)
Compiled ==
  /\ Running /\ phase = "compile"
  /\ project' \in SUBSET Contracts \ {{}}
  /\ todo' = project'
  /\ broken' \in SUBSET project'
  /\ rendering' \in {"none"} \cup
       IF broken' = {} THEN {"rendered", "failed"} ELSE {"blocked"}
  /\ phase' = IF rendering' = "rendered" THEN "write sql" ELSE "write contract"
  /\ UNCHANGED <<disk, exit, invocation, before>>

(* CompiledSqlWriter.write_batch, after its preflight.                     *)
WriteSql ==
  /\ Running /\ phase = "write sql"
  /\ \/ /\ todo # {}
        /\ todo' = todo \ {First(todo)}
        /\ sqlFiles' = [sqlFiles EXCEPT ![First(todo)] =
                          File(invocation, TRUE, "rendered", FALSE)]
        /\ UNCHANGED phase
     \/ /\ todo = {}
        /\ todo' = project
        /\ phase' = "write contract"
        /\ UNCHANGED sqlFiles
  /\ UNCHANGED <<contractFiles, checkFiles, exit, compiling, before>>

(* write_text truncates the file, then fills it.                           *)
OpenContract ==
  /\ Running /\ phase = "write contract" /\ todo # {}
  /\ phase' = "finish contract"
  /\ contractFiles' = [contractFiles EXCEPT ![First(todo)] =
                         File(invocation, FALSE, "none", FALSE)]
  /\ UNCHANGED <<checkFiles, sqlFiles, exit, compiling, todo, before>>

WriteContract ==
  /\ Running /\ phase = "finish contract"
  /\ phase' = "write checks"
  /\ contractFiles' = [contractFiles EXCEPT ![First(todo)] =
                         File(invocation, TRUE, "none", FALSE)]
  /\ UNCHANGED <<checkFiles, sqlFiles, exit, compiling, todo, before>>

OpenChecks ==
  /\ Running /\ phase = "write checks"
  /\ phase' = "finish checks"
  /\ checkFiles' = [checkFiles EXCEPT ![First(todo)] =
                      File(invocation, FALSE, rendering, FALSE)]
  /\ UNCHANGED <<contractFiles, sqlFiles, exit, compiling, todo, before>>

(* A contract with compile diagnostics is written without checks.          *)
WriteChecks ==
  /\ Running /\ phase = "finish checks"
  /\ phase' = "write contract"
  /\ todo' = todo \ {First(todo)}
  /\ checkFiles' = [checkFiles EXCEPT ![First(todo)] =
                      File(invocation, TRUE, rendering, First(todo) \in broken)]
  /\ UNCHANGED <<contractFiles, sqlFiles, exit, compiling, before>>

(* Everything is written.                                                  *)
Published ==
  /\ Running /\ phase = "write contract" /\ todo = {}
  /\ phase' = "published"
  /\ exit' = CASE broken # {}          -> "validation_error"
               [] rendering = "failed" -> "configuration_error"
               [] OTHER                -> "success"
  /\ UNCHANGED <<disk, compiling, todo, before>>

(* OSError or ValueError: what was written is discarded, the SQL first if  *)
(* there may be some.                                                      *)
WriteFails ==
  /\ phase \in Writing
  /\ phase = "write contract" => todo # {}
  /\ Goto(IF rendering = "rendered" THEN "discard sql" ELSE "discard contracts")

(* The next directory is discarded when one is empty, and also when it     *)
(* cannot be emptied: errors are suppressed.                               *)
Discards(mayFail) ==
  \/ /\ phase = "discard sql"
     /\ Present(sqlFiles) = {} \/ mayFail
     /\ Goto("discard contracts")
  \/ /\ phase = "discard contracts"
     /\ Present(contractFiles) = {} \/ mayFail
     /\ Goto("discard checks")
  \/ /\ phase = "discard checks"
     /\ Present(checkFiles) = {} \/ mayFail
     /\ End("runtime_error")

Discarded == Discards(FALSE)
DiscardFails == Discards(TRUE)

(* The process is killed.                                                  *)
Crash == End("killed")

CompileStep ==
  /\ \/ Start \/ RemoveContract \/ RemoveChecks \/ RemoveSql \/ Cleared
     \/ ClearFails \/ NothingToWrite \/ Compiled \/ WriteSql
     \/ OpenContract \/ WriteContract \/ OpenChecks \/ WriteChecks \/ Published
     \/ WriteFails \/ Discarded \/ DiscardFails \/ Crash
  /\ disturbed' = TRUE
  /\ UNCHANGED runVars

---------------------------------------------------------------------------
(* recon run, up to the artifacts it executes.                             *)

Reads(next) == reader' = next /\ UNCHANGED <<compileVars, runs, disturbed>>

Refuse ==
  /\ Reads("refused")
  /\ UNCHANGED <<unread, readChecks, readContracts>>

(* CompiledCheckLoader.load lists the compiled checks.                     *)
StartRun ==
  /\ reader \in {"idle", "loaded", "refused"}
  /\ runs < MaxRuns
  /\ runs' = runs + 1
  /\ reader' = "read checks"
  /\ unread' = Present(checkFiles)
  /\ readChecks' = NoFiles /\ readContracts' = NoFiles
  /\ disturbed' = Running
  /\ UNCHANGED compileVars

(* A file cut short is refused when what is left of it is no YAML or lacks *)
(* a required field, but the checks are listed before the optional end of  *)
(* the artifact, so it may as well be taken for one with fewer checks.     *)
ReadChecks(c) ==
  /\ reader = "read checks" /\ c \in unread
  /\ \/ /\ checkFiles[c] # NoFile
        /\ Reads("read checks")
        /\ unread' = unread \ {c}
        /\ readChecks' = [readChecks EXCEPT ![c] = checkFiles[c]]
        /\ UNCHANGED readContracts
     \/ ~ checkFiles[c].whole /\ Refuse

(* No artifact has a check, which holds for no artifact too; or else the   *)
(* contracts of the checks are next: all of them must exist first.         *)
ChecksRead ==
  /\ reader = "read checks" /\ unread = {}
  /\ IF \A c \in Present(readChecks) : readChecks[c].empty
       THEN Refuse
       ELSE /\ Reads("find contracts")
            /\ unread' = Present(readChecks)
            /\ UNCHANGED <<readChecks, readContracts>>

FindContract(c) ==
  /\ reader = "find contracts" /\ c \in unread
  /\ IF contractFiles[c] = NoFile
       THEN Refuse
       ELSE /\ Reads("find contracts")
            /\ unread' = unread \ {c}
            /\ UNCHANGED <<readChecks, readContracts>>

ContractsFound ==
  /\ reader = "find contracts" /\ unread = {}
  /\ Reads("read contracts")
  /\ unread' = Present(readChecks)
  /\ UNCHANGED <<readChecks, readContracts>>

(* Likewise, with metrics and policies as the end that may be missing.     *)
ReadContract(c) ==
  /\ reader = "read contracts" /\ c \in unread
  /\ \/ /\ contractFiles[c] # NoFile
        /\ Reads("read contracts")
        /\ unread' = unread \ {c}
        /\ readContracts' = [readContracts EXCEPT ![c] = contractFiles[c]]
        /\ UNCHANGED readChecks
     \/ ~ contractFiles[c].whole /\ Refuse

(* Mutant: what is executed is taken from the checks on disk again.        *)
LoadedLazily ==
  /\ reader = "read contracts" /\ unread = {}
  /\ Reads("loaded")
  /\ readChecks' = [c \in Contracts |-> IF c \in Present(readChecks)
                                         THEN checkFiles[c] ELSE NoFile]
  /\ UNCHANGED <<unread, readContracts>>

(* Checks and contracts are joined by names, source files and project,     *)
(* which do not tell one compile from the next.                            *)
Loaded ==
  /\ reader = "read contracts" /\ unread = {}
  /\ Reads("loaded")
  /\ UNCHANGED <<unread, readChecks, readContracts>>

RunStep ==
  \/ StartRun \/ ChecksRead \/ ContractsFound \/ Loaded
  \/ \E c \in unread : ReadChecks(c) \/ FindContract(c) \/ ReadContract(c)

Next == CompileStep \/ RunStep

Spec == Init /\ [][Next]_vars

---------------------------------------------------------------------------
(* Properties.                                                             *)

Files ==
  [Contracts -> [by : 0..MaxCompiles, whole : BOOLEAN,
                 rendering : Rendering, empty : BOOLEAN]]

(* The files and the progress of both processes have their types.          *)
TypeOK ==
  /\ {contractFiles, checkFiles, sqlFiles, readChecks, readContracts}
       \subseteq Files
  /\ phase \in {"idle", "compile", "published"}
                \cup Clearing \cup Writing \cup Discarding
  /\ exit \in {"none", "success", "validation_error", "configuration_error",
               "runtime_error", "killed"}
  /\ invocation \in 0..MaxCompiles /\ runs \in 0..MaxRuns
  /\ rendering \in Rendering
  /\ {project, broken, todo, unread, before} \subseteq SUBSET Contracts
  /\ reader \in {"idle", "read checks", "find contracts", "read contracts",
                 "loaded", "refused"}
  /\ disturbed \in BOOLEAN

(* Whatever failed or was killed before, a file that is written never      *)
(* stands beside a file of an earlier compile: compile clears the three    *)
(* directories before it writes, and gives up if it cannot.                *)
OneCompileOnDisk ==
  phase \in Writing \cup {"published"} =>
    \A c \in Contracts :
      {contractFiles[c].by, checkFiles[c].by, sqlFiles[c].by}
        \subseteq {0, invocation}

(* A run beside which no compile is running gets everything or nothing.    *)
(* After a complete compile it loads exactly the compiled contracts, whole *)
(* and of that compile.  After a compile that failed or was killed while   *)
(* it cleared, it loads all that could be loaded before, or is refused:    *)
(* the contracts go first, and checks without them are not run.            *)
UndisturbedRunsAreComplete ==
  reader = "loaded" /\ ~ disturbed =>
    /\ phase = "published" =>
         /\ Present(readChecks) = project
         /\ \A c \in project : \A file \in {readChecks[c], readContracts[c]} :
              file.whole /\ file.by = invocation
    /\ phase \in Clearing => Present(readChecks) = before

(* Wherever a compile was killed or gave up, the checks that a later run   *)
(* loads are joined with the contract they were compiled with, and that    *)
(* file is whole: it is written to its end before its checks are opened.   *)
UndisturbedJoinsAreSound ==
  reader = "loaded" /\ ~ disturbed =>
    \A c \in Present(readChecks) :
      readContracts[c].whole /\ readContracts[c].by = readChecks[c].by

(* Even a run that a compile overtakes never joins checks with a contract  *)
(* older than they are: compile writes a contract before its checks, run   *)
(* reads the checks before their contract, and cleared contracts do not    *)
(* come back.                                                              *)
ContractsAreNeverOlder ==
  reader = "loaded" =>
    \A c \in Present(readChecks) : readContracts[c].by >= readChecks[c].by

(* A compile that parsing, compiling or the profile stopped leaves nothing *)
(* of an earlier one to run.                                               *)
FailedCompilesLeaveNothing ==
  phase = "compile" /\ exit \in {"validation_error", "configuration_error"} =>
    \A c \in Contracts :
      {contractFiles[c], checkFiles[c], sqlFiles[c]} = {NoFile}

(* While a compile publishes and when it has, checks on disk that say they *)
(* are rendered have their SQL on disk, of the same compile.               *)
RenderedHasSql ==
  phase \in Writing \cup {"published"} =>
    \A c \in Contracts :
      checkFiles[c].rendering = "rendered" => sqlFiles[c].by = checkFiles[c].by

(* What docs/compatibility/compatibility-matrix.md says of a failed write: *)
(* no compiled SQL and no compiled YAML of the invocation is left.  The    *)
(* code suppresses the errors of the discarding.                           *)
FailedWritesLeaveNothing ==
  phase \in Discarding /\ exit = "runtime_error" =>
    \A c \in Contracts :
      {contractFiles[c], checkFiles[c], sqlFiles[c]} = {NoFile}

(* What docs/architecture/diagnostics-and-errors.md says of artifacts that *)
(* carry compile diagnostics: they may be written, but prevent run.  The   *)
(* loader refuses only if no contract at all has checks, and runs the rest.*)
ErrorDiagnosticsPreventRun ==
  reader = "loaded" /\ phase = "published" /\ ~ disturbed =>
    \A c \in Present(readChecks) : ~ readChecks[c].empty
=============================================================================
