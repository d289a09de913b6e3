------------------------------ MODULE Ecosystem ------------------------------
(***************************************************************************)
(* scripts/validate_ecosystem.py: a parent that makes a work directory and *)
(* a venv and starts a worker in it, and the worker's thirteen recorded    *)
(* steps.  A work directory given by the user still holds the artifacts of *)
(* earlier runs.  Commands fail, and the user interrupts.                  *)
(***************************************************************************)
EXTENDS ExitStatus, FiniteSets

CONSTANTS
    MaxRuns      \* bound: runs of the script

ASSUME EcosystemAssumption == MaxRuns \in Nat

CompileDir == {"plain", "manifest", "full"}
\* the file of --single-module, the other module files, the two sidecars
File       == {"single", "modules", "manifest", "index"}
NotThere   == 0

Versions == 1 .. 2
Compiles == 3 .. 5
LastStep == 13          \* the responder

Skippable == {11, 12, 13}       \* --skip-live, --skip-notifications, --skip-responder
Arguments == [workDir : {"given", "temp"}, keep : BOOLEAN, skip : SUBSET Skippable]
NoArguments == [workDir |-> "temp", keep |-> FALSE, skip |-> {}]

VARIABLES
    run,             \* runs begun
    arguments,       \* Arguments
    phase,           \* "idle", "prepared", "bootstrap", "worker" or "report"
    at,              \* the worker's step
    there,           \* the work directory exists
    keepWorkDir,     \* keep_work_dir
    made,            \* the run that wrote each file of each compile directory
    failed,          \* report.failed
    stale,           \* a step passed that read a file an earlier run wrote
    asked, handled,  \* the responder step: requests sent, requests handled
    wire,            \* "closed" outside of it, else what is under way
    validationExit

workDir  == <<there, keepWorkDir>>
scenario == <<asked, handled, wire>>
ecoVars  == <<run, arguments, phase, at, workDir, made, failed, stale, scenario, validationExit>>

Empty == [d \in CompileDir |-> [f \in File |-> NotThere]]

EcoInit ==
    /\ run = 0 /\ arguments = NoArguments /\ phase = "idle" /\ at = 0
    /\ there = FALSE /\ keepWorkDir = FALSE /\ made = Empty
    /\ failed = FALSE /\ stale = FALSE
    /\ asked = 0 /\ handled = 0 /\ wire = "closed"
    /\ validationExit = Running

\* _run_parent, _prepare_work_dir: the given one is taken as it is
ValidationStart(a) ==
    /\ phase = "idle" /\ run < MaxRuns
    /\ run' = run + 1 /\ arguments' = a
    /\ phase' = "prepared" /\ at' = 0
    /\ there' = TRUE /\ keepWorkDir' = a.keep
    /\ made' = IF a.workDir = "given" /\ arguments.workDir = "given" THEN made ELSE Empty
    /\ failed' = FALSE /\ stale' = FALSE /\ validationExit' = Running
    /\ UNCHANGED scenario

\* the try is entered
BootstrapBegins ==
    /\ phase = "prepared"
    /\ phase' = "bootstrap"
    /\ UNCHANGED <<run, arguments, at, workDir, made, failed, stale, scenario, validationExit>>

\* the finally clause
LeaveParent(code) ==
    /\ there' = (arguments.workDir = "given" \/ keepWorkDir')
    /\ validationExit' = code /\ phase' = "idle" /\ at' = 0

\* an Exception in the parent
BootstrapFails == keepWorkDir' = TRUE /\ LeaveParent(Failure)

\* the worker's return code is the parent's
WorkerReturns(code) ==
    /\ keepWorkDir' = (keepWorkDir \/ code # Success)
    /\ LeaveParent(code)

\* _create_venv, _install_packages and the worker's configuration
Bootstrap ==
    /\ phase = "bootstrap"
    /\ \/ /\ phase' = "worker" /\ at' = 1
          /\ UNCHANGED <<workDir, validationExit>>
       \/ BootstrapFails
    /\ UNCHANGED <<run, arguments, made, failed, stale, scenario>>

\* _load_worker_settings or metadata.version raises: the worker has no report
WorkerDies ==
    /\ phase = "worker" /\ at = 1
    /\ WorkerReturns(Failure)
    /\ UNCHANGED <<run, arguments, made, failed, stale, scenario>>

\* _record_step, and the artifacts a step read that passed
RecordValidation(status, read) ==
    /\ failed' = (failed \/ status = "failed")
    /\ stale' = (stale \/ (status = "passed" /\ \E x \in read : made[x[1]][x[2]] \in 1 .. run - 1))
    /\ IF at = LastStep THEN phase' = "report" /\ at' = 0 ELSE phase' = phase /\ at' = at + 1

\* _validate_cli_version, of tsmi and of tsnmp
ValidateVersion ==
    /\ phase = "worker" /\ at \in Versions
    /\ \E status \in {"passed", "failed"} : RecordValidation(status, {})
    /\ UNCHANGED <<run, arguments, workDir, made, scenario, validationExit>>

OutputDir == CASE at = 3 -> "plain" [] at = 4 -> "manifest" [] at = 5 -> "full"

\* --emit-manifest, --emit-oid-index
Requested ==
    CASE at = 3 -> {} [] at = 4 -> {"manifest"} [] at = 5 -> {"manifest", "index"}

\* mutant: the output directory is not removed
CleanedNot == made[OutputDir]

\* rmtree and mkdir
Cleaned == [f \in File |-> NotThere]

Holding(dir) == {f \in File : dir[f] # NotThere}

\* _compile_bundle, up to the end of the tsmi command: it may write some files
\* and fail, or succeed without having written all that was asked for.  A
\* module file counts whichever module it is of.
CompileBundle ==
    /\ phase = "worker" /\ at \in Compiles
    /\ \E files \in SUBSET ((IF at = 3 THEN {"single"} ELSE {}) \union {"modules"} \union Requested),
          ok \in BOOLEAN :
         LET dir == [f \in File |-> IF f \in files THEN run ELSE Cleaned[f]] IN
         /\ made' = [made EXCEPT ![OutputDir] = dir]
         /\ RecordValidation(
              IF ok /\ Holding(dir) \intersect {"single", "modules"} # {} /\ Requested \subseteq Holding(dir)
              THEN "passed" ELSE "failed", {})
    /\ UNCHANGED <<run, arguments, workDir, scenario, validationExit>>

\* rmtree raises before tsmi is started, with part of the directory gone
CompileBlocked ==
    /\ phase = "worker" /\ at \in Compiles
    /\ Holding(made[OutputDir]) # {}
    /\ \E gone \in SUBSET Holding(made[OutputDir]) :
         made' = [made EXCEPT ![OutputDir] = [f \in File |-> IF f \in gone THEN NotThere ELSE @[f]]]
    /\ RecordValidation("failed", {})
    /\ UNCHANGED <<run, arguments, workDir, scenario, validationExit>>

\* the files a step opens
Read ==
    CASE at \in {6, 8, 10} -> {<<"plain", "single">>}
      [] at \in {7, 9, 12, 13} -> {"full"} \X {"modules", "manifest", "index"}
      [] at = 11 -> {<<"plain", "single">>} \union {"full"} \X {"modules", "manifest", "index"}

\* those it cannot do without
Needed ==
    CASE at \in {6, 8, 10} -> {<<"plain", "single">>}
      [] at = 7 -> {"full"} \X {"modules", "manifest", "index"}
      [] at \in {9, 12, 13} -> {<<"full", "modules">>}
      [] at = 11 -> {<<"plain", "single">>, <<"full", "modules">>}

NeededThere == \A x \in Needed : made[x[1]][x[2]] # NotThere

\* SkippedStepError
SkipStep ==
    /\ phase = "worker" /\ at \in arguments.skip
    /\ RecordValidation("skipped", {})
    /\ UNCHANGED <<run, arguments, workDir, made, scenario, validationExit>>

\* a step fails on its own account, or for want of a file
Examine ==
    /\ \E status \in {"passed", "failed"} :
         /\ status = "passed" => NeededThere
         /\ RecordValidation(status, Read)
    /\ UNCHANGED <<run, arguments, workDir, made, scenario, validationExit>>

\* _validate_module_json, _validate_sidecars, the runtime loads and the CLI's
\* translate
ValidateArtifacts == phase = "worker" /\ at \in 6 .. 10 /\ Examine

ValidateLiveAgent == phase = "worker" /\ at = 11 /\ at \notin arguments.skip /\ Examine

\* its awaits have timeouts, or are for a trap that has been received
ValidateNotifications == phase = "worker" /\ at = 12 /\ at \notin arguments.skip /\ Examine

------------------------------------------------------------------------------
(* _validate_responder: a task serves so many requests; a manager and a     *)
(* dispatcher make four, without retries, each after the answer to the one  *)
(* before; then the task is awaited, without a timeout.                     *)

Requests == 4           \* get, get_next, get_bulk and a SET

\* mutant: the task waits for one request more
ServeOneMore == 5

ServeCount == 4

\* the bundle does not load
ResponderUnloaded ==
    /\ phase = "worker" /\ at = 13 /\ at \notin arguments.skip /\ wire = "closed"
    /\ RecordValidation("failed", Read)
    /\ UNCHANGED <<run, arguments, workDir, made, scenario, validationExit>>

ResponderStart ==
    /\ phase = "worker" /\ at = 13 /\ at \notin arguments.skip /\ wire = "closed"
    /\ NeededThere
    /\ wire' = "quiet" /\ asked' = 0 /\ handled' = 0
    /\ UNCHANGED <<run, arguments, phase, at, workDir, made, failed, stale, validationExit>>

Ask ==
    /\ wire = "quiet" /\ asked < Requests
    /\ asked' = asked + 1 /\ wire' = "request"
    /\ UNCHANGED <<run, arguments, phase, at, workDir, made, failed, stale, handled, validationExit>>

\* handle_request, while serve has not had its count
Handle ==
    /\ wire = "request" /\ handled < ServeCount
    /\ handled' = handled + 1 /\ wire' = "response"
    /\ UNCHANGED <<run, arguments, phase, at, workDir, made, failed, stale, asked, validationExit>>

Answered ==
    /\ wire = "response"
    /\ wire' = "quiet"
    /\ UNCHANGED <<run, arguments, phase, at, workDir, made, failed, stale, asked, handled, validationExit>>

\* a request or its response is lost or late: RequestTimeoutError closes the
\* responder and the task with it
RequestTimesOut ==
    /\ wire \in {"request", "response"}
    /\ wire' = "closed" /\ asked' = 0 /\ handled' = 0
    /\ RecordValidation("failed", Read)
    /\ UNCHANGED <<run, arguments, workDir, made, validationExit>>

\* serve_task returns; the responses are as expected, or not
AwaitServe ==
    /\ wire = "quiet" /\ asked = Requests /\ handled = ServeCount
    /\ wire' = "closed" /\ asked' = 0 /\ handled' = 0
    /\ \E status \in {"passed", "failed"} :
         /\ status = "passed" => handled = 4
         /\ RecordValidation(status, Read)
    /\ UNCHANGED <<run, arguments, workDir, made, validationExit>>

ResponderStep ==
    \/ ResponderUnloaded \/ ResponderStart
    \/ Ask \/ Handle \/ Answered \/ RequestTimesOut \/ AwaitServe

------------------------------------------------------------------------------
\* _run_worker writes --report-json, which may fail, and returns
ReportValidation ==
    /\ phase = "report"
    /\ \E written \in BOOLEAN : WorkerReturns(IF failed \/ ~written THEN Failure ELSE Success)
    /\ UNCHANGED <<run, arguments, made, failed, stale, scenario>>

\* KeyboardInterrupt in the parent: it passes the except clause by, and before
\* the try the finally clause too
InterruptValidation ==
    /\ phase # "idle"
    /\ IF phase = "prepared"
       THEN /\ validationExit' = Interrupted /\ phase' = "idle" /\ at' = 0
            /\ UNCHANGED workDir
       ELSE UNCHANGED keepWorkDir /\ LeaveParent(Interrupted)
    /\ asked' = 0 /\ handled' = 0 /\ wire' = "closed"
    /\ UNCHANGED <<run, arguments, made, failed, stale>>

ValidationStep ==
    \/ BootstrapBegins \/ Bootstrap \/ WorkerDies \/ ValidateVersion
    \/ CompileBundle \/ CompileBlocked
    \/ SkipStep \/ ValidateArtifacts \/ ValidateLiveAgent \/ ValidateNotifications
    \/ ResponderStep
    \/ ReportValidation

EcoNext ==
    \/ \E a \in Arguments : ValidationStart(a)
    \/ ValidationStep \/ InterruptValidation

------------------------------------------------------------------------------
\* A validation that exits with 0 read only what this run compiled, though a
\* work directory given to it is full of what earlier runs, finished or not,
\* left there.
FreshArtifacts == validationExit = Success => ~stale

\* A validation ends: in particular the task that serves the four requests,
\* awaited without a timeout, has had all of them when it is awaited.
ValidationEnds == phase # "idle" ~> phase = "idle"
==============================================================================
