----------------------------- MODULE ReleaseGate -----------------------------
(***************************************************************************)
(* scripts/run_release_gate.py: eight recorded steps, a report, an exit    *)
(* status.  The gate is run again and again while the source is edited, so *)
(* wheels of earlier revisions lie about; any command may fail, and the    *)
(* user may interrupt the gate while one runs.                             *)
(***************************************************************************)
EXTENDS ExitStatus, Sequences

CONSTANTS
    MaxRevision      \* bound: revisions of the source tree

ASSUME GateAssumption == MaxRevision \in Nat \ {0}

Dir     == {"dist", "elsewhere"}     \* ./dist, and another --dist-dir
NoWheel == 0
Absent  == -1                        \* no such venv
EmptyDir == -2                       \* what mkdtemp makes, not a venv yet
Bare    == 0                         \* a venv without the package
Prepared == -1                       \* before the first command, see command
Nowhere == "none"                    \* None

VARIABLES
    revision,        \* of the source tree
    wheels,          \* the revision of the wheel of the project's version in each directory
    venvs,           \* the revision installed in the venv given and in the temporary one
    settings,        \* Settings
    step,            \* the step under way; 0 when the gate is not running
    command,         \* commands of the wheel smoke test begun so far, or
                     \* Prepared while its try is not entered yet
    steps,           \* the status of each step recorded
    wheelPath,       \* report.wheel_path: its directory
    wheelTestVenv,   \* report.wheel_test_venv
    gateExit,        \* of the last run
    checked,         \* the revision the gate was started on
    tested,          \* the revision the smoke test passed with
    broken           \* a command of this run failed

report   == <<steps, wheelPath, wheelTestVenv>>
gateVars == <<revision, wheels, venvs, settings, step, command, report, gateExit,
              checked, tested, broken>>

Settings == [distDir : Dir, venv : {"given", "temp"}, keep : BOOLEAN, smokeHost : BOOLEAN]

Unset == [distDir |-> "dist", venv |-> "temp", keep |-> FALSE, smokeHost |-> FALSE]

GateInit ==
    /\ revision = 1
    /\ wheels \in [Dir -> {NoWheel, 1}]
    /\ venvs \in [{"given", "temp"} -> {Absent}]
    /\ settings = Unset
    /\ step = 0 /\ command = 0
    /\ steps = <<>> /\ wheelPath = Nowhere /\ wheelTestVenv = Nowhere
    /\ gateExit = Running /\ checked = 0 /\ tested = 0 /\ broken = FALSE

\* the source is edited between runs, its version stays
Edit ==
    /\ step = 0 /\ revision < MaxRevision
    /\ revision' = revision + 1
    /\ UNCHANGED <<wheels, venvs, settings, step, command, report, gateExit,
                   checked, tested, broken>>

\* main: a temporary venv has a path of its own in each run
GateStart(s) ==
    /\ step = 0
    /\ settings' = s
    /\ step' = 1 /\ command' = 0
    /\ steps' = <<>> /\ wheelPath' = Nowhere /\ wheelTestVenv' = Nowhere
    /\ gateExit' = Running /\ checked' = revision /\ tested' = 0 /\ broken' = FALSE
    /\ venvs' = [venvs EXCEPT !["temp"] = Absent]
    /\ UNCHANGED <<revision, wheels>>

\* _record_step: the next step comes whatever became of this one
RecordStep(status) ==
    /\ steps' = Append(steps, status)
    /\ step' = step + 1

\* ruff check, ruff format, mypy, pytest, pytest with coverage
RunTool ==
    /\ step \in 1 .. 5
    /\ \E ok \in BOOLEAN : /\ RecordStep(IF ok THEN "passed" ELSE "failed")
                           /\ broken' = (broken \/ ~ok)
    /\ UNCHANGED <<revision, wheels, venvs, settings, command, wheelPath, wheelTestVenv,
                   gateExit, checked, tested>>

\* the wheel of the project's version is looked for in dist_dir
FindWheel(found) ==
    IF found[settings.distDir] # NoWheel
    THEN RecordStep("passed") /\ wheelPath' = settings.distDir
    ELSE RecordStep("failed") /\ UNCHANGED wheelPath

\* mutant: hatch's exit status is not looked at
BuildUnchecked ==
    /\ step = 6
    /\ \E ok \in BOOLEAN :
         /\ broken' = (broken \/ ~ok)
         /\ wheels' = IF ok THEN [wheels EXCEPT !["dist"] = revision] ELSE wheels
         /\ FindWheel(wheels')
    /\ UNCHANGED <<revision, venvs, settings, command, wheelTestVenv, gateExit, checked, tested>>

\* _build_distributions: hatch writes into ./dist, wherever dist_dir is; when
\* it fails the wheel may be written already
BuildDistributions ==
    /\ step = 6
    /\ \/ /\ wheels' = [wheels EXCEPT !["dist"] = revision]
          /\ FindWheel(wheels')
          /\ UNCHANGED broken
       \/ /\ wheels' \in {wheels, [wheels EXCEPT !["dist"] = revision]}
          /\ RecordStep("failed") /\ UNCHANGED wheelPath
          /\ broken' = TRUE
    /\ UNCHANGED <<revision, venvs, settings, command, wheelTestVenv, gateExit, checked, tested>>

\* _require_wheel_path raises
WheelUnknown ==
    /\ step \in {7, 8} /\ command = 0 /\ wheelPath = Nowhere
    /\ RecordStep("failed")
    /\ UNCHANGED <<revision, wheels, venvs, settings, command, wheelPath, wheelTestVenv, gateExit,
                   checked, tested, broken>>

\* _check_wheel_duplicates
CheckWheelDuplicates ==
    /\ step = 7 /\ wheelPath # Nowhere
    /\ \E ok \in BOOLEAN : /\ RecordStep(IF ok THEN "passed" ELSE "failed")
                           /\ broken' = (broken \/ ~ok)
    /\ UNCHANGED <<revision, wheels, venvs, settings, command, wheelPath, wheelTestVenv,
                   gateExit, checked, tested>>

------------------------------------------------------------------------------
(* _wheel_smoke_test.  Its commands: 1 creates the venv, 2 installs the     *)
(* wheel, 3 to 7 ask for the version, an import and three help texts, 8     *)
(* asks a live agent.                                                       *)

LastCommand == IF settings.smokeHost THEN 8 ELSE 7

\* _prepare_wheel_test_venv: mkdtemp makes the directory, or raises
PrepareVenv ==
    /\ step = 8 /\ command = 0 /\ wheelPath # Nowhere
    /\ \/ /\ command' = Prepared
          /\ venvs' = IF settings.venv = "temp" THEN [venvs EXCEPT !["temp"] = EmptyDir] ELSE venvs
          /\ UNCHANGED <<step, steps>>
       \/ /\ settings.venv = "temp"
          /\ RecordStep("failed")
          /\ UNCHANGED <<command, venvs>>
    /\ UNCHANGED <<revision, wheels, settings, wheelPath, wheelTestVenv, gateExit,
                   checked, tested, broken>>

\* the try, with the finally clause that removes the venv, is entered
SmokeBegins ==
    /\ command = Prepared
    /\ command' = 1
    /\ UNCHANGED <<revision, wheels, venvs, settings, step, report, gateExit,
                   checked, tested, broken>>

\* what command n leaves in the venv when it works
VenvAfter(n) ==
    CASE n = 1 -> Bare
      [] n = 2 -> wheels[wheelPath]
      [] OTHER -> venvs[settings.venv]

SmokeCommand ==
    /\ command \in 1 .. LastCommand
    /\ venvs' = [venvs EXCEPT ![settings.venv] = VenvAfter(command)]
    /\ command' = command + 1
    /\ UNCHANGED <<revision, wheels, settings, step, report, gateExit, checked, tested, broken>>

\* what a command that is cut short may leave: the first removes what is there
\* before it creates the venv
CutShort ==
    IF command = 1
    THEN {venvs} \union {[venvs EXCEPT ![settings.venv] = v] : v \in {Absent, Bare}}
    ELSE {venvs}

Temporary == settings.venv = "temp" /\ ~settings.keep

\* mutant: the venv is removed only after a test that passed
RemoveIfPassed(left, reported) ==
    IF Temporary /\ reported # Nowhere
    THEN venvs' = [left EXCEPT !["temp"] = Absent] /\ wheelTestVenv' = Nowhere
    ELSE venvs' = left /\ wheelTestVenv' = reported

\* the finally clause, with rmtree doing its work
RemoveTemporary(left, reported) ==
    IF Temporary
    THEN venvs' = [left EXCEPT !["temp"] = Absent] /\ wheelTestVenv' = Nowhere
    ELSE venvs' = left /\ wheelTestVenv' = reported

\* every command worked
SmokePasses ==
    /\ command = LastCommand + 1
    /\ tested' = venvs[settings.venv]
    /\ RemoveTemporary(venvs, settings.venv)
    /\ RecordStep("passed") /\ command' = 0
    /\ UNCHANGED <<revision, wheels, settings, wheelPath, gateExit, checked, broken>>

\* a command fails, or its output is not what it should be
SmokeFails ==
    /\ command \in 1 .. LastCommand
    /\ \E left \in CutShort : RemoveTemporary(left, wheelTestVenv)
    /\ RecordStep("failed") /\ command' = 0
    /\ broken' = TRUE
    /\ UNCHANGED <<revision, wheels, settings, wheelPath, gateExit, checked, tested>>

\* main reports, and exits with 1 if report.failed
ReportGate ==
    /\ step = 9
    /\ step' = 0
    /\ gateExit' = IF \E i \in DOMAIN steps : steps[i] = "failed" THEN Failure ELSE Success
    /\ UNCHANGED <<revision, wheels, venvs, settings, command, report, checked, tested, broken>>

\* KeyboardInterrupt is not an Exception: it passes _record_step by, but not
\* the finally clause once the try is entered
InterruptGate ==
    /\ step \in 1 .. 8
    /\ step' = 0 /\ command' = 0 /\ gateExit' = Interrupted
    /\ IF command > 0
       THEN \E left \in CutShort : RemoveTemporary(left, wheelTestVenv)
       ELSE UNCHANGED <<venvs, wheelTestVenv>>
    /\ UNCHANGED <<revision, wheels, settings, steps, wheelPath, checked, tested, broken>>

GateNext ==
    \/ Edit \/ \E s \in Settings : GateStart(s)
    \/ RunTool \/ BuildDistributions \/ WheelUnknown \/ CheckWheelDuplicates
    \/ PrepareVenv \/ SmokeBegins \/ SmokeCommand \/ SmokePasses \/ SmokeFails
    \/ ReportGate \/ InterruptGate

------------------------------------------------------------------------------
\* A gate that exits with 0 had no command fail and, with the distributions in
\* ./dist, smoke-tested the wheel of the very revision it linted and ran the
\* tests of, though wheels of earlier revisions have the same name.  (With
\* another --dist-dir it may pass on an old wheel left there.)
GateTestedItsBuild ==
    gateExit = Success =>
        /\ ~broken
        /\ settings.distDir = "dist" => tested = checked /\ wheels["dist"] = checked

\* However a run of the gate ends, its temporary venv is gone unless it was to
\* be kept, and the report names no venv that is gone or in which the test
\* did not pass.  Only an interrupt before the try is entered leaves something
\* that was not to be kept, the empty directory.
VenvAsReported ==
    step = 0 /\ gateExit # Running =>
        /\ venvs["temp"] # Absent =>
             settings.keep \/ (venvs["temp"] = EmptyDir /\ gateExit = Interrupted)
        /\ wheelTestVenv # Nowhere => venvs[wheelTestVenv] = tested /\ tested # 0
==============================================================================
