----------------------------- MODULE ToolsProofs -----------------------------
(* What the three programs promise by their exit verdict, for any number of  *)
(* revisions of the source, of validations in one work directory, of        *)
(* notifications listened for, and any set of tsnmp command lines.          *)
EXTENDS Tools, SequenceTheorems, TLAPS

------------------------------------------------------------------------------
(* validate_ecosystem.py                                                    *)

\* what the compile steps before the one under way were to write
Compiled == (IF at > 3 THEN {"plain"} ELSE {}) \union (IF at > 5 THEN {"full"} ELSE {})

Fresh(d) == \A f \in File : made[d][f] \in {NotThere, run}

EcoTypes ==
    /\ run \in Nat /\ at \in 0 .. LastStep /\ arguments \in Arguments
    /\ made \in [CompileDir -> [File -> Nat]]
    /\ phase \in {"idle", "prepared", "bootstrap", "worker", "report"}

\* As long as no step has failed, what was compiled is this run's, and nothing
\* older was read.
FreshSoFar ==
    phase # "idle" /\ ~failed =>
        /\ ~stale
        /\ phase = "worker" => \A d \in Compiled : Fresh(d)

\* a task serves only in the responder step, which is not skipped then
Serving == wire # "closed" => phase = "worker" /\ at = LastStep /\ at \notin arguments.skip

EcoInv ==
    /\ EcoTypes /\ FreshSoFar /\ Serving
    /\ validationExit # Running => phase = "idle"
    /\ FreshArtifacts

LEMMA NothingMade == Empty \in [CompileDir -> [File -> Nat]]
  BY DEF Empty, NotThere

LEMMA EcoStarts == EcoInit => EcoInv
<1> SUFFICES ASSUME EcoInit PROVE EcoInv
  OBVIOUS
<1>1. EcoTypes
  <2>1. NoArguments \in Arguments
    BY DEF NoArguments, Arguments
  <2> QED
    BY <2>1, NothingMade DEF EcoInit, EcoTypes, LastStep
<1>2. FreshSoFar /\ Serving
  BY DEF EcoInit, FreshSoFar, Serving
<1>3. FreshArtifacts
  BY DEF EcoInit, FreshArtifacts, Running, Success, Failure
<1> QED
  BY <1>1, <1>2, <1>3 DEF EcoInit, EcoInv

LEMMA ValidationStartKeeps ==
    ASSUME EcoInv, NEW a \in Arguments, ValidationStart(a)
    PROVE  EcoInv'
<1> USE DEF EcoInv
<1>1. EcoTypes'
  BY NothingMade DEF ValidationStart, EcoTypes, LastStep
<1>2. phase' = "prepared" /\ ~stale' /\ validationExit' = Running
  BY DEF ValidationStart
<1>3. wire' = "closed"
  BY DEF ValidationStart, Serving, scenario
<1> QED
  BY <1>1, <1>2, <1>3 DEF FreshSoFar, Serving, FreshArtifacts,
                          Running, Success, Failure

\* the parent leaves: with 0 only when no step has failed
LEMMA LeaveParentKeeps ==
    ASSUME EcoInv, NEW code \in {Success, Failure, Interrupted}, LeaveParent(code),
           code = Success => phase # "idle" /\ ~failed,
           wire' = "closed", UNCHANGED <<run, arguments, made, failed, stale>>
    PROVE  EcoInv'
<1> USE DEF EcoInv
<1>1. EcoTypes'
  BY DEF LeaveParent, EcoTypes, LastStep
<1>2. FreshSoFar' /\ Serving'
  BY DEF LeaveParent, FreshSoFar, Serving
<1>3. FreshArtifacts'
  <2>1. code = Success => ~stale
    BY DEF FreshSoFar
  <2>2. validationExit' = code /\ stale' = stale
    BY DEF LeaveParent
  <2> QED
    BY <2>1, <2>2 DEF FreshArtifacts
<1> QED
  BY <1>1, <1>2, <1>3 DEF LeaveParent

\* A worker's step is recorded: it goes well only if what it read, and what
\* there is to read for the next, is this run's.
LEMMA RecordKeeps ==
    ASSUME EcoInv, phase = "worker", at \in 1 .. LastStep,
           NEW verdict, NEW read, RecordValidation(verdict, read),
           read \subseteq Compiled \X File,
           made' \in [CompileDir -> [File -> Nat]],
           verdict # "failed" /\ ~failed => \A d \in Compiled' : Fresh(d)',
           wire' = "closed", UNCHANGED <<run, arguments, validationExit>>
    PROVE  EcoInv'
<1> USE DEF EcoInv
<1>1. at \in Nat /\ run \in Nat
  BY DEF EcoTypes, LastStep
<1>2. EcoTypes'
  BY DEF RecordValidation, EcoTypes, LastStep
<1>3. Serving'
  BY DEF Serving
<1>4. validationExit = Running
  BY DEF EcoTypes
<1>5. FreshSoFar'
  <2>1. SUFFICES ASSUME ~failed' PROVE ~stale' /\ \A d \in Compiled' : Fresh(d)'
    BY DEF FreshSoFar
  <2>2. ~failed /\ verdict # "failed"
    BY <2>1 DEF RecordValidation
  <2>3. ~stale /\ \A d \in Compiled : Fresh(d)
    BY <2>2 DEF FreshSoFar
  <2>4. ASSUME NEW x \in read PROVE made[x[1]][x[2]] \notin 1 .. run - 1
    <3>1. x[1] \in Compiled /\ x[2] \in File
      OBVIOUS
    <3>2. made[x[1]][x[2]] \in {0, run}
      BY <2>3, <3>1 DEF Fresh, NotThere
    <3> QED
      BY <1>1, <3>2
  <2>5. stale' = (stale \/ (verdict = "passed" /\ \E x \in read : made[x[1]][x[2]] \in 1 .. run - 1))
    BY DEF RecordValidation
  <2>6. ~stale'
    BY <2>3, <2>4, <2>5, Zenon
  <2> QED
    BY <2>2, <2>6
<1>6. Running # Success /\ Running # Failure
  BY DEF Running, Success, Failure
<1> QED
  BY <1>2, <1>3, <1>4, <1>5, <1>6 DEF FreshArtifacts

\* the compiled directories are those of the step before, except after a compile
LEMMA NothingCompiled ==
    ASSUME EcoInv, phase = "worker", at \in 1 .. LastStep, at \notin Compiles,
           NEW verdict, NEW read, RecordValidation(verdict, read),
           UNCHANGED <<made, run>>
    PROVE  /\ made' \in [CompileDir -> [File -> Nat]]
           /\ ~failed => \A d \in Compiled' : Fresh(d)'
<1>1. Compiled' \subseteq Compiled
  BY DEF RecordValidation, Compiled, Compiles, LastStep
<1>2. ~failed => \A d \in Compiled : Fresh(d)
  BY DEF EcoInv, FreshSoFar
<1> QED
  BY <1>1, <1>2 DEF EcoInv, EcoTypes, Fresh

LEMMA ReadWasCompiled ==
    ASSUME at \in 6 .. LastStep
    PROVE  Read \subseteq Compiled \X File
<1>1. Compiled = {"plain", "full"}
  BY DEF Compiled, LastStep
<1>2. CASE at \in {6, 8, 10}
  BY <1>1, <1>2 DEF Read, File
<1>3. CASE at \in {7, 9, 12, 13}
  <2>1. Read = {"full"} \X {"modules", "manifest", "index"}
    BY <1>3 DEF Read
  <2> QED
    BY <1>1, <2>1 DEF File
<1>4. CASE at = 11
  <2>1. Read = {<<"plain", "single">>} \union {"full"} \X {"modules", "manifest", "index"}
    BY <1>4 DEF Read
  <2> QED
    BY <1>1, <2>1 DEF File
<1> QED
  BY <1>2, <1>3, <1>4 DEF LastStep

\* a step that reads, and records what became of it
LEMMA ReaderKeeps ==
    ASSUME EcoInv, phase = "worker", at \in 6 .. LastStep,
           NEW verdict, RecordValidation(verdict, Read),
           wire' = "closed", UNCHANGED <<run, arguments, made, validationExit>>
    PROVE  EcoInv'
<1>1. at \in 1 .. LastStep /\ at \notin Compiles
  BY DEF LastStep, Compiles
<1>2. /\ made' \in [CompileDir -> [File -> Nat]]
      /\ ~failed => \A d \in Compiled' : Fresh(d)'
  BY <1>1, NothingCompiled
<1> QED
  BY <1>1, <1>2, ReadWasCompiled, RecordKeeps

LEMMA CompileKeeps ==
    ASSUME EcoInv, CompileBundle \/ CompileBlocked
    PROVE  EcoInv'
<1> USE DEF EcoInv
<1>1. /\ phase = "worker" /\ at \in Compiles /\ at \in 1 .. LastStep /\ run \in Nat
      /\ UNCHANGED <<run, arguments, validationExit>>
  BY DEF CompileBundle, CompileBlocked, Compiles, LastStep, EcoTypes
<1>2. wire' = "closed"
  BY <1>1 DEF CompileBundle, CompileBlocked, Serving, Compiles, LastStep, scenario
<1>3. OutputDir \in CompileDir /\ made \in [CompileDir -> [File -> Nat]]
  BY <1>1 DEF OutputDir, CompileDir, Compiles, EcoTypes
<1>4. {} \subseteq Compiled \X File
  OBVIOUS
<1>5. CASE CompileBundle
  <2>1. PICK files \in SUBSET ((IF at = 3 THEN {"single"} ELSE {}) \union {"modules"} \union Requested),
             ok \in BOOLEAN :
          LET dir == [f \in File |-> IF f \in files THEN run ELSE Cleaned[f]] IN
          /\ made' = [made EXCEPT ![OutputDir] = dir]
          /\ RecordValidation(
               IF ok /\ Holding(dir) \intersect {"single", "modules"} # {} /\ Requested \subseteq Holding(dir)
               THEN "passed" ELSE "failed", {})
    BY <1>5 DEF CompileBundle
  <2> DEFINE dir == [f \in File |-> IF f \in files THEN run ELSE Cleaned[f]]
             verdict == IF ok /\ Holding(dir) \intersect {"single", "modules"} # {}
                              /\ Requested \subseteq Holding(dir)
                       THEN "passed" ELSE "failed"
  <2>2. made' = [made EXCEPT ![OutputDir] = dir] /\ RecordValidation(verdict, {})
    BY <2>1
  <2>3. dir \in [File -> Nat] /\ \A f \in File : dir[f] \in {NotThere, run}
    BY <1>1 DEF Cleaned, NotThere
  <2> HIDE DEF dir, verdict
  <2>4. made' \in [CompileDir -> [File -> Nat]]
    BY <1>3, <2>2, <2>3
  <2>5. ASSUME ~failed, NEW d \in Compiled' PROVE Fresh(d)'
    <3>1. d = OutputDir \/ d \in Compiled
      BY <1>1, <2>2 DEF RecordValidation, Compiled, Compiles, OutputDir, LastStep
    <3>2. d \in CompileDir
      BY DEF Compiled, CompileDir
    <3>3. CASE d = OutputDir
      <4>1. made'[d] = dir
        BY <1>3, <2>2, <3>3
      <4> QED
        BY <1>1, <2>3, <4>1 DEF Fresh
    <3>4. CASE d # OutputDir
      <4>1. made'[d] = made[d]
        BY <1>3, <2>2, <3>2, <3>4
      <4>2. Fresh(d)
        BY <1>1, <2>5, <3>1, <3>4 DEF FreshSoFar
      <4> QED
        BY <1>1, <4>1, <4>2 DEF Fresh
    <3> QED
      BY <3>3, <3>4
  <2> QED
    BY <1>1, <1>2, <1>4, <2>2, <2>4, <2>5, RecordKeeps
<1>6. CASE CompileBlocked
  <2>1. PICK gone \in SUBSET Holding(made[OutputDir]) :
          made' = [made EXCEPT ![OutputDir] = [f \in File |-> IF f \in gone THEN NotThere ELSE @[f]]]
    BY <1>6 DEF CompileBlocked
  <2>2. made' \in [CompileDir -> [File -> Nat]]
    <3>1. [f \in File |-> IF f \in gone THEN NotThere ELSE made[OutputDir][f]] \in [File -> Nat]
      BY <1>3 DEF NotThere
    <3> QED
      BY <1>3, <2>1, <3>1
  <2>3. RecordValidation("failed", {})
    BY <1>6 DEF CompileBlocked
  <2> QED
    BY <1>1, <1>2, <1>4, <2>2, <2>3, RecordKeeps
<1> QED
  BY <1>5, <1>6

\* inside the responder step
LEMMA ScenarioKeeps ==
    ASSUME EcoInv, Serving',
           UNCHANGED <<run, arguments, phase, at, made, failed, stale, validationExit>>
    PROVE  EcoInv'
  BY DEF EcoInv, EcoTypes, FreshSoFar, Compiled, Fresh, FreshArtifacts

LEMMA ResponderKeeps ==
    ASSUME EcoInv, ResponderStep
    PROVE  EcoInv'
<1> USE DEF EcoInv
<1>a. LastStep = 13 /\ 13 \in 6 .. LastStep
  BY DEF LastStep
<1>1. CASE ResponderUnloaded
  BY <1>a, <1>1, ReaderKeeps DEF ResponderUnloaded, scenario
<1>2. CASE ResponderStart
  BY <1>a, <1>2, ScenarioKeeps DEF ResponderStart, Serving
<1>3. CASE Ask \/ Handle \/ Answered
  BY <1>3, ScenarioKeeps DEF Ask, Handle, Answered, Serving
<1>4. CASE RequestTimesOut \/ AwaitServe
  <2>1. phase = "worker" /\ at \in 6 .. LastStep
    BY <1>a, <1>4 DEF RequestTimesOut, AwaitServe, Serving
  <2>2. /\ \E verdict : RecordValidation(verdict, Read)
        /\ wire' = "closed" /\ UNCHANGED <<run, arguments, made, validationExit>>
    BY <1>4 DEF RequestTimesOut, AwaitServe
  <2> QED
    BY <2>1, <2>2, ReaderKeeps
<1> QED
  BY <1>1, <1>2, <1>3, <1>4 DEF ResponderStep

LEMMA EcoKeeps ==
    ASSUME EcoInv, EcoNext
    PROVE  EcoInv'
<1> USE DEF EcoInv
<1>a. phase \in {"bootstrap", "report"} \/ at \in 1 .. 12 => wire = "closed"
  BY DEF Serving, LastStep
<1>1. CASE \E a \in Arguments : ValidationStart(a)
  BY <1>1, ValidationStartKeeps
<1>2. CASE Bootstrap
  <2>1. phase = "bootstrap" /\ wire' = "closed"
        /\ UNCHANGED <<run, arguments, made, failed, stale>>
    BY <1>a, <1>2 DEF Bootstrap, scenario
  <2>2. CASE BootstrapFails
    BY <2>1, <2>2, LeaveParentKeeps DEF BootstrapFails, Success, Failure
  <2>3. CASE /\ phase' = "worker" /\ at' = 1
             /\ UNCHANGED validationExit
    <3>1. EcoTypes'
      BY <2>1, <2>3 DEF EcoTypes, LastStep
    <3>2. FreshSoFar' /\ Serving'
      BY <2>1, <2>3 DEF FreshSoFar, Serving, Compiled
    <3>3. validationExit = Running
      BY <2>1
    <3> QED
      BY <2>1, <2>3, <3>1, <3>2, <3>3
         DEF FreshArtifacts, Running, Success, Failure
  <2> QED
    BY <1>2, <2>2, <2>3 DEF Bootstrap, workDir
<1>3. CASE WorkerDies
  <2>1. wire' = "closed"
    BY <1>a, <1>3 DEF WorkerDies, scenario
  <2> QED
    BY <1>3, <2>1, LeaveParentKeeps DEF WorkerDies, WorkerReturns, Success, Failure
<1>4. CASE ValidateVersion
  <2>1. at \in 1 .. LastStep /\ at \in 1 .. 12 /\ at \notin Compiles /\ phase = "worker"
    BY <1>4 DEF ValidateVersion, Versions, Compiles, LastStep
  <2>2. wire' = "closed" /\ UNCHANGED <<run, arguments, made, validationExit>>
    BY <1>a, <1>4, <2>1 DEF ValidateVersion, scenario
  <2>3. PICK verdict : RecordValidation(verdict, {})
    BY <1>4 DEF ValidateVersion
  <2>4. {} \subseteq Compiled \X File
    OBVIOUS
  <2> QED
    BY <2>1, <2>2, <2>3, <2>4, NothingCompiled, RecordKeeps
<1>5. CASE CompileBundle \/ CompileBlocked
  BY <1>5, CompileKeeps
<1>6. CASE SkipStep
  <2>1. phase = "worker" /\ at \in 1 .. LastStep /\ at \notin Compiles
    BY <1>6 DEF SkipStep, EcoTypes, Arguments, Skippable, Compiles, LastStep
  <2>2. wire' = "closed" /\ UNCHANGED <<run, arguments, made, validationExit>>
    BY <1>6 DEF SkipStep, Serving, scenario
  <2>3. RecordValidation("skipped", {})
    BY <1>6 DEF SkipStep
  <2>4. {} \subseteq Compiled \X File
    OBVIOUS
  <2> QED
    BY <2>1, <2>2, <2>3, <2>4, NothingCompiled, RecordKeeps
<1>7. CASE ValidateArtifacts \/ ValidateLiveAgent \/ ValidateNotifications
  <2>1. /\ phase = "worker" /\ at \in 6 .. LastStep /\ at \in 1 .. 12
        /\ Examine
    BY <1>7 DEF ValidateArtifacts, ValidateLiveAgent, ValidateNotifications, LastStep
  <2>2. /\ wire' = "closed" /\ UNCHANGED <<run, arguments, made, validationExit>>
        /\ \E verdict : RecordValidation(verdict, Read)
    BY <1>a, <2>1 DEF Examine, scenario
  <2> QED
    BY <2>1, <2>2, ReaderKeeps
<1>8. CASE ResponderStep
  BY <1>8, ResponderKeeps
<1>9. CASE ReportValidation
  <2>1. wire' = "closed" /\ UNCHANGED <<run, arguments, made, failed, stale>>
    BY <1>a, <1>9 DEF ReportValidation, scenario
  <2>2. \E code \in {Success, Failure} : LeaveParent(code) /\ (code = Success => ~failed)
    <3>1. Success # Failure
      BY DEF Success, Failure
    <3> QED
      BY <1>9, <3>1 DEF ReportValidation, WorkerReturns
  <2> QED
    BY <1>9, <2>1, <2>2, LeaveParentKeeps DEF ReportValidation
<1>10. CASE InterruptValidation
  <2>1. wire' = "closed" /\ UNCHANGED <<run, arguments, made, failed, stale>>
    BY <1>10 DEF InterruptValidation
  <2>2. CASE LeaveParent(Interrupted)
    BY <2>1, <2>2, LeaveParentKeeps DEF Success, Interrupted
  <2>3. CASE validationExit' = Interrupted /\ phase' = "idle" /\ at' = 0
    <3>1. EcoTypes' /\ FreshSoFar' /\ Serving'
      BY <2>1, <2>3 DEF EcoTypes, LastStep, FreshSoFar, Serving
    <3> QED
      BY <2>3, <3>1 DEF FreshArtifacts, Success, Interrupted
  <2> QED
    BY <1>10, <2>2, <2>3 DEF InterruptValidation
<1>11. CASE BootstrapBegins
  <2>1. /\ phase = "prepared" /\ phase' = "bootstrap" /\ wire' = wire
        /\ UNCHANGED <<run, arguments, at, made, failed, stale, validationExit>>
    BY <1>11 DEF BootstrapBegins, scenario
  <2>2. EcoTypes' /\ FreshSoFar' /\ Serving'
    BY <2>1 DEF EcoTypes, LastStep, FreshSoFar, Serving
  <2>3. validationExit = Running
    BY <2>1
  <2> QED
    BY <2>1, <2>2, <2>3 DEF FreshArtifacts, Running, Success
<1> QED
  BY <1>1, <1>2, <1>3, <1>4, <1>5, <1>6, <1>7, <1>8, <1>9, <1>10, <1>11
     DEF EcoNext, ValidationStep
------------------------------------------------------------------------------
(* run_release_gate.py                                                      *)

GateTypes ==
    /\ revision \in Nat \ {0}
    /\ wheels \in [Dir -> Nat]
    /\ venvs \in [{"given", "temp"} -> Nat \union {Absent, EmptyDir}]
    /\ settings \in Settings
    /\ step \in 0 .. 9 /\ command \in -1 .. 9
    /\ steps \in Seq({"passed", "failed"})
    /\ wheelPath \in Dir \union {Nowhere}

AllPassed == \A i \in DOMAIN steps : steps[i] # "failed"

\* The wheel the gate goes by is in the directory asked for, and in ./dist it
\* was built in this run, of the revision the gate was started on.
WheelKnown ==
    wheelPath # Nowhere =>
        /\ wheelPath = settings.distDir
        /\ wheels[wheelPath] # NoWheel
        /\ settings.distDir = "dist" => wheels["dist"] = checked

\* While the gate runs the source is left alone, a failed command has a failed
\* step to show for it, and the wheel is known once the build has passed.
GateUnderWay ==
    step > 0 =>
        /\ gateExit = Running /\ checked = revision
        /\ Len(steps) = step - 1
        /\ broken => ~AllPassed
        /\ step \in 1 .. 6 => wheelPath = Nowhere
        /\ step > 6 /\ AllPassed => wheelPath # Nowhere

\* The smoke test has a wheel, and past its second command the venv holds it;
\* until it is over nothing is reported of it, and only then is there a
\* temporary venv, which is an empty directory until the try is entered.
SmokeUnderWay ==
    /\ command # 0 =>
         /\ step = 8 /\ wheelPath # Nowhere /\ command <= LastCommand + 1
         /\ command > 2 => venvs[settings.venv] = wheels[wheelPath]
    /\ step \in 1 .. 8 =>
         /\ tested = 0 /\ wheelTestVenv = Nowhere
         /\ venvs["temp"] # Absent => command # 0 /\ settings.venv = "temp"
         /\ command = Prepared => venvs["temp"] \in {Absent, EmptyDir}

\* What the smoke test leaves: the venv only if it was to be kept, and a venv
\* in the report only if the wheel passed in it.
SmokeOver ==
    step = 9 \/ gateExit # Running =>
        /\ venvs["temp"] # Absent =>
             settings.keep \/ (venvs["temp"] = EmptyDir /\ gateExit = Interrupted)
        /\ wheelTestVenv # Nowhere =>
             /\ wheelTestVenv \in {"given", "temp"}
             /\ venvs[wheelTestVenv] = tested /\ tested # 0

SmokePassed == step = 9 /\ AllPassed => tested = wheels[wheelPath]

GateInv ==
    /\ GateTypes /\ WheelKnown /\ GateUnderWay /\ SmokeUnderWay /\ SmokeOver
    /\ SmokePassed /\ GateTestedItsBuild

LEMMA GateStarts == GateInit => GateInv
<1> SUFFICES ASSUME GateInit PROVE GateInv
  OBVIOUS
<1>1. GateTypes
  <2>1. wheels \in [Dir -> Nat]
    BY DEF GateInit, NoWheel
  <2>2. venvs \in [{"given", "temp"} -> Nat \union {Absent, EmptyDir}]
    BY DEF GateInit
  <2>3. Unset \in Settings
    BY DEF Unset, Settings, Dir
  <2> QED
    BY <2>1, <2>2, <2>3 DEF GateInit, GateTypes
<1>2. WheelKnown /\ GateUnderWay /\ SmokeUnderWay /\ SmokeOver
  BY DEF GateInit, WheelKnown, GateUnderWay, SmokeUnderWay, SmokeOver
<1>3. SmokePassed /\ GateTestedItsBuild
  BY DEF GateInit, SmokePassed, GateTestedItsBuild, Running, Success
<1> QED
  BY <1>1, <1>2, <1>3 DEF GateInv

\* the steps all passed so far exactly if the one recorded did too
LEMMA RecordStepAdds ==
    ASSUME GateTypes, NEW verdict \in {"passed", "failed"}, RecordStep(verdict)
    PROVE  /\ steps' \in Seq({"passed", "failed"})
           /\ Len(steps') = Len(steps) + 1
           /\ AllPassed' <=> AllPassed /\ verdict # "failed"
<1>1. steps \in Seq({"passed", "failed"}) /\ steps' = Append(steps, verdict)
  BY DEF GateTypes, RecordStep
<1>2. /\ steps' \in Seq({"passed", "failed"})
      /\ Len(steps') = Len(steps) + 1 /\ Len(steps) \in Nat
      /\ steps'[Len(steps) + 1] = verdict
      /\ \A i \in 1 .. Len(steps) : steps'[i] = steps[i]
  BY <1>1, AppendProperties
<1>3. DOMAIN steps' = 1 .. Len(steps') /\ DOMAIN steps = 1 .. Len(steps)
  BY <1>1, <1>2
<1> QED
  BY <1>2, <1>3 DEF AllPassed

LEMMA GateStartKeeps ==
    ASSUME GateInv, NEW s \in Settings, GateStart(s)
    PROVE  GateInv'
<1> USE DEF GateInv
<1>1. GateTypes'
  BY DEF GateStart, GateTypes
<1>2. WheelKnown' /\ GateUnderWay'
  BY DEF GateStart, WheelKnown, GateUnderWay, AllPassed
<1>3. SmokeUnderWay' /\ SmokeOver' /\ SmokePassed'
  BY DEF GateStart, GateTypes, SmokeUnderWay, SmokeOver, SmokePassed
<1>4. GateTestedItsBuild'
  BY DEF GateStart, GateTestedItsBuild, Running, Success
<1> QED
  BY <1>1, <1>2, <1>3, <1>4

\* a step that is no part of the smoke test is recorded
LEMMA StepKeeps ==
    ASSUME GateInv, step \in 1 .. 7, NEW verdict \in {"passed", "failed"}, RecordStep(verdict),
           wheels' \in [Dir -> Nat], wheelPath' \in Dir \union {Nowhere}, WheelKnown',
           broken' => broken \/ verdict = "failed",
           step' \in 1 .. 6 => wheelPath' = Nowhere,
           step' > 6 /\ AllPassed' => wheelPath' # Nowhere,
           UNCHANGED <<revision, venvs, settings, command, wheelTestVenv, gateExit,
                       checked, tested>>
    PROVE  GateInv'
<1> USE DEF GateInv
<1>1. step' = step + 1 /\ step' \in 2 .. 8 /\ command = 0
  BY DEF RecordStep, SmokeUnderWay, GateTypes
<1>2. GateTypes'
  BY <1>1, RecordStepAdds DEF GateTypes
<1>3. GateUnderWay'
  BY <1>1, RecordStepAdds DEF GateUnderWay, GateTypes
<1>4. SmokeUnderWay' /\ SmokeOver' /\ SmokePassed'
  BY <1>1 DEF SmokeUnderWay, SmokeOver, SmokePassed, GateUnderWay
<1>5. GateTestedItsBuild'
  BY DEF GateUnderWay, GateTestedItsBuild, Running, Success
<1> QED
  BY <1>2, <1>3, <1>4, <1>5

LEMMA BuildKeeps ==
    ASSUME GateInv, BuildDistributions
    PROVE  GateInv'
<1> USE DEF GateInv
<1>a. revision \in Nat \ {0} /\ settings.distDir \in Dir /\ wheels \in [Dir -> Nat]
  BY DEF GateTypes, Settings
<1>1. /\ step = 6 /\ wheelPath = Nowhere /\ checked = revision
      /\ revision \in Nat \ {0} /\ settings.distDir \in Dir
      /\ wheels \in [Dir -> Nat] /\ [wheels EXCEPT !["dist"] = revision] \in [Dir -> Nat]
      /\ UNCHANGED <<revision, venvs, settings, command, wheelTestVenv, gateExit, checked, tested>>
  <2>1. /\ step = 6
        /\ UNCHANGED <<revision, venvs, settings, command, wheelTestVenv, gateExit, checked, tested>>
    BY DEF BuildDistributions
  <2>2. wheelPath = Nowhere /\ checked = revision
    BY <2>1 DEF GateUnderWay
  <2> QED
    BY <1>a, <2>1, <2>2
<1>2. CASE /\ wheels' = [wheels EXCEPT !["dist"] = revision]
           /\ FindWheel(wheels') /\ UNCHANGED broken
  <2>1. CASE wheels'[settings.distDir] # NoWheel
    <3>1. RecordStep("passed") /\ wheelPath' = settings.distDir
      BY <1>2, <2>1 DEF FindWheel
    <3>2. WheelKnown'
      BY <1>1, <1>2, <2>1, <3>1 DEF WheelKnown, Dir
    <3>3. step' = 7 /\ wheelPath' # Nowhere
      BY <1>1, <3>1 DEF RecordStep, Dir, Nowhere
    <3> QED
      BY <1>1, <1>2, <3>1, <3>2, <3>3, StepKeeps
  <2>2. CASE ~(wheels'[settings.distDir] # NoWheel)
    <3>1. RecordStep("failed") /\ wheelPath' = Nowhere
      BY <1>1, <1>2, <2>2 DEF FindWheel
    <3>2. WheelKnown' /\ ~AllPassed'
      BY <3>1, RecordStepAdds DEF WheelKnown
    <3> QED
      BY <1>1, <1>2, <3>1, <3>2, StepKeeps
  <2> QED
    BY <2>1, <2>2
<1>3. CASE /\ wheels' \in {wheels, [wheels EXCEPT !["dist"] = revision]}
           /\ RecordStep("failed") /\ UNCHANGED wheelPath
           /\ broken' = TRUE
  <2>1. WheelKnown' /\ ~AllPassed' /\ wheelPath' = Nowhere
    BY <1>1, <1>3, RecordStepAdds DEF WheelKnown
  <2> QED
    BY <1>1, <1>3, <2>1, StepKeeps
<1> QED
  BY <1>1, <1>2, <1>3 DEF BuildDistributions

\* the smoke test ends, well or badly
LEMMA SmokeEnds ==
    ASSUME GateInv, step = 8, NEW verdict \in {"passed", "failed"}, RecordStep(verdict),
           command' = 0, venvs' \in [{"given", "temp"} -> Nat \union {Absent, EmptyDir}],
           SmokeOver', broken' => broken \/ verdict = "failed",
           verdict = "passed" => tested' = wheels[wheelPath] /\ wheelPath # Nowhere,
           UNCHANGED <<revision, wheels, settings, wheelPath, gateExit, checked>>
    PROVE  GateInv'
<1> USE DEF GateInv
<1>1. step' = 9
  BY DEF RecordStep
<1>2. GateTypes'
  BY <1>1, RecordStepAdds DEF GateTypes
<1>3. WheelKnown'
  BY DEF WheelKnown
<1>6. GateUnderWay'
  <2>1. /\ Len(steps') = Len(steps) + 1
        /\ AllPassed' <=> AllPassed /\ verdict # "failed"
    BY RecordStepAdds
  <2>2. broken' => ~AllPassed'
    BY <2>1 DEF GateUnderWay
  <2>3. AllPassed' => wheelPath' # Nowhere
    BY <2>1
  <2>4. gateExit' = Running /\ checked' = revision' /\ Len(steps') = step' - 1
    <3>1. gateExit = Running /\ checked = revision /\ Len(steps) = step - 1
      BY DEF GateUnderWay
    <3> QED
      BY <1>1, <2>1, <3>1
  <2>5. step' \notin 1 .. 6
    BY <1>1
  <2> QED
    BY <2>2, <2>3, <2>4, <2>5, Zenon DEF GateUnderWay
<1>4. SmokeUnderWay' /\ SmokePassed'
  BY <1>1, RecordStepAdds DEF SmokeUnderWay, SmokePassed
<1>5. GateTestedItsBuild'
  BY DEF GateUnderWay, GateTestedItsBuild, Running, Success
<1> QED
  BY <1>2, <1>3, <1>4, <1>5, <1>6

\* the finally clause, after a test that did not pass
LEMMA TemporaryGone ==
    ASSUME GateInv, step = 8, NEW left \in CutShort, command > 0,
           RemoveTemporary(left, wheelTestVenv), UNCHANGED settings
    PROVE  /\ venvs' \in [{"given", "temp"} -> Nat \union {Absent, EmptyDir}]
           /\ wheelTestVenv' = Nowhere
           /\ venvs'["temp"] # Absent => settings.keep
<1> USE DEF GateInv
<1>1. /\ venvs \in [{"given", "temp"} -> Nat \union {Absent, EmptyDir}]
      /\ settings.venv \in {"given", "temp"} /\ wheelTestVenv = Nowhere
      /\ settings.venv # "temp" => venvs["temp"] = Absent
  BY DEF GateTypes, Settings, SmokeUnderWay
<1>2. /\ left \in [{"given", "temp"} -> Nat \union {Absent, EmptyDir}]
      /\ settings.venv # "temp" => left["temp"] = Absent
  BY <1>1 DEF CutShort, Bare
<1> QED
  BY <1>1, <1>2 DEF RemoveTemporary, Temporary

LEMMA SmokePassesKeeps ==
    ASSUME GateInv, SmokePasses
    PROVE  GateInv'
<1> USE DEF GateInv
<1>1. /\ LastCommand \in {7, 8} /\ command = LastCommand + 1
      /\ step = 8 /\ wheelPath # Nowhere
      /\ venvs[settings.venv] = wheels[wheelPath] /\ wheelPath \in Dir
      /\ wheels[wheelPath] # NoWheel
  BY DEF SmokePasses, LastCommand, SmokeUnderWay, WheelKnown, GateTypes
<1>2. /\ venvs \in [{"given", "temp"} -> Nat \union {Absent, EmptyDir}]
      /\ settings.venv \in {"given", "temp"}
      /\ venvs["temp"] # Absent => settings.venv = "temp"
  BY <1>1 DEF GateTypes, Settings, SmokeUnderWay
<1>3. /\ tested' = wheels[wheelPath] /\ RecordStep("passed") /\ command' = 0
      /\ RemoveTemporary(venvs, settings.venv)
      /\ UNCHANGED <<revision, wheels, settings, wheelPath, gateExit, checked, broken>>
  BY <1>1 DEF SmokePasses
<1>4. /\ venvs' \in [{"given", "temp"} -> Nat \union {Absent, EmptyDir}]
      /\ SmokeOver'
  <2>1. CASE Temporary
    <3>1. venvs' = [venvs EXCEPT !["temp"] = Absent] /\ wheelTestVenv' = Nowhere
      BY <1>3, <2>1 DEF RemoveTemporary
    <3> QED
      BY <1>2, <3>1 DEF SmokeOver
  <2>2. CASE ~Temporary
    <3>1. venvs' = venvs /\ wheelTestVenv' = settings.venv /\ settings' = settings
      BY <1>3, <2>2 DEF RemoveTemporary
    <3>2. venvs["temp"] # Absent => settings.keep
      BY <1>2, <2>2 DEF Temporary
    <3> QED
      BY <1>1, <1>2, <1>3, <3>1, <3>2 DEF SmokeOver, NoWheel
  <2> QED
    BY <2>1, <2>2
<1> QED
  BY <1>1, <1>3, <1>4, SmokeEnds

LEMMA SmokeFailsKeeps ==
    ASSUME GateInv, SmokeFails
    PROVE  GateInv'
<1> USE DEF GateInv
<1>1. command > 0 /\ step = 8
  BY DEF SmokeFails, SmokeUnderWay, GateTypes
<1>2. PICK left \in CutShort : RemoveTemporary(left, wheelTestVenv)
  BY DEF SmokeFails
<1>3. /\ RecordStep("failed") /\ command' = 0 /\ broken' = TRUE
      /\ UNCHANGED <<revision, wheels, settings, wheelPath, gateExit, checked, tested>>
  BY DEF SmokeFails
<1>4. /\ venvs' \in [{"given", "temp"} -> Nat \union {Absent, EmptyDir}]
      /\ wheelTestVenv' = Nowhere
      /\ venvs'["temp"] # Absent => settings.keep
  BY <1>1, <1>2, <1>3, TemporaryGone
<1>5. SmokeOver'
  BY <1>3, <1>4 DEF SmokeOver
<1> QED
  BY <1>1, <1>3, <1>4, <1>5, SmokeEnds

\* the directory is made, the try is entered, or a command works
LEMMA SmokeGoesOn ==
    ASSUME GateInv, (PrepareVenv /\ command' = Prepared) \/ SmokeBegins \/ SmokeCommand
    PROVE  GateInv'
<1> USE DEF GateInv
<1>a. /\ step = 8 /\ wheelPath # Nowhere
      /\ UNCHANGED <<revision, wheels, settings, step, report, gateExit, checked, tested, broken>>
  <2>1. CASE PrepareVenv /\ command' = Prepared
    BY <2>1 DEF PrepareVenv, Prepared, report
  <2>2. CASE SmokeBegins
    BY <2>2 DEF SmokeBegins, SmokeUnderWay, Prepared
  <2>3. CASE SmokeCommand
    BY <2>3 DEF SmokeCommand, SmokeUnderWay, LastCommand
  <2> QED
    BY <2>1, <2>2, <2>3
<1>1. /\ step = 8 /\ wheelPath # Nowhere /\ wheelPath \in Dir
      /\ settings.venv \in {"given", "temp"} /\ LastCommand \in {7, 8}
      /\ UNCHANGED <<revision, wheels, settings, step, report, gateExit, checked, tested, broken>>
  BY <1>a DEF GateTypes, Settings, LastCommand
<1>2. /\ wheels[wheelPath] \in Nat
      /\ venvs \in [{"given", "temp"} -> Nat \union {Absent, EmptyDir}]
  BY <1>1 DEF GateTypes
<1>3. /\ venvs' \in [{"given", "temp"} -> Nat \union {Absent, EmptyDir}]
      /\ command' \in {Prepared} \union 1 .. 9 /\ command' <= LastCommand + 1
      /\ command' > 2 => venvs'[settings.venv] = wheels[wheelPath]
      /\ venvs'["temp"] # Absent => settings.venv = "temp"
      /\ command' = Prepared => venvs'["temp"] \in {Absent, EmptyDir}
  <2>1. CASE PrepareVenv /\ command' = Prepared
    <3>1. command = 0 /\ venvs' = IF settings.venv = "temp"
                                 THEN [venvs EXCEPT !["temp"] = EmptyDir] ELSE venvs
      BY <1>1, <2>1 DEF PrepareVenv, Prepared
    <3>2. venvs["temp"] = Absent
      BY <1>1, <3>1 DEF SmokeUnderWay
    <3>3. venvs' \in [{"given", "temp"} -> Nat \union {Absent, EmptyDir}]
      BY <1>2, <3>1
    <3>4. venvs'["temp"] \in {Absent, EmptyDir}
      BY <1>1, <1>2, <3>1, <3>2
    <3>5. venvs'["temp"] # Absent => settings.venv = "temp"
      BY <3>1, <3>2
    <3> QED
      BY <1>1, <2>1, <3>3, <3>4, <3>5 DEF Prepared
  <2>3. CASE SmokeBegins
    BY <1>1, <1>2, <2>3 DEF SmokeBegins, SmokeUnderWay, Prepared
  <2>2. CASE SmokeCommand
    <3>1. command \in 1 .. LastCommand /\ command' = command + 1
          /\ venvs' = [venvs EXCEPT ![settings.venv] = VenvAfter(command)]
      BY <2>2 DEF SmokeCommand
    <3>a. command > 0 /\ command' # Prepared
      BY <3>1, <1>1 DEF Prepared
    <3>2. /\ VenvAfter(command) \in Nat \union {Absent, EmptyDir}
          /\ command >= 2 => VenvAfter(command) = wheels[wheelPath]
      <4>1. CASE command = 1
        BY <4>1 DEF VenvAfter, Bare
      <4>2. CASE command = 2
        BY <1>2, <4>2 DEF VenvAfter
      <4>3. CASE command > 2
        <5>1. VenvAfter(command) = venvs[settings.venv]
          BY <1>1, <3>1, <4>3 DEF VenvAfter
        <5> QED
          BY <1>1, <1>2, <3>1, <4>3, <5>1 DEF SmokeUnderWay
      <4>4. command \in Nat \ {0}
        BY <1>1, <3>1
      <4> QED
        BY <1>2, <4>1, <4>2, <4>3, <4>4
    <3> QED
      BY <1>1, <1>2, <3>1, <3>a, <3>2 DEF SmokeUnderWay
  <2> QED
    BY <2>1, <2>2, <2>3
<1>4. GateTypes'
  BY <1>1, <1>3 DEF GateTypes, report, Prepared
<1>5. WheelKnown' /\ GateUnderWay'
  BY <1>1 DEF WheelKnown, GateUnderWay, AllPassed, report
<1>6. LastCommand' = LastCommand
  BY <1>1 DEF LastCommand
<1>7. SmokeUnderWay' /\ SmokePassed'
  BY <1>1, <1>3, <1>6 DEF SmokeUnderWay, SmokePassed, report, Prepared
<1>8. SmokeOver' /\ GateTestedItsBuild'
  BY <1>1 DEF SmokeOver, GateTestedItsBuild, GateUnderWay, Running, Success
<1> QED
  BY <1>4, <1>5, <1>7, <1>8

LEMMA InterruptKeeps ==
    ASSUME GateInv, InterruptGate
    PROVE  GateInv'
<1> USE DEF GateInv
<1>1. /\ step \in 1 .. 8 /\ step' = 0 /\ command' = 0 /\ gateExit' = Interrupted
      /\ UNCHANGED <<revision, wheels, settings, steps, wheelPath, checked, tested, broken>>
  BY DEF InterruptGate
<1>2. /\ venvs' \in [{"given", "temp"} -> Nat \union {Absent, EmptyDir}]
      /\ wheelTestVenv' = Nowhere
      /\ venvs'["temp"] # Absent => settings.keep \/ venvs'["temp"] = EmptyDir
  <2>1. CASE command > 0
    <3>1. step = 8 /\ \E left \in CutShort : RemoveTemporary(left, wheelTestVenv)
      BY <2>1 DEF InterruptGate, SmokeUnderWay
    <3> QED
      BY <1>1, <2>1, <3>1, TemporaryGone
  <2>2. CASE ~(command > 0)
    <3>1. venvs' = venvs /\ wheelTestVenv' = wheelTestVenv
      BY <2>2 DEF InterruptGate
    <3>2. command \in {0, Prepared}
      BY <2>2 DEF GateTypes, Prepared
    <3>3. venvs["temp"] \in {Absent, EmptyDir} /\ wheelTestVenv = Nowhere
      BY <1>1, <3>2 DEF SmokeUnderWay
    <3> QED
      BY <3>1, <3>3 DEF GateTypes
  <2> QED
    BY <2>1, <2>2
<1>3. GateTypes'
  BY <1>1, <1>2 DEF GateTypes
<1>4. WheelKnown' /\ GateUnderWay' /\ SmokeUnderWay' /\ SmokePassed'
  BY <1>1 DEF WheelKnown, GateUnderWay, SmokeUnderWay, SmokePassed
<1>5. SmokeOver' /\ GateTestedItsBuild'
  BY <1>1, <1>2 DEF SmokeOver, GateTestedItsBuild, Interrupted, Success
<1> QED
  BY <1>3, <1>4, <1>5

LEMMA ReportKeeps ==
    ASSUME GateInv, ReportGate
    PROVE  GateInv'
<1> USE DEF GateInv
<1>1. /\ step = 9 /\ step' = 0
      /\ gateExit' = IF \E i \in DOMAIN steps : steps[i] = "failed" THEN Failure ELSE Success
      /\ UNCHANGED <<revision, wheels, venvs, settings, command, report, checked, tested, broken>>
  BY DEF ReportGate
<1>2. command = 0
  BY <1>1 DEF SmokeUnderWay, GateTypes
<1>3. GateTypes'
  BY <1>1 DEF GateTypes, report
<1>4. WheelKnown' /\ GateUnderWay' /\ SmokeUnderWay' /\ SmokePassed'
  BY <1>1, <1>2 DEF WheelKnown, GateUnderWay, SmokeUnderWay, SmokePassed, report
<1>5. SmokeOver'
  <2>1. venvs["temp"] # Absent => settings.keep
    BY <1>1 DEF SmokeOver, GateUnderWay, Running, Interrupted
  <2> QED
    BY <1>1, <2>1 DEF SmokeOver, report
<1>6. GateTestedItsBuild'
  <2>1. gateExit' = Success => AllPassed
    BY <1>1 DEF AllPassed, Success, Failure
  <2>2. AllPassed => /\ ~broken /\ wheelPath # Nowhere
                     /\ tested = wheels[wheelPath]
    BY <1>1 DEF GateUnderWay, SmokePassed
  <2>3. wheelPath # Nowhere /\ settings.distDir = "dist" =>
          wheelPath = "dist" /\ wheels["dist"] = checked
    BY DEF WheelKnown
  <2>4. UNCHANGED <<wheels, settings, checked, tested, broken>>
    BY <1>1
  <2> QED
    BY <2>1, <2>2, <2>3, <2>4 DEF GateTestedItsBuild
<1> QED
  BY <1>3, <1>4, <1>5, <1>6

LEMMA GateKeeps ==
    ASSUME GateInv, GateNext
    PROVE  GateInv'
<1> USE DEF GateInv
<1>1. CASE Edit
  <2>1. /\ step = 0 /\ revision' = revision + 1
        /\ UNCHANGED <<wheels, venvs, settings, step, command, report, gateExit,
                       checked, tested, broken>>
    BY <1>1 DEF Edit
  <2>2. GateTypes'
    BY <2>1 DEF GateTypes, report
  <2>3. WheelKnown' /\ GateUnderWay'
    BY <2>1 DEF WheelKnown, GateUnderWay, report
  <2>4. SmokeUnderWay' /\ SmokePassed'
    BY <2>1 DEF SmokeUnderWay, SmokePassed, GateTypes
  <2>5. SmokeOver' /\ GateTestedItsBuild'
    BY <2>1 DEF SmokeOver, GateTestedItsBuild, report
  <2> QED
    BY <2>2, <2>3, <2>4, <2>5
<1>2. CASE \E s \in Settings : GateStart(s)
  BY <1>2, GateStartKeeps
<1>3. CASE RunTool \/ CheckWheelDuplicates
  <2>1. step \in 1 .. 7 /\ step \in 1 .. 6 => wheelPath = Nowhere
    BY <1>3 DEF RunTool, CheckWheelDuplicates, GateUnderWay
  <2>2. /\ UNCHANGED <<revision, wheels, venvs, settings, command, wheelPath, wheelTestVenv,
                       gateExit, checked, tested>>
        /\ WheelKnown'
    BY <1>3 DEF RunTool, CheckWheelDuplicates, WheelKnown
  <2>3. step = 7 \/ (step \in 1 .. 5 /\ wheelPath = Nowhere)
    BY <1>3 DEF RunTool, CheckWheelDuplicates, GateUnderWay
  <2>4. step = 7 => wheelPath # Nowhere
    BY <1>3 DEF RunTool, CheckWheelDuplicates
  <2>5. PICK verdict \in {"passed", "failed"} :
          RecordStep(verdict) /\ (broken' => broken \/ verdict = "failed")
    BY <1>3 DEF RunTool, CheckWheelDuplicates
  <2>6. /\ step' = step + 1
        /\ step' \in 1 .. 6 => wheelPath' = Nowhere
        /\ step' > 6 => wheelPath' # Nowhere
    BY <2>2, <2>3, <2>4, <2>5 DEF RecordStep
  <2> QED
    BY <2>1, <2>2, <2>3, <2>5, <2>6, StepKeeps DEF GateTypes
<1>4. CASE BuildDistributions
  BY <1>4, BuildKeeps
<1>5. CASE WheelUnknown
  <2>1. /\ step \in {7, 8} /\ command = 0 /\ wheelPath = Nowhere
        /\ RecordStep("failed")
        /\ UNCHANGED <<revision, wheels, venvs, settings, command, wheelPath, wheelTestVenv,
                       gateExit, checked, tested, broken>>
    BY <1>5 DEF WheelUnknown
  <2>2. WheelKnown' /\ ~AllPassed'
    BY <2>1, RecordStepAdds DEF WheelKnown
  <2>3. CASE step = 7
    BY <2>1, <2>2, <2>3, StepKeeps DEF RecordStep, GateTypes
  <2>4. CASE step = 8
    <3>1. SmokeOver'
      BY <2>1, <2>4 DEF SmokeOver, SmokeUnderWay
    <3> QED
      BY <2>1, <2>4, <3>1, SmokeEnds DEF GateTypes
  <2> QED
    BY <2>1, <2>3, <2>4
<1>6. CASE PrepareVenv \/ SmokeBegins \/ SmokeCommand
  <2>1. ASSUME PrepareVenv, command' # Prepared PROVE GateInv'
    <3>1. /\ step = 8 /\ command = 0 /\ command' = 0 /\ venvs' = venvs
          /\ RecordStep("failed")
          /\ UNCHANGED <<revision, wheels, settings, wheelPath, wheelTestVenv, gateExit,
                         checked, tested, broken>>
      BY <2>1 DEF PrepareVenv
    <3>2. SmokeOver'
      BY <3>1 DEF SmokeOver, SmokeUnderWay
    <3> QED
      BY <3>1, <3>2, SmokeEnds DEF GateTypes
  <2> QED
    BY <1>6, <2>1, SmokeGoesOn
<1>7. CASE SmokePasses
  BY <1>7, SmokePassesKeeps
<1>8. CASE SmokeFails
  BY <1>8, SmokeFailsKeeps
<1>9. CASE ReportGate
  BY <1>9, ReportKeeps
<1>10. CASE InterruptGate
  BY <1>10, InterruptKeeps
<1> QED
  BY <1>1, <1>2, <1>3, <1>4, <1>5, <1>6, <1>7, <1>8, <1>9, <1>10 DEF GateNext
------------------------------------------------------------------------------
(* tsnmp                                                                    *)

Reached(name) == \E i \in 1 .. stage - 1 : Stages[i] = name

CliTypes ==
    /\ argv \in Argv /\ stage \in Nat /\ events \in Nat /\ shown \in Nat

\* While a handler runs it has had only options its parser offers; past its
\* security stage it goes by all of them, past the exchange its message is
\* out, and before the print it has shown only the notifications that came.
Handling ==
    cliExit = Running =>
        /\ stage \in 1 .. Len(Stages)
        /\ argv.options \subseteq Offered(argv.command)
        /\ Reached("security") => argv.options \subseteq taken
        /\ Reached("exchange") => sent
        /\ shown = IF argv.command = "listen" THEN events ELSE 0

CliInv == CliTypes /\ Handling /\ DidAsAsked

\* the stages of each kind of handler, in their order
LEMMA HandlerStages ==
    ASSUME argv \in Argv
    PROVE  /\ argv.command \in Manager =>
                Stages = <<"bundle", "security", "open", "exchange", "print">>
           /\ argv.command \in Notifier =>
                Stages = <<"bundle", "varbinds", "security", "open", "exchange", "print">>
           /\ argv.command = "listen" => Stages = <<"bundle", "security", "open", "receive">>
           /\ argv.command = "decode" =>
                Stages = <<"bundle", "security", "input", "decode", "print">>
           /\ argv.command = "translate" => Stages = <<"bundle", "translate", "print">>
           /\ argv.command = "version" => Stages = <<"print">>
           /\ argv.command \in Manager \union Notifier
                                 \union {"listen", "decode", "translate", "version"}
  BY DEF Stages, Manager, Notifier, Argv, Command

\* a print comes last, after the stages that matter; only listen receives
LEMMA PrintIsLast ==
    ASSUME argv \in Argv, stage \in 1 .. Len(Stages), Stages[stage] = "print"
    PROVE  /\ argv.command \in Manager \union Notifier => Reached("security") /\ Reached("exchange")
           /\ argv.command = "decode" => Reached("security")
           /\ argv.command # "listen"
<1>1. CASE argv.command \in Manager
  <2>1. Stages = <<"bundle", "security", "open", "exchange", "print">>
    BY <1>1, HandlerStages
  <2>2. stage = 5
    BY <2>1
  <2>3. 2 \in 1 .. stage - 1 /\ 4 \in 1 .. stage - 1
        /\ Stages[2] = "security" /\ Stages[4] = "exchange"
    BY <2>1, <2>2
  <2> QED
    BY <1>1, <2>3 DEF Reached, Manager, Notifier
<1>2. CASE argv.command \in Notifier
  <2>1. Stages = <<"bundle", "varbinds", "security", "open", "exchange", "print">>
    BY <1>2, HandlerStages
  <2>2. stage = 6
    BY <2>1
  <2>3. 3 \in 1 .. stage - 1 /\ 5 \in 1 .. stage - 1
        /\ Stages[3] = "security" /\ Stages[5] = "exchange"
    BY <2>1, <2>2
  <2> QED
    BY <1>2, <2>3 DEF Reached, Manager, Notifier
<1>3. CASE argv.command = "decode"
  <2>1. Stages = <<"bundle", "security", "input", "decode", "print">>
    BY <1>3, HandlerStages
  <2>2. stage = 5
    BY <2>1
  <2>3. 2 \in 1 .. stage - 1 /\ Stages[2] = "security"
    BY <2>1, <2>2
  <2> QED
    BY <1>3, <2>3 DEF Reached, Manager, Notifier
<1>4. CASE argv.command = "listen"
  <2>1. Stages = <<"bundle", "security", "open", "receive">>
    BY <1>4, HandlerStages
  <2> QED
    BY <2>1
<1>5. CASE argv.command \in {"translate", "version"}
  BY <1>5 DEF Manager, Notifier
<1> QED
  BY <1>1, <1>2, <1>3, <1>4, <1>5, HandlerStages

LEMMA ReceiveIsListen ==
    ASSUME argv \in Argv, stage \in 1 .. Len(Stages), Stages[stage] = "receive"
    PROVE  argv.command = "listen" /\ Reached("security")
<1>1. CASE argv.command = "listen"
  <2>1. Stages = <<"bundle", "security", "open", "receive">>
    BY <1>1, HandlerStages
  <2>2. stage = 4
    BY <2>1
  <2>3. 2 \in 1 .. stage - 1 /\ Stages[2] = "security"
    BY <2>1, <2>2
  <2> QED
    BY <1>1, <2>3 DEF Reached
<1>2. CASE argv.command \in Manager
  <2>1. Stages = <<"bundle", "security", "open", "exchange", "print">>
    BY <1>2, HandlerStages
  <2> QED
    BY <2>1
<1>3. CASE argv.command \in Notifier
  <2>1. Stages = <<"bundle", "varbinds", "security", "open", "exchange", "print">>
    BY <1>3, HandlerStages
  <2> QED
    BY <2>1
<1>4. CASE argv.command \in {"decode", "translate", "version"}
  BY <1>4, HandlerStages
<1> QED
  BY <1>1, <1>2, <1>3, <1>4, HandlerStages

\* a handler ends with its print, or receiving
LEMMA LastStage ==
    ASSUME argv \in Argv
    PROVE  Len(Stages) \in Nat /\ Stages[Len(Stages)] \in {"print", "receive"}
<1>1. CASE argv.command \in Manager
  <2>1. Stages = <<"bundle", "security", "open", "exchange", "print">>
    BY <1>1, HandlerStages
  <2> QED
    BY <2>1
<1>2. CASE argv.command \in Notifier
  <2>1. Stages = <<"bundle", "varbinds", "security", "open", "exchange", "print">>
    BY <1>2, HandlerStages
  <2> QED
    BY <2>1
<1>3. CASE argv.command = "listen"
  <2>1. Stages = <<"bundle", "security", "open", "receive">>
    BY <1>3, HandlerStages
  <2> QED
    BY <2>1
<1>4. CASE argv.command = "decode"
  <2>1. Stages = <<"bundle", "security", "input", "decode", "print">>
    BY <1>4, HandlerStages
  <2> QED
    BY <2>1
<1>5. CASE argv.command = "translate"
  <2>1. Stages = <<"bundle", "translate", "print">>
    BY <1>5, HandlerStages
  <2> QED
    BY <2>1
<1>6. CASE argv.command = "version"
  <2>1. Stages = <<"print">>
    BY <1>6, HandlerStages
  <2> QED
    BY <2>1
<1> QED
  BY <1>1, <1>2, <1>3, <1>4, <1>5, <1>6, HandlerStages

\* Whatever passes the checks is in force: an option that the 2c or the v3
\* branch does not go by has been refused, for each command that has them.
LEMMA AcceptedIsInForce ==
    ASSUME argv \in Argv, argv.options \subseteq Offered(argv.command), SecurityAccepted,
           argv.command \in Manager \union Notifier \union {"listen", "decode"}
    PROVE  argv.options \subseteq InForce
<1> DEFINE opts == argv.options
<1>1. opts \subseteq Security
  BY DEF Argv
<1>2. CASE argv.version = "2c"
  <2>1. Given(RefusedIn2c(argv.command)) = {} /\ InForce = {"community"}
    BY <1>2 DEF SecurityAccepted, InForce
  <2>2. CASE argv.command \in Manager \union Notifier
    <3>1. RefusedIn2c(argv.command) = Usm \union Engine \union {"contextName"}
      BY <2>2 DEF RefusedIn2c, Manager, Notifier
    <3> QED
      BY <1>1, <2>1, <3>1 DEF Given, Security
  <2>3. CASE argv.command = "listen"
    <3>1. RefusedIn2c(argv.command) = Usm \union Engine
      BY <2>3 DEF RefusedIn2c
    <3>2. opts \subseteq Usm \union Engine \union {"community"}
      BY <2>3 DEF Offered, Manager, Notifier
    <3> QED
      BY <2>1, <3>1, <3>2 DEF Given
  <2>4. CASE argv.command = "decode"
    <3>1. RefusedIn2c(argv.command) = Usm
      BY <2>4 DEF RefusedIn2c
    <3>2. opts \subseteq Usm
      BY <2>4 DEF Offered, Manager, Notifier
    <3> QED
      BY <2>1, <3>1, <3>2 DEF Given
  <2> QED
    BY <2>2, <2>3, <2>4
<1>3. CASE argv.version # "2c"
  <2>1. Given({"community"}) = {} /\ UserAccepted /\ EngineAccepted
    BY <1>3 DEF SecurityAccepted
  <2>2. /\ \A o \in opts : o \in Auth => "authProtocol" \in opts
        /\ \A o \in opts : o \in Priv => "privProtocol" \in opts
    BY <2>1 DEF UserAccepted, Given
  <2>3. {"username", "authProtocol", "privProtocol"} \subseteq InForce
    BY <1>3 DEF InForce
  <2>4. \A o \in opts : o \in Auth \union Priv => o \in InForce
    BY <1>3, <2>2 DEF InForce, Given
  <2>5. "community" \notin opts
    BY <2>1 DEF Given
  <2>6. "contextName" \in opts => "contextName" \in InForce
    BY <1>3 DEF InForce, Offered, Manager, Notifier, Usm, Auth, Priv, Engine
  <2>7. \A o \in opts : o \in Engine => o \in InForce
    <3>1. CASE argv.command \in {"trap", "listen"}
      BY <1>3, <3>1 DEF InForce
    <3>2. CASE argv.command = "decode"
      BY <3>2 DEF Offered, Manager, Notifier, Usm, Auth, Priv, Engine
    <3>3. CASE argv.command \notin {"trap", "listen", "decode"}
      <4>1. Given(Engine) = {}
        BY <2>1, <3>3 DEF EngineAccepted
      <4> QED
        BY <4>1 DEF Given
    <3> QED
      BY <3>1, <3>2, <3>3
  <2> QED
    BY <1>1, <2>3, <2>4, <2>5, <2>6, <2>7 DEF Security, Usm
<1> QED
  BY <1>2, <1>3
LEMMA CliStarts == CliInit => CliInv
<1> SUFFICES ASSUME CliInit PROVE CliInv
  OBVIOUS
<1>1. NoArgv \in Argv
  BY CliAssumption DEF NoArgv, Argv, Command
<1>2. CliTypes
  BY <1>1 DEF CliInit, CliTypes
<1>3. Handling /\ DidAsAsked
  BY DEF CliInit, Handling, DidAsAsked, Running, Success
<1> QED
  BY <1>2, <1>3 DEF CliInv

LEMMA CliStartKeeps ==
    ASSUME CliInv, NEW a \in Argvs, CliStart(a)
    PROVE  CliInv'
<1>1. a \in Argv
  BY CliAssumption
<1>2. argv' = a /\ stage' = 1 /\ events' = 0 /\ shown' = 0
  BY DEF CliStart
<1>3. CliTypes'
  BY <1>1, <1>2 DEF CliTypes
<1>4. cliExit' = Running => a.options \subseteq Offered(a.command)
  BY DEF CliStart, Running, UsageError
<1>5. Len(Stages') >= 1 /\ Len(Stages') \in Nat
  <2>1. Stages' = IF a.command \in Manager
                  THEN <<"bundle", "security", "open", "exchange", "print">>
                  ELSE IF a.command \in Notifier
                  THEN <<"bundle", "varbinds", "security", "open", "exchange", "print">>
                  ELSE IF a.command = "listen" THEN <<"bundle", "security", "open", "receive">>
                  ELSE IF a.command = "decode"
                  THEN <<"bundle", "security", "input", "decode", "print">>
                  ELSE IF a.command = "translate" THEN <<"bundle", "translate", "print">>
                  ELSE <<"print">>
    BY <1>1, <1>2 DEF Stages, Manager, Notifier, Argv, Command
  <2> QED
    BY <2>1
<1>6. ~Reached("security")' /\ ~Reached("exchange")'
  BY <1>2 DEF Reached
<1>7. Offered(argv.command)' = Offered(a.command)
  BY <1>2 DEF Offered
<1>8. Handling'
  BY <1>2, <1>4, <1>5, <1>6, <1>7 DEF Handling
<1>9. cliExit' # Success
  BY DEF CliStart, Running, UsageError, Success
<1> QED
  BY <1>3, <1>8, <1>9 DEF CliInv, DidAsAsked

\* a stage is done and the next one comes
LEMMA StageKeeps ==
    ASSUME CliInv, cliExit = Running, At # "print", At # "receive",
           stage' = stage + 1, UNCHANGED <<argv, events, shown, cliExit>>,
           At = "security" => argv.options \subseteq taken',
           At # "security" => taken' = taken,
           At = "exchange" => sent',
           At # "exchange" => sent' = sent
    PROVE  CliInv'
<1> USE DEF CliInv
<1>1. /\ argv \in Argv /\ stage \in 1 .. Len(Stages) /\ At = Stages[stage]
      /\ Stages' = Stages
  BY DEF CliTypes, Handling, At, Stages
<1>2. stage + 1 \in 1 .. Len(Stages)
  BY <1>1, LastStage
<1>3. ASSUME NEW x PROVE Reached(x)' <=> Reached(x) \/ At = x
  BY <1>1 DEF Reached
<1>4. Offered(argv.command)' = Offered(argv.command)
  BY DEF Offered
<1>5. CliTypes'
  BY <1>1 DEF CliTypes
<1>6. Reached("security")' => argv'.options \subseteq taken'
  BY <1>3 DEF Handling
<1>7. Reached("exchange")' => sent'
  BY <1>3 DEF Handling
<1>8. Handling'
  BY <1>1, <1>2, <1>4, <1>6, <1>7 DEF Handling
<1>9. cliExit' # Success
  BY DEF Running, Success
<1> QED
  BY <1>5, <1>8, <1>9 DEF DidAsAsked
LEMMA ParseSecurityKeeps ==
    ASSUME CliInv, ParseSecurity
    PROVE  CliInv'
<1>1. cliExit = Running /\ At = "security" /\ argv \in Argv
      /\ argv.options \subseteq Offered(argv.command)
      /\ stage \in 1 .. Len(Stages) /\ Stages[stage] = "security"
  BY DEF ParseSecurity, At, CliInv, CliTypes, Handling
<1>2. argv.command \in Manager \union Notifier \union {"listen", "decode"}
  <2>1. CASE argv.command = "translate"
    <3>1. Stages = <<"bundle", "translate", "print">>
      BY <1>1, <2>1, HandlerStages
    <3> QED
      BY <1>1, <3>1
  <2>2. CASE argv.command = "version"
    <3>1. Stages = <<"print">>
      BY <1>1, <2>2, HandlerStages
    <3> QED
      BY <1>1, <3>1
  <2> QED
    BY <1>1, <2>1, <2>2, HandlerStages
<1>3. argv.options \subseteq taken'
  <2>1. SecurityAccepted /\ taken' = Given(InForce)
    BY DEF ParseSecurity
  <2>2. argv.options \subseteq InForce
    BY <1>1, <1>2, <2>1, AcceptedIsInForce
  <2> QED
    BY <2>1, <2>2 DEF Given
<1> QED
  BY <1>1, <1>3, StageKeeps DEF ParseSecurity

\* the handler has printed its result: it was asked for nothing more
LEMMA PrintKeeps ==
    ASSUME CliInv, PrintResult
    PROVE  CliInv'
<1> USE DEF CliInv
<1>1. /\ cliExit = Running /\ argv \in Argv
      /\ stage \in 1 .. Len(Stages) /\ Stages[stage] = "print"
      /\ argv.options \subseteq Offered(argv.command)
  BY DEF PrintResult, At, CliTypes, Handling
<1>2. /\ shown' = shown + 1
      /\ cliExit' = IF StatusCounts /\ status # "noError" THEN Failure ELSE Success
      /\ UNCHANGED <<argv, stage, taken, status, sent, events>>
  BY DEF PrintResult
<1>3. argv.command # "listen" /\ shown = 0
  BY <1>1, PrintIsLast DEF Handling
<1>4. argv.command \in Manager \union Notifier => sent
  BY <1>1, PrintIsLast DEF Handling
<1>5. argv.options \subseteq taken
  <2>1. CASE argv.command \in Manager \union Notifier \union {"decode"}
    BY <1>1, <2>1, PrintIsLast DEF Handling
  <2>2. CASE argv.command \in {"translate", "version"}
    <3>1. Offered(argv.command) = {}
      BY <2>2 DEF Offered, Manager, Notifier
    <3> QED
      BY <1>1, <3>1
  <2> QED
    BY <1>1, <1>3, <2>1, <2>2, HandlerStages
<1>6. CliTypes'
  BY <1>2 DEF CliTypes
<1>7. cliExit' # Running
  BY <1>2 DEF Running, Success, Failure
<1>8. argv.command \in {"get", "inform"} /\ cliExit' = Success => status = "noError"
  BY <1>2 DEF StatusCounts, Success, Failure
<1>9. DidAsAsked'
  BY <1>2, <1>3, <1>4, <1>5, <1>8 DEF DidAsAsked
<1> QED
  BY <1>6, <1>7, <1>9 DEF Handling

LEMMA ReceiveKeeps ==
    ASSUME CliInv, Receive
    PROVE  CliInv'
<1> USE DEF CliInv
<1>1. /\ cliExit = Running /\ argv \in Argv /\ events \in Nat
      /\ stage \in 1 .. Len(Stages) /\ Stages[stage] = "receive"
  BY DEF Receive, At, CliTypes, Handling
<1>2. argv.command = "listen" /\ argv.options \subseteq taken /\ shown = events
  BY <1>1, ReceiveIsListen DEF Handling
<1>3. /\ events' = events + 1 /\ shown' = shown + 1
      /\ cliExit' = IF events' = argv.count THEN Success ELSE Running
      /\ UNCHANGED <<argv, stage, taken, status, sent>>
  BY DEF Receive
<1>4. CliTypes'
  BY <1>1, <1>2, <1>3 DEF CliTypes
<1>5. Handling'
  <2>1. Stages' = Stages /\ Offered(argv.command)' = Offered(argv.command)
    BY <1>3 DEF Stages, Offered
  <2>2. \A x : Reached(x)' <=> Reached(x)
    BY <1>3, <2>1 DEF Reached
  <2> QED
    BY <1>1, <1>2, <1>3, <2>1, <2>2 DEF Handling
<1>6. DidAsAsked'
  BY <1>1, <1>2, <1>3 DEF DidAsAsked, Manager, Notifier, Running, Success
<1> QED
  BY <1>4, <1>5, <1>6

LEMMA CliKeeps ==
    ASSUME CliInv, CliNext
    PROVE  CliInv'
<1>1. CASE stage = 0 /\ \E a \in Argvs : CliStart(a)
  BY <1>1, CliStartKeeps
<1>2. CASE ParseSecurity
  BY <1>2, ParseSecurityKeeps
<1>3. CASE Work \/ Exchange
  <2>1. /\ cliExit = Running /\ At \notin {"print", "receive", "security"}
        /\ stage' = stage + 1 /\ UNCHANGED <<argv, taken, events, shown, cliExit>>
        /\ At = "exchange" => sent'
        /\ At # "exchange" => sent' = sent
    BY <1>3 DEF Work, Exchange, At
  <2> QED
    BY <2>1, StageKeeps
<1>4. CASE Receive
  BY <1>4, ReceiveKeeps
<1>5. CASE PrintResult
  BY <1>5, PrintKeeps
<1>6. CASE Raise \/ InterruptCommand
  <2>1. /\ cliExit' \in {Failure, Interrupted}
        /\ UNCHANGED <<argv, stage, taken, status, sent, events, shown>>
    BY <1>6 DEF Raise, InterruptCommand
  <2>2. cliExit' # Running /\ cliExit' # Success
    BY <2>1 DEF Running, Success, Failure, Interrupted
  <2> QED
    BY <2>1, <2>2 DEF CliInv, CliTypes, Handling, DidAsAsked
<1> QED
  BY <1>1, <1>2, <1>3, <1>4, <1>5, <1>6 DEF CliNext

------------------------------------------------------------------------------
(* The programs together.                                                   *)

ToolsInv == GateInv /\ EcoInv /\ CliInv

LEMMA ToolsStart == Init => ToolsInv
  BY GateStarts, EcoStarts, CliStarts DEF Init, ToolsInv

LEMMA GateIdle == GateInv /\ UNCHANGED gateVars => GateInv'
  BY DEF gateVars, report, GateInv, GateTypes, WheelKnown, GateUnderWay, AllPassed,
         SmokeUnderWay, LastCommand, SmokeOver, SmokePassed, GateTestedItsBuild

LEMMA EcoIdle == EcoInv /\ UNCHANGED ecoVars => EcoInv'
  BY DEF ecoVars, scenario, EcoInv, EcoTypes, FreshSoFar, Compiled, Fresh, Serving,
         FreshArtifacts

LEMMA CliIdle == CliInv /\ UNCHANGED cliVars => CliInv'
<1> SUFFICES ASSUME CliInv, UNCHANGED cliVars PROVE CliInv'
  OBVIOUS
<1>1. UNCHANGED <<argv, stage, taken, status, sent, events, shown, cliExit>>
  BY DEF cliVars
<1>2. Stages' = Stages /\ Offered(argv.command)' = Offered(argv.command)
  BY <1>1 DEF Stages, Offered
<1> QED
  BY <1>1, <1>2 DEF CliInv, CliTypes, Handling, Reached, DidAsAsked

LEMMA ToolsStep == ToolsInv /\ [Next]_vars => ToolsInv'
<1> SUFFICES ASSUME ToolsInv, [Next]_vars PROVE ToolsInv'
  OBVIOUS
<1>1. /\ GateNext \/ UNCHANGED gateVars
      /\ EcoNext \/ UNCHANGED ecoVars
      /\ CliNext \/ UNCHANGED cliVars
  BY DEF Next, vars
<1>2. GateInv'
  BY <1>1, GateKeeps, GateIdle DEF ToolsInv
<1>3. EcoInv'
  BY <1>1, EcoKeeps, EcoIdle DEF ToolsInv
<1>4. CliInv'
  BY <1>1, CliKeeps, CliIdle DEF ToolsInv
<1> QED
  BY <1>2, <1>3, <1>4 DEF ToolsInv

LEMMA ToolsAlways == Spec => []ToolsInv
  BY ToolsStart, ToolsStep, PTL DEF Spec

\* A release gate that exits with 0 had every command work, with any settings;
\* and when it looks for distributions in ./dist its smoke test ran the wheel
\* built from the revision that was linted and tested, however many wheels of
\* earlier revisions lie there.  Nothing is claimed of the wheel with another
\* --dist-dir, where the gate may pass on an old one (run_release_gate.py).
THEOREM GateHonest == Spec => []GateTestedItsBuild
<1>1. ToolsInv => GateTestedItsBuild
  BY DEF ToolsInv, GateInv
<1> QED
  BY ToolsAlways, <1>1, PTL

\* However a gate ends, its temporary venv is gone unless it was to be kept,
\* and a venv in the report is there with the wheel that passed; all that an
\* interrupt before the try may leave is the empty directory
\* (run_release_gate.py: _wheel_smoke_test).
THEOREM VenvHonest == Spec => []VenvAsReported
<1>1. ToolsInv => VenvAsReported
  BY DEF ToolsInv, GateInv, SmokeOver, VenvAsReported
<1> QED
  BY ToolsAlways, <1>1, PTL

\* A validation that exits with 0 read nothing an earlier run left in the work
\* directory, however many there were (validate_ecosystem.py).
THEOREM ArtifactsFresh == Spec => []FreshArtifacts
<1>1. ToolsInv => FreshArtifacts
  BY DEF ToolsInv, EcoInv
<1> QED
  BY ToolsAlways, <1>1, PTL

\* A tsnmp command that exits with 0 left out no security option it was given
\* and did what it was asked, for every command line; of walk and bulkwalk,
\* which do not look at the error status that ended the walk, only the options
\* and that the walk was made and printed (cli/main.py, cli/common.py).
THEOREM CommandHonest == Spec => []DidAsAsked
<1>1. ToolsInv => DidAsAsked
  BY DEF ToolsInv, CliInv
<1> QED
  BY ToolsAlways, <1>1, PTL
==============================================================================
