-------------------------------- MODULE Tools --------------------------------
(* The programs of the repository, one of which is run: the release gate and *)
(* the ecosystem validation of docs/release-checklist.md, again and again in *)
(* the same directories, or one tsnmp command.                               *)
EXTENDS ReleaseGate, Ecosystem, Cli

VARIABLE tool

vars == <<tool, gateVars, ecoVars, cliVars>>

Init ==
    /\ tool \in {"run_release_gate", "validate_ecosystem", "tsnmp"}
    /\ GateInit /\ EcoInit /\ CliInit
    /\ tool # "run_release_gate" => wheels = [d \in Dir |-> NoWheel]

Next ==
    /\ UNCHANGED tool
    /\ \/ tool = "run_release_gate" /\ GateNext /\ UNCHANGED <<ecoVars, cliVars>>
       \/ tool = "validate_ecosystem" /\ EcoNext /\ UNCHANGED <<gateVars, cliVars>>
       \/ tool = "tsnmp" /\ CliNext /\ UNCHANGED <<gateVars, ecoVars>>

Spec == Init /\ [][Next]_vars

\* the commands of a validation end, each in its own time
FairSpec == Spec /\ WF_vars(ValidationStep /\ UNCHANGED <<tool, gateVars, cliVars>>)
==============================================================================
