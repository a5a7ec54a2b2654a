------------------------------- MODULE SafePlc -------------------------------
(***************************************************************************)
(* What every runtime of a compiled program promises about the outputs     *)
(* (docs/process-image.md, "Runtime faults"; docs/program-image.md,        *)
(* "Loading"): only the scans of a running program set them, a fault puts  *)
(* them in their safe state at once, and they stay there until a start.    *)
(* ScanCycle and OptaLoader are shown to implement it.                     *)
(***************************************************************************)
CONSTANTS
    Outputs,    \* the values the outputs can take
    Safe        \* the safe state: all zero

VARIABLES
    mode,       \* halted, starting, running or faulted
    outputs     \* what the hardware shows

vars == <<mode, outputs>>

Modes == {"halted", "starting", "running", "faulted"}

Init ==
    /\ mode \in Modes
    /\ outputs = Safe

\* The flush at the end of a scan.
Scan ==
    /\ mode = "running"
    /\ outputs' \in Outputs
    /\ UNCHANGED mode

Fault ==
    /\ mode' = "faulted"
    /\ outputs' = Safe

Halt ==
    /\ mode' = "halted"
    /\ outputs' = Safe

\* A start begins: the outputs stay as they were, or are switched off.
Start ==
    /\ mode' = "starting"
    /\ outputs' \in {outputs, Safe}

\* The started program runs; its first scan has not been flushed.
Go ==
    /\ mode' = "running"
    /\ UNCHANGED outputs

PowerUp ==
    /\ mode' \in Modes
    /\ outputs' = Safe

Next == Scan \/ Fault \/ Halt \/ Start \/ Go \/ PowerUp

Spec == Init /\ [][Next]_vars
=============================================================================
