---------------------------- MODULE MCScanCycle ----------------------------
(***************************************************************************)
(* Instances of ScanCycle for TLC.                                         *)
(***************************************************************************)
EXTENDS ScanCycle

\* A periodic task with a SINGLE input, a slower and less urgent periodic
\* task: the two phases of scheduling meet at every second slot.
MixedInterval  == <<2, 3>>
MixedPriority  == <<1, 1>>
MixedSingle    == <<TRUE, FALSE>>

\* A periodic task, a more urgent event task, a free-running background task.
PlantInterval  == <<2, 0, 0>>
PlantPriority  == <<2, 1, 3>>
PlantSingle    == <<FALSE, TRUE, FALSE>>
=============================================================================
