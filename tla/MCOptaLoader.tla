---------------------------- MODULE MCOptaLoader ----------------------------
(***************************************************************************)
(* An instance of OptaLoader for TLC: a periodic task and a more urgent    *)
(* event task, one coil and one holding register.                          *)
(***************************************************************************)
EXTENDS OptaLoader

EventInterval == <<2, 0>>
EventPriority == <<2, 1>>
EventSingle   == <<FALSE, TRUE>>
=============================================================================
