------------------------------ MODULE MCStudio ------------------------------
(***************************************************************************)
(* The studio, in one of two settings; a behaviour is one of a single      *)
(* setting.  "online": with a device.  "disk": with a project in a folder; *)
(* the variables then stand for those of ProjectSave.                      *)
(***************************************************************************)
EXTENDS OnlineSession

\* ProjectSave's.
CONSTANTS Dev, Buttons, MaxEdits, MaxTheirs, MaxFails, MaxOpens

VARIABLE setting

Disk == INSTANCE ProjectSave WITH
    mem <- link, status <- state, banner <- polling, pend <- queue, jobs <- current, tasks <- misses,
    phase <- fault, work <- known, todo <- identity, snap <- waiting, touched <- settled, disk <- chunk,
    access <- tx, edits <- rx, theirs <- prog, fails <- word, opens <- timedOut

Online == setting = "online"
StudioInit ==
    \/ setting = "online" /\ Init
    \/ setting = "disk" /\ Disk!Init
StudioNext ==
    /\ UNCHANGED setting
    /\ \/ Online /\ Next
       \/ ~Online /\ Disk!Next

StudioSteps == StudioInit /\ [][StudioNext]_<<setting, vars>>

\* The fairness of both: the event loop ends every turn, every ready task gets
\* its own, timers fire and file operations end.
StudioSpec ==
    /\ StudioSteps
    /\ WF_vars(Online /\ OnLine)
    /\ WF_vars(Online /\ Polled) /\ WF_vars(Online /\ Identified)
    /\ WF_vars(Online /\ Written) /\ WF_vars(Online /\ Commanded)
    /\ SF_vars(Online /\ Receive) /\ SF_vars(Online /\ Poll) /\ SF_vars(Online /\ Closed)
    /\ SF_vars(Online /\ Timeout)
    /\ WF_vars(~Online /\ Disk!AutosaveTimer)
    /\ WF_vars(~Online /\ Disk!DiskStep)

\* With a device that answers, if late: its loop answers what it reads and goes
\* on printing its fault, and nothing is asked of the timeout.
LiveInit == Online /\ StudioInit
StudioLive ==
    /\ LiveInit /\ [][StudioNext]_<<setting, vars>>
    /\ Turns /\ Tasks
    /\ SF_vars(\E op \in DeviceOps: DeviceAnswers(op))
    /\ SF_vars(FaultReprint)

ASSUME DiskAssumption == Disk!SaveAssumption

\* Writers differ in nothing but their names, and so do the bits of a word.
NameSymmetry == Permutations(Writers) \cup Permutations(Bits)

-----------------------------------------------------------------------------
\* OnlineSession: one command is out, none piles up, nobody waits for a
\* connection that ended, and %M is the device's (session.ts:228-320).
CommandsOrderly == Online => QueueOrderly

\* ProjectSave: whoever opens the folder finds a project in it (folder.ts:164-232).
AlwaysReadable == ~Online => Disk!AlwaysReadable

\* ProjectSave: the user is asked first (persistence.ts:280, 322-326).
UserIsAsked ==
    [][~Online => Disk!NothingWrittenUnasked /\ Disk!BlockedEditsStay]_<<setting, vars>>

\* OnlineSession: no fault is shown over a program that runs, once the call
\* that started it is over (session.ts:57, 169).
FaultNotStale == Online => NoStaleFault

\* OnlineSession: every call settles, although the device may hang and the
\* link may go (session.ts:248, 266-276, 221-226).
CallsSettle == Online /\ Bar \in waiting ~> Online /\ Bar \notin waiting

\* ProjectSave: the editor knows what is not on disk, and the studio takes none
\* of its own saves for somebody else's (persistence.ts:74, 164-168).
EditsAreKnown == ~Online => Disk!TypeOK /\ Disk!UnsavedIsKnown /\ Disk!NoFalseConflict

\* ProjectSave: saves reach the disk in the order of the edits, and the last
\* edit in the end (repo.ts:176-195).
EditsReachDisk ==
    /\ [][~Online => Disk!NeverBackwards]_<<setting, vars>>
    /\ ~Online ~> ~Online /\ Disk!EditsOnDisk
=============================================================================
