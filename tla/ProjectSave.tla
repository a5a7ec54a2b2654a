----------------------------- MODULE ProjectSave -----------------------------
(***************************************************************************)
(* The open project of the studio and its folder on disk: the autosaver    *)
(* (studio/src/store/repo.ts), the queue of saves, disk checks and banner  *)
(* choices (studio/src/state/persistence.ts), and the multi-file save and  *)
(* change detection of ProjectFolder (studio/src/store/folder.ts).         *)
(*                                                                         *)
(* A project is the version of its model (project.json) and the devices    *)
(* that project.toml names, each with a manifest file of its own.  A file  *)
(* is written and read atomically (createWritable); between two files, and *)
(* wherever the code awaits, edits, clicks and other programs interleave.  *)
(***************************************************************************)
EXTENDS Naturals, Sequences

CONSTANTS
    Dev,        \* device manifests, devices/<d>.toml
    Buttons,    \* the banner's buttons the user may press: keep, reload, grant
    MaxEdits,   \* bound: edits made in the studio
    MaxTheirs,  \* bound: writes of project.json by other programs
    MaxFails,   \* bound: file operations that fail, and losses of access
    MaxOpens    \* bound: times the tab is closed, or crashes, and is reopened

\* A device's manifest is not called like one of the two other files.
SaveAssumption ==
    /\ MaxEdits \in Nat /\ MaxTheirs \in Nat /\ MaxFails \in Nat /\ MaxOpens \in Nat
    /\ Buttons \subseteq {"keep", "reload", "grant"}
    /\ {"project.json", "project.toml"} \cap Dev = {}

VARIABLES
    mem,        \* useEditor's project
    status,     \* saveStatus
    banner,     \* disk: none, conflict or permission
    pend,       \* the autosaver's pending project (with its timer), or {}
    jobs,       \* the autosaver's chain of projects to save, the first is out
    tasks,      \* diskQueue, the first has its turn
    phase,      \* what the first task awaits: "start" before it has run
    work,       \* the project it writes, or has read
    todo,       \* the files it still has to write
    snap,       \* ProjectFolder.snapshot
    touched,    \* was project.json written since its stamp was taken?
    disk,       \* the files
    access,     \* does the browser let the studio use the folder?
    edits, theirs, fails, opens     \* counters for the bounds

memory == <<mem, status, banner, pend, jobs>>
folder == <<snap, touched>>
counts == <<edits, theirs, fails, opens>>
vars == <<memory, tasks, phase, work, todo, folder, disk, access, counts>>

Versions == 0..(MaxEdits + MaxTheirs)
Projects == [model: Versions, devs: SUBSET Dev]
Folders  == [model: Versions, toml: SUBSET Dev, devs: SUBSET Dev]
Files    == Dev \cup {"project.json", "project.toml"}
Tasks    == [kind: {"save", "keep", "check", "reload"}, project: Projects]

\* projectToFiles and loadProjectFiles.
FilesOf(p) == [model |-> p.model, toml |-> p.devs, devs |-> p.devs]
ProjectIn(f) == [model |-> f.model, devs |-> f.toml]
Statuses == {"idle", "pending", "saving", "saved", "error", "blocked"}
NoProject == [model |-> 0, devs |-> {}]

TypeOK ==
    /\ mem \in Projects
    /\ status \in Statuses
    /\ banner \in {"none", "conflict", "permission"}
    /\ pend \subseteq Projects /\ \A p, q \in pend: p = q
    /\ jobs \in Seq(Projects)
    /\ tasks \in Seq(Tasks)
    /\ phase \in {"start", "write", "stat", "load", "loaded"}
    /\ work \in Projects
    /\ todo \subseteq Files
    /\ snap \in Folders
    /\ touched \in BOOLEAN
    /\ disk \in Folders
    /\ access \in BOOLEAN
    /\ edits \in 0..MaxEdits /\ theirs \in 0..MaxTheirs
    /\ fails \in 0..MaxFails /\ opens \in 0..MaxOpens

-----------------------------------------------------------------------------
\* startSession after a load of what is on disk.
Opened(f) ==
    /\ mem' = ProjectIn(f)
    /\ status' = "saved"
    /\ banner' = "none"
    /\ pend' = {}
    /\ jobs' = <<>>
    /\ tasks' = <<>>
    /\ phase' = "start"
    /\ work' = NoProject
    /\ todo' = {}
    /\ snap' = f
    /\ touched' = FALSE

Init ==
    /\ disk = FilesOf(NoProject)
    /\ mem = NoProject
    /\ status = "saved"
    /\ banner = "none"
    /\ pend = {}
    /\ jobs = <<>>
    /\ tasks = <<>>
    /\ phase = "start"
    /\ work = NoProject
    /\ todo = {}
    /\ snap = disk
    /\ touched = FALSE
    /\ access = TRUE
    /\ edits = 0 /\ theirs = 0 /\ fails = 0 /\ opens = 0

\* hasUnsavedEdits
Unsaved(st) == st \in {"pending", "saving", "error", "blocked"}

\* changedOnDisk() is not empty.  Only other programs write what it looks for
\* in project.json; what differs in the other files is the studio's own work.
ChangedOnDisk ==
    \/ touched /\ disk.model # snap.model
    \/ disk.toml # snap.toml
    \/ ~ snap.devs \subseteq disk.devs

Task(kind, p) == [kind |-> kind, project |-> p]
Head1 == Head(tasks)
At(kinds, ph) == tasks # <<>> /\ Head1.kind \in kinds /\ phase = ph

\* The first task is done.
TaskDone ==
    /\ tasks' = Tail(tasks)
    /\ phase' = "start"
    /\ work' = NoProject
    /\ todo' = {}

\* ... and it was the autosaver's: the next project of its chain is queued.
JobDone(st) ==
    /\ jobs' = Tail(jobs)
    /\ tasks' = IF Len(jobs) > 1 THEN Append(Tail(tasks), Task("save", jobs[2])) ELSE Tail(tasks)
    /\ status' = IF Len(jobs) > 1 THEN "saving" ELSE st
    /\ phase' = "start"
    /\ work' = NoProject
    /\ todo' = {}

Moves(ph) == phase' = ph /\ UNCHANGED tasks

-----------------------------------------------------------------------------
\* The autosaver.

\* schedule(): the last project of a burst of edits wins.
Schedule_Mut(p) == IF pend = {} THEN {p} ELSE pend      \* the first one wins
Schedule(p) == {p}

Edit(devs) ==
    LET p == [model |-> edits + 1, devs |-> devs] IN
    /\ edits < MaxEdits
    /\ edits' = edits + 1
    /\ mem' = p
    /\ pend' = Schedule(p)
    /\ status' = "pending"
    /\ UNCHANGED <<banner, jobs, tasks, phase, work, todo, folder, disk, access, theirs, fails, opens>>

\* running.then(): behind the save that is out and those that wait for it.
Chain(p) == Append(jobs, p)

StartsAtOnce == jobs = <<>>

\* run()
Run(p) ==
    /\ pend' = {}
    /\ jobs' = Chain(p)
    /\ IF StartsAtOnce
       THEN status' = "saving" /\ tasks' = Append(tasks, Task("save", p))
       ELSE UNCHANGED <<status, tasks>>

AutosaveTimer ==
    /\ \E p \in pend: Run(p)
    /\ UNCHANGED <<mem, banner, phase, work, todo, folder, disk, access, counts>>

-----------------------------------------------------------------------------
\* A save: saveSession and ProjectFolder.save.

MayWrite_Mut == ~ ChangedOnDisk     \* does not look at the banner
MayWrite == banner # "conflict" /\ ~ ChangedOnDisk

\* The files that differ from what was last read or written.
Different(p) ==
    (p.devs \ snap.devs) \cup {f \in {"project.json", "project.toml"}:
        IF f = "project.json" THEN p.model # snap.model ELSE p.devs # snap.toml}

SaveStart ==
    /\ At({"save"}, "start")
    /\ access
    /\ MayWrite
    /\ work' = Head1.project
    /\ todo' = Different(Head1.project)
    /\ Moves("write")
    /\ UNCHANGED <<memory, folder, disk, access, counts>>

\* ExternalChangeError: the banner asks, nothing is written.
SaveRefused ==
    /\ At({"save"}, "start")
    /\ access \/ banner = "conflict"
    /\ ~ MayWrite
    /\ banner' = "conflict"
    /\ JobDone("blocked")
    /\ UNCHANGED <<mem, pend, folder, disk, access, counts>>

Rank_Mut(f) == CASE f = "project.toml" -> 0 [] f = "project.json" -> 1 [] OTHER -> 2
Rank(f) == CASE f = "project.toml" -> 2 [] f = "project.json" -> 1 [] OTHER -> 0

WriteFile(f) ==
    /\ phase = "write" /\ access
    /\ f \in todo
    /\ \A g \in todo: Rank(f) <= Rank(g)
    /\ disk' = CASE f = "project.json" -> [disk EXCEPT !.model = work.model]
                 [] f = "project.toml" -> [disk EXCEPT !.toml = work.devs]
                 [] OTHER -> [disk EXCEPT !.devs = @ \cup {f}]
    /\ touched' = (touched \/ f = "project.json")
    /\ todo' = todo \ {f}
    /\ UNCHANGED <<memory, tasks, phase, work, snap, access, counts>>

\* Manifests of devices the project no longer has go last.
RemoveManifest(d) ==
    /\ phase = "write" /\ access
    /\ todo = {}
    /\ d \in disk.devs \ work.devs
    /\ disk' = [disk EXCEPT !.devs = @ \ {d}]
    /\ UNCHANGED <<memory, tasks, phase, work, todo, folder, access, counts>>

Written == phase = "write" /\ access /\ todo = {} /\ disk.devs \subseteq work.devs

\* remember(): the contents written, and the stamps the files have now.
Remember(f) == snap' = f /\ touched' = FALSE

AfterSave_Mut == "saved"                        \* forgets the edits of meanwhile
AfterSave == IF pend # {} THEN "pending" ELSE "saved"

SaveDone ==
    /\ At({"save"}, "write") /\ Written
    /\ Remember(FilesOf(work))
    /\ banner' = "none"
    /\ JobDone(AfterSave)
    /\ UNCHANGED <<mem, pend, disk, access, counts>>

-----------------------------------------------------------------------------
\* The watcher's disk check.

WatcherFires ==
    /\ \A i \in DOMAIN tasks: tasks[i].kind # "check"
    /\ tasks' = Append(tasks, Task("check", NoProject))
    /\ UNCHANGED <<memory, phase, work, todo, folder, disk, access, counts>>

\* checkDisk looks at the status once, when its turn comes.
CheckStart ==
    /\ At({"check"}, "start")
    /\ IF status \in {"pending", "saving"}
       THEN TaskDone
       ELSE Moves("stat") /\ UNCHANGED <<work, todo>>
    /\ UNCHANGED <<memory, folder, disk, access, counts>>

AsksFirst == Unsaved(status)

CheckStat ==
    /\ At({"check"}, "stat")
    /\ access
    /\ CASE ~ ChangedOnDisk ->
              /\ banner' = IF banner = "permission" THEN "none" ELSE banner
              /\ TaskDone
              /\ UNCHANGED status
         [] ChangedOnDisk /\ AsksFirst ->
              /\ banner' = "conflict"
              /\ status' = "blocked"
              /\ TaskDone
         [] OTHER ->
              /\ banner' = IF banner = "permission" THEN "none" ELSE banner
              /\ Moves("load")
              /\ UNCHANGED <<status, work, todo>>
    /\ UNCHANGED <<mem, pend, jobs, folder, disk, access, counts>>

\* reloadSession: load() reads the files ...
LoadRead ==
    /\ At({"check", "reload"}, "load")
    /\ access
    /\ work' = ProjectIn(disk)
    /\ Moves("loaded")
    /\ UNCHANGED <<memory, todo, folder, disk, access, counts>>

\* ... and takes their stamps; then the editor's project is replaced.
LoadDone ==
    /\ At({"check", "reload"}, "loaded")
    /\ access
    /\ Remember([model |-> work.model, toml |-> work.devs, devs |-> disk.devs])
    /\ mem' = work
    /\ banner' = "none"
    /\ status' = "saved"
    /\ TaskDone
    /\ UNCHANGED <<pend, jobs, disk, access, counts>>

-----------------------------------------------------------------------------
\* The banner's buttons.  A button is pressed once until its turn comes.

Press(kind) ==
    /\ kind \in Buttons
    /\ banner = "conflict"
    /\ \A i \in DOMAIN tasks: tasks[i].kind # kind
    /\ tasks' = Append(tasks, Task(kind, mem))
    /\ pend' = {}                               \* autosaver.cancel()
    /\ status' = "idle"
    /\ UNCHANGED <<mem, banner, jobs, phase, work, todo, folder, disk, access, counts>>

ReloadFromDisk ==
    /\ At({"reload"}, "start")
    /\ banner' = "none"
    /\ Moves("load")
    /\ UNCHANGED <<mem, status, pend, jobs, work, todo, folder, disk, access, counts>>

\* keepMine writes every file of the project the editor has by now.
KeepMine ==
    /\ At({"keep"}, "start")
    /\ work' = mem
    /\ todo' = mem.devs \cup {"project.json", "project.toml"}
    /\ Moves("write")
    /\ UNCHANGED <<memory, folder, disk, access, counts>>

KeepDone ==
    /\ At({"keep"}, "write") /\ Written
    /\ Remember(FilesOf(work))
    /\ banner' = "none"
    /\ status' = "saved"
    /\ TaskDone
    /\ UNCHANGED <<mem, pend, jobs, disk, access, counts>>

\* grantAccess: the browser asks, and unsaved edits are scheduled and flushed.
GrantAccess ==
    /\ "grant" \in Buttons
    /\ banner = "permission"
    /\ access' = TRUE
    /\ banner' = "none"
    /\ IF Unsaved(status)
       THEN \/ StartsAtOnce /\ Run(mem)
            \/ /\ ~ StartsAtOnce
               /\ pend' = {}
               /\ jobs' = Chain(mem)
               /\ status' = "pending"
               /\ UNCHANGED tasks
       ELSE UNCHANGED <<pend, jobs, status, tasks>>
    /\ UNCHANGED <<mem, phase, work, todo, folder, disk, counts>>

-----------------------------------------------------------------------------
\* Failures, other programs, crashes.

\* The first task's file operation fails: for want of access, or otherwise.
BannerFor == IF access THEN banner ELSE "permission"

MayFail ==
    IF access THEN fails < MaxFails /\ fails' = fails + 1 ELSE UNCHANGED fails

SaveFails ==
    /\ (At({"save"}, "start") /\ banner # "conflict") \/ At({"save"}, "write")
    /\ MayFail
    /\ banner' = BannerFor
    /\ JobDone(IF access THEN "error" ELSE "blocked")
    /\ UNCHANGED <<mem, pend, folder, disk, access, edits, theirs, opens>>

KeepFails ==
    /\ At({"keep"}, "write")
    /\ MayFail
    /\ banner' = BannerFor
    /\ status' = "error"
    /\ TaskDone
    /\ UNCHANGED <<mem, pend, jobs, folder, disk, access, edits, theirs, opens>>

CheckFails ==
    /\ At({"check"}, "stat")
    /\ MayFail
    /\ banner' = BannerFor
    /\ TaskDone
    /\ UNCHANGED <<mem, status, pend, jobs, folder, disk, access, edits, theirs, opens>>

\* Reading fails, or the files cannot be parsed.
LoadFails ==
    /\ At({"check", "reload"}, "load") \/ At({"check", "reload"}, "loaded")
    /\ MayFail
    /\ banner' = "conflict"
    /\ TaskDone
    /\ UNCHANGED <<mem, status, pend, jobs, folder, disk, access, edits, theirs, opens>>

AccessLost ==
    /\ access /\ fails < MaxFails
    /\ fails' = fails + 1
    /\ access' = FALSE
    /\ UNCHANGED <<memory, tasks, phase, work, todo, folder, disk, edits, theirs, opens>>

\* Granted in the browser's own settings.
AccessBack ==
    /\ ~ access
    /\ access' = TRUE
    /\ UNCHANGED <<memory, tasks, phase, work, todo, folder, disk, counts>>

\* Another program writes project.json: something new, or what a commit holds.
TheirWrite ==
    /\ theirs < MaxTheirs
    /\ theirs' = theirs + 1
    /\ \E v \in {MaxEdits + theirs + 1, 0}:
         v # disk.model /\ disk' = [disk EXCEPT !.model = v]
    /\ touched' = TRUE
    /\ UNCHANGED <<memory, tasks, phase, work, todo, snap, access, edits, fails, opens>>

Reopen ==
    /\ opens < MaxOpens
    /\ opens' = opens + 1
    /\ Opened(disk)
    /\ access' = TRUE
    /\ UNCHANGED <<disk, edits, theirs, fails>>

-----------------------------------------------------------------------------
DiskStep ==
    \/ SaveStart \/ SaveRefused \/ SaveDone
    \/ \E f \in Files: WriteFile(f)
    \/ \E d \in Dev: RemoveManifest(d)
    \/ CheckStart \/ CheckStat \/ LoadRead \/ LoadDone
    \/ ReloadFromDisk \/ KeepMine \/ KeepDone
    \/ SaveFails \/ KeepFails \/ CheckFails \/ LoadFails

Next ==
    \/ \E devs \in SUBSET Dev: Edit(devs)
    \/ AutosaveTimer \/ WatcherFires \/ DiskStep
    \/ \E kind \in {"keep", "reload"}: Press(kind)
    \/ GrantAccess
    \/ AccessLost \/ AccessBack \/ TheirWrite \/ Reopen

Spec == Init /\ [][Next]_vars
-----------------------------------------------------------------------------
(***************************************************************************)
(* Properties.                                                             *)
(***************************************************************************)

\* Whatever interleaves, fails or crashes, every manifest that project.toml on
\* disk names is there: the order of the writes and removals of save(), and
\* the refusal to save over a folder it does not know (folder.ts:164-165).
ReaderFindsManifests == disk.toml \subseteq disk.devs

\* The autosaver has one save in the queue, for the first of its chain.
OneSaveOut ==
    \A i, j \in DOMAIN tasks:
        tasks[i].kind = "save" => jobs # <<>> /\ (tasks[j].kind = "save" => i = j)

\* What a save has not yet written is in todo, in an order that never lets
\* project.toml name a manifest that is not there.
WritesInOrder ==
    phase = "write" =>
        /\ work.devs \subseteq disk.devs \cup todo
        /\ "project.toml" \notin todo => disk.toml = work.devs

\* The queue and the files of one save are taken in order, so that whoever
\* opens the folder at any moment finds a project in it.
AlwaysReadable == TypeOK /\ OneSaveOut /\ WritesInOrder /\ ReaderFindsManifests

\* While the conflict banner is up, only Keep mine makes the studio write
\* (persistence.ts:280, studio/README.md:302).
NothingWrittenUnasked ==
    banner = "conflict" /\ disk' # disk /\ theirs' = theirs => Head1.kind = "keep"

\* What the editor holds differs from the files as last read or written only
\* while hasUnsavedEdits() says so, for a reload drops what it does not know
\* of (persistence.ts:164-168).
UnsavedIsKnown ==
    FilesOf(mem).model # snap.model \/ mem.devs # snap.toml => Unsaved(status)

\* Without other programs and failures the studio never takes its own saves
\* for somebody else's: saves and checks run one at a time (persistence.ts:74).
NoFalseConflict == theirs = 0 => banner # "conflict"

\* Saves reach the disk in the order of the edits, one behind the other
\* (repo.ts:176-184).
NeverBackwards == disk'.model # disk.model => disk'.model > disk.model

\* What the autosaver is for: the last edit is on disk (repo.ts:189-195).
EditsOnDisk == disk = FilesOf(mem) /\ status = "saved"

\* An edit refused by a banner stays in the editor until the user chooses: a
\* disk check alone replaces no blocked edit (persistence.ts:322-326).
BlockedEditsStay ==
    status = "blocked" /\ mem' # mem =>
        \/ edits' # edits \/ opens' # opens
        \/ At({"reload"}, "loaded")

\* Nothing happens to the files or to blocked edits that the user was still to
\* be asked about.
UserIsAsked == [][NothingWrittenUnasked /\ BlockedEditsStay]_vars
=============================================================================
