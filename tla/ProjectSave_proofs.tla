------------------------- MODULE ProjectSave_proofs -------------------------
(***************************************************************************)
(* Proofs about ProjectSave, for every set of devices and every bound.     *)
(***************************************************************************)
EXTENDS ProjectSave, TLAPS

LEMMA TailElements ==
    ASSUME NEW S, NEW s \in Seq(S), s # <<>>
    PROVE  /\ Head(s) \in S
           /\ Tail(s) \in Seq(S)
           /\ DOMAIN Tail(s) = 1..Len(s) - 1
           /\ \A i \in 1..Len(s) - 1: i + 1 \in DOMAIN s /\ Tail(s)[i] = s[i + 1]
  BY SMT

LEMMA TailNotEmpty ==
    ASSUME NEW S, NEW s \in Seq(S), Len(s) > 1
    PROVE  Tail(s) # <<>>
  <1>1. s # <<>> /\ Len(s) \in Nat
    BY SMT
  <1>2. 1 \in DOMAIN Tail(s)
    BY <1>1, TailElements
  <1>3. DOMAIN <<>> = {}
    OBVIOUS
  <1> QED  BY <1>2, <1>3

LEMMA AppendElements ==
    ASSUME NEW S, NEW s \in Seq(S), NEW e \in S
    PROVE  /\ Append(s, e) \in Seq(S)
           /\ Append(s, e) # <<>>
           /\ DOMAIN Append(s, e) = 1..Len(s) + 1
           /\ DOMAIN s = 1..Len(s) /\ Len(s) \in Nat
           /\ Append(s, e)[Len(s) + 1] = e
           /\ \A i \in 1..Len(s): Append(s, e)[i] = s[i]
  BY SMT

LEMMA NoProjectType ==
    ASSUME SaveAssumption
    PROVE  NoProject \in Projects
  BY DEF SaveAssumption, NoProject, Projects, Versions

LEMMA TaskType ==
    ASSUME NEW p \in Projects, NEW k \in {"save", "keep", "check", "reload"}
    PROVE  Task(k, p) \in Tasks /\ Task(k, p).kind = k /\ Task(k, p).project = p
  BY DEF Task, Tasks

\* Taking the first task away, and appending one, keep OneSaveOut.
LEMMA TaskDoneKeeps ==
    ASSUME SaveAssumption, TypeOK, OneSaveOut, tasks # <<>>, TaskDone
    PROVE  /\ tasks' \in Seq(Tasks) /\ phase' = "start"
           /\ work' \in Projects /\ todo' = {}
           /\ jobs' = jobs => OneSaveOut'
  <1>1. tasks \in Seq(Tasks)  BY DEF TypeOK
  <1>2. tasks' = Tail(tasks)  BY DEF TaskDone
  <1>3. /\ tasks' \in Seq(Tasks)
        /\ DOMAIN tasks' = 1..Len(tasks) - 1
        /\ \A i \in 1..Len(tasks) - 1: i + 1 \in DOMAIN tasks /\ tasks'[i] = tasks[i + 1]
    BY <1>1, <1>2, TailElements
  <1>4. ASSUME jobs' = jobs  PROVE OneSaveOut'
    <2>1. ASSUME NEW i \in DOMAIN tasks', NEW j \in DOMAIN tasks', tasks'[i].kind = "save"
          PROVE  jobs # <<>> /\ (tasks'[j].kind = "save" => i = j)
      <3>1. tasks[i + 1].kind = "save" /\ i + 1 \in DOMAIN tasks /\ j + 1 \in DOMAIN tasks
            /\ tasks'[j] = tasks[j + 1]
        BY <1>3, <2>1
      <3>2. jobs # <<>> /\ (tasks[j + 1].kind = "save" => i + 1 = j + 1)
        BY <3>1 DEF OneSaveOut
      <3> QED  BY <1>3, <3>1, <3>2
    <2> QED  BY <1>4, <2>1 DEF OneSaveOut
  <1> QED  BY <1>3, <1>4, NoProjectType DEF TaskDone

LEMMA JobDoneKeeps ==
    ASSUME SaveAssumption, TypeOK, OneSaveOut, tasks # <<>>, Head1.kind = "save",
           NEW st \in Statuses, JobDone(st)
    PROVE  /\ tasks' \in Seq(Tasks) /\ phase' = "start"
           /\ work' \in Projects /\ todo' = {}
           /\ jobs' \in Seq(Projects) /\ status' \in Statuses
           /\ OneSaveOut'
  <1>1. tasks \in Seq(Tasks) /\ jobs \in Seq(Projects)  BY DEF TypeOK
  <1> DEFINE rest == Tail(tasks)
  <1>2. /\ rest \in Seq(Tasks)
        /\ DOMAIN rest = 1..Len(tasks) - 1
        /\ \A i \in 1..Len(tasks) - 1: i + 1 \in DOMAIN tasks /\ rest[i] = tasks[i + 1]
    BY <1>1, TailElements
  <1>3. 1 \in DOMAIN tasks /\ tasks[1].kind = "save"
    BY <1>1 DEF Head1
  <1>4. jobs # <<>>
    BY <1>3 DEF OneSaveOut
  <1>5. jobs' = Tail(jobs) /\ jobs' \in Seq(Projects)
    BY <1>1, <1>4, TailElements DEF JobDone
  <1>6. ASSUME NEW i \in DOMAIN rest  PROVE rest[i].kind # "save"
    <2>1. i + 1 \in DOMAIN tasks /\ rest[i] = tasks[i + 1] /\ i + 1 # 1
      BY <1>2, <1>6
    <2> QED  BY <2>1, <1>3 DEF OneSaveOut
  <1> HIDE DEF rest
  <1>7. CASE Len(jobs) > 1
    <2>1. jobs[2] \in Projects  BY <1>1, <1>7
    <2> DEFINE t == Task("save", jobs[2])
    <2>2. t \in Tasks  BY <2>1, TaskType
    <2> HIDE DEF t
    <2>3. tasks' = Append(rest, t)  BY <1>7 DEF JobDone, rest, t
    <2>4. /\ tasks' \in Seq(Tasks)
          /\ DOMAIN tasks' = 1..Len(rest) + 1
          /\ DOMAIN rest = 1..Len(rest) /\ Len(rest) \in Nat
          /\ \A i \in 1..Len(rest): tasks'[i] = rest[i]
      BY <1>2, <2>2, <2>3, AppendElements
    <2>5. jobs' # <<>>  BY <1>1, <1>5, <1>7, TailNotEmpty
    <2>6. ASSUME NEW i \in DOMAIN tasks', tasks'[i].kind = "save"  PROVE i = Len(rest) + 1
      BY <1>6, <2>4, <2>6
    <2>7. OneSaveOut'  BY <2>5, <2>6 DEF OneSaveOut
    <2> QED  BY <1>5, <1>7, <2>4, <2>7, NoProjectType DEF JobDone, Statuses
  <1>8. CASE ~ (Len(jobs) > 1)
    <2>1. tasks' = rest  BY <1>8 DEF JobDone, rest
    <2>2. OneSaveOut'  BY <2>1, <1>6 DEF OneSaveOut
    <2> QED  BY <1>2, <1>5, <1>8, <2>1, <2>2, NoProjectType DEF JobDone
  <1> QED  BY <1>7, <1>8

\* A task that is not a save comes to the queue.
LEMMA QueuedKeeps ==
    ASSUME TypeOK, OneSaveOut, NEW t \in Tasks, t.kind # "save",
           tasks' = Append(tasks, t), jobs' = jobs
    PROVE  tasks' \in Seq(Tasks) /\ OneSaveOut'
  <1>1. /\ tasks' \in Seq(Tasks)
        /\ DOMAIN tasks' = 1..Len(tasks) + 1
        /\ DOMAIN tasks = 1..Len(tasks) /\ Len(tasks) \in Nat
        /\ tasks'[Len(tasks) + 1] = t
        /\ \A i \in 1..Len(tasks): tasks'[i] = tasks[i]
    BY AppendElements DEF TypeOK
  <1>2. ASSUME NEW i \in DOMAIN tasks', tasks'[i].kind = "save"
        PROVE  i \in DOMAIN tasks /\ tasks[i].kind = "save"
    BY <1>1, <1>2
  <1> QED  BY <1>1, <1>2 DEF OneSaveOut

\* A project comes to the autosaver's chain.
LEMMA ChainKeeps ==
    ASSUME TypeOK, OneSaveOut, NEW p \in Projects, jobs' = Chain(p)
    PROVE  /\ jobs' \in Seq(Projects)
           /\ tasks' = tasks => OneSaveOut'
           /\ jobs = <<>> /\ tasks' = Append(tasks, Task("save", p)) => OneSaveOut' /\ tasks' \in Seq(Tasks)
  <1>1. jobs' \in Seq(Projects) /\ jobs' # <<>>
    BY AppendElements DEF TypeOK, Chain
  <1>2. ASSUME tasks' = tasks  PROVE OneSaveOut'
    BY <1>1, <1>2 DEF OneSaveOut
  <1>3. ASSUME jobs = <<>>, tasks' = Append(tasks, Task("save", p))
        PROVE  OneSaveOut' /\ tasks' \in Seq(Tasks)
    <2> DEFINE t == Task("save", p)
    <2>1. t \in Tasks  BY TaskType
    <2> HIDE DEF t
    <2>2. tasks' = Append(tasks, t)  BY <1>3 DEF t
    <2>3. /\ tasks' \in Seq(Tasks)
          /\ DOMAIN tasks' = 1..Len(tasks) + 1
          /\ DOMAIN tasks = 1..Len(tasks) /\ Len(tasks) \in Nat
          /\ \A i \in 1..Len(tasks): tasks'[i] = tasks[i]
      BY <2>1, <2>2, AppendElements DEF TypeOK
    <2>4. ASSUME NEW i \in DOMAIN tasks  PROVE tasks[i].kind # "save"
      BY <1>3, <2>4 DEF OneSaveOut
    <2>5. ASSUME NEW i \in DOMAIN tasks', tasks'[i].kind = "save"  PROVE i = Len(tasks) + 1
      BY <2>3, <2>4, <2>5
    <2> QED  BY <1>1, <2>3, <2>5 DEF OneSaveOut
  <1> QED  BY <1>1, <1>2, <1>3

-----------------------------------------------------------------------------
TypeInv == TypeOK /\ OneSaveOut

\* The counters are only ever increased below their bounds.
LEMMA CountersInc ==
    ASSUME NEW n \in Nat, NEW m \in 0..n
    PROVE  m < n => m + 1 \in 0..n
  BY SMT

LEMMA TypeInit ==
    ASSUME SaveAssumption
    PROVE  Init => TypeInv
  <1> SUFFICES ASSUME Init PROVE TypeInv
    OBVIOUS
  <1>1. FilesOf(NoProject) \in Folders
    BY NoProjectType DEF FilesOf, Projects, Folders
  <1>2. OneSaveOut
    BY DEF Init, OneSaveOut
  <1>3. pend = {} /\ jobs \in Seq(Projects) /\ tasks \in Seq(Tasks)
    BY DEF Init
  <1>4. edits \in 0..MaxEdits /\ theirs \in 0..MaxTheirs /\ fails \in 0..MaxFails /\ opens \in 0..MaxOpens
    BY DEF SaveAssumption, Init
  <1> QED  BY <1>1, <1>2, <1>3, <1>4, NoProjectType DEF Init, TypeInv, TypeOK, Statuses

LEMMA TypeStep ==
    ASSUME SaveAssumption
    PROVE  TypeInv /\ [Next]_vars => TypeInv'
  <1> SUFFICES ASSUME TypeOK, OneSaveOut, [Next]_vars  PROVE TypeInv'
    BY DEF TypeInv
  <1> USE DEF SaveAssumption
  <1>1. ASSUME NEW devs \in SUBSET Dev, Edit(devs)  PROVE TypeInv'
    <2>1. [model |-> edits + 1, devs |-> devs] \in Projects
      BY <1>1 DEF TypeOK, Edit, Projects, Versions
    <2>2. OneSaveOut'
      BY <1>1 DEF Edit, OneSaveOut
    <2>3. edits' \in 0..MaxEdits
      BY <1>1, CountersInc DEF TypeOK, Edit
    <2> QED  BY <1>1, <2>1, <2>2, <2>3 DEF TypeInv, TypeOK, Edit, Schedule, Statuses, folder
  <1>2. CASE AutosaveTimer
    <2>1. PICK p \in pend: Run(p)
      BY <1>2 DEF AutosaveTimer
    <2>2. p \in Projects /\ jobs' = Chain(p)
      BY <2>1 DEF TypeOK, Run
    <2>3. CASE jobs = <<>>
      BY <1>2, <2>1, <2>2, <2>3, ChainKeeps
         DEF AutosaveTimer, Run, StartsAtOnce, TypeInv, TypeOK, Statuses, folder, counts
    <2>4. CASE jobs # <<>>
      BY <1>2, <2>1, <2>2, <2>4, ChainKeeps
         DEF AutosaveTimer, Run, StartsAtOnce, TypeInv, TypeOK, folder, counts
    <2> QED  BY <2>3, <2>4
  <1>3. CASE WatcherFires
    <2>1. tasks' \in Seq(Tasks) /\ OneSaveOut'
      BY <1>3, NoProjectType, TaskType, QueuedKeeps DEF WatcherFires, memory
    <2> QED  BY <1>3, <2>1 DEF WatcherFires, memory, folder, counts, TypeInv, TypeOK
  <1>4. CASE SaveStart
    <2>1. Head1.project \in Projects
      <3>1. tasks # <<>> /\ tasks \in Seq(Tasks)
        BY <1>4 DEF SaveStart, At, TypeOK
      <3>2. Head1 \in Tasks
        BY <3>1, TailElements DEF Head1
      <3> QED  BY <3>2 DEF Tasks
    <2>2. Different(Head1.project) \subseteq Files
      BY <2>1 DEF Different, Files, Projects
    <2>3. OneSaveOut'
      BY <1>4 DEF SaveStart, Moves, memory, OneSaveOut
    <2> QED  BY <1>4, <2>1, <2>2, <2>3 DEF SaveStart, Moves, memory, folder, counts, TypeInv, TypeOK
  <1>5. CASE SaveRefused
    <2>1. tasks # <<>> /\ Head1.kind = "save" /\ JobDone("blocked")
      BY <1>5 DEF SaveRefused, At
    <2> QED  BY <1>5, <2>1, JobDoneKeeps DEF SaveRefused, Statuses, folder, counts, TypeInv, TypeOK
  <1>6. CASE SaveDone
    <2>1. tasks # <<>> /\ Head1.kind = "save" /\ JobDone(AfterSave)
      BY <1>6 DEF SaveDone, At
    <2>2. FilesOf(work) \in Folders
      BY DEF TypeOK, FilesOf, Projects, Folders
    <2> QED  BY <1>6, <2>1, <2>2, JobDoneKeeps
           DEF SaveDone, Remember, AfterSave, Statuses, counts, TypeInv, TypeOK
  <1>7. ASSUME NEW f \in Files, WriteFile(f)  PROVE TypeInv'
    <2>1. disk' \in Folders
      BY <1>7 DEF WriteFile, TypeOK, Folders, Projects, Files
    <2>2. OneSaveOut'
      BY <1>7 DEF WriteFile, memory, OneSaveOut
    <2> QED  BY <1>7, <2>1, <2>2 DEF WriteFile, memory, counts, TypeInv, TypeOK
  <1>8. ASSUME NEW d \in Dev, RemoveManifest(d)  PROVE TypeInv'
    <2>1. disk' \in Folders
      BY <1>8 DEF RemoveManifest, TypeOK, Folders
    <2>2. OneSaveOut'
      BY <1>8 DEF RemoveManifest, memory, OneSaveOut
    <2> QED  BY <1>8, <2>1, <2>2 DEF RemoveManifest, memory, folder, counts, TypeInv, TypeOK
  <1>9. CASE CheckStart
    <2>1. CASE TaskDone
      BY <1>9, <2>1, TaskDoneKeeps DEF CheckStart, At, memory, folder, counts, TypeInv, TypeOK
    <2>2. CASE Moves("stat") /\ UNCHANGED <<work, todo>>
      BY <1>9, <2>2 DEF CheckStart, Moves, memory, folder, counts, TypeInv, TypeOK, OneSaveOut
    <2> QED  BY <1>9, <2>1, <2>2 DEF CheckStart
  <1>10. CASE CheckStat
    <2>1. /\ tasks # <<>>
          /\ UNCHANGED <<mem, pend, jobs, folder, disk, access, counts>>
          /\ banner' \in {"none", "conflict", "permission"} /\ status' \in Statuses
          /\ TaskDone \/ (Moves("load") /\ UNCHANGED <<work, todo>>)
      BY <1>10 DEF CheckStat, At, TypeOK, Statuses
    <2>2. CASE TaskDone
      BY <2>1, <2>2, TaskDoneKeeps DEF folder, counts, TypeInv, TypeOK
    <2>3. CASE Moves("load") /\ UNCHANGED <<work, todo>>
      BY <2>1, <2>3 DEF Moves, folder, counts, TypeInv, TypeOK, OneSaveOut
    <2> QED  BY <2>1, <2>2, <2>3
  <1>11. CASE LoadRead
    <2>1. ProjectIn(disk) \in Projects
      BY DEF TypeOK, ProjectIn, Projects, Folders
    <2> QED  BY <1>11, <2>1 DEF LoadRead, Moves, memory, folder, counts, TypeInv, TypeOK, OneSaveOut
  <1>12. CASE LoadDone
    <2>1. [model |-> work.model, toml |-> work.devs, devs |-> disk.devs] \in Folders
      BY DEF TypeOK, Projects, Folders
    <2>2. tasks # <<>> /\ TaskDone /\ jobs' = jobs
      BY <1>12 DEF LoadDone, At
    <2> QED  BY <1>12, <2>1, <2>2, TaskDoneKeeps DEF LoadDone, Remember, Statuses, counts, TypeInv, TypeOK
  <1>13. ASSUME NEW kind \in {"keep", "reload"}, Press(kind)  PROVE TypeInv'
    <2>1. tasks' \in Seq(Tasks) /\ OneSaveOut'
      BY <1>13, TaskType, QueuedKeeps DEF Press, TypeOK
    <2> QED  BY <1>13, <2>1 DEF Press, folder, counts, Statuses, TypeInv, TypeOK
  <1>14. CASE ReloadFromDisk
    BY <1>14 DEF ReloadFromDisk, Moves, folder, counts, TypeInv, TypeOK, OneSaveOut
  <1>15. CASE KeepMine
    <2>1. mem.devs \cup {"project.json", "project.toml"} \subseteq Files
      BY DEF TypeOK, Projects, Files
    <2> QED  BY <1>15, <2>1 DEF KeepMine, Moves, memory, folder, counts, TypeInv, TypeOK, OneSaveOut
  <1>16. CASE KeepDone
    <2>1. FilesOf(work) \in Folders
      BY DEF TypeOK, FilesOf, Projects, Folders
    <2>2. tasks # <<>> /\ TaskDone /\ jobs' = jobs
      BY <1>16 DEF KeepDone, At
    <2> QED  BY <1>16, <2>1, <2>2, TaskDoneKeeps DEF KeepDone, Remember, Statuses, counts, TypeInv, TypeOK
  <1>17. CASE GrantAccess
    <2>1. mem \in Projects  BY DEF TypeOK
    <2>2. CASE Run(mem) /\ jobs = <<>>
      BY <1>17, <2>1, <2>2, ChainKeeps
         DEF GrantAccess, Run, StartsAtOnce, TypeInv, TypeOK, Statuses, folder, counts
    <2>3. CASE jobs' = Chain(mem) /\ pend' = {} /\ status' = "pending" /\ UNCHANGED tasks
      BY <1>17, <2>1, <2>3, ChainKeeps
         DEF GrantAccess, TypeInv, TypeOK, Statuses, folder, counts
    <2>4. CASE UNCHANGED <<pend, jobs, status, tasks>>
      BY <1>17, <2>4 DEF GrantAccess, TypeInv, TypeOK, OneSaveOut, folder, counts
    <2> QED  BY <1>17, <2>2, <2>3, <2>4 DEF GrantAccess, StartsAtOnce
  <1>18. CASE SaveFails
    <2>1. /\ tasks # <<>> /\ Head1.kind = "save"
          /\ JobDone(IF access THEN "error" ELSE "blocked")
          /\ (IF access THEN "error" ELSE "blocked") \in Statuses
      BY <1>18 DEF SaveFails, At, Statuses
    <2>2. fails' \in 0..MaxFails
      BY <1>18, CountersInc DEF SaveFails, MayFail, TypeOK
    <2> QED  BY <1>18, <2>1, <2>2, JobDoneKeeps DEF SaveFails, BannerFor, folder, TypeInv, TypeOK
  <1>19. CASE KeepFails \/ CheckFails \/ LoadFails
    <2>1. /\ tasks # <<>> /\ TaskDone /\ MayFail
          /\ status' \in Statuses /\ banner' \in {"none", "conflict", "permission"}
          /\ UNCHANGED <<mem, pend, jobs, folder, disk, access, edits, theirs, opens>>
      BY <1>19 DEF KeepFails, CheckFails, LoadFails, At, BannerFor, Statuses, TypeOK
    <2>2. fails' \in 0..MaxFails
      BY <2>1, CountersInc DEF MayFail, TypeOK
    <2> QED  BY <2>1, <2>2, TaskDoneKeeps DEF folder, TypeInv, TypeOK
  <1>20. CASE AccessLost \/ AccessBack
    <2>1. fails' \in 0..MaxFails /\ access' \in BOOLEAN
      BY <1>20, CountersInc DEF AccessLost, AccessBack, counts, TypeOK
    <2> QED  BY <1>20, <2>1 DEF AccessLost, AccessBack, memory, folder, counts, TypeInv, TypeOK, OneSaveOut
  <1>21. CASE TheirWrite
    <2>1. PICK v \in {MaxEdits + theirs + 1, 0}: disk' = [disk EXCEPT !.model = v]
      BY <1>21 DEF TheirWrite
    <2>2. v \in Versions /\ theirs' \in 0..MaxTheirs
      BY <1>21, <2>1, CountersInc DEF TheirWrite, TypeOK, Versions
    <2>3. disk' \in Folders
      BY <2>1, <2>2 DEF TypeOK, Folders
    <2> QED  BY <1>21, <2>2, <2>3 DEF TheirWrite, memory, TypeInv, TypeOK, OneSaveOut
  <1>22. CASE Reopen
    <2>1. ProjectIn(disk) \in Projects
      BY DEF TypeOK, ProjectIn, Projects, Folders
    <2>2. opens' \in 0..MaxOpens
      BY <1>22, CountersInc DEF Reopen, TypeOK
    <2>3. tasks' \in Seq(Tasks) /\ jobs' \in Seq(Projects) /\ pend' = {}
      BY <1>22 DEF Reopen, Opened
    <2>4. OneSaveOut'
      BY <1>22 DEF Reopen, Opened, OneSaveOut
    <2> QED  BY <1>22, <2>1, <2>2, <2>3, <2>4, NoProjectType DEF Reopen, Opened, Statuses, TypeInv, TypeOK
  <1>23. CASE UNCHANGED vars
    BY <1>23 DEF vars, memory, folder, counts, TypeInv, TypeOK, OneSaveOut
  <1> QED  BY <1>1, <1>2, <1>3, <1>4, <1>5, <1>6, <1>7, <1>8, <1>9, <1>10, <1>11, <1>12, <1>13,
              <1>14, <1>15, <1>16, <1>17, <1>18, <1>19, <1>20, <1>21, <1>22, <1>23
           DEF Next, DiskStep

\* The variables keep their types, and the autosaver has one save at a time in
\* the disk queue, the first of its chain (repo.ts:176-184).
THEOREM TypeCorrect ==
    ASSUME SaveAssumption
    PROVE  Spec => [](TypeOK /\ OneSaveOut)
  BY TypeInit, TypeStep, PTL DEF Spec, TypeInv

-----------------------------------------------------------------------------
\* A reader of the folder.  A step that writes no file and starts no save
\* changes none of what these say.
ManifestInv == WritesInOrder /\ ReaderFindsManifests

LEMMA ManifestInit == Init => ManifestInv
  BY DEF Init, FilesOf, NoProject, ManifestInv, WritesInOrder, ReaderFindsManifests

LEMMA ManifestsKept ==
    ASSUME ManifestInv, disk' = disk,
           phase' # "write" \/ (phase = "write" /\ UNCHANGED <<work, todo>>)
    PROVE  ManifestInv'
  BY DEF ManifestInv, WritesInOrder, ReaderFindsManifests

LEMMA ManifestStep ==
    ASSUME SaveAssumption, TypeOK, ManifestInv, [Next]_vars
    PROVE  ManifestInv'
  <1>1. CASE SaveStart
    <2>1. disk.toml = snap.toml /\ snap.devs \subseteq disk.devs
      BY <1>1 DEF SaveStart, MayWrite, ChangedOnDisk
    <2>2. work'.devs \ snap.devs \subseteq todo'
      BY <1>1 DEF SaveStart, Different
    <2>3. "project.toml" \notin todo' => work'.devs = snap.toml
      BY <1>1 DEF SaveStart, Different
    <2> QED  BY <1>1, <2>1, <2>2, <2>3 DEF SaveStart, ManifestInv, WritesInOrder, ReaderFindsManifests
  <1>2. ASSUME NEW f \in Files, WriteFile(f)  PROVE ManifestInv'
    <2>1. /\ work.devs \subseteq disk.devs \cup todo /\ work.devs \subseteq Dev
          /\ "project.toml" \notin todo => disk.toml = work.devs
          /\ disk.toml \subseteq disk.devs
          /\ disk \in Folders /\ phase' = phase /\ work' = work /\ todo' = todo \ {f}
      BY <1>2 DEF WriteFile, ManifestInv, WritesInOrder, ReaderFindsManifests, TypeOK, Projects
    <2>2. CASE f = "project.json"
      <3>1. disk'.devs = disk.devs /\ disk'.toml = disk.toml
        BY <1>2, <2>1, <2>2 DEF WriteFile, Folders
      <3> QED  BY <2>1, <2>2, <3>1 DEF SaveAssumption, ManifestInv, WritesInOrder, ReaderFindsManifests
    <2>3. CASE f = "project.toml"
      <3>1. disk'.devs = disk.devs /\ disk'.toml = work.devs
        BY <1>2, <2>1, <2>3 DEF WriteFile, Folders
      <3>2. \A g \in todo: Rank(g) # 0
        BY <1>2, <2>3 DEF WriteFile, Rank
      <3>3. work.devs \subseteq disk.devs
        BY <2>1, <3>2 DEF SaveAssumption, Rank
      <3> QED  BY <2>1, <3>1, <3>3 DEF ManifestInv, WritesInOrder, ReaderFindsManifests
    <2>4. CASE f \notin {"project.json", "project.toml"}
      <3>1. disk'.devs = disk.devs \cup {f} /\ disk'.toml = disk.toml
        BY <1>2, <2>1, <2>4 DEF WriteFile, Folders
      <3> QED  BY <2>1, <2>4, <3>1 DEF ManifestInv, WritesInOrder, ReaderFindsManifests
    <2> QED  BY <2>2, <2>3, <2>4
  <1>3. ASSUME NEW d \in Dev, RemoveManifest(d)  PROVE ManifestInv'
    <2>1. todo = {} /\ disk.toml = work.devs /\ work.devs \subseteq disk.devs /\ d \notin work.devs
      BY <1>3 DEF RemoveManifest, ManifestInv, WritesInOrder
    <2>2. disk'.devs = disk.devs \ {d} /\ disk'.toml = disk.toml
      BY <1>3 DEF RemoveManifest, TypeOK, Folders
    <2> QED  BY <1>3, <2>1, <2>2 DEF RemoveManifest, ManifestInv, WritesInOrder, ReaderFindsManifests
  <1>4. CASE KeepMine
    BY <1>4 DEF KeepMine, ManifestInv, WritesInOrder, ReaderFindsManifests
  <1>5. CASE TheirWrite
    <2>1. disk'.devs = disk.devs /\ disk'.toml = disk.toml
      BY <1>5 DEF TheirWrite, TypeOK, Folders
    <2> QED  BY <1>5, <2>1 DEF TheirWrite, ManifestInv, WritesInOrder, ReaderFindsManifests
  <1>6. CASE \/ \E devs \in SUBSET Dev: Edit(devs)
             \/ AutosaveTimer \/ WatcherFires \/ GrantAccess \/ AccessLost \/ AccessBack
             \/ \E kind \in {"keep", "reload"}: Press(kind)
             \/ UNCHANGED vars
    <2>1. disk' = disk /\ UNCHANGED <<phase, work, todo>>
      BY <1>6 DEF Edit, AutosaveTimer, WatcherFires, GrantAccess, AccessLost, AccessBack, Press, vars, memory
    <2> QED  BY <2>1, ManifestsKept
  <1>7. CASE \/ SaveRefused \/ SaveDone \/ KeepDone \/ LoadDone \/ SaveFails
             \/ KeepFails \/ CheckFails \/ LoadFails \/ Reopen
             \/ LoadRead \/ ReloadFromDisk \/ CheckStat
    <2>1. disk' = disk /\ phase' # "write"
      BY <1>7 DEF SaveRefused, SaveDone, KeepDone, LoadDone, SaveFails, KeepFails, CheckFails, LoadFails,
                  Reopen, Opened, LoadRead, ReloadFromDisk, CheckStat, TaskDone, JobDone, Moves
    <2> QED  BY <2>1, ManifestsKept
  <1>8. CASE CheckStart
    <2>1. disk' = disk /\ phase' # "write"
      BY <1>8 DEF CheckStart, TaskDone, Moves
    <2> QED  BY <2>1, ManifestsKept
  <1> QED  BY <1>1, <1>2, <1>3, <1>4, <1>5, <1>6, <1>7, <1>8 DEF Next, DiskStep

\* Whatever interleaves, fails or crashes, the queue and the files of a save are
\* taken in order, and project.toml on disk names only manifests that are there
\* (folder.ts:164-175).
THEOREM ManifestsAreThere ==
    ASSUME SaveAssumption
    PROVE  Spec => []AlwaysReadable
  <1>1. Init => ManifestInv
    BY ManifestInit
  <1>2. TypeOK /\ ManifestInv /\ [Next]_vars => ManifestInv'
    BY ManifestStep
  <1>3. TypeOK /\ OneSaveOut /\ ManifestInv => AlwaysReadable
    BY DEF ManifestInv, AlwaysReadable
  <1> QED  BY <1>1, <1>2, <1>3, TypeCorrect, PTL DEF Spec

-----------------------------------------------------------------------------
\* Who has the turn while files are written or read.  A save is not out while
\* the conflict banner is up, for the banner comes up in a turn of the queue,
\* and a check that reads the project does not do so over a blocked edit, for
\* an edit is blocked in a turn of the queue.
AskInv ==
    /\ phase # "start" => tasks # <<>>
    /\ phase = "write" =>
        Head1.kind = "keep" \/ (Head1.kind = "save" /\ banner # "conflict")
    /\ phase \in {"load", "loaded"} =>
        Head1.kind = "reload" \/ (Head1.kind = "check" /\ status # "blocked")

\* The first task keeps its turn.
LEMMA TurnKept ==
    ASSUME AskInv, phase' = phase, phase = "start" \/ (tasks' # <<>> /\ Head1' = Head1),
           banner' = "conflict" => banner = "conflict",
           status' = "blocked" => status = "blocked"
    PROVE  AskInv'
  BY DEF AskInv

LEMMA HeadStays ==
    ASSUME NEW S, NEW s \in Seq(S), NEW e \in S, s # <<>>
    PROVE  Append(s, e) # <<>> /\ Head(Append(s, e)) = Head(s)
  <1>1. 1 \in DOMAIN s
    BY SMT
  <1> QED  BY <1>1, AppendElements

LEMMA AskInit == Init => AskInv
  BY DEF Init, AskInv

LEMMA AskStep ==
    ASSUME SaveAssumption, TypeOK, AskInv, [Next]_vars
    PROVE  AskInv'
  <1>1. ASSUME NEW t \in Tasks, tasks' = Append(tasks, t)
        PROVE  phase = "start" \/ (tasks' # <<>> /\ Head1' = Head1)
    <2>1. CASE tasks # <<>>
      <3>1. tasks \in Seq(Tasks)
        BY DEF TypeOK
      <3> QED  BY <1>1, <2>1, <3>1, HeadStays DEF Head1
    <2> QED  BY <2>1 DEF AskInv
  <1>2. UNCHANGED tasks => phase = "start" \/ (tasks' # <<>> /\ Head1' = Head1)
    BY DEF AskInv, Head1
  <1>3. CASE WatcherFires
    <2>1. Task("check", NoProject) \in Tasks
      BY NoProjectType, TaskType
    <2> QED  BY <1>1, <1>3, <2>1, TurnKept DEF WatcherFires, memory
  <1>4. ASSUME NEW kind \in {"keep", "reload"}, Press(kind)  PROVE AskInv'
    <2>1. Task(kind, mem) \in Tasks
      BY TaskType DEF TypeOK
    <2> QED  BY <1>1, <1>4, <2>1, TurnKept DEF Press
  <1>5. CASE AutosaveTimer \/ GrantAccess
    <2>1. /\ tasks' = tasks \/ \E p \in Projects: tasks' = Append(tasks, Task("save", p))
          /\ phase' = phase /\ banner' \in {banner, "none"}
          /\ status' \in {status, "saving", "pending"}
      BY <1>5 DEF AutosaveTimer, GrantAccess, Run, TypeOK
    <2>2. phase = "start" \/ (tasks' # <<>> /\ Head1' = Head1)
      BY <1>1, <1>2, <2>1, TaskType
    <2> QED  BY <2>1, <2>2, TurnKept
  <1>6. CASE \/ \E devs \in SUBSET Dev: Edit(devs)
             \/ \E f \in Files: WriteFile(f)
             \/ \E d \in Dev: RemoveManifest(d)
             \/ AccessLost \/ AccessBack \/ TheirWrite \/ UNCHANGED vars
    <2>1. UNCHANGED <<tasks, phase, banner>> /\ status' \in {status, "pending"}
      BY <1>6 DEF Edit, WriteFile, RemoveManifest, AccessLost, AccessBack, TheirWrite, vars, memory
    <2> QED  BY <1>2, <2>1, TurnKept
  <1>7. CASE \/ SaveRefused \/ SaveDone \/ KeepDone \/ LoadDone \/ SaveFails
             \/ KeepFails \/ CheckFails \/ LoadFails \/ Reopen
    <2>1. phase' = "start"
      BY <1>7 DEF SaveRefused, SaveDone, KeepDone, LoadDone, SaveFails, KeepFails, CheckFails, LoadFails,
                  Reopen, Opened, TaskDone, JobDone
    <2> QED  BY <2>1 DEF AskInv
  <1>8. CASE SaveStart \/ KeepMine \/ ReloadFromDisk \/ LoadRead
    BY <1>8 DEF SaveStart, MayWrite, KeepMine, ReloadFromDisk, LoadRead, At, Moves, memory, Head1, AskInv
  <1>9. CASE CheckStart
    BY <1>9 DEF CheckStart, At, TaskDone, Moves, AskInv
  <1>10. CASE CheckStat
    <2>1. /\ tasks # <<>> /\ Head1.kind = "check"
          /\ \/ TaskDone
             \/ Moves("load") /\ ~Unsaved(status) /\ status' = status
      BY <1>10 DEF CheckStat, At, AsksFirst
    <2> QED  BY <2>1 DEF TaskDone, Moves, Unsaved, Head1, AskInv
  <1> QED  BY <1>3, <1>4, <1>5, <1>6, <1>7, <1>8, <1>9, <1>10 DEF Next, DiskStep

LEMMA AskedBeforeWriting ==
    ASSUME SaveAssumption, TypeOK, AskInv, [Next]_vars
    PROVE  NothingWrittenUnasked
  <1> SUFFICES ASSUME banner = "conflict", disk' # disk, theirs' = theirs
               PROVE  Head1.kind = "keep"
    BY DEF NothingWrittenUnasked
  <1>1. theirs \in Nat
    BY DEF SaveAssumption, TypeOK
  <1>2. \/ \E f \in Files: WriteFile(f)
        \/ \E d \in Dev: RemoveManifest(d)
        \/ TheirWrite
    BY DEF Next, DiskStep, Edit, AutosaveTimer, WatcherFires, GrantAccess, Press, AccessLost,
           AccessBack, Reopen, SaveStart, SaveRefused, SaveDone, CheckStart, CheckStat,
           LoadRead, LoadDone, ReloadFromDisk, KeepMine, KeepDone, SaveFails, KeepFails,
           CheckFails, LoadFails, vars
  <1>3. ~TheirWrite
    BY <1>1 DEF TheirWrite
  <1>4. phase = "write"
    BY <1>2, <1>3 DEF WriteFile, RemoveManifest
  <1> QED  BY <1>4 DEF AskInv

LEMMA BlockedStays ==
    ASSUME SaveAssumption, TypeOK, AskInv, [Next]_vars
    PROVE  BlockedEditsStay
  <1> SUFFICES ASSUME status = "blocked", mem' # mem
               PROVE  edits' # edits \/ opens' # opens \/ At({"reload"}, "loaded")
    BY DEF BlockedEditsStay
  <1>1. edits \in Nat /\ opens \in Nat
    BY DEF SaveAssumption, TypeOK
  <1>2. (\E devs \in SUBSET Dev: Edit(devs)) \/ Reopen \/ LoadDone
    BY DEF Next, DiskStep, AutosaveTimer, WatcherFires, GrantAccess, Press, AccessLost,
           AccessBack, TheirWrite, SaveStart, SaveRefused, SaveDone, WriteFile,
           RemoveManifest, CheckStart, CheckStat, LoadRead, ReloadFromDisk, KeepMine,
           KeepDone, SaveFails, KeepFails, CheckFails, LoadFails, vars, memory
  <1>3. CASE \E devs \in SUBSET Dev: Edit(devs)
    BY <1>1, <1>3 DEF Edit
  <1>4. CASE Reopen
    BY <1>1, <1>4 DEF Reopen
  <1>5. CASE LoadDone
    BY <1>5 DEF LoadDone, At, AskInv
  <1> QED  BY <1>2, <1>3, <1>4, <1>5

\* While the conflict banner asks, only Keep mine writes files, and a blocked
\* edit is replaced only by the user's own edit or reload, or a new session
\* (persistence.ts:280, 322-326).
THEOREM TheUserIsAsked ==
    ASSUME SaveAssumption
    PROVE  Spec => UserIsAsked
  <1>1. Init => AskInv
    BY AskInit
  <1>2. TypeOK /\ AskInv /\ [Next]_vars => AskInv'
    BY AskStep
  <1>3. TypeOK /\ AskInv /\ [Next]_vars => [NothingWrittenUnasked /\ BlockedEditsStay]_vars
    BY AskedBeforeWriting, BlockedStays
  <1> QED  BY <1>1, <1>2, <1>3, TypeCorrect, PTL DEF Spec, UserIsAsked

-----------------------------------------------------------------------------
(***************************************************************************)
(* A studio that nobody else writes beside and whose file operations       *)
(* succeed, however often it is closed in the middle of a save.  The       *)
(* editor's project, the autosaver's chain, the queue and the files follow *)
(* one another: what the editor holds is pending, or the last of the       *)
(* chain, or in the files; the first of the chain is being saved; between  *)
(* two saves the files are as they were remembered.                        *)
(***************************************************************************)
SavesFirst(ts, chain) ==
    \A i \in DOMAIN ts:
        /\ ts[i].kind \in {"save", "check"}
        /\ ts[i].kind = "save" => chain # <<>> /\ ts[i].project = chain[1]

AsRemembered(files, kept) ==
    files.model = kept.model /\ files.toml = kept.toml /\ kept.devs \subseteq files.devs

AloneInv ==
    /\ access /\ banner = "none"
    /\ phase \in {"start", "write", "stat"}
    /\ SavesFirst(tasks, jobs)
    /\ phase = "write" =>
        /\ tasks # <<>> /\ Head1.kind = "save" /\ work = Head1.project
        /\ "project.json" \notin todo => disk.model = work.model
    /\ phase # "write" => AsRemembered(disk, snap)

ChainInv ==
    /\ pend \in {{}, {mem}}
    /\ pend = {} /\ jobs # <<>> => jobs[Len(jobs)] = mem
    /\ pend = {} /\ jobs = <<>> => mem.model = snap.model /\ mem.devs = snap.toml
    /\ pend # {} \/ jobs # <<>> => Unsaved(status)

\* Later edits are later in the chain, and none of them is on disk yet.
Ascending(chain) ==
    \A i, j \in DOMAIN chain: i < j => chain[i].model < chain[j].model
Between(chain, low, high) ==
    \A i \in DOMAIN chain: low <= chain[i].model /\ chain[i].model <= high
Below(chain, top) == \A i \in DOMAIN chain: chain[i].model < top

OrderInv ==
    /\ Ascending(jobs)
    /\ Between(jobs, disk.model, mem.model)
    /\ pend # {} => Below(jobs, mem.model)
    /\ disk.model <= mem.model /\ mem.model <= edits

QuietInv == AloneInv /\ ChainInv /\ OrderInv

\* What there is left to do in such a studio.
QuietStep ==
    \/ \E devs \in SUBSET Dev: Edit(devs)
    \/ AutosaveTimer \/ WatcherFires \/ SaveStart \/ SaveDone
    \/ \E f \in Files: WriteFile(f)
    \/ \E d \in Dev: RemoveManifest(d)
    \/ CheckStart
    \/ /\ At({"check"}, "stat") /\ TaskDone
       /\ UNCHANGED <<memory, folder, disk, access, counts>>
    \/ Reopen
    \/ UNCHANGED vars

LEMMA NobodyElse ==
    ASSUME TypeOK, AloneInv, [Next]_vars, MaxTheirs = 0, MaxFails = 0
    PROVE  QuietStep
  <1>1. theirs = 0 /\ fails = 0 /\ access /\ banner = "none"
    BY DEF TypeOK, AloneInv
  <1>2. phase # "write" => ~ChangedOnDisk
    BY DEF AloneInv, AsRemembered, ChangedOnDisk
  <1>3. /\ ~TheirWrite /\ ~AccessLost /\ ~AccessBack
        /\ ~SaveFails /\ ~KeepFails /\ ~CheckFails /\ ~LoadFails
    BY <1>1 DEF TheirWrite, AccessLost, AccessBack, SaveFails, KeepFails, CheckFails, LoadFails, MayFail
  <1>4. ~GrantAccess /\ \A kind \in {"keep", "reload"}: ~Press(kind)
    BY <1>1 DEF GrantAccess, Press
  <1>5. ~SaveRefused
    BY <1>1, <1>2 DEF SaveRefused, MayWrite, At
  <1>6. ~LoadRead /\ ~LoadDone
    BY DEF AloneInv, LoadRead, LoadDone, At
  <1>7. tasks # <<>> => Head1.kind \in {"save", "check"}
    <2>1. tasks # <<>> => 1 \in DOMAIN tasks /\ Head1 = tasks[1]
      BY DEF TypeOK, Head1
    <2> QED  BY <2>1 DEF AloneInv, SavesFirst
  <1>8. ~ReloadFromDisk /\ ~KeepMine /\ ~KeepDone
    BY <1>7 DEF ReloadFromDisk, KeepMine, KeepDone, At
  <1>9. CheckStat => /\ At({"check"}, "stat") /\ TaskDone
                     /\ UNCHANGED <<memory, folder, disk, access, counts>>
    BY <1>1, <1>2 DEF CheckStat, At, memory
  <1> QED  BY <1>3, <1>4, <1>5, <1>6, <1>8, <1>9 DEF Next, DiskStep, QuietStep

LEMMA SavesAppend ==
    ASSUME NEW ts \in Seq(Tasks), NEW t \in Tasks, NEW chain, SavesFirst(ts, chain),
           t.kind \in {"save", "check"}, t.kind = "save" => chain # <<>> /\ t.project = chain[1]
    PROVE  SavesFirst(Append(ts, t), chain)
  <1> DEFINE more == Append(ts, t)
  <1>1. /\ DOMAIN more = 1..Len(ts) + 1 /\ DOMAIN ts = 1..Len(ts) /\ Len(ts) \in Nat
        /\ more[Len(ts) + 1] = t
        /\ \A i \in 1..Len(ts): more[i] = ts[i]
    BY AppendElements
  <1> HIDE DEF more
  <1>2. ASSUME NEW i \in DOMAIN more
        PROVE  more[i] = t \/ (i \in DOMAIN ts /\ more[i] = ts[i])
    BY <1>1
  <1>3. SavesFirst(more, chain)
    BY <1>2 DEF SavesFirst
  <1> QED  BY <1>3 DEF more

LEMMA SavesTail ==
    ASSUME NEW ts \in Seq(Tasks), ts # <<>>, NEW chain, SavesFirst(ts, chain)
    PROVE  SavesFirst(Tail(ts), chain)
  BY TailElements DEF SavesFirst

\* A new project at the end of a chain, and the first taken away.
LEMMA ChainGrows ==
    ASSUME SaveAssumption, NEW chain \in Seq(Projects), NEW p \in Projects, NEW low \in Nat,
           Ascending(chain), Between(chain, low, p.model), Below(chain, p.model), low <= p.model
    PROVE  LET more == Append(chain, p) IN
           /\ Ascending(more) /\ Between(more, low, p.model)
           /\ more # <<>> /\ more[Len(more)] = p
           /\ more[1] = IF chain = <<>> THEN p ELSE chain[1]
  <1> DEFINE more == Append(chain, p)  n == Len(chain)
  <1>1. /\ DOMAIN more = 1..n + 1 /\ DOMAIN chain = 1..n /\ n \in Nat
        /\ more[n + 1] = p /\ more # <<>>
        /\ \A i \in 1..n: more[i] = chain[i]
    BY AppendElements
  <1>2. Len(more) = n + 1
    BY SMT
  <1>3. chain = <<>> <=> n = 0
    BY SMT
  <1>4. p.model \in Nat /\ \A i \in 1..n: chain[i].model \in Nat
    <2>1. \A i \in 1..n: chain[i] \in Projects
      BY <1>1
    <2> QED  BY <2>1 DEF SaveAssumption, Projects, Versions
  <1> HIDE DEF more, n
  <1>5. \A i, j \in 1..n: i < j => chain[i].model < chain[j].model
    BY <1>1 DEF Ascending
  <1>6. \A i \in 1..n: low <= chain[i].model /\ chain[i].model <= p.model /\ chain[i].model < p.model
    BY <1>1 DEF Between, Below
  <1>7. \A i \in 1..n + 1: i \in 1..n \/ i = n + 1
    BY <1>1
  <1>8. ASSUME NEW i \in 1..n + 1, NEW j \in 1..n + 1, i < j  PROVE more[i].model < more[j].model
    <2>1. i \in 1..n
      BY <1>1, <1>8
    <2>2. CASE j \in 1..n
      BY <1>1, <1>5, <1>8, <2>1, <2>2
    <2>3. CASE j = n + 1
      BY <1>1, <1>6, <2>1, <2>3
    <2> QED  BY <1>7, <2>2, <2>3
  <1>9. ASSUME NEW i \in 1..n + 1  PROVE low <= more[i].model /\ more[i].model <= p.model
    <2>1. CASE i \in 1..n
      BY <1>1, <1>6, <2>1
    <2>2. CASE i = n + 1
      BY <1>1, <1>4, <2>2
    <2> QED  BY <1>7, <2>1, <2>2
  <1>10. Ascending(more) /\ Between(more, low, p.model)
    BY <1>1, <1>8, <1>9 DEF Ascending, Between
  <1>11. more[1] = IF chain = <<>> THEN p ELSE chain[1]
    <2>1. CASE chain = <<>>
      BY <1>1, <1>3, <2>1
    <2>2. CASE chain # <<>>
      <3>1. 1 \in 1..n
        BY <1>1, <1>3, <2>2
      <3> QED  BY <1>1, <2>2, <3>1
    <2> QED  BY <2>1, <2>2
  <1>12. more # <<>> /\ more[Len(more)] = p
    BY <1>1, <1>2
  <1> QED  BY <1>10, <1>11, <1>12 DEF more

LEMMA ChainShrinks ==
    ASSUME NEW chain \in Seq(Projects), chain # <<>>, NEW low, NEW high, NEW top,
           Ascending(chain), Between(chain, low, high)
    PROVE  /\ Ascending(Tail(chain)) /\ Between(Tail(chain), low, high)
           /\ Below(chain, top) => Below(Tail(chain), top)
           /\ Tail(chain) = <<>> <=> Len(chain) = 1
           /\ Tail(chain) # <<>> =>
                  Tail(chain)[1] = chain[2] /\ Tail(chain)[Len(Tail(chain))] = chain[Len(chain)]
  <1> DEFINE less == Tail(chain)  n == Len(chain)
  <1>1. /\ DOMAIN less = 1..n - 1 /\ less \in Seq(Projects)
        /\ \A i \in 1..n - 1: i + 1 \in DOMAIN chain /\ less[i] = chain[i + 1]
    BY TailElements
  <1>2. n \in Nat /\ n # 0 /\ Len(less) = n - 1
    BY SMT
  <1> HIDE DEF less, n
  <1>3. less = <<>> <=> n = 1
    <2>1. less = <<>> <=> Len(less) = 0
      BY <1>1
    <2> QED  BY <1>2, <2>1
  <1>4. Ascending(less)
    <2>1. ASSUME NEW i \in 1..n - 1, NEW j \in 1..n - 1, i < j  PROVE less[i].model < less[j].model
      <3>1. i + 1 < j + 1
        BY <1>2, <2>1
      <3>2. chain[i + 1].model < chain[j + 1].model
        BY <1>1, <3>1 DEF Ascending
      <3> QED  BY <1>1, <3>2
    <2> QED  BY <1>1, <2>1 DEF Ascending
  <1>5. Between(less, low, high) /\ (Below(chain, top) => Below(less, top))
    BY <1>1 DEF Between, Below
  <1>6. ASSUME less # <<>>  PROVE less[1] = chain[2] /\ less[Len(less)] = chain[n]
    <2>1. 1 \in 1..n - 1 /\ n - 1 \in 1..n - 1
      BY <1>2, <1>3, <1>6
    <2> QED  BY <1>1, <1>2, <2>1
  <1> QED  BY <1>3, <1>4, <1>5, <1>6 DEF less, n

LEMMA QuietInit == Init => QuietInv
  <1> SUFFICES ASSUME Init PROVE QuietInv
    OBVIOUS
  <1>1. DOMAIN <<>> = {}
    OBVIOUS
  <1>2. disk = snap /\ disk.model = 0 /\ mem.model = 0 /\ mem.devs = disk.toml
    BY DEF Init, FilesOf, NoProject
  <1>3. AloneInv
    BY <1>1, <1>2 DEF Init, AloneInv, SavesFirst, AsRemembered
  <1>4. ChainInv
    BY <1>2 DEF Init, ChainInv
  <1>5. OrderInv
    BY <1>1, <1>2 DEF Init, OrderInv, Ascending, Between, Below
  <1> QED  BY <1>3, <1>4, <1>5 DEF QuietInv

\* The versions there are, and the save that is out.
LEMMA QuietTypes ==
    ASSUME SaveAssumption, TypeOK
    PROVE  /\ disk.model \in Nat /\ snap.model \in Nat /\ mem.model \in Nat /\ work.model \in Nat
           /\ edits \in Nat /\ mem \in Projects /\ work \in Projects
           /\ jobs \in Seq(Projects) /\ tasks \in Seq(Tasks)
           /\ DOMAIN jobs = 1..Len(jobs) /\ Len(jobs) \in Nat
           /\ \A i \in DOMAIN jobs: jobs[i] \in Projects /\ jobs[i].model \in Nat
  <1>1. jobs \in Seq(Projects) /\ \A i \in DOMAIN jobs: jobs[i] \in Projects
    BY DEF TypeOK
  <1> QED  BY <1>1 DEF SaveAssumption, TypeOK, Projects, Folders, Versions

LEMMA SaveOut ==
    ASSUME TypeOK, AloneInv, tasks # <<>>, Head1.kind = "save"
    PROVE  jobs # <<>> /\ Head1.project = jobs[1] /\ 1 \in DOMAIN jobs
  <1>1. 1 \in DOMAIN tasks /\ Head1 = tasks[1]
    BY DEF TypeOK, Head1
  <1>2. jobs # <<>> /\ Head1.project = jobs[1]
    BY <1>1 DEF AloneInv, SavesFirst
  <1> QED  BY <1>2 DEF TypeOK

LEMMA QuietEdit ==
    ASSUME SaveAssumption, TypeOK, QuietInv, NEW devs \in SUBSET Dev, Edit(devs)
    PROVE  QuietInv'
  <1> USE DEF QuietInv
  <1>1. /\ mem' = [model |-> edits + 1, devs |-> devs] /\ pend' = {mem'} /\ status' = "pending"
        /\ mem'.model = edits + 1 /\ edits' = edits + 1
        /\ UNCHANGED <<banner, jobs, tasks, phase, work, todo, snap, touched, disk, access>>
    BY DEF Edit, Schedule, folder
  <1>2. AloneInv'
    BY <1>1 DEF AloneInv, SavesFirst, AsRemembered, Head1
  <1>3. ChainInv'
    BY <1>1 DEF ChainInv, Unsaved
  <1>4. ASSUME NEW i \in DOMAIN jobs
        PROVE  disk.model <= jobs[i].model /\ jobs[i].model <= edits + 1 /\ jobs[i].model < edits + 1
    <2>1. disk.model <= jobs[i].model /\ jobs[i].model <= mem.model /\ mem.model <= edits
      BY DEF OrderInv, Between
    <2> QED  BY <2>1, QuietTypes
  <1>5. disk.model <= edits + 1
    <2>1. disk.model <= mem.model /\ mem.model <= edits
      BY DEF OrderInv
    <2> QED  BY <2>1, QuietTypes
  <1>6. OrderInv'
    <2>1. Ascending(jobs)
      BY DEF OrderInv
    <2> QED  BY <1>1, <1>4, <1>5, <2>1, QuietTypes DEF OrderInv, Ascending, Between, Below
  <1> QED  BY <1>2, <1>3, <1>6

LEMMA QuietTimer ==
    ASSUME SaveAssumption, TypeOK, QuietInv, AutosaveTimer
    PROVE  QuietInv'
  <1> USE DEF QuietInv
  <1>1. pend = {mem} /\ Run(mem)
    BY DEF AutosaveTimer, ChainInv
  <1>2. /\ jobs' = Append(jobs, mem) /\ pend' = {}
        /\ UNCHANGED <<mem, banner, phase, work, todo, snap, disk, access, edits>>
    BY <1>1 DEF AutosaveTimer, Run, Chain, folder, counts
  <1>3. /\ Ascending(jobs') /\ Between(jobs', disk.model, mem.model)
        /\ jobs' # <<>> /\ jobs'[Len(jobs')] = mem
        /\ jobs'[1] = IF jobs = <<>> THEN mem ELSE jobs[1]
    <2>1. /\ Ascending(jobs) /\ Between(jobs, disk.model, mem.model) /\ Below(jobs, mem.model)
          /\ disk.model <= mem.model
      BY <1>1 DEF OrderInv
    <2> QED  BY <1>2, <2>1, QuietTypes, ChainGrows
  <1>4. OrderInv'
    BY <1>2, <1>3 DEF OrderInv
  <1>5. ChainInv'
    <2>1. Unsaved(status)
      BY <1>1 DEF ChainInv
    <2>2. Unsaved(status')
      BY <1>1, <2>1 DEF Run, Unsaved
    <2> QED  BY <1>2, <1>3, <2>2 DEF ChainInv
  <1>6. SavesFirst(tasks', jobs') /\ (phase = "write" => tasks' # <<>> /\ Head1' = Head1)
    <2>1. CASE jobs = <<>>
      <3> DEFINE t == Task("save", mem)
      <3>1. t \in Tasks /\ t.kind = "save" /\ t.project = mem
        BY TaskType, QuietTypes
      <3> HIDE DEF t
      <3>2. tasks' = Append(tasks, t)
        BY <1>1, <2>1 DEF Run, StartsAtOnce, t
      <3>3. SavesFirst(tasks, jobs')
        BY <2>1 DEF AloneInv, SavesFirst
      <3>4. SavesFirst(tasks', jobs')
        BY <1>3, <2>1, <3>1, <3>2, <3>3, QuietTypes, SavesAppend
      <3>5. phase = "write" => tasks' # <<>> /\ Head1' = Head1
        BY <3>1, <3>2, QuietTypes, HeadStays DEF AloneInv, Head1
      <3> QED  BY <3>4, <3>5
    <2>2. CASE jobs # <<>>
      <3>1. tasks' = tasks
        BY <1>1, <2>2 DEF Run, StartsAtOnce
      <3> QED  BY <1>3, <2>2, <3>1 DEF AloneInv, SavesFirst, Head1
    <2> QED  BY <2>1, <2>2
  <1>7. AloneInv'
    BY <1>2, <1>6 DEF AloneInv, AsRemembered
  <1> QED  BY <1>4, <1>5, <1>7

LEMMA QuietWatcher ==
    ASSUME SaveAssumption, TypeOK, QuietInv, WatcherFires
    PROVE  QuietInv'
  <1> USE DEF QuietInv
  <1> DEFINE t == Task("check", NoProject)
  <1>1. t \in Tasks /\ t.kind = "check"
    BY TaskType, NoProjectType
  <1> HIDE DEF t
  <1>2. /\ tasks' = Append(tasks, t)
        /\ UNCHANGED <<mem, status, banner, pend, jobs, phase, work, todo, snap, touched, disk, access, edits>>
    BY DEF WatcherFires, memory, folder, counts, t
  <1>3. SavesFirst(tasks', jobs)
    BY <1>1, <1>2, QuietTypes, SavesAppend DEF AloneInv
  <1>4. phase = "write" => tasks' # <<>> /\ Head1' = Head1
    BY <1>1, <1>2, QuietTypes, HeadStays DEF AloneInv, Head1
  <1>5. AloneInv'
    BY <1>2, <1>3, <1>4 DEF AloneInv, AsRemembered
  <1> QED  BY <1>2, <1>5 DEF ChainInv, OrderInv, Ascending, Between, Below

LEMMA QuietSaveStart ==
    ASSUME TypeOK, QuietInv, SaveStart
    PROVE  QuietInv'
  <1> USE DEF QuietInv
  <1>1. /\ tasks # <<>> /\ Head1.kind = "save" /\ phase = "start"
        /\ work' = Head1.project /\ todo' = Different(Head1.project) /\ phase' = "write"
        /\ UNCHANGED <<mem, status, banner, pend, jobs, tasks, snap, touched, disk, access, edits>>
    BY DEF SaveStart, At, Moves, memory, folder, counts
  <1>2. "project.json" \notin todo' => disk.model = work'.model
    BY <1>1 DEF Different, AloneInv, AsRemembered
  <1>3. AloneInv'
    BY <1>1, <1>2 DEF AloneInv, SavesFirst, Head1
  <1> QED  BY <1>1, <1>3 DEF ChainInv, OrderInv, Ascending, Between, Below

\* The only step that changes the model on disk.
LEMMA QuietWriteFile ==
    ASSUME SaveAssumption, TypeOK, QuietInv, NEW f \in Files, WriteFile(f)
    PROVE  QuietInv' /\ NeverBackwards
  <1> USE DEF QuietInv
  <1>1. /\ phase = "write" /\ f \in todo /\ todo' = todo \ {f}
        /\ UNCHANGED <<mem, status, banner, pend, jobs, tasks, phase, work, snap, access, edits>>
    BY DEF WriteFile, memory, counts
  <1>2. /\ tasks # <<>> /\ Head1.kind = "save" /\ work = Head1.project
        /\ "project.json" \notin todo => disk.model = work.model
    BY <1>1 DEF AloneInv
  <1>3. jobs # <<>> /\ work = jobs[1] /\ 1 \in DOMAIN jobs
    BY <1>2, SaveOut
  <1>4. disk.model <= work.model /\ work.model <= mem.model
    BY <1>3 DEF OrderInv, Between
  <1>5. disk'.model = IF f = "project.json" THEN work.model ELSE disk.model
    <2>1. disk \in Folders
      BY DEF TypeOK
    <2> QED  BY <2>1 DEF WriteFile, Folders
  <1>6. NeverBackwards
    BY <1>4, <1>5, QuietTypes DEF NeverBackwards
  <1>7. ("project.json" \notin todo') => disk'.model = work.model
    BY <1>1, <1>2, <1>5
  <1>8. AloneInv'
    BY <1>1, <1>2, <1>7 DEF AloneInv, SavesFirst, Head1
  <1>9. ASSUME NEW i \in DOMAIN jobs  PROVE disk'.model <= jobs[i].model
    <2>1. disk.model <= jobs[i].model
      BY <1>9 DEF OrderInv, Between
    <2>2. work.model <= jobs[i].model
      <3>1. CASE i = 1
        BY <1>3, <3>1, QuietTypes
      <3>2. CASE i # 1
        <4>1. 1 < i
          BY <1>9, <3>2, QuietTypes
        <4>2. work.model < jobs[i].model
          BY <1>3, <1>9, <4>1 DEF OrderInv, Ascending
        <4> QED  BY <1>9, <4>2, QuietTypes
      <3> QED  BY <3>1, <3>2
    <2> QED  BY <1>5, <2>1, <2>2
  <1>10. OrderInv'
    <2>1. disk'.model <= mem.model
      BY <1>4, <1>5 DEF OrderInv
    <2> QED  BY <1>1, <1>9, <2>1 DEF OrderInv, Ascending, Between, Below
  <1>11. ChainInv'
    BY <1>1 DEF ChainInv
  <1> QED  BY <1>6, <1>8, <1>10, <1>11

LEMMA QuietRemove ==
    ASSUME TypeOK, QuietInv, NEW d \in Dev, RemoveManifest(d)
    PROVE  QuietInv' /\ disk'.model = disk.model
  <1> USE DEF QuietInv
  <1>1. /\ phase = "write"
        /\ UNCHANGED <<mem, status, banner, pend, jobs, tasks, phase, work, todo, snap, access, edits>>
    BY DEF RemoveManifest, memory, folder, counts
  <1>2. disk'.model = disk.model
    <2>1. disk \in Folders
      BY DEF TypeOK
    <2> QED  BY <2>1 DEF RemoveManifest, Folders
  <1>3. AloneInv'
    BY <1>1, <1>2 DEF AloneInv, SavesFirst, Head1
  <1> QED  BY <1>1, <1>2, <1>3 DEF ChainInv, OrderInv, Ascending, Between, Below

LEMMA QuietSaveDone ==
    ASSUME SaveAssumption, TypeOK, OneSaveOut, ManifestInv, QuietInv, SaveDone
    PROVE  QuietInv'
  <1> USE DEF QuietInv
  <1>1. /\ tasks # <<>> /\ Head1.kind = "save" /\ phase = "write" /\ todo = {}
        /\ snap' = FilesOf(work) /\ banner' = "none" /\ JobDone(AfterSave)
        /\ UNCHANGED <<mem, pend, disk, access, edits>>
    BY DEF SaveDone, At, Written, Remember, counts
  <1>2. /\ jobs # <<>> /\ work = jobs[1] /\ 1 \in DOMAIN jobs
        /\ disk.model = work.model
    BY <1>1, SaveOut DEF AloneInv
  <1>3. disk.toml = work.devs /\ work.devs \subseteq disk.devs
    BY <1>1 DEF ManifestInv, WritesInOrder
  <1>4. AsRemembered(disk, snap')
    BY <1>1, <1>2, <1>3 DEF AsRemembered, FilesOf
  <1>5. jobs' = Tail(jobs) /\ phase' = "start"
    BY <1>1 DEF JobDone
  <1>6. /\ Ascending(jobs') /\ Between(jobs', disk.model, mem.model)
        /\ Below(jobs, mem.model) => Below(jobs', mem.model)
        /\ jobs' = <<>> <=> Len(jobs) = 1
        /\ jobs' # <<>> => jobs'[1] = jobs[2] /\ jobs'[Len(jobs')] = jobs[Len(jobs)]
    BY <1>2, <1>5, QuietTypes, ChainShrinks DEF OrderInv
  <1>7. OrderInv'
    BY <1>1, <1>6 DEF OrderInv
  <1>8. Len(jobs) > 1 <=> jobs' # <<>>
    BY <1>2, <1>6, QuietTypes
  <1>9. /\ jobs' # <<>> => status' = "saving"
        /\ jobs' = <<>> => status' = AfterSave
    BY <1>1, <1>8 DEF JobDone
  <1>10. ChainInv'
    <2>1. pend = {} /\ jobs' = <<>> => mem = work
      BY <1>2, <1>6 DEF ChainInv
    <2>2. snap'.model = work.model /\ snap'.toml = work.devs
      BY <1>1 DEF FilesOf
    <2>3. pend # {} \/ jobs' # <<>> => Unsaved(status')
      BY <1>9 DEF AfterSave, Unsaved
    <2>4. pend = {} /\ jobs' # <<>> => jobs'[Len(jobs')] = mem
      BY <1>2, <1>6 DEF ChainInv
    <2> QED  BY <1>1, <2>1, <2>2, <2>3, <2>4 DEF ChainInv
  <1> DEFINE rest == Tail(tasks)
  <1>11. /\ rest \in Seq(Tasks)
         /\ \A i \in DOMAIN rest: i + 1 \in DOMAIN tasks /\ i + 1 # 1 /\ rest[i] = tasks[i + 1]
    <2>1. tasks \in Seq(Tasks)
      BY QuietTypes
    <2>2. \A i \in 1..Len(tasks) - 1: i + 1 # 1
      BY SMT
    <2> QED  BY <1>1, <2>1, <2>2, TailElements
  <1> HIDE DEF rest
  <1>12. ASSUME NEW i \in DOMAIN rest  PROVE rest[i].kind = "check"
    <2>1. tasks[1].kind = "save" /\ 1 \in DOMAIN tasks
      BY <1>1, QuietTypes DEF Head1
    <2>2. rest[i].kind # "save"
      BY <1>11, <1>12, <2>1 DEF OneSaveOut
    <2>3. rest[i].kind \in {"save", "check"}
      BY <1>11, <1>12 DEF AloneInv, SavesFirst
    <2> QED  BY <2>2, <2>3
  <1>13. SavesFirst(rest, jobs')
    BY <1>12 DEF SavesFirst
  <1>14. SavesFirst(tasks', jobs')
    <2>1. CASE Len(jobs) > 1
      <3>1. jobs[2] \in Projects
        BY <2>1, QuietTypes
      <3> DEFINE t == Task("save", jobs[2])
      <3>2. t \in Tasks /\ t.kind = "save" /\ t.project = jobs[2]
        BY <3>1, TaskType
      <3> HIDE DEF t
      <3>3. tasks' = Append(rest, t)
        BY <1>1, <2>1 DEF JobDone, rest, t
      <3> QED  BY <1>6, <1>8, <1>11, <1>13, <2>1, <3>2, <3>3, SavesAppend
    <2>2. CASE ~ (Len(jobs) > 1)
      BY <1>1, <1>13, <2>2 DEF JobDone, rest
    <2> QED  BY <2>1, <2>2
  <1>15. AloneInv'
    BY <1>1, <1>4, <1>5, <1>14 DEF AloneInv
  <1> QED  BY <1>7, <1>10, <1>15

LEMMA QuietTaskDone ==
    ASSUME SaveAssumption, TypeOK, QuietInv, tasks # <<>>, phase # "write", TaskDone,
           UNCHANGED <<memory, folder, disk, access, counts>>
    PROVE  QuietInv'
  <1> USE DEF QuietInv
  <1>1. /\ tasks' = Tail(tasks) /\ phase' = "start"
        /\ UNCHANGED <<mem, status, banner, pend, jobs, snap, disk, access, edits>>
    BY DEF TaskDone, memory, folder, counts
  <1>2. SavesFirst(tasks', jobs)
    BY <1>1, QuietTypes, SavesTail DEF AloneInv
  <1>3. AloneInv'
    BY <1>1, <1>2 DEF AloneInv, AsRemembered
  <1> QED  BY <1>1, <1>3 DEF ChainInv, OrderInv, Ascending, Between, Below

LEMMA QuietReopen ==
    ASSUME SaveAssumption, TypeOK, QuietInv, Reopen
    PROVE  QuietInv'
  <1> USE DEF QuietInv
  <1>1. /\ mem' = ProjectIn(disk) /\ status' = "saved" /\ banner' = "none" /\ pend' = {}
        /\ jobs' = <<>> /\ tasks' = <<>> /\ phase' = "start" /\ snap' = disk
        /\ access' = TRUE /\ UNCHANGED <<disk, edits>>
    BY DEF Reopen, Opened
  <1>2. DOMAIN <<>> = {}
    OBVIOUS
  <1>3. AloneInv'
    BY <1>1, <1>2 DEF AloneInv, SavesFirst, AsRemembered
  <1>4. mem'.model = disk.model /\ mem'.devs = disk.toml
    BY <1>1 DEF ProjectIn
  <1>5. ChainInv'
    BY <1>1, <1>4 DEF ChainInv
  <1>6. disk.model <= disk.model /\ disk.model <= edits
    <2>1. disk.model <= mem.model /\ mem.model <= edits
      BY DEF OrderInv
    <2> QED  BY <2>1, QuietTypes
  <1>7. OrderInv'
    BY <1>1, <1>2, <1>4, <1>6 DEF OrderInv, Ascending, Between, Below
  <1> QED  BY <1>3, <1>5, <1>7

LEMMA QuietNext ==
    ASSUME SaveAssumption, TypeOK, OneSaveOut, ManifestInv, QuietInv, [Next]_vars, MaxTheirs = 0, MaxFails = 0
    PROVE  QuietInv' /\ NeverBackwards
  <1>1. QuietStep
    BY NobodyElse DEF QuietInv
  <1>2. ASSUME NEW devs \in SUBSET Dev, Edit(devs)  PROVE QuietInv' /\ NeverBackwards
    BY <1>2, QuietEdit DEF Edit, NeverBackwards
  <1>3. CASE AutosaveTimer
    BY <1>3, QuietTimer DEF AutosaveTimer, NeverBackwards
  <1>4. CASE WatcherFires
    BY <1>4, QuietWatcher DEF WatcherFires, NeverBackwards
  <1>5. CASE SaveStart
    BY <1>5, QuietSaveStart DEF SaveStart, NeverBackwards
  <1>6. CASE SaveDone
    BY <1>6, QuietSaveDone DEF SaveDone, NeverBackwards
  <1>7. ASSUME NEW f \in Files, WriteFile(f)  PROVE QuietInv' /\ NeverBackwards
    BY <1>7, QuietWriteFile
  <1>8. ASSUME NEW d \in Dev, RemoveManifest(d)  PROVE QuietInv' /\ NeverBackwards
    BY <1>8, QuietRemove DEF NeverBackwards
  <1>9. ASSUME TaskDone, tasks # <<>>, phase # "write",
               UNCHANGED <<memory, folder, disk, access, counts>>
        PROVE  QuietInv' /\ NeverBackwards
    BY <1>9, QuietTaskDone DEF NeverBackwards
  <1>10. CASE CheckStart
    <2>1. tasks # <<>> /\ phase = "start" /\ UNCHANGED <<memory, folder, disk, access, counts>>
      BY <1>10 DEF CheckStart, At
    <2>2. CASE TaskDone
      BY <1>9, <2>1, <2>2
    <2>3. CASE Moves("stat") /\ UNCHANGED <<work, todo>>
      <3>1. AloneInv'
        BY <2>1, <2>3 DEF Moves, memory, folder, QuietInv, AloneInv, SavesFirst, AsRemembered, Head1
      <3> QED  BY <2>1, <3>1 DEF memory, folder, counts, QuietInv, ChainInv, OrderInv, Ascending,
                                 Between, Below, NeverBackwards
    <2> QED  BY <1>10, <2>2, <2>3 DEF CheckStart
  <1>11. CASE /\ At({"check"}, "stat") /\ TaskDone
              /\ UNCHANGED <<memory, folder, disk, access, counts>>
    BY <1>9, <1>11 DEF At
  <1>12. CASE Reopen
    BY <1>12, QuietReopen DEF Reopen, NeverBackwards
  <1>13. CASE UNCHANGED vars
    BY <1>13 DEF vars, memory, folder, counts, QuietInv, AloneInv, ChainInv, OrderInv, SavesFirst,
                 AsRemembered, Ascending, Between, Below, Head1, NeverBackwards
  <1> QED  BY <1>1, <1>2, <1>3, <1>4, <1>5, <1>6, <1>7, <1>8, <1>10, <1>11, <1>12, <1>13 DEF QuietStep

LEMMA QuietKnows == QuietInv => UnsavedIsKnown /\ NoFalseConflict
  <1>1. FilesOf(mem).model = mem.model
    BY DEF FilesOf
  <1> QED  BY <1>1 DEF QuietInv, AloneInv, ChainInv, UnsavedIsKnown, NoFalseConflict

\* In a folder that nobody else writes and where file operations succeed, the
\* editor knows of every edit that is not in the files, and the studio takes
\* none of its own saves for somebody else's, even one that a crash left half
\* written (persistence.ts:74, 164-168).
THEOREM EditsAreKnownAlone ==
    ASSUME SaveAssumption, MaxTheirs = 0, MaxFails = 0
    PROVE  Spec => [](UnsavedIsKnown /\ NoFalseConflict)
  <1>1. QuietInv => UnsavedIsKnown /\ NoFalseConflict
    BY QuietKnows
  <1>2. TypeOK /\ OneSaveOut /\ ManifestInv /\ QuietInv /\ [Next]_vars => QuietInv'
    BY QuietNext
  <1>3. AlwaysReadable => TypeOK /\ OneSaveOut /\ ManifestInv
    BY DEF AlwaysReadable, ManifestInv
  <1> QED  BY <1>1, <1>2, <1>3, QuietInit, ManifestsAreThere, PTL DEF Spec

\* ... and what is on disk never goes back to an earlier edit (repo.ts:176-184).
THEOREM SavesKeepTheOrder ==
    ASSUME SaveAssumption, MaxTheirs = 0, MaxFails = 0
    PROVE  Spec => [][NeverBackwards]_vars
  <1>1. TypeOK /\ OneSaveOut /\ ManifestInv /\ QuietInv /\ [Next]_vars => QuietInv' /\ NeverBackwards
    BY QuietNext
  <1>2. AlwaysReadable => TypeOK /\ OneSaveOut /\ ManifestInv
    BY DEF AlwaysReadable, ManifestInv
  <1>3. TypeOK /\ OneSaveOut /\ ManifestInv /\ QuietInv /\ [Next]_vars => [NeverBackwards]_vars
    BY <1>1
  <1> QED  BY <1>1, <1>2, <1>3, QuietInit, ManifestsAreThere, PTL DEF Spec
=============================================================================
