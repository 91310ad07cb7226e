----------------------------- MODULE ManifestLock ------------------------------
(***************************************************************************)
(* The two locks around `.spaex/` and the directory swap between them, for   *)
(* several spaex processes of one checkout: ManifestLockContext and          *)
(* active_manifest_lock_path (src/spaex/install/manifest_lock.py), the        *)
(* install mutex (src/spaex/io/writer_lock.py), the manifest edit of          *)
(* src/spaex/install/write_and_reinstall.py and the swap of                  *)
(* src/spaex/io/transaction.py.                                              *)
(*                                                                          *)
(* The manifest lock is a file inside the directory that the swap renames.   *)
(* On POSIX a lock belongs to the inode that was opened; on Windows to a     *)
(* kernel mutex named after the canonical path.  A process resolves the      *)
(* path, creates the parent directory, opens the file and polls the lock in  *)
(* separate steps, and the holder's renames fall between them.               *)
(***************************************************************************)
EXTENDS Naturals, FiniteSets

CONSTANTS
    Procs,        \* spaex processes, each running one command after another
    Editors,      \* those that run `spaex add`/`spaex remove`; the rest install
    Setups,       \* the platform, "posix" or "windows", and whether installs copy the
                  \* tree for a behavior rollback
    MaxInodes,    \* bound on the lock files created
    MaxCommands,  \* bound on the commands started
    MaxCrashes,   \* bound on the processes killed
    None,
    NoFile        \* there is no manifest.json

ASSUME ProcsAssumption == Editors \subseteq Procs /\ None \notin Procs
ASSUME SetupsAssumption == Setups \subseteq {"posix", "windows"} \X BOOLEAN
ASSUME MarksAssumption == None \notin 1..MaxInodes
ASSUME BoundsAssumption == MaxInodes \in Nat \ {0} /\ MaxCommands \in Nat /\ MaxCrashes \in Nat

VARIABLES
    setup,       \* one of Setups
    canon, prev, next, backup,  \* `.spaex`, `.spaex.prev`, `.spaex.next`, the copy
    owner,       \* the process holding each inode, or each named mutex (Windows)
    mutex,       \* the process holding install.mutex
    inodes,      \* inodes created so far
    pc, path,    \* what each process does next; the lock path it resolved
    fd,          \* the inode (POSIX) or mutex name (Windows) it opened
    draft,       \* the manifest an editor read, with its own edit added
    saved,       \* the manifest bytes it will put back
    failed,      \* whether the command under way has raised
    committed,   \* the edits whose command reported success
    commands, crashes,
    intruded     \* whether a process has made a directory that a swap, or a kill
                 \* during one, had left absent

dirs == <<canon, prev, next, backup>>
procVars == <<pc, path, fd, draft, saved, failed>>
counters == <<inodes, commands, crashes, intruded>>
vars == <<setup, dirs, owner, mutex, procVars, committed, counters>>

Platform == setup[1]
KeepsBackup == setup[2]

\* A directory: whether it exists, its manifest.json.lock, the edits in its
\* manifest.json, and whether it has the install.lock of a generation.
AbsentDir == [exists |-> FALSE, lock |-> None, manifest |-> NoFile, sealed |-> FALSE]
EmptyDir == [AbsentDir EXCEPT !.exists = TRUE]

Dirs == [exists : BOOLEAN, lock : (1..MaxInodes) \cup {None},
         manifest : (SUBSET Procs) \cup {NoFile}, sealed : BOOLEAN]

\* rename(2) replaces an empty directory; MoveFile refuses any existing one.
CanRenameOnto(dir) == IF Platform = "posix" THEN dir \in {AbsentDir, EmptyDir}
                                            ELSE dir = AbsentDir

\* The locks there are to hold.  On Windows both paths lead to one mutex, named
\* after the canonical path and numbered 0 here.
NamedMutex == 0
Keys == IF Platform = "posix" THEN 1..MaxInodes ELSE {NamedMutex}

Locking == {"resolve", "recovery", "mkdir", "open", "wait"}
Editing == {"read", "write", "restore"}
Installing == {"recover", "load", "backup", "stage", "renameA", "renameB", "undoA",
               "discard", "behavior", "dropLive", "renameBack"}
Points == {"idle", "mutex", "release"} \cup Locking \cup Editing \cup Installing

HoldsManifestLock(p) == pc[p] \in {"mutex", "release"} \cup Editing \cup Installing
HoldsMutex(p) == pc[p] \in Installing

TypeOK ==
    /\ setup \in Setups
    /\ canon \in Dirs /\ prev \in Dirs /\ next \in Dirs /\ backup \in Dirs
    /\ owner \in [Keys -> Procs \cup {None}]
    /\ mutex \in Procs \cup {None}
    /\ intruded \in BOOLEAN
    /\ inodes \in 0..MaxInodes /\ commands \in 0..MaxCommands /\ crashes \in 0..MaxCrashes
    /\ pc \in [Procs -> Points]
    /\ path \in [Procs -> {"canon", "prev"}]
    /\ fd \in [Procs -> Keys \cup {None}]
    /\ draft \in [Procs -> (SUBSET Procs) \cup {NoFile}]
    /\ saved \in [Procs -> (SUBSET Procs) \cup {NoFile}]
    /\ failed \in [Procs -> BOOLEAN]
    /\ committed \in SUBSET Editors

\* A checkout with a published generation; the lock file is not committed to
\* git, so it may not be there yet.
Init ==
    /\ setup \in Setups
    /\ \E lock \in {None, 1} :
          /\ canon = [exists |-> TRUE, lock |-> lock, manifest |-> {}, sealed |-> TRUE]
          /\ inodes = IF lock = None THEN 0 ELSE 1
    /\ prev = AbsentDir /\ next = AbsentDir /\ backup = AbsentDir
    /\ owner = [k \in Keys |-> None]
    /\ mutex = None
    /\ pc = [p \in Procs |-> "idle"]
    /\ path = [p \in Procs |-> "canon"]
    /\ fd = [p \in Procs |-> None]
    /\ draft = [p \in Procs |-> NoFile]
    /\ saved = [p \in Procs |-> NoFile]
    /\ failed = [p \in Procs |-> FALSE]
    /\ committed = {}
    /\ commands = 0 /\ crashes = 0 /\ intruded = FALSE

Go(p, point) == pc' = [pc EXCEPT ![p] = point]

\* The process ends or is killed: the kernel releases what it holds.
Reset(p) ==
    /\ Go(p, "idle")
    /\ fd' = [fd EXCEPT ![p] = None]
    /\ path' = [path EXCEPT ![p] = "canon"]
    /\ draft' = [draft EXCEPT ![p] = NoFile]
    /\ saved' = [saved EXCEPT ![p] = NoFile]
    /\ failed' = [failed EXCEPT ![p] = FALSE]
    /\ owner' = [k \in Keys |-> IF owner[k] = p THEN None ELSE owner[k]]

\* An exception inside install.run: both context managers exit, the mutex is
\* released first; an editor then restores its manifest bytes.
Fail(p) ==
    /\ failed' = [failed EXCEPT ![p] = TRUE]
    /\ mutex' = IF mutex = p THEN None ELSE mutex
    /\ Go(p, IF p \in Editors THEN "restore" ELSE "release")

--------------------------------------------------------------------------------
(* Acquiring the manifest lock. *)

\* `add` and `remove` refuse before the lock when there is no manifest.
StartCommand(p) ==
    /\ pc[p] = "idle"
    /\ commands < MaxCommands
    /\ p \in Editors => canon.manifest # NoFile /\ p \notin committed
    /\ commands' = commands + 1
    /\ Go(p, "resolve")
    /\ UNCHANGED <<setup, dirs, owner, mutex, path, fd, draft, saved, failed, committed,
                   inodes, crashes, intruded>>

\* active_manifest_lock_path, first exists(): the canonical lock file.
ResolveCanonical(p) ==
    /\ pc[p] = "resolve"
    /\ path' = [path EXCEPT ![p] = "canon"]
    /\ Go(p, IF canon.lock # None THEN "mkdir" ELSE "recovery")
    /\ UNCHANGED <<setup, dirs, owner, mutex, fd, draft, saved, failed, committed, counters>>

\* Second exists(): the lock file of an in-flight recovery tree.
ResolveRecovery(p) ==
    /\ pc[p] = "recovery"
    /\ path' = [path EXCEPT ![p] = IF prev.lock # None THEN "prev" ELSE "canon"]
    /\ Go(p, "mkdir")
    /\ UNCHANGED <<setup, dirs, owner, mutex, fd, draft, saved, failed, committed, counters>>

DirAt(where) == IF where = "canon" THEN canon ELSE prev

SetDirAt(where, dir) ==
    IF where = "canon" THEN canon' = dir /\ prev' = prev
                       ELSE prev' = dir /\ canon' = canon

\* __enter__: parent.mkdir(parents=True, exist_ok=True).
MakeParent(p) ==
    /\ pc[p] = "mkdir"
    /\ SetDirAt(path[p], IF DirAt(path[p]).exists THEN DirAt(path[p]) ELSE EmptyDir)
    /\ intruded' = (intruded \/ ~DirAt(path[p]).exists)
    /\ Go(p, "open")
    /\ UNCHANGED <<setup, next, backup, owner, mutex, path, fd, draft, saved, failed, committed,
                   inodes, commands, crashes>>

\* os.open(O_CREAT) on POSIX, touch and CreateMutexW on Windows.
OpenLock(p) ==
    /\ pc[p] = "open"
    /\ DirAt(path[p]).exists
    /\ LET found == DirAt(path[p]).lock
           file == IF found # None THEN found ELSE inodes + 1
       IN  /\ file <= MaxInodes
           /\ inodes' = IF found # None THEN inodes ELSE file
           /\ SetDirAt(path[p], [DirAt(path[p]) EXCEPT !.lock = file])
           /\ fd' = [fd EXCEPT ![p] = IF Platform = "windows" THEN NamedMutex ELSE file]
    /\ Go(p, "wait")
    /\ UNCHANGED <<setup, next, backup, owner, mutex, path, draft, saved, failed, committed,
                   commands, crashes, intruded>>

\* The parent was renamed away between mkdir and open: FileNotFoundError.
OpenFails(p) ==
    /\ pc[p] = "open"
    /\ ~DirAt(path[p]).exists
    /\ Reset(p)
    /\ UNCHANGED <<setup, dirs, mutex, committed, counters>>

\* The poll finds the lock free.  An editor reads the manifest next.
AcquireLock(p) ==
    /\ pc[p] = "wait"
    /\ owner[fd[p]] = None
    /\ owner' = [owner EXCEPT ![fd[p]] = p]
    /\ Go(p, IF p \in Editors THEN "read" ELSE "mutex")
    /\ UNCHANGED <<setup, dirs, mutex, path, fd, draft, saved, failed, committed, counters>>

\* Seeded fault: at the deadline the waiter takes the lock for abandoned.
BreakLock(p) ==
    /\ pc[p] = "wait"
    /\ owner[fd[p]] # None
    /\ owner' = [owner EXCEPT ![fd[p]] = p]
    /\ Go(p, IF p \in Editors THEN "read" ELSE "mutex")
    /\ UNCHANGED <<setup, dirs, mutex, path, fd, draft, saved, failed, committed, counters>>

\* The deadline passes while another process holds the lock.
TimeOut(p) ==
    /\ pc[p] = "wait"
    /\ owner[fd[p]] # None
    /\ Reset(p)
    /\ UNCHANGED <<setup, dirs, mutex, committed, counters>>

--------------------------------------------------------------------------------
(* The manifest edit of `add`/`remove`, under the manifest lock. *)

ReadManifest(p) ==
    /\ pc[p] = "read"
    /\ IF canon.manifest = NoFile
         THEN Go(p, "release") /\ UNCHANGED draft
         ELSE /\ draft' = [draft EXCEPT ![p] = canon.manifest \cup {p}]
              /\ Go(p, "write")
    /\ UNCHANGED <<setup, dirs, owner, mutex, path, fd, saved, failed, committed, counters>>

\* write_and_reinstall: snapshot the active bytes, write the new ones.
WriteManifest(p) ==
    /\ pc[p] = "write"
    /\ saved' = [saved EXCEPT ![p] = canon.manifest]
    /\ canon' = [canon EXCEPT !.exists = TRUE, !.manifest = draft[p]]
    /\ Go(p, "mutex")
    /\ UNCHANGED <<setup, prev, next, backup, owner, mutex, path, fd, draft, failed, committed,
                   counters>>

\* The install raised: the previous bytes go back, or the file goes away.
RestoreManifest(p) ==
    /\ pc[p] = "restore"
    /\ canon' = IF saved[p] = NoFile THEN [canon EXCEPT !.manifest = NoFile]
                ELSE [canon EXCEPT !.exists = TRUE, !.manifest = saved[p]]
    /\ Go(p, "release")
    /\ UNCHANGED <<setup, prev, next, backup, owner, mutex, path, fd, draft, saved, failed,
                   committed, counters>>

Release(p) ==
    /\ pc[p] = "release"
    /\ committed' = IF p \in Editors /\ draft[p] # NoFile /\ ~failed[p]
                    THEN committed \cup {p} ELSE committed
    /\ Reset(p)
    /\ UNCHANGED <<setup, dirs, mutex, counters>>

--------------------------------------------------------------------------------
(* install.run, under both locks. *)

\* Seeded fault: the install mutex of a running install is taken over.
TakeMutexOver(p) ==
    /\ pc[p] = "mutex"
    /\ mutex' = p
    /\ Go(p, "recover")
    /\ UNCHANGED <<setup, dirs, owner, path, fd, draft, saved, failed, committed, counters>>

\* ConstitutionWriterLock does not wait: another holder refuses the install.
TakeMutex(p) ==
    /\ pc[p] = "mutex"
    /\ IF mutex = None
         THEN mutex' = p /\ Go(p, "recover") /\ UNCHANGED failed
         ELSE Fail(p)
    /\ UNCHANGED <<setup, dirs, owner, path, fd, draft, saved, committed, counters>>

\* Seeded fault: both siblings are cleaned, whatever is live.
RecoverDropsPrev(p) ==
    /\ pc[p] = "recover"
    /\ prev' = AbsentDir /\ next' = AbsentDir
    /\ Go(p, "load")
    /\ UNCHANGED <<setup, canon, backup, owner, mutex, path, fd, draft, saved, failed, committed,
                   counters>>

\* restore_previous_generation and clean_stale_siblings.
Recover(p) ==
    /\ pc[p] = "recover"
    /\ IF ~canon.exists /\ prev.exists
         THEN canon' = prev /\ prev' = AbsentDir
         ELSE UNCHANGED <<canon, prev>>
    /\ next' = AbsentDir
    /\ Go(p, "load")
    /\ UNCHANGED <<setup, backup, owner, mutex, path, fd, draft, saved, failed, committed, counters>>

\* Seeded fault: a refusal starts the install over.
LoadRetries(p) ==
    /\ pc[p] = "load"
    /\ \/ canon.manifest # NoFile /\ Go(p, IF KeepsBackup THEN "backup" ELSE "stage")
       \/ Go(p, "recover")
    /\ UNCHANGED <<setup, dirs, owner, mutex, path, fd, draft, saved, failed, committed, counters>>

\* A missing manifest refuses the install; so may resolution or a hook.
Load(p) ==
    /\ pc[p] = "load"
    /\ \/ /\ canon.manifest # NoFile
          /\ Go(p, IF KeepsBackup THEN "backup" ELSE "stage")
          /\ UNCHANGED <<mutex, failed>>
       \/ Fail(p)
    /\ UNCHANGED <<setup, dirs, owner, path, fd, draft, saved, committed, counters>>

\* _preserve_generation_for_behavior: copytree gives the lock file a new inode.
CopyLive(p) ==
    /\ pc[p] = "backup"
    /\ canon.lock # None => inodes < MaxInodes
    /\ inodes' = IF canon.lock # None THEN inodes + 1 ELSE inodes
    /\ backup' = IF canon.lock # None THEN [canon EXCEPT !.lock = inodes + 1] ELSE canon
    /\ Go(p, "stage")
    /\ UNCHANGED <<setup, canon, prev, next, owner, mutex, path, fd, draft, saved, failed,
                   committed, commands, crashes, intruded>>

\* Seeded fault: the lock file is left out of the staged files.
StageWithoutLock(p) ==
    /\ pc[p] = "stage"
    /\ next' = [canon EXCEPT !.exists = TRUE, !.sealed = TRUE, !.lock = None]
    /\ prev' = IF canon.exists THEN AbsentDir ELSE prev
    /\ Go(p, IF canon.exists THEN "renameA" ELSE "renameB")
    /\ UNCHANGED <<setup, canon, backup, owner, mutex, path, fd, draft, saved, failed, committed,
                   counters>>

\* The manifest bytes are staged, and _preserve_manifest_lock links the lock
\* inode of the live tree into the staging directory.  A stale `.prev` goes.
StageTree(p) ==
    /\ pc[p] = "stage"
    /\ next' = [canon EXCEPT !.exists = TRUE, !.sealed = TRUE]
    /\ prev' = IF canon.exists THEN AbsentDir ELSE prev
    /\ Go(p, IF canon.exists THEN "renameA" ELSE "renameB")
    /\ UNCHANGED <<setup, canon, backup, owner, mutex, path, fd, draft, saved, failed, committed,
                   counters>>

\* rename(.spaex, .spaex.prev); a process that waits on a `.prev` lock path may
\* have created that directory again.
RenameAway(p) ==
    /\ pc[p] = "renameA"
    /\ IF canon.exists /\ CanRenameOnto(prev)
         THEN /\ prev' = canon /\ canon' = AbsentDir
              /\ Go(p, "renameB")
              /\ UNCHANGED <<mutex, failed>>
         ELSE Fail(p) /\ UNCHANGED <<canon, prev>>
    /\ UNCHANGED <<setup, next, backup, owner, path, fd, draft, saved, committed, counters>>

\* rename(.spaex.next, .spaex); a process that waits on the canonical lock path
\* may have created that directory meanwhile.
RenameInto(p) ==
    /\ pc[p] = "renameB"
    /\ IF CanRenameOnto(canon)
         THEN canon' = next /\ next' = AbsentDir /\ Go(p, "discard")
         ELSE Go(p, "undoA") /\ UNCHANGED <<canon, next>>
    /\ UNCHANGED <<setup, prev, backup, owner, mutex, path, fd, draft, saved, failed, committed,
                   counters>>

\* The verification of the new tree raises: _rollback_swap, first rename.
RollBackInto(p) ==
    /\ pc[p] = "discard"
    /\ canon' = AbsentDir /\ next' = canon
    /\ Go(p, "undoA")
    /\ UNCHANGED <<setup, prev, backup, owner, mutex, path, fd, draft, saved, failed, committed,
                   counters>>

\* rename(.spaex.prev, .spaex) after rename B failed, or the second rename of
\* _rollback_swap; a directory made meanwhile may be in its way.
UndoRenameAway(p) ==
    /\ pc[p] = "undoA"
    /\ IF CanRenameOnto(canon) /\ prev.exists
         THEN canon' = prev /\ prev' = AbsentDir /\ next' = AbsentDir
         ELSE UNCHANGED <<canon, prev, next>>
    /\ Fail(p)
    /\ UNCHANGED <<setup, backup, owner, path, fd, draft, saved, committed, counters>>

DiscardPrevious(p) ==
    /\ pc[p] = "discard"
    /\ prev' = AbsentDir
    /\ Go(p, "behavior")
    /\ UNCHANGED <<setup, canon, next, backup, owner, mutex, path, fd, draft, saved, failed,
                   committed, counters>>

\* The rest of the install passes or fails.  With a backup the generation is rolled
\* back, for a failing behavior pass and for one that `add` or `remove` defers: the
\* command then goes on to its success (the `not abort_on_contradiction` branches).
FinishBehavior(p) ==
    /\ pc[p] = "behavior"
    /\ \/ /\ mutex' = None
          /\ backup' = AbsentDir
          /\ Go(p, "release")
          /\ UNCHANGED failed
       \/ /\ backup' = AbsentDir
          /\ Fail(p)
       \/ /\ KeepsBackup
          /\ Go(p, "dropLive")
          /\ \/ failed' = [failed EXCEPT ![p] = TRUE]
             \/ p \in Editors /\ UNCHANGED failed
          /\ UNCHANGED <<mutex, backup>>
    /\ UNCHANGED <<setup, canon, prev, next, owner, path, fd, draft, saved, committed, counters>>

\* What shutil.rmtree may leave of a directory when it raises.
Remains(dir) ==
    [exists : {TRUE}, lock : {dir.lock, None}, manifest : {dir.manifest, NoFile},
     sealed : {dir.sealed, FALSE}]

\* _GenerationRollback.__exit__: rmtree(live), then backup_live.rename(live).  When
\* either raises the command fails, and the backup is removed all the same.
DropLive(p) ==
    /\ pc[p] = "dropLive"
    /\ \/ /\ canon' = AbsentDir
          /\ Go(p, "renameBack")
          /\ UNCHANGED <<mutex, backup, failed>>
       \/ /\ canon.exists /\ canon' \in Remains(canon)
          /\ backup' = AbsentDir
          /\ Fail(p)
    /\ UNCHANGED <<setup, prev, next, owner, path, fd, draft, saved, committed, counters>>

\* Seeded fault: the copy for the rollback is the manifest from before the edit.
RenameBackOld(p) ==
    /\ pc[p] = "renameBack"
    /\ backup' = AbsentDir
    /\ canon' = [backup EXCEPT !.manifest = saved[p]]
    /\ IF failed[p] THEN Fail(p) ELSE mutex' = None /\ Go(p, "release") /\ UNCHANGED failed
    /\ UNCHANGED <<setup, prev, next, owner, path, fd, draft, saved, committed, counters>>

\* A deferred edit ends well with the old generation, whose manifest is the edited
\* one; a failed command, or one whose last step fails, puts its manifest back.
RenameBack(p) ==
    /\ pc[p] = "renameBack"
    /\ backup' = AbsentDir
    /\ \/ /\ CanRenameOnto(canon) /\ canon' = backup
          /\ ~failed[p] /\ mutex' = None /\ Go(p, "release")
          /\ UNCHANGED failed
       \/ /\ canon' = canon \/ (CanRenameOnto(canon) /\ canon' = backup)
          /\ Fail(p)
    /\ UNCHANGED <<setup, prev, next, owner, path, fd, draft, saved, committed, counters>>

\* A kill: the kernel releases both locks, the files stay; an orphaned copy of
\* the tree is never looked at again.
Crash(p) ==
    /\ pc[p] # "idle"
    /\ crashes < MaxCrashes
    /\ crashes' = crashes + 1
    /\ Reset(p)
    /\ mutex' = IF mutex = p THEN None ELSE mutex
    /\ backup' = IF mutex = p THEN AbsentDir ELSE backup
    /\ UNCHANGED <<setup, canon, prev, next, committed, inodes, commands, intruded>>

--------------------------------------------------------------------------------

TakeLock(p) ==
    \/ ResolveCanonical(p) \/ ResolveRecovery(p) \/ MakeParent(p)
    \/ OpenLock(p) \/ OpenFails(p) \/ AcquireLock(p) \/ TimeOut(p)
Edit(p) == ReadManifest(p) \/ WriteManifest(p) \/ RestoreManifest(p) \/ Release(p)
Install(p) ==
    \/ TakeMutex(p) \/ Recover(p) \/ Load(p) \/ CopyLive(p) \/ StageTree(p)
    \/ RenameAway(p) \/ RenameInto(p) \/ RollBackInto(p) \/ UndoRenameAway(p)
    \/ DiscardPrevious(p)
    \/ FinishBehavior(p) \/ DropLive(p) \/ RenameBack(p)

Work(p) == TakeLock(p) \/ Edit(p) \/ Install(p)

Next == \E p \in Procs : StartCommand(p) \/ Work(p) \/ Crash(p)

Fairness == \A p \in Procs : WF_vars(Work(p))
Spec == Init /\ [][Next]_vars /\ Fairness

--------------------------------------------------------------------------------
(* Properties *)

\* At most one process works under the manifest lock: edits and installs of one
\* checkout are serialised (specs/013 FR-021, "an exclusive lock").
OneHolder ==
    \A p, q \in Procs : HoldsManifestLock(p) /\ HoldsManifestLock(q) => p = q

\* They are on Windows, where the renames of an install leave the mutex alone
\* (ManifestLockContext._acquire_windows).
ManifestExclusion == Platform = "windows" => OneHolder

\* Installs never overlap, even where the manifest lock admits two holders: the
\* install mutex is outside `.spaex/` and its inode is stable.
InstallsNeverOverlap ==
    \A p, q \in Procs : HoldsMutex(p) /\ HoldsMutex(q) => p = q

\* An edit whose command reported success stays in the manifest, also when its
\* generation was rolled back and deferred: no command puts an older manifest over
\* it (the FR-021 purpose of the lock).  With inode locks two editors may work at
\* once, and one undoes the other.  A behavior rollback that raises may leave no
\* manifest at all, and then nothing is said.
EditsSurvive ==
    Platform = "windows" /\ canon.manifest # NoFile => committed \subseteq canon.manifest

\* The lock file is created once and is never replaced by another file (the
\* header of manifest_lock.py): as long as no process has made the directory of
\* a swap under way, the inode first created, 1, is the only one ever found
\* under the canonical name.
\* A behavior rollback puts a copy in its place.
LockFileIsPermanent == ~KeepsBackup /\ ~intruded => canon.lock \in {None, 1}

\* With no install under way, a published generation is live, or absent and
\* restorable from `.prev` by the next install, as long as no process has made
\* the directory that a kill left absent (install.run, recovery comes first).
\* A behavior rollback has a moment without either.
GenerationRecoverable ==
    ~KeepsBackup /\ mutex = None /\ ~intruded => canon.sealed \/ (~canon.exists /\ prev.sealed)

\* Every command ends: it finishes, refuses or times out, so that again and again
\* a process is between two commands.
CommandsEnd == \A p \in Procs : []<>(pc[p] = "idle")
================================================================================
