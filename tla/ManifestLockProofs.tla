--------------------------- MODULE ManifestLockProofs ---------------------------
(***************************************************************************)
(* Mutual exclusion of the two locks of ManifestLock, the one lock file, and  *)
(* what is never lost, proved for any number of processes, commands, crashes *)
(* and lock files.                                                          *)
(***************************************************************************)
EXTENDS ManifestLock, TLAPS

--------------------------------------------------------------------------------
(* Directories *)

Edits == (SUBSET Procs) \cup {NoFile}

LEMMA NoDirs == AbsentDir \in Dirs /\ EmptyDir \in Dirs
  BY DEF AbsentDir, EmptyDir, Dirs

LEMMA DirFields ==
  ASSUME NEW d \in Dirs
  PROVE  d.lock \in (1..MaxInodes) \cup {None} /\ d.manifest \in Edits
  BY DEF Dirs, Edits

LEMMA DirUpdates ==
  ASSUME NEW d \in Dirs, NEW l \in (1..MaxInodes) \cup {None}, NEW m \in Edits
  PROVE  /\ [d EXCEPT !.lock = l] \in Dirs
         /\ [d EXCEPT !.manifest = m] \in Dirs
         /\ [d EXCEPT !.exists = TRUE, !.manifest = m] \in Dirs
         /\ [d EXCEPT !.exists = TRUE, !.sealed = TRUE] \in Dirs
  BY DEF Dirs, Edits

LEMMA DirInit ==
  ASSUME NEW lock \in {None, 1}, lock # None => 1 \in 1..MaxInodes
  PROVE  [exists |-> TRUE, lock |-> lock, manifest |-> {}, sealed |-> TRUE] \in Dirs
  BY DEF Dirs

LEMMA Remaining ==
  ASSUME NEW d \in Dirs, NEW e \in Remains(d)
  PROVE  e \in Dirs /\ e.exists /\ e.manifest \in {d.manifest, NoFile}
  BY DEF Remains, Dirs

SetupOK == setup \in Setups

DirsOK == canon \in Dirs /\ prev \in Dirs /\ next \in Dirs /\ backup \in Dirs

ProcessesOK ==
    /\ owner \in [Keys -> Procs \cup {None}]
    /\ mutex \in Procs \cup {None}
    /\ pc \in [Procs -> Points]
    /\ path \in [Procs -> {"canon", "prev"}]
    /\ fd \in [Procs -> Keys \cup {None}]
    /\ draft \in [Procs -> Edits]
    /\ saved \in [Procs -> Edits]
    /\ failed \in [Procs -> BOOLEAN]
    /\ committed \in SUBSET Editors

CountersOK ==
    /\ inodes \in 0..MaxInodes /\ commands \in 0..MaxCommands /\ crashes \in 0..MaxCrashes
    /\ intruded \in BOOLEAN

LEMMA TypeParts == TypeOK <=> SetupOK /\ DirsOK /\ ProcessesOK /\ CountersOK
  BY DEF TypeOK, SetupOK, DirsOK, ProcessesOK, CountersOK, Edits

\* What Keys depends on.
LEMMA SetupKinds ==
  ASSUME SetupOK
  PROVE  Platform \in {"posix", "windows"} /\ KeepsBackup \in BOOLEAN
  BY SetupsAssumption DEF SetupOK, Platform, KeepsBackup

Step(p) == StartCommand(p) \/ Work(p) \/ Crash(p)

LEMMA SetupStep ==
  ASSUME NEW p \in Procs, Step(p)
  PROVE  setup' = setup /\ Platform' = Platform /\ Keys' = Keys
<1>1. CASE StartCommand(p) \/ Crash(p)
  BY <1>1 DEF StartCommand, Crash, Platform, Keys
<1>2. CASE TakeLock(p)
  BY <1>2 DEF TakeLock, ResolveCanonical, ResolveRecovery, MakeParent, OpenLock, OpenFails,
              AcquireLock, TimeOut, Platform, Keys
<1>3. CASE Edit(p)
  BY <1>3 DEF Edit, ReadManifest, WriteManifest, RestoreManifest, Release, Platform, Keys
<1>4. CASE Install(p)
  BY <1>4 DEF Install, TakeMutex, Recover, Load, CopyLive, StageTree, RenameAway, RenameInto,
              RollBackInto, UndoRenameAway, DiscardPrevious, FinishBehavior, DropLive,
              RenameBack, Platform, Keys
<1> QED
  BY <1>1, <1>2, <1>3, <1>4 DEF Step, Work

LEMMA CountersStep ==
  ASSUME TypeOK, NEW p \in Procs, Step(p)
  PROVE  CountersOK'
<1> USE BoundsAssumption DEF CountersOK, counters
<1>0. CountersOK
  BY TypeParts
<1>1. CASE StartCommand(p) \/ Crash(p)
  BY <1>0, <1>1 DEF StartCommand, Crash
<1>2. CASE OpenLock(p) \/ CopyLive(p)
  <2>1. canon.lock # None => inodes < MaxInodes \/ ~CopyLive(p)
    BY <1>2 DEF CopyLive
  <2> QED
    BY <1>0, <1>2, <2>1 DEF OpenLock, CopyLive
<1>3. CASE TakeLock(p) /\ ~OpenLock(p)
  BY <1>0, <1>3 DEF TakeLock, ResolveCanonical, ResolveRecovery, MakeParent, OpenFails,
                    AcquireLock, TimeOut
<1>4. CASE Edit(p)
  BY <1>0, <1>4 DEF Edit, ReadManifest, WriteManifest, RestoreManifest, Release
<1>5. CASE Install(p) /\ ~CopyLive(p)
  BY <1>0, <1>5 DEF Install, TakeMutex, Recover, Load, StageTree, RenameAway, RenameInto,
                    RollBackInto, UndoRenameAway, DiscardPrevious, FinishBehavior, DropLive, RenameBack
<1> QED
  BY <1>1, <1>2, <1>3, <1>4, <1>5 DEF Step, Work, TakeLock, Install

LEMMA DirsStep ==
  ASSUME TypeOK, NEW p \in Procs, Step(p)
  PROVE  DirsOK'
<1> USE NoDirs DEF DirsOK, dirs
<1>0. DirsOK /\ path[p] \in {"canon", "prev"} /\ DirAt(path[p]) \in Dirs
      /\ draft[p] \in Edits /\ saved[p] \in Edits
  BY TypeParts DEF ProcessesOK, DirAt
<1>1. CASE MakeParent(p)
  BY <1>0, <1>1 DEF MakeParent, SetDirAt
<1>2. CASE OpenLock(p)
  <2> DEFINE found == DirAt(path[p]).lock
             file == IF found # None THEN found ELSE inodes + 1
  <2>1. file \in 1..MaxInodes
    <3>1. found \in (1..MaxInodes) \cup {None} /\ inodes \in Nat
      BY <1>0, DirFields, TypeParts DEF CountersOK
    <3>2. file <= MaxInodes
      BY <1>2 DEF OpenLock
    <3> QED
      BY <3>1, <3>2, BoundsAssumption
  <2>2. [DirAt(path[p]) EXCEPT !.lock = file] \in Dirs
    BY <1>0, <2>1, DirUpdates DEF Edits
  <2>3. SetDirAt(path[p], [DirAt(path[p]) EXCEPT !.lock = file]) /\ next' = next /\ backup' = backup
    BY <1>2 DEF OpenLock
  <2> QED
    BY <1>0, <2>2, <2>3 DEF SetDirAt
<1>3. CASE WriteManifest(p)
  BY <1>0, <1>3, DirUpdates DEF WriteManifest
<1>4. CASE RestoreManifest(p)
  BY <1>0, <1>4, DirUpdates DEF RestoreManifest, Edits
<1>5. CASE CopyLive(p)
  <2>1. canon.lock # None => inodes + 1 \in 1..MaxInodes
    BY <1>5, TypeParts, BoundsAssumption DEF CopyLive, CountersOK
  <2> QED
    BY <1>0, <1>5, <2>1, DirUpdates DEF CopyLive, Edits
<1>6. CASE StageTree(p)
  BY <1>0, <1>6, DirUpdates DEF StageTree, Edits
<1>7. CASE Recover(p) \/ RenameAway(p) \/ RenameInto(p) \/ RollBackInto(p)
           \/ UndoRenameAway(p) \/ DiscardPrevious(p) \/ FinishBehavior(p) \/ RenameBack(p)
  BY <1>0, <1>7 DEF Recover, RenameAway, RenameInto, RollBackInto, UndoRenameAway,
                    DiscardPrevious, FinishBehavior, RenameBack
<1>11. CASE DropLive(p)
  BY <1>0, <1>11, Remaining DEF DropLive
<1>8. CASE UNCHANGED dirs
  BY <1>0, <1>8
<1>9. CASE Crash(p)
  BY <1>0, <1>9 DEF Crash
<1>10. CASE StartCommand(p) \/ ResolveCanonical(p) \/ ResolveRecovery(p) \/ OpenFails(p)
            \/ AcquireLock(p) \/ TimeOut(p) \/ ReadManifest(p) \/ Release(p)
            \/ TakeMutex(p) \/ Load(p)
  BY <1>8, <1>10 DEF StartCommand, ResolveCanonical, ResolveRecovery, OpenFails, AcquireLock,
                     TimeOut, ReadManifest, Release, TakeMutex, Load
<1> QED
  BY <1>1, <1>2, <1>3, <1>4, <1>5, <1>6, <1>7, <1>9, <1>10, <1>11
  DEF Step, Work, TakeLock, Edit, Install

LEMMA ProcessesStep ==
  ASSUME TypeOK, NEW p \in Procs, Step(p)
  PROVE  ProcessesOK'
<1> USE SetupStep DEF ProcessesOK
<1>0. ProcessesOK /\ canon.manifest \in Edits
  BY TypeParts, DirFields DEF DirsOK
\* The state predicates of the program counters.
<1>1. ASSUME NEW point \in Points, Go(p, point) PROVE pc' \in [Procs -> Points]
  BY <1>0, <1>1 DEF Go
<1>2. ASSUME Reset(p)
      PROVE  /\ owner' \in [Keys -> Procs \cup {None}]
             /\ pc' \in [Procs -> Points]
             /\ path' \in [Procs -> {"canon", "prev"}]
             /\ fd' \in [Procs -> Keys \cup {None}]
             /\ draft' \in [Procs -> Edits] /\ saved' \in [Procs -> Edits]
             /\ failed' \in [Procs -> BOOLEAN]
  BY <1>0, <1>2 DEF Reset, Go, Points, Edits
<1>3. ASSUME Fail(p)
      PROVE  /\ pc' \in [Procs -> Points]
             /\ mutex' \in Procs \cup {None}
             /\ failed' \in [Procs -> BOOLEAN]
  BY <1>0, <1>3 DEF Fail, Go, Points, Editing
<1> USE DEF Points, Locking, Editing, Installing
<1>4. CASE StartCommand(p) \/ ResolveCanonical(p) \/ ResolveRecovery(p) \/ MakeParent(p)
  BY <1>0, <1>1, <1>4 DEF StartCommand, ResolveCanonical, ResolveRecovery, MakeParent
<1>5. CASE OpenLock(p)
  <2> DEFINE found == DirAt(path[p]).lock
             file == IF found # None THEN found ELSE inodes + 1
  <2>1. file \in 1..MaxInodes
    <3>1. found \in (1..MaxInodes) \cup {None} /\ inodes \in Nat
      BY <1>0, DirFields, TypeParts DEF CountersOK, DirAt, DirsOK
    <3>2. file <= MaxInodes
      BY <1>5 DEF OpenLock
    <3> QED
      BY <3>1, <3>2, BoundsAssumption
  <2>2. fd' = [fd EXCEPT ![p] = IF Platform = "windows" THEN NamedMutex ELSE file]
    BY <1>5 DEF OpenLock
  <2>3. (IF Platform = "windows" THEN NamedMutex ELSE file) \in Keys
    BY <2>1, SetupKinds, TypeParts DEF Keys
  <2>4. fd' \in [Procs -> Keys \cup {None}]
    BY <1>0, <2>2, <2>3
  <2> QED
    BY <1>0, <1>1, <1>5, <2>4 DEF OpenLock
<1>6. CASE OpenFails(p) \/ TimeOut(p)
  BY <1>0, <1>2, <1>6 DEF OpenFails, TimeOut
<1>7. CASE AcquireLock(p)
  BY <1>0, <1>1, <1>7 DEF AcquireLock
<1>8. CASE ReadManifest(p)
  <2>1. canon.manifest # NoFile => canon.manifest \cup {p} \in Edits
    BY <1>0 DEF Edits
  <2> QED
    BY <1>0, <1>1, <1>8, <2>1 DEF ReadManifest
<1>9. CASE WriteManifest(p) \/ RestoreManifest(p)
  BY <1>0, <1>1, <1>9 DEF WriteManifest, RestoreManifest
<1>10. CASE Release(p)
  <2>1. committed' \in SUBSET Editors
    BY <1>0, <1>10 DEF Release
  <2> QED
    BY <1>0, <1>2, <1>10, <2>1 DEF Release
<1>11. CASE TakeMutex(p) \/ Load(p) \/ RenameAway(p) \/ UndoRenameAway(p)
  BY <1>0, <1>1, <1>3, <1>11 DEF TakeMutex, Load, RenameAway, UndoRenameAway
<1>12. CASE Recover(p) \/ CopyLive(p) \/ StageTree(p) \/ RenameInto(p) \/ RollBackInto(p)
            \/ DiscardPrevious(p)
  BY <1>0, <1>1, <1>12 DEF Recover, CopyLive, StageTree, RenameInto, RollBackInto,
                           DiscardPrevious
<1>14. CASE FinishBehavior(p) \/ DropLive(p) \/ RenameBack(p)
  BY <1>0, <1>1, <1>3, <1>14 DEF FinishBehavior, DropLive, RenameBack
<1>13. CASE Crash(p)
  BY <1>0, <1>2, <1>13 DEF Crash
<1> QED
  BY <1>4, <1>5, <1>6, <1>7, <1>8, <1>9, <1>10, <1>11, <1>12, <1>13, <1>14
  DEF Step, Work, TakeLock, Edit, Install

LEMMA TypeInit == Init => TypeOK
<1> USE BoundsAssumption
<1> SUFFICES ASSUME Init PROVE TypeOK
  OBVIOUS
<1>1. PICK lock \in {None, 1} :
          /\ canon = [exists |-> TRUE, lock |-> lock, manifest |-> {}, sealed |-> TRUE]
          /\ inodes = IF lock = None THEN 0 ELSE 1
  BY DEF Init
<1>2. DirsOK
  <2>1. 1 \in 1..MaxInodes
    OBVIOUS
  <2>2. canon \in Dirs
    BY <1>1, <2>1, DirInit
  <2> QED
    BY <2>2, NoDirs DEF Init, DirsOK
<1>3. ProcessesOK
  BY DEF Init, ProcessesOK, Points, Edits
<1>4. CountersOK
  <2>1. inodes \in 0..MaxInodes
    BY <1>1
  <2>2. commands \in 0..MaxCommands /\ crashes \in 0..MaxCrashes
    BY DEF Init
  <2>3. intruded \in BOOLEAN
    BY Zenon DEF Init
  <2> QED
    BY <2>1, <2>2, <2>3 DEF CountersOK
<1>5. SetupOK
  BY DEF Init, SetupOK
<1> QED
  BY <1>2, <1>3, <1>4, <1>5, TypeParts

LEMMA TypeNext == TypeOK /\ [Next]_vars => TypeOK'
<1>1. ASSUME TypeOK, NEW p \in Procs, Step(p) PROVE TypeOK'
  <2>1. DirsOK' /\ ProcessesOK' /\ CountersOK'
    BY <1>1, DirsStep, ProcessesStep, CountersStep
  <2>2. SetupOK'
    BY <1>1, SetupStep, TypeParts DEF SetupOK
  <2> QED
    BY <2>1, <2>2, TypeParts, PTL
<1>2. ASSUME TypeOK, UNCHANGED vars PROVE TypeOK'
  BY <1>2 DEF TypeOK, vars, dirs, procVars, counters, HoldsMutex, Keys, Platform
<1> QED
  BY <1>1, <1>2 DEF Next, Step

\* Every directory, lock, counter and program counter keeps its type, whatever
\* the processes do to each other's directories.
THEOREM TypeCorrect == Spec => []TypeOK
  BY TypeInit, TypeNext, PTL DEF Spec

--------------------------------------------------------------------------------
(* Mutual exclusion *)

\* A process that waits for or works under the manifest lock has opened one;
\* one that works under it owns what it opened.
OwnsWhatItOpened ==
    \A p \in Procs :
        /\ pc[p] = "wait" \/ HoldsManifestLock(p) => fd[p] \in Keys
        /\ HoldsManifestLock(p) => owner[fd[p]] = p

\* An install runs in the process that the mutex names.
OwnsTheMutex == \A p \in Procs : HoldsMutex(p) => mutex = p

IInv == TypeOK /\ OwnsWhatItOpened /\ OwnsTheMutex

LEMMA InvInit == Init => IInv
  BY TypeInit DEF Init, IInv, OwnsWhatItOpened, OwnsTheMutex, HoldsManifestLock, HoldsMutex,
                  Editing, Installing

\* What a step leaves to the other processes.
LEMMA OthersKeep ==
  ASSUME IInv, NEW p \in Procs, Step(p), NEW q \in Procs, q # p
  PROVE  /\ pc'[q] = pc[q] /\ fd'[q] = fd[q]
         /\ mutex = q => mutex' = q
         /\ fd[q] \in Keys /\ owner[fd[q]] = q => owner'[fd[q]] = q
<1> USE ProcsAssumption DEF Go, Reset, Fail
<1>0. ProcessesOK /\ (HoldsMutex(p) => mutex = p)
  BY TypeParts DEF IInv, OwnsTheMutex
<1>1. CASE StartCommand(p) \/ Crash(p)
  BY <1>0, <1>1 DEF StartCommand, Crash, ProcessesOK
<1>2. CASE TakeLock(p)
  BY <1>0, <1>2 DEF TakeLock, ResolveCanonical, ResolveRecovery, MakeParent, OpenLock,
                    OpenFails, AcquireLock, TimeOut, ProcessesOK
<1>3. CASE Edit(p)
  BY <1>0, <1>3 DEF Edit, ReadManifest, WriteManifest, RestoreManifest, Release, ProcessesOK
<1>4. CASE Install(p)
  <2>1. CASE TakeMutex(p) \/ Load(p) \/ RenameAway(p) \/ UndoRenameAway(p)
    BY <1>0, <2>1 DEF TakeMutex, Load, RenameAway, UndoRenameAway, ProcessesOK
  <2>2. CASE Recover(p) \/ CopyLive(p) \/ StageTree(p) \/ RenameInto(p) \/ RollBackInto(p)
             \/ DiscardPrevious(p)
    BY <1>0, <2>2 DEF Recover, CopyLive, StageTree, RenameInto, RollBackInto, DiscardPrevious,
                      ProcessesOK
  <2>3. CASE FinishBehavior(p) \/ DropLive(p) \/ RenameBack(p)
    BY <1>0, <2>3 DEF FinishBehavior, DropLive, RenameBack, ProcessesOK, HoldsMutex, Installing
  <2> QED
    BY <1>4, <2>1, <2>2, <2>3 DEF Install
<1> QED
  BY <1>1, <1>2, <1>3, <1>4 DEF Step, Work

\* What a step does for the process that takes it.
LEMMA OwnStep ==
  ASSUME IInv, NEW p \in Procs, Step(p)
  PROVE  /\ pc'[p] = "wait" \/ HoldsManifestLock(p)' => fd'[p] \in Keys
         /\ HoldsManifestLock(p)' => owner'[fd'[p]] = p
         /\ HoldsMutex(p)' => mutex' = p
<1> USE DEF HoldsManifestLock, HoldsMutex, Locking, Editing, Installing, Go, Reset
<1>0. /\ ProcessesOK
      /\ pc[p] = "wait" \/ HoldsManifestLock(p) => fd[p] \in Keys
      /\ HoldsManifestLock(p) => owner[fd[p]] = p
      /\ HoldsMutex(p) => mutex = p
  BY TypeParts DEF IInv, OwnsWhatItOpened, OwnsTheMutex
<1>1. CASE StartCommand(p) \/ Crash(p)
  BY <1>0, <1>1 DEF StartCommand, Crash, ProcessesOK
<1>2. CASE ResolveCanonical(p) \/ ResolveRecovery(p) \/ MakeParent(p) \/ OpenFails(p) \/ TimeOut(p)
  BY <1>0, <1>2 DEF ResolveCanonical, ResolveRecovery, MakeParent, OpenFails, TimeOut,
                    ProcessesOK
<1>3. CASE OpenLock(p)
  <2>1. fd'[p] \in Keys /\ pc'[p] = "wait"
    <3> DEFINE found == DirAt(path[p]).lock
               file == IF found # None THEN found ELSE inodes + 1
    <3>1. file \in 1..MaxInodes
      <4>1. found \in (1..MaxInodes) \cup {None} /\ inodes \in Nat
        BY DirFields, TypeParts DEF IInv, CountersOK, DirAt, DirsOK
      <4>2. file <= MaxInodes
        BY <1>3 DEF OpenLock
      <4> QED
        BY <4>1, <4>2, BoundsAssumption
    <3>2. fd' = [fd EXCEPT ![p] = IF Platform = "windows" THEN NamedMutex ELSE file]
      BY <1>3 DEF OpenLock
    <3>3. pc'[p] = "wait"
      BY <1>0, <1>3 DEF OpenLock, ProcessesOK
    <3> QED
      BY <1>0, <3>1, <3>2, <3>3, SetupKinds, SetupStep, TypeParts DEF ProcessesOK, Keys, IInv
  <2> QED
    BY <2>1
<1>4. CASE AcquireLock(p)
  BY <1>0, <1>4 DEF AcquireLock, ProcessesOK
<1>5. CASE Edit(p)
  BY <1>0, <1>5 DEF Edit, ReadManifest, WriteManifest, RestoreManifest, Release, ProcessesOK
<1>6. CASE TakeMutex(p) \/ Load(p) \/ RenameAway(p) \/ UndoRenameAway(p)
  BY <1>0, <1>6 DEF TakeMutex, Load, RenameAway, UndoRenameAway, Fail, ProcessesOK
<1>7. CASE Recover(p) \/ CopyLive(p) \/ StageTree(p) \/ RenameInto(p) \/ RollBackInto(p)
           \/ DiscardPrevious(p)
  BY <1>0, <1>7 DEF Recover, CopyLive, StageTree, RenameInto, RollBackInto, DiscardPrevious,
                    ProcessesOK
<1>8. CASE FinishBehavior(p) \/ DropLive(p) \/ RenameBack(p)
  BY <1>0, <1>8 DEF FinishBehavior, DropLive, RenameBack, Fail, ProcessesOK
<1> QED
  BY <1>1, <1>2, <1>3, <1>4, <1>5, <1>6, <1>7, <1>8 DEF Step, Work, TakeLock, Install

LEMMA InvNext == IInv /\ [Next]_vars => IInv'
<1>1. ASSUME IInv, NEW p \in Procs, Step(p) PROVE IInv'
  <2>1. TypeOK'
    BY <1>1, TypeNext DEF IInv, Next, Step
  <2>2. ASSUME NEW q \in Procs
        PROVE  /\ (pc[q] = "wait" \/ HoldsManifestLock(q) => fd[q] \in Keys)'
               /\ (HoldsManifestLock(q) => owner[fd[q]] = q)'
               /\ (HoldsMutex(q) => mutex = q)'
    <3>1. CASE q = p
      BY <1>1, <3>1, OwnStep, SetupStep
    <3>2. CASE q # p
      BY <1>1, <3>2, OthersKeep, SetupStep
      DEF IInv, OwnsWhatItOpened, OwnsTheMutex, HoldsManifestLock, HoldsMutex
    <3> QED
      BY <3>1, <3>2
  <2> QED
    BY <2>1, <2>2 DEF IInv, OwnsWhatItOpened, OwnsTheMutex
<1>2. ASSUME IInv, UNCHANGED vars PROVE IInv'
  <2>1. TypeOK'
    BY <1>2, TypeNext DEF IInv
  <2> QED
    BY <1>2, <2>1 DEF IInv, OwnsWhatItOpened, OwnsTheMutex, HoldsManifestLock, HoldsMutex,
                      vars, procVars, Keys, Platform
<1> QED
  BY <1>1, <1>2 DEF Next, Step

LEMMA Invariant == Spec => []IInv
  BY InvInit, InvNext, PTL DEF Spec

\* Two installs never overlap, on either platform and however many processes
\* there are (ConstitutionWriterLock, whose file is outside of `.spaex/`).
THEOREM InstallsExclude == Spec => []InstallsNeverOverlap
<1>1. IInv => InstallsNeverOverlap
  BY DEF IInv, OwnsTheMutex, InstallsNeverOverlap
<1> QED
  BY <1>1, Invariant, PTL

\* On Windows, where every lock path leads to the mutex named after the
\* canonical path, the manifest lock admits one process at a time: the renames
\* of an install do not touch it (ManifestLockContext._acquire_windows).
THEOREM NamedMutexExcludes == Spec => []ManifestExclusion
<1>1. IInv => ManifestExclusion
  <2> SUFFICES ASSUME IInv, Platform = "windows", NEW p \in Procs, NEW q \in Procs,
                      HoldsManifestLock(p), HoldsManifestLock(q)
               PROVE  p = q
    BY DEF ManifestExclusion, OneHolder
  <2>1. fd[p] = NamedMutex /\ fd[q] = NamedMutex
    BY DEF IInv, OwnsWhatItOpened, Keys
  <2> QED
    BY <2>1 DEF IInv, OwnsWhatItOpened
<1> QED
  BY <1>1, Invariant, PTL

\* On POSIX two processes under the manifest lock hold locks of two different
\* files: the exclusion fails by the replacement of the lock file, and by
\* nothing else (ManifestLockContext._acquire_posix).
SameFileExcludes ==
    \A p, q \in Procs :
        HoldsManifestLock(p) /\ HoldsManifestLock(q) /\ fd[p] = fd[q] => p = q

THEOREM OneHolderPerFile == Spec => []SameFileExcludes
<1>1. IInv => SameFileExcludes
  BY DEF IInv, OwnsWhatItOpened, SameFileExcludes
<1> QED
  BY <1>1, Invariant, PTL

--------------------------------------------------------------------------------
(* Directories, once more: a name is free, or leads to a directory *)

WholeDir(d) == d.exists \/ d = AbsentDir
WholeDirs == WholeDir(canon) /\ WholeDir(prev) /\ WholeDir(next) /\ WholeDir(backup)

LEMMA FixedDirs ==
  /\ ~AbsentDir.exists /\ AbsentDir.lock = None /\ AbsentDir.manifest = NoFile
  /\ EmptyDir.exists /\ EmptyDir.lock = None /\ EmptyDir.manifest = NoFile
  BY DEF AbsentDir, EmptyDir

SameButLock(d, e) == e.exists = d.exists /\ e.manifest = d.manifest /\ e.sealed = d.sealed
SameButManifest(d, e) == e.lock = d.lock /\ e.sealed = d.sealed

LEMMA DirOpen ==
  ASSUME NEW d \in Dirs, NEW l, NEW e, e = [d EXCEPT !.lock = l]
  PROVE  SameButLock(d, e) /\ e.lock = l
  BY DEF Dirs, SameButLock

LEMMA DirSeal ==
  ASSUME NEW d \in Dirs, NEW e, e = [d EXCEPT !.exists = TRUE, !.sealed = TRUE]
  PROVE  e.exists /\ e.sealed /\ e.lock = d.lock /\ e.manifest = d.manifest
  BY DEF Dirs

LEMMA NoFileAgain == [AbsentDir EXCEPT !.manifest = NoFile] = AbsentDir
<1> DEFINE again == [AbsentDir EXCEPT !.manifest = NoFile]
<1>1. again = [x \in DOMAIN AbsentDir |-> IF x = "manifest" THEN NoFile ELSE AbsentDir[x]]
  OBVIOUS
<1>2. again = [x \in DOMAIN AbsentDir |-> AbsentDir[x]]
  BY <1>1 DEF AbsentDir
<1>3. AbsentDir = [x \in DOMAIN AbsentDir |-> AbsentDir[x]]
  BY DEF AbsentDir
<1> QED
  BY <1>2, <1>3

\* What the two steps of a process without the lock do to the directories.
LEMMA Made ==
  ASSUME NEW p \in Procs, MakeParent(p)
  PROVE  /\ next' = next /\ backup' = backup /\ inodes' = inodes
         /\ \/ canon' = canon /\ prev' = prev
            \/ canon' = canon /\ prev' = EmptyDir /\ ~prev.exists /\ intruded'
            \/ prev' = prev /\ canon' = EmptyDir /\ ~canon.exists /\ intruded'
<1>1. CASE path[p] = "canon"
  BY <1>1 DEF MakeParent, SetDirAt, DirAt
<1>2. CASE path[p] # "canon"
  BY <1>2 DEF MakeParent, SetDirAt, DirAt
<1> QED
  BY <1>1, <1>2

LockFound(d) == IF d.lock # None THEN d.lock ELSE inodes + 1

LEMMA Opened ==
  ASSUME TypeOK, NEW p \in Procs, OpenLock(p)
  PROVE  /\ next' = next /\ backup' = backup /\ intruded' = intruded
         /\ SameButLock(canon, canon') /\ SameButLock(prev, prev')
         /\ LET d == DirAt(path[p])
            IN  /\ d.exists
                /\ inodes' = IF d.lock # None THEN inodes ELSE inodes + 1
                /\ fd' = [fd EXCEPT ![p] = IF Platform = "windows" THEN NamedMutex ELSE LockFound(d)]
         /\ \/ path[p] = "canon" /\ prev' = prev /\ canon.exists /\ canon'.lock = LockFound(canon)
            \/ path[p] # "canon" /\ canon' = canon /\ prev.exists /\ prev'.lock = LockFound(prev)
<1>0. canon \in Dirs /\ prev \in Dirs
  BY TypeParts DEF DirsOK
<1>1. /\ next' = next /\ backup' = backup /\ intruded' = intruded
      /\ LET d == DirAt(path[p])
         IN  /\ d.exists
             /\ inodes' = IF d.lock # None THEN inodes ELSE inodes + 1
             /\ SetDirAt(path[p], [d EXCEPT !.lock = LockFound(d)])
             /\ fd' = [fd EXCEPT ![p] = IF Platform = "windows" THEN NamedMutex ELSE LockFound(d)]
  BY DEF OpenLock, LockFound
<1>2. CASE path[p] = "canon"
  <2>1. canon' = [canon EXCEPT !.lock = LockFound(canon)] /\ prev' = prev /\ canon.exists
    BY <1>1, <1>2 DEF SetDirAt, DirAt
  <2> QED
    <3>1. SameButLock(canon, canon') /\ canon'.lock = LockFound(canon)
      BY <1>0, <2>1, DirOpen, Zenon
    <3> QED
      BY <1>1, <1>2, <2>1, <3>1 DEF SameButLock
<1>3. CASE path[p] # "canon"
  <2>1. prev' = [prev EXCEPT !.lock = LockFound(prev)] /\ canon' = canon /\ prev.exists
    BY <1>1, <1>3 DEF SetDirAt, DirAt
  <2> QED
    <3>1. SameButLock(prev, prev') /\ prev'.lock = LockFound(prev)
      BY <1>0, <2>1, DirOpen, Zenon
    <3> QED
      BY <1>1, <1>3, <2>1, <3>1 DEF SameButLock
<1> QED
  BY <1>2, <1>3

\* What the two steps of an editor do to the live directory.
LEMMA Written ==
  ASSUME TypeOK, NEW p \in Procs, WriteManifest(p)
  PROVE  /\ prev' = prev /\ next' = next /\ backup' = backup
         /\ canon'.exists /\ canon'.lock = canon.lock /\ canon'.sealed = canon.sealed
         /\ canon'.manifest = draft[p]
<1>1. canon \in Dirs /\ canon' = [canon EXCEPT !.exists = TRUE, !.manifest = draft[p]]
  BY TypeParts DEF WriteManifest, DirsOK
<1>2. SameButManifest(canon, canon') /\ canon'.exists /\ canon'.manifest = draft[p]
  BY <1>1, SMT DEF Dirs, SameButManifest
<1> QED
  BY <1>2 DEF WriteManifest, SameButManifest

LEMMA Restored ==
  ASSUME TypeOK, WholeDirs, NEW p \in Procs, RestoreManifest(p)
  PROVE  /\ prev' = prev /\ next' = next /\ backup' = backup
         /\ canon'.lock = canon.lock /\ canon'.sealed = canon.sealed
         /\ canon'.manifest = saved[p]
         /\ canon.exists => canon'.exists
         /\ canon'.exists \/ canon' = canon
<1>0. canon \in Dirs
  BY TypeParts DEF DirsOK
<1>1. CASE saved[p] = NoFile
  <2>1. canon' = [canon EXCEPT !.manifest = NoFile]
    BY <1>1 DEF RestoreManifest
  <2>2. canon = AbsentDir => canon' = canon
    BY <2>1, NoFileAgain
  <2>3. SameButManifest(canon, canon') /\ canon'.exists = canon.exists /\ canon'.manifest = NoFile
    BY <1>0, <2>1, SMT DEF Dirs, SameButManifest
  <2> QED
    BY <1>1, <2>2, <2>3 DEF RestoreManifest, WholeDirs, WholeDir, SameButManifest
<1>2. CASE saved[p] # NoFile
  <2>1. canon' = [canon EXCEPT !.exists = TRUE, !.manifest = saved[p]]
    BY <1>2 DEF RestoreManifest
  <2>2. SameButManifest(canon, canon') /\ canon'.exists /\ canon'.manifest = saved[p]
    BY <1>0, <2>1, SMT DEF Dirs, SameButManifest
  <2> QED
    BY <2>2 DEF RestoreManifest, SameButManifest
<1> QED
  BY <1>1, <1>2

LEMMA Staged ==
  ASSUME TypeOK, NEW p \in Procs, StageTree(p)
  PROVE  /\ canon' = canon /\ backup' = backup
         /\ next'.exists /\ next'.sealed /\ next'.lock = canon.lock /\ next'.manifest = canon.manifest
         /\ prev' = IF canon.exists THEN AbsentDir ELSE prev
<1>1. canon \in Dirs /\ next' = [canon EXCEPT !.exists = TRUE, !.sealed = TRUE]
  BY TypeParts DEF StageTree, DirsOK
<1> QED
  BY <1>1, DirSeal DEF StageTree

LEMMA WholeStep ==
  ASSUME TypeOK, WholeDirs, NEW p \in Procs, Step(p)
  PROVE  WholeDirs'
<1> USE FixedDirs DEF WholeDirs, WholeDir
<1>0. canon \in Dirs /\ prev \in Dirs /\ next \in Dirs /\ backup \in Dirs
  BY TypeParts DEF DirsOK
<1>1. CASE MakeParent(p)
  BY <1>1, Made
<1>2. CASE OpenLock(p)
  BY <1>2, Opened DEF SameButLock
<1>3. CASE WriteManifest(p) \/ RestoreManifest(p)
  BY <1>3, Written, Restored
<1>4. CASE CopyLive(p)
  <2>1. CASE canon.lock = None
    BY <1>4, <2>1 DEF CopyLive
  <2>2. CASE canon.lock # None
    BY <1>0, <1>4, <2>2, DirOpen DEF CopyLive, SameButLock
  <2> QED
    BY <2>1, <2>2
<1>5. CASE StageTree(p)
  BY <1>5, Staged
<1>6. CASE Recover(p) \/ RenameAway(p) \/ RenameInto(p) \/ RollBackInto(p)
           \/ UndoRenameAway(p) \/ DiscardPrevious(p) \/ FinishBehavior(p) \/ RenameBack(p)
           \/ Crash(p)
  BY <1>6 DEF Recover, RenameAway, RenameInto, RollBackInto, UndoRenameAway, DiscardPrevious,
              FinishBehavior, RenameBack, Crash
<1>8. CASE DropLive(p)
  BY <1>0, <1>8, Remaining DEF DropLive
<1>7. CASE StartCommand(p) \/ ResolveCanonical(p) \/ ResolveRecovery(p) \/ OpenFails(p)
           \/ AcquireLock(p) \/ TimeOut(p) \/ ReadManifest(p) \/ Release(p)
           \/ TakeMutex(p) \/ Load(p)
  BY <1>7 DEF StartCommand, ResolveCanonical, ResolveRecovery, OpenFails, AcquireLock,
              TimeOut, ReadManifest, Release, TakeMutex, Load, dirs
<1> QED
  BY <1>1, <1>2, <1>3, <1>4, <1>5, <1>6, <1>7, <1>8 DEF Step, Work, TakeLock, Edit, Install

--------------------------------------------------------------------------------
(* The lock file, and what a kill leaves *)

\* Nothing has come between the renames of a swap, and no copy is put back.
Calm == ~KeepsBackup /\ ~intruded

FirstKey == IF Platform = "windows" THEN NamedMutex ELSE 1
FirstInode == IF inodes = 0 THEN None ELSE 1

\* Then there is one lock file at most, it goes wherever the generation goes, and
\* whoever waits for the lock or works under it has that file open.
OneLockFile ==
    /\ inodes \in {0, 1}
    /\ canon.exists \/ prev.exists
    /\ canon.exists => canon.sealed /\ canon.lock = FirstInode
    /\ prev.exists => prev.sealed /\ prev.lock = 1 /\ inodes = 1
    /\ next.exists => next.sealed /\ next.lock = 1

HasFirst(p) == pc[p] = "wait" \/ HoldsManifestLock(p) => inodes = 1 /\ fd[p] = FirstKey

\* Where the directories are while a process works under the lock: no rename of
\* its swap can fail, and it always finds a live directory to write a manifest to.
Needed == {"write", "restore", "load", "stage", "renameA", "discard", "behavior"}
Unreached == {"backup", "dropLive", "renameBack"}

InPlace(p) ==
    /\ pc[p] \notin Unreached
    /\ pc[p] \in Needed \/ (pc[p] = "mutex" /\ p \in Editors) => canon.exists
    /\ pc[p] = "renameA" => prev = AbsentDir
    /\ pc[p] \in {"renameB", "undoA"} => ~canon.exists
    /\ pc[p] \in {"discard", "undoA"} => prev.exists
    /\ pc[p] \in {"renameA", "renameB"} => next.exists

Undisturbed == OneLockFile /\ \A p \in Procs : HasFirst(p) /\ InPlace(p)

LockInv == IInv /\ WholeDirs /\ (Calm => Undisturbed)

LEMMA LockInit == Init => LockInv
<1> SUFFICES ASSUME Init PROVE LockInv
  OBVIOUS
<1>1. IInv
  BY InvInit
<1>2. PICK lock \in {None, 1} :
          /\ canon = [exists |-> TRUE, lock |-> lock, manifest |-> {}, sealed |-> TRUE]
          /\ inodes = IF lock = None THEN 0 ELSE 1
  BY DEF Init
<1>3. canon.exists /\ canon.sealed /\ canon.lock = lock
  BY <1>2
<1>4. WholeDirs
  BY <1>3 DEF Init, WholeDirs, WholeDir
<1>5. OneLockFile
  BY <1>2, <1>3, FixedDirs DEF Init, OneLockFile, FirstInode
<1>6. ASSUME NEW p \in Procs PROVE HasFirst(p) /\ InPlace(p)
  BY DEF Init, HasFirst, InPlace, HoldsManifestLock, Editing, Installing, Unreached, Needed
<1> QED
  BY <1>1, <1>4, <1>5, <1>6 DEF LockInv, Undisturbed

\* Whoever works under the lock is alone.
LEMMA CalmAlone ==
  ASSUME LockInv, Calm, NEW p \in Procs, NEW q \in Procs, q # p, HoldsManifestLock(p)
  PROVE  ~HoldsManifestLock(q)
  BY DEF LockInv, Undisturbed, HasFirst, IInv, OwnsWhatItOpened

\* A step leaves the calm only by making a directory.
LEMMA CalmBefore ==
  ASSUME TypeOK, NEW p \in Procs, Step(p), Calm'
  PROVE  Calm
<1>1. KeepsBackup' = KeepsBackup
  BY SetupStep DEF KeepsBackup
<1>2. intruded => intruded'
  <2>1. CASE TakeLock(p)
    BY <2>1 DEF TakeLock, ResolveCanonical, ResolveRecovery, MakeParent, OpenLock, OpenFails,
                AcquireLock, TimeOut, counters
  <2>2. CASE Edit(p)
    BY <2>2 DEF Edit, ReadManifest, WriteManifest, RestoreManifest, Release, counters
  <2>3. CASE Install(p)
    BY <2>3 DEF Install, TakeMutex, Recover, Load, CopyLive, StageTree, RenameAway, RenameInto,
                RollBackInto, UndoRenameAway, DiscardPrevious, FinishBehavior, DropLive,
                RenameBack, counters
  <2> QED
    BY <2>1, <2>2, <2>3 DEF Step, Work, StartCommand, Crash
<1> QED
  BY <1>1, <1>2 DEF Calm

LEMMA UndisturbedStep ==
  ASSUME LockInv, NEW p \in Procs, Step(p), Calm'
  PROVE  Undisturbed'
<1> USE DEF Unreached, Needed
<1>0. /\ Calm /\ Undisturbed /\ IInv /\ WholeDirs /\ TypeOK
      /\ HasFirst(p) /\ InPlace(p) /\ OneLockFile
      /\ ProcessesOK /\ FirstKey' = FirstKey /\ Platform' = Platform
  BY CalmBefore, SetupStep, TypeParts DEF LockInv, IInv, Undisturbed, FirstKey
<1>1. ASSUME NEW q \in Procs, q # p
      PROVE  pc'[q] = pc[q] /\ fd'[q] = fd[q] /\ HasFirst(q) /\ InPlace(q)
  BY <1>0, <1>1, OthersKeep DEF Undisturbed
\* The process does not touch the directories.
<1>2. ASSUME UNCHANGED <<canon, prev, next, inodes>>, HasFirst(p)', InPlace(p)'
      PROVE  Undisturbed'
  <2>1. OneLockFile'
    BY <1>0, <1>2 DEF OneLockFile, FirstInode
  <2>2. ASSUME NEW q \in Procs, q # p PROVE HasFirst(q)' /\ InPlace(q)'
    BY <1>0, <1>1, <1>2, <2>2 DEF HasFirst, InPlace, HoldsManifestLock
  <2> QED
    BY <1>2, <2>1, <2>2 DEF Undisturbed
\* The process works under the lock: nobody else is affected.
<1>3. ASSUME HoldsManifestLock(p), inodes' = inodes, OneLockFile', fd'[p] = fd[p], InPlace(p)'
      PROVE  Undisturbed'
  <2>1. ASSUME NEW q \in Procs, q # p PROVE HasFirst(q)' /\ InPlace(q)'
    <3>1. ~HoldsManifestLock(q)
      BY <1>0, <1>3, <2>1, CalmAlone
    <3> QED
      BY <1>0, <1>1, <1>3, <2>1, <3>1
      DEF HasFirst, InPlace, HoldsManifestLock, Editing, Installing
  <2>2. HasFirst(p)'
    BY <1>0, <1>3 DEF HasFirst
  <2> QED
    BY <1>3, <2>1, <2>2 DEF Undisturbed
<1> USE DEF HoldsManifestLock, Editing, Installing
<1>4. CASE StartCommand(p) \/ ResolveCanonical(p) \/ ResolveRecovery(p) \/ Crash(p)
           \/ OpenFails(p) \/ TimeOut(p) \/ Release(p)
  <2>1. UNCHANGED <<canon, prev, next, inodes>>
        /\ pc'[p] \in {"idle", "resolve", "recovery", "mkdir"}
    BY <1>0, <1>4 DEF StartCommand, ResolveCanonical, ResolveRecovery, Crash, OpenFails, TimeOut,
                      Release, Go, Reset, ProcessesOK, dirs, counters
  <2> QED
    BY <1>2, <2>1 DEF HasFirst, InPlace
<1>5. CASE MakeParent(p)
  <2>1. UNCHANGED <<canon, prev, next, inodes>> /\ pc'[p] = "open"
    BY <1>0, <1>5, Made DEF MakeParent, Go, ProcessesOK, Calm
  <2> QED
    BY <1>2, <2>1 DEF HasFirst, InPlace
<1>6. CASE AcquireLock(p) \/ ReadManifest(p)
  <2>1. /\ UNCHANGED <<canon, prev, next, inodes>> /\ fd'[p] = fd[p]
        /\ \/ pc[p] = "wait" /\ pc'[p] = IF p \in Editors THEN "read" ELSE "mutex"
           \/ pc[p] = "read" /\ pc'[p] = IF canon.manifest = NoFile THEN "release" ELSE "write"
    BY <1>0, <1>6 DEF AcquireLock, ReadManifest, Go, ProcessesOK, dirs, counters
  <2>2. canon.manifest # NoFile => canon.exists
    BY <1>0, FixedDirs DEF WholeDirs, WholeDir
  <2> QED
    BY <1>0, <1>2, <2>1, <2>2 DEF HasFirst, InPlace
<1>7. CASE TakeMutex(p) \/ Load(p) \/ FinishBehavior(p)
  <2>1. /\ UNCHANGED <<canon, prev, next, inodes>> /\ fd'[p] = fd[p]
        /\ \/ pc[p] = "mutex" /\ pc'[p] = "recover"
           \/ pc[p] = "load" /\ pc'[p] = "stage"
           \/ pc[p] = "behavior" /\ pc'[p] = "release"
           \/ pc[p] \in {"mutex", "load", "behavior"} /\ pc'[p] = IF p \in Editors THEN "restore" ELSE "release"
    BY <1>0, <1>7 DEF TakeMutex, Load, FinishBehavior, Fail, Go, ProcessesOK, Calm, dirs, counters
  <2> QED
    BY <1>0, <1>2, <2>1 DEF HasFirst, InPlace
<1>8. CASE OpenLock(p)
  <2> USE DEF SameButLock, LockFound
  <2>1. /\ next' = next /\ canon'.exists = canon.exists /\ canon'.sealed = canon.sealed
        /\ prev' = prev \/ prev.exists
        /\ prev'.exists = prev.exists /\ prev'.sealed = prev.sealed
        /\ pc[p] = "open" /\ pc'[p] = "wait"
    BY <1>0, <1>8, Opened DEF OpenLock, Go, ProcessesOK
  <2>3. CASE path[p] = "canon"
    <3>1. /\ prev' = prev /\ canon.exists /\ canon'.lock = LockFound(canon)
          /\ inodes' = IF canon.lock # None THEN inodes ELSE inodes + 1
          /\ fd' = [fd EXCEPT ![p] = IF Platform = "windows" THEN NamedMutex ELSE LockFound(canon)]
      BY <1>0, <1>8, <2>3, Opened DEF DirAt
    <3>2. inodes' = 1 /\ LockFound(canon) = 1
      BY <1>0, <3>1, MarksAssumption, BoundsAssumption DEF OneLockFile, FirstInode
    <3>3. OneLockFile'
      BY <1>0, <2>1, <3>1, <3>2 DEF OneLockFile, FirstInode
    <3>4. HasFirst(p)' /\ InPlace(p)'
      BY <1>0, <2>1, <3>1, <3>2 DEF HasFirst, InPlace, FirstKey, ProcessesOK
    <3>5. ASSUME NEW q \in Procs, q # p PROVE HasFirst(q)' /\ InPlace(q)'
      BY <1>0, <1>1, <2>1, <3>1, <3>2, <3>5 DEF HasFirst, InPlace
    <3> QED
      BY <3>3, <3>4, <3>5 DEF Undisturbed
  <2>4. CASE path[p] # "canon"
    <3>1. /\ canon' = canon /\ prev.exists /\ prev'.lock = LockFound(prev)
          /\ inodes' = IF prev.lock # None THEN inodes ELSE inodes + 1
          /\ fd' = [fd EXCEPT ![p] = IF Platform = "windows" THEN NamedMutex ELSE LockFound(prev)]
      BY <1>0, <1>8, <2>4, Opened DEF DirAt
    <3>2. inodes' = 1 /\ inodes = 1 /\ LockFound(prev) = 1
      BY <1>0, <3>1, MarksAssumption, BoundsAssumption DEF OneLockFile, FirstInode
    <3>3. OneLockFile'
      BY <1>0, <2>1, <3>1, <3>2 DEF OneLockFile, FirstInode
    <3>4. HasFirst(p)' /\ InPlace(p)'
      BY <1>0, <2>1, <3>1, <3>2 DEF HasFirst, InPlace, FirstKey, ProcessesOK
    <3>5. ASSUME NEW q \in Procs, q # p PROVE HasFirst(q)' /\ InPlace(q)'
      BY <1>0, <1>1, <2>1, <3>1, <3>2, <3>5, FixedDirs DEF HasFirst, InPlace
    <3> QED
      BY <3>3, <3>4, <3>5 DEF Undisturbed
  <2> QED
    BY <2>3, <2>4
<1>9. CASE WriteManifest(p) \/ RestoreManifest(p)
  <2>1. /\ prev' = prev /\ next' = next /\ inodes' = inodes
        /\ canon'.exists /\ canon'.lock = canon.lock /\ canon'.sealed = canon.sealed
        /\ pc[p] \in {"write", "restore"} /\ pc'[p] \in {"mutex", "release"} /\ fd'[p] = fd[p]
    BY <1>0, <1>9, Written, Restored
    DEF WriteManifest, RestoreManifest, Go, ProcessesOK, counters, InPlace
  <2> QED
    BY <1>0, <1>3, <2>1 DEF OneLockFile, FirstInode, InPlace
<1>10. CASE Recover(p) \/ DiscardPrevious(p)
  <2>1. /\ inodes' = inodes /\ fd'[p] = fd[p]
        /\ \/ pc[p] = "recover" /\ pc'[p] = "load" /\ next' = AbsentDir
              /\ IF ~canon.exists /\ prev.exists
                   THEN canon' = prev /\ prev' = AbsentDir
                   ELSE canon' = canon /\ prev' = prev
           \/ pc[p] = "discard" /\ pc'[p] = "behavior" /\ prev' = AbsentDir
              /\ canon' = canon /\ next' = next
    BY <1>0, <1>10 DEF Recover, DiscardPrevious, Go, ProcessesOK, counters
  <2> QED
    BY <1>0, <1>3, <2>1, FixedDirs DEF OneLockFile, FirstInode, InPlace
<1>11. CASE StageTree(p)
  <2>1. /\ inodes' = inodes /\ fd'[p] = fd[p] /\ canon' = canon /\ canon.exists
        /\ next'.exists /\ next'.sealed /\ next'.lock = canon.lock /\ prev' = AbsentDir
        /\ pc[p] = "stage" /\ pc'[p] = "renameA"
    BY <1>0, <1>11, Staged DEF StageTree, Go, ProcessesOK, counters, InPlace
  <2> QED
    BY <1>0, <1>3, <2>1, FixedDirs DEF OneLockFile, FirstInode, InPlace, HasFirst
<1>12. CASE RenameAway(p)
  <2>1. /\ inodes' = inodes /\ fd'[p] = fd[p] /\ next' = next /\ next.exists
        /\ prev' = canon /\ canon' = AbsentDir /\ canon.exists
        /\ pc[p] = "renameA" /\ pc'[p] = "renameB"
    BY <1>0, <1>12 DEF RenameAway, CanRenameOnto, Go, ProcessesOK, counters, InPlace
  <2> QED
    BY <1>0, <1>3, <2>1, FixedDirs DEF OneLockFile, FirstInode, InPlace, HasFirst
<1>13. CASE RenameInto(p)
  <2>1. canon = AbsentDir
    BY <1>0, <1>13 DEF RenameInto, InPlace, WholeDirs, WholeDir
  <2>2. /\ inodes' = inodes /\ fd'[p] = fd[p] /\ prev' = prev
        /\ canon' = next /\ next' = AbsentDir /\ next.exists
        /\ pc[p] = "renameB" /\ pc'[p] = "discard"
    BY <1>0, <1>13, <2>1 DEF RenameInto, CanRenameOnto, Go, ProcessesOK, counters, InPlace
  <2> QED
    BY <1>0, <1>3, <2>2, FixedDirs DEF OneLockFile, FirstInode, InPlace, HasFirst
<1>14. CASE CopyLive(p) \/ DropLive(p) \/ RenameBack(p)
  BY <1>0, <1>14 DEF CopyLive, DropLive, RenameBack, InPlace
<1>15. CASE RollBackInto(p)
  <2>1. /\ inodes' = inodes /\ fd'[p] = fd[p] /\ prev' = prev /\ prev.exists
        /\ canon' = AbsentDir /\ next' = canon /\ canon.exists
        /\ pc[p] = "discard" /\ pc'[p] = "undoA"
    BY <1>0, <1>15 DEF RollBackInto, Go, ProcessesOK, counters, InPlace
  <2> QED
    BY <1>0, <1>3, <2>1, FixedDirs DEF OneLockFile, FirstInode, InPlace, HasFirst
<1>16. CASE UndoRenameAway(p)
  <2>1. canon = AbsentDir /\ prev.exists /\ pc[p] = "undoA"
    BY <1>0, <1>16 DEF UndoRenameAway, InPlace, WholeDirs, WholeDir
  <2>2. /\ inodes' = inodes /\ fd'[p] = fd[p]
        /\ canon' = prev /\ prev' = AbsentDir /\ next' = AbsentDir
        /\ pc'[p] = IF p \in Editors THEN "restore" ELSE "release"
    BY <1>0, <1>16, <2>1 DEF UndoRenameAway, CanRenameOnto, Fail, Go, ProcessesOK, counters
  <2> QED
    BY <1>0, <1>3, <2>1, <2>2, FixedDirs DEF OneLockFile, FirstInode, InPlace, HasFirst
<1> QED
  BY <1>4, <1>5, <1>6, <1>7, <1>8, <1>9, <1>10, <1>11, <1>12, <1>13, <1>14, <1>15, <1>16
  DEF Step, Work, TakeLock, Edit, Install

LEMMA LockNext == LockInv /\ [Next]_vars => LockInv'
<1>1. ASSUME LockInv, NEW p \in Procs, Step(p) PROVE LockInv'
  <2>1. IInv'
    BY <1>1, InvNext DEF LockInv, Next, Step
  <2>2. WholeDirs'
    BY <1>1, WholeStep DEF LockInv, IInv
  <2>3. Calm' => Undisturbed'
    BY <1>1, UndisturbedStep
  <2> QED
    BY <2>1, <2>2, <2>3 DEF LockInv
<1>2. ASSUME LockInv, UNCHANGED vars PROVE LockInv'
  <2>1. IInv'
    BY <1>2, InvNext DEF LockInv
  <2>2. UNCHANGED <<setup, canon, prev, next, backup, inodes, intruded, pc, fd>>
    BY <1>2 DEF vars, dirs, procVars, counters
  <2> QED
    BY <1>2, <2>1, <2>2
    DEF LockInv, WholeDirs, WholeDir, Calm, Undisturbed, OneLockFile, FirstInode, HasFirst,
        FirstKey, InPlace, HoldsManifestLock, Platform, KeepsBackup
<1> QED
  BY <1>1, <1>2 DEF Next, Step

LEMMA LockInvariant == Spec => []LockInv
  BY LockInit, LockNext, PTL DEF Spec

\* The lock file is created once and goes with the generation through every swap,
\* whoever is killed, until a process makes a directory that a swap left absent or
\* a behavior rollback puts a copy in place (_preserve_manifest_lock).
THEOREM LockFilePermanent == Spec => []LockFileIsPermanent
<1>1. LockInv => LockFileIsPermanent
  <2> SUFFICES ASSUME LockInv, Calm PROVE canon.lock \in {None, 1}
    BY DEF LockFileIsPermanent, Calm
  <2> QED
    BY FixedDirs DEF LockInv, Undisturbed, OneLockFile, FirstInode, WholeDirs, WholeDir
<1> QED
  BY <1>1, LockInvariant, PTL

\* A published generation is live or restorable from `.prev`, wherever an install
\* was killed (publish_generation and restore_previous_generation).
THEOREM GenerationIsRecoverable == Spec => []GenerationRecoverable
<1>1. LockInv => GenerationRecoverable
  BY DEF LockInv, Undisturbed, OneLockFile, Calm, GenerationRecoverable
<1> QED
  BY <1>1, LockInvariant, PTL

\* As long as no directory was made in a swap's way the manifest lock is one of its
\* holder alone on POSIX as well (ManifestLockContext).
CalmExclusion == Calm => OneHolder

THEOREM CalmExcludes == Spec => []CalmExclusion
<1>1. LockInv => CalmExclusion
  BY CalmAlone DEF CalmExclusion, OneHolder
<1> QED
  BY <1>1, LockInvariant, PTL

--------------------------------------------------------------------------------
(* The edits *)

\* A manifest that may be live again holds every edit that was reported.
Carry(m) == m # NoFile => committed \subseteq m

HasLive == {"backup", "stage", "renameA", "discard", "behavior", "dropLive"}
HasBackup == {"stage", "renameA", "renameB", "undoA", "discard", "behavior", "dropLive",
              "renameBack"}
HasEdit == {"mutex", "recover", "load"} \cup HasLive

\* Where an install has the manifests that may be live again.
InstallCarries(p) ==
    /\ pc[p] \in HasLive => canon.exists
    /\ pc[p] \in {"renameB", "discard", "undoA"} => Carry(prev.manifest)
    /\ pc[p] \in {"behavior", "dropLive", "renameBack"} => prev.manifest = NoFile
    /\ pc[p] \in {"renameA", "renameB"} => next.exists /\ Carry(next.manifest)
    /\ pc[p] \in HasBackup /\ KeepsBackup => Carry(backup.manifest)
    /\ pc[p] \in {"dropLive", "renameBack"} => KeepsBackup

\* Where an editor has its own edit, until it is reported or undone.
EditCarries(p) ==
    /\ ~HoldsManifestLock(p) \/ pc[p] = "read" => draft[p] = NoFile
    /\ pc[p] = "write" => /\ canon.exists /\ canon.manifest # NoFile
                          /\ draft[p] = canon.manifest \cup {p}
    /\ pc[p] = "restore" => failed[p] /\ Carry(saved[p])
    /\ p \in Editors =>
        /\ pc[p] = "mutex" \/ pc[p] \in Installing => Carry(saved[p]) /\ p \in draft[p]
        /\ pc[p] \in HasEdit => canon.exists /\ canon.manifest = draft[p]
        /\ pc[p] \in {"renameA", "renameB"} => next.manifest = draft[p]
        /\ pc[p] \in HasBackup /\ KeepsBackup => backup.manifest = draft[p]
        /\ pc[p] = "release" /\ ~failed[p] /\ draft[p] # NoFile =>
              p \in draft[p] /\ canon.exists /\ canon.manifest = draft[p]

LiveCarries == Carry(canon.manifest) /\ (~canon.exists => Carry(prev.manifest))

EditsCarried == LiveCarries /\ \A p \in Procs : InstallCarries(p) /\ EditCarries(p)

EditInv == IInv /\ WholeDirs /\ (Platform = "windows" => EditsCarried)

LEMMA EditInit == Init => EditInv
<1> SUFFICES ASSUME Init PROVE EditInv
  OBVIOUS
<1>1. IInv /\ WholeDirs
  BY LockInit DEF LockInv
<1>2. LiveCarries
  BY DEF Init, LiveCarries, Carry
<1>3. ASSUME NEW p \in Procs PROVE InstallCarries(p) /\ EditCarries(p)
  BY DEF Init, InstallCarries, EditCarries, HasLive, HasBackup, HasEdit, HoldsManifestLock,
         Editing, Installing
<1> QED
  BY <1>1, <1>2, <1>3 DEF EditInv, EditsCarried

LEMMA NamedAlone ==
  ASSUME EditInv, Platform = "windows", NEW p \in Procs, NEW q \in Procs, q # p,
         HoldsManifestLock(p)
  PROVE  ~HoldsManifestLock(q)
<1>1. fd[p] = NamedMutex \/ ~HoldsManifestLock(q)
  BY DEF EditInv, IInv, OwnsWhatItOpened, Keys
<1>2. fd[q] = NamedMutex \/ ~HoldsManifestLock(q)
  BY DEF EditInv, IInv, OwnsWhatItOpened, Keys
<1> QED
  BY <1>1, <1>2 DEF EditInv, IInv, OwnsWhatItOpened

\* What is a process's own stays as it is while another one steps.
LEMMA OwnKept ==
  ASSUME TypeOK, NEW p \in Procs, Step(p), NEW q \in Procs, q # p
  PROVE  draft'[q] = draft[q] /\ saved'[q] = saved[q] /\ failed'[q] = failed[q]
<1> USE DEF Go, Reset, Fail
<1>0. ProcessesOK
  BY TypeParts
<1>1. CASE StartCommand(p) \/ Crash(p)
  BY <1>0, <1>1 DEF StartCommand, Crash, ProcessesOK
<1>2. CASE TakeLock(p)
  BY <1>0, <1>2 DEF TakeLock, ResolveCanonical, ResolveRecovery, MakeParent, OpenLock,
                    OpenFails, AcquireLock, TimeOut, ProcessesOK
<1>3. CASE Edit(p)
  BY <1>0, <1>3 DEF Edit, ReadManifest, WriteManifest, RestoreManifest, Release, ProcessesOK
<1>4. CASE Install(p)
  BY <1>0, <1>4 DEF Install, TakeMutex, Recover, Load, CopyLive, StageTree, RenameAway, RenameInto,
                    RollBackInto, UndoRenameAway, DiscardPrevious, FinishBehavior, DropLive, RenameBack,
                    ProcessesOK
<1> QED
  BY <1>1, <1>2, <1>3, <1>4 DEF Step, Work

\* Only Release reports an edit.
LEMMA ReportedKept ==
  ASSUME NEW p \in Procs, Step(p), ~Release(p)
  PROVE  committed' = committed
<1>1. CASE StartCommand(p) \/ Crash(p)
  BY <1>1 DEF StartCommand, Crash
<1>2. CASE TakeLock(p)
  BY <1>2 DEF TakeLock, ResolveCanonical, ResolveRecovery, MakeParent, OpenLock,
              OpenFails, AcquireLock, TimeOut
<1>3. CASE Edit(p)
  BY <1>3 DEF Edit, ReadManifest, WriteManifest, RestoreManifest
<1>4. CASE Install(p)
  BY <1>4 DEF Install, TakeMutex, Recover, Load, CopyLive, StageTree, RenameAway, RenameInto,
              RollBackInto, UndoRenameAway, DiscardPrevious, FinishBehavior, DropLive, RenameBack
<1> QED
  BY <1>1, <1>2, <1>3, <1>4 DEF Step, Work

LEMMA CarriedStep ==
  ASSUME EditInv, Platform = "windows", NEW p \in Procs, Step(p)
  PROVE  EditsCarried'
<1> USE DEF HasLive, HasBackup, HasEdit
<1>0. /\ IInv /\ WholeDirs /\ TypeOK /\ LiveCarries /\ InstallCarries(p) /\ EditCarries(p)
      /\ ProcessesOK /\ Platform' = Platform /\ KeepsBackup' = KeepsBackup
  BY SetupStep, TypeParts DEF EditInv, IInv, EditsCarried, KeepsBackup
<1>1. ASSUME NEW q \in Procs, q # p
      PROVE  /\ pc'[q] = pc[q] /\ draft'[q] = draft[q] /\ saved'[q] = saved[q]
             /\ failed'[q] = failed[q]
             /\ InstallCarries(q) /\ EditCarries(q)
  BY <1>0, <1>1, OthersKeep, OwnKept DEF EditInv, EditsCarried
\* The process works under the lock: nobody else is affected.
<1>2. ASSUME HoldsManifestLock(p), LiveCarries', InstallCarries(p)', EditCarries(p)'
      PROVE  EditsCarried'
  <2>1. ASSUME NEW q \in Procs, q # p PROVE InstallCarries(q)' /\ EditCarries(q)'
    <3>1. ~HoldsManifestLock(q)
      BY <1>2, <2>1, NamedAlone
    <3> QED
      BY <1>1, <2>1, <3>1
      DEF InstallCarries, EditCarries, HoldsManifestLock, Editing, Installing
  <2> QED
    BY <1>2, <2>1 DEF EditsCarried
\* The process may make a directory, or a lock file in it.
<1>3. ASSUME committed' = committed, next' = next,
             backup' = backup \/ mutex = p,
             canon.exists => canon'.exists /\ canon'.manifest = canon.manifest,
             ~canon.exists => canon'.manifest = NoFile,
             prev'.manifest = prev.manifest,
             pc'[p] \notin {"mutex", "release"} \cup Editing \cup Installing,
             draft'[p] = NoFile
      PROVE  EditsCarried'
  <2>1. LiveCarries'
    BY <1>0, <1>3 DEF LiveCarries, Carry
  <2>2. InstallCarries(p)' /\ EditCarries(p)'
    BY <1>3 DEF InstallCarries, EditCarries, HoldsManifestLock, Editing, Installing
  <2>3. ASSUME NEW q \in Procs, q # p PROVE InstallCarries(q)' /\ EditCarries(q)'
    <3>0. pc[q] \in HasBackup => backup' = backup
      BY <1>0, <1>3, <2>3 DEF IInv, OwnsTheMutex, HoldsMutex, Installing
    <3>1. InstallCarries(q)'
      BY <1>0, <1>1, <1>3, <2>3, <3>0 DEF InstallCarries, Carry
    <3>2. EditCarries(q)'
      BY <1>0, <1>1, <1>3, <2>3, <3>0 DEF EditCarries, Carry, HoldsManifestLock
    <3> QED
      BY <3>1, <3>2
  <2> QED
    BY <2>1, <2>2, <2>3 DEF EditsCarried
\* The process leaves the directories alone, and nothing is reported.
<1>4. ASSUME UNCHANGED <<canon, prev, next, backup, committed>>,
             InstallCarries(p)', EditCarries(p)'
      PROVE  EditsCarried'
  <2>1. ASSUME NEW q \in Procs, q # p PROVE InstallCarries(q)' /\ EditCarries(q)'
    BY <1>0, <1>1, <1>4, <2>1 DEF InstallCarries, EditCarries, Carry, HoldsManifestLock
  <2> QED
    BY <1>0, <1>4, <2>1 DEF EditsCarried, LiveCarries, Carry
\* An exception inside the install.
<1>5. ASSUME Fail(p), pc[p] = "mutex" \/ pc[p] \in Installing, LiveCarries',
             UNCHANGED <<draft, saved, committed>>
      PROVE  EditsCarried'
  <2>1. pc'[p] = (IF p \in Editors THEN "restore" ELSE "release") /\ failed'[p]
    BY <1>0, <1>5 DEF Fail, Go, ProcessesOK
  <2>2. InstallCarries(p)'
    BY <2>1 DEF InstallCarries
  <2>3. EditCarries(p)'
    BY <1>0, <1>5, <2>1 DEF EditCarries, Carry, HoldsManifestLock, Editing, Installing
  <2> QED
    BY <1>2, <1>5, <2>2, <2>3 DEF HoldsManifestLock
<1>6. CASE StartCommand(p) \/ ResolveCanonical(p) \/ ResolveRecovery(p) \/ Crash(p)
           \/ OpenFails(p) \/ TimeOut(p)
  <2>1. /\ UNCHANGED <<canon, prev, next, committed>>
        /\ backup' = backup \/ mutex = p
        /\ pc'[p] \in {"idle", "resolve", "recovery", "mkdir"}
        /\ \/ draft'[p] = draft[p] /\ pc[p] \in {"idle", "resolve", "recovery"}
           \/ draft'[p] = NoFile
    BY <1>0, <1>6, FixedDirs
    DEF StartCommand, ResolveCanonical, ResolveRecovery, Crash, OpenFails, TimeOut,
        Go, Reset, ProcessesOK, dirs
  <2>2. draft'[p] = NoFile
    BY <1>0, <2>1 DEF EditCarries, HoldsManifestLock, Editing, Installing
  <2> QED
    BY <1>0, <1>3, <2>1, <2>2, FixedDirs DEF WholeDirs, WholeDir, Editing, Installing
<1>7. CASE MakeParent(p) \/ OpenLock(p)
  <2>1. /\ pc'[p] \in {"open", "wait"} /\ draft' = draft /\ committed' = committed
        /\ pc[p] \in {"mkdir", "open"}
    BY <1>0, <1>7 DEF MakeParent, OpenLock, Go, ProcessesOK
  <2>2. draft'[p] = NoFile
    BY <1>0, <2>1 DEF EditCarries, HoldsManifestLock, Editing, Installing
  <2>3. /\ next' = next /\ backup' = backup
        /\ canon.exists => canon'.exists /\ canon'.manifest = canon.manifest
        /\ ~canon.exists => canon'.manifest = NoFile
        /\ prev'.manifest = prev.manifest
    <3>1. /\ ~canon.exists => canon.manifest = NoFile
          /\ ~prev.exists => prev.manifest = NoFile
      BY <1>0, FixedDirs DEF WholeDirs, WholeDir
    <3>2. CASE MakeParent(p)
      BY <3>1, <3>2, Made, FixedDirs
    <3>3. CASE OpenLock(p)
      BY <1>0, <3>1, <3>3, Opened DEF SameButLock
    <3> QED
      BY <1>7, <3>2, <3>3
  <2> QED
    BY <1>3, <2>1, <2>2, <2>3 DEF Editing, Installing
<1>8. CASE AcquireLock(p)
  <2>1. /\ UNCHANGED <<canon, prev, next, backup, committed, draft>> /\ pc[p] = "wait"
        /\ pc'[p] = IF p \in Editors THEN "read" ELSE "mutex"
    BY <1>0, <1>8 DEF AcquireLock, Go, ProcessesOK, dirs
  <2>2. draft'[p] = NoFile
    BY <1>0, <2>1 DEF EditCarries, HoldsManifestLock, Editing, Installing
  <2> QED
    BY <1>4, <2>1, <2>2 DEF InstallCarries, EditCarries, HoldsManifestLock, Editing, Installing
<1> USE DEF HoldsManifestLock, Editing, Installing
<1>9. CASE ReadManifest(p)
  <2>1. UNCHANGED <<canon, prev, next, backup, committed>> /\ pc[p] = "read"
    BY <1>9 DEF ReadManifest, dirs
  <2>2. CASE canon.manifest = NoFile
    <3>1. pc'[p] = "release" /\ draft'[p] = NoFile
      BY <1>0, <1>9, <2>2 DEF ReadManifest, Go, ProcessesOK, EditCarries
    <3> QED
      BY <1>4, <2>1, <3>1 DEF InstallCarries, EditCarries
  <2>3. CASE canon.manifest # NoFile
    <3>1. pc'[p] = "write" /\ draft'[p] = canon.manifest \cup {p}
      BY <1>0, <1>9, <2>3 DEF ReadManifest, Go, ProcessesOK
    <3>2. canon.exists
      BY <1>0, <2>3, FixedDirs DEF WholeDirs, WholeDir
    <3> QED
      BY <1>4, <2>1, <2>3, <3>1, <3>2 DEF InstallCarries, EditCarries
  <2> QED
    BY <2>2, <2>3
<1>10. CASE WriteManifest(p)
  <2>1. /\ pc[p] = "write" /\ pc'[p] = "mutex" /\ draft'[p] = draft[p] /\ committed' = committed
        /\ saved'[p] = canon.manifest /\ canon'.exists /\ canon'.manifest = draft[p]
    BY <1>0, <1>10, Written DEF WriteManifest, Go, ProcessesOK
  <2>2. Carry(saved[p])' /\ p \in draft'[p] /\ LiveCarries'
    BY <1>0, <2>1 DEF EditCarries, LiveCarries, Carry
  <2> QED
    BY <1>2, <2>1, <2>2 DEF InstallCarries, EditCarries
<1>11. CASE RestoreManifest(p)
  <2>1. /\ pc[p] = "restore" /\ pc'[p] = "release" /\ committed' = committed
        /\ failed' = failed /\ draft' = draft
        /\ prev' = prev /\ canon'.manifest = saved[p] /\ (canon'.exists \/ canon' = canon)
    BY <1>0, <1>11, Restored DEF RestoreManifest, Go, ProcessesOK
  <2>2. LiveCarries'
    BY <1>0, <2>1 DEF EditCarries, LiveCarries, Carry
  <2> QED
    BY <1>0, <1>2, <2>1, <2>2 DEF InstallCarries, EditCarries
<1>12. CASE Release(p)
  <2>1. /\ pc[p] = "release" /\ pc'[p] = "idle" /\ draft'[p] = NoFile
        /\ canon' = canon /\ prev' = prev
    BY <1>0, <1>12 DEF Release, Reset, Go, ProcessesOK, dirs
  <2>2. CASE p \in Editors /\ draft[p] # NoFile /\ ~failed[p]
    <3>1. committed' = committed \cup {p}
      BY <1>12, <2>2 DEF Release
    <3>2. p \in draft[p] /\ canon.exists /\ canon.manifest = draft[p]
      BY <1>0, <2>1, <2>2 DEF EditCarries
    <3> QED
      BY <1>0, <1>2, <2>1, <3>1, <3>2 DEF LiveCarries, Carry, InstallCarries, EditCarries
  <2>3. CASE ~(p \in Editors /\ draft[p] # NoFile /\ ~failed[p])
    <3>1. committed' = committed
      BY <1>12, <2>3 DEF Release
    <3> QED
      BY <1>0, <1>2, <2>1, <3>1 DEF LiveCarries, Carry, InstallCarries, EditCarries
  <2> QED
    BY <2>2, <2>3
<1>13. CASE TakeMutex(p) \/ Load(p)
  <2>1. UNCHANGED <<canon, prev, next, backup, committed, draft, saved>>
        /\ pc[p] \in {"mutex", "load"}
    BY <1>13 DEF TakeMutex, Load, dirs
  <2>2. CASE Fail(p)
    BY <1>0, <1>5, <2>1, <2>2 DEF LiveCarries, Carry
  <2>3. CASE ~Fail(p)
    <3>1. \/ pc[p] = "mutex" /\ pc'[p] = "recover"
          \/ pc[p] = "load" /\ canon.manifest # NoFile
             /\ pc'[p] = IF KeepsBackup THEN "backup" ELSE "stage"
      BY <1>0, <1>13, <2>3 DEF TakeMutex, Load, Go, ProcessesOK
    <3>2. canon.manifest # NoFile => canon.exists
      BY <1>0, FixedDirs DEF WholeDirs, WholeDir
    <3> QED
      BY <1>0, <1>4, <2>1, <3>1, <3>2 DEF InstallCarries, EditCarries, Carry
  <2> QED
    BY <2>2, <2>3
<1>14. CASE Recover(p)
  <2>1. /\ pc[p] = "recover" /\ pc'[p] = "load"
        /\ UNCHANGED <<committed, draft, saved>>
        /\ IF ~canon.exists /\ prev.exists
             THEN canon' = prev /\ prev' = AbsentDir
             ELSE canon' = canon /\ prev' = prev
    BY <1>0, <1>14 DEF Recover, Go, ProcessesOK
  <2>2. LiveCarries'
    BY <1>0, <2>1, FixedDirs DEF LiveCarries, Carry
  <2> QED
    BY <1>0, <1>2, <2>1, <2>2 DEF InstallCarries, EditCarries, Carry
<1>15. CASE CopyLive(p)
  <2>1. /\ pc[p] = "backup" /\ pc'[p] = "stage"
        /\ UNCHANGED <<canon, prev, committed, draft, saved>>
    BY <1>0, <1>15 DEF CopyLive, Go, ProcessesOK
  <2>2. backup'.manifest = canon.manifest
    <3>1. CASE canon.lock = None
      BY <1>15, <3>1 DEF CopyLive
    <3>2. CASE canon.lock # None
      <4>1. canon \in Dirs /\ backup' = [canon EXCEPT !.lock = inodes + 1]
        BY <1>15, <3>2, <1>0, TypeParts DEF CopyLive, DirsOK
      <4>2. SameButLock(canon, backup')
        BY <4>1, DirOpen, Zenon
      <4> QED
        BY <4>2 DEF SameButLock
    <3> QED
      BY <3>1, <3>2
  <2> QED
    BY <1>0, <1>2, <2>1, <2>2 DEF LiveCarries, InstallCarries, EditCarries, Carry
<1>16. CASE StageTree(p)
  <2>1. /\ pc[p] = "stage" /\ pc'[p] = "renameA" /\ canon.exists
        /\ UNCHANGED <<canon, backup, committed, draft, saved>>
        /\ next'.exists /\ next'.manifest = canon.manifest /\ prev' = AbsentDir
    BY <1>0, <1>16, Staged DEF StageTree, Go, ProcessesOK, InstallCarries
  <2> QED
    BY <1>0, <1>2, <2>1, FixedDirs DEF LiveCarries, InstallCarries, EditCarries, Carry
<1>17. CASE RenameAway(p)
  <2>1. pc[p] = "renameA" /\ UNCHANGED <<next, backup, committed, draft, saved>>
    BY <1>17 DEF RenameAway
  <2>2. CASE canon.exists /\ CanRenameOnto(prev)
    <3>1. pc'[p] = "renameB" /\ prev' = canon /\ canon' = AbsentDir
      BY <1>0, <1>17, <2>2 DEF RenameAway, Go, ProcessesOK
    <3> QED
      BY <1>0, <1>2, <2>1, <3>1, FixedDirs DEF LiveCarries, InstallCarries, EditCarries, Carry
  <2>3. CASE ~(canon.exists /\ CanRenameOnto(prev))
    <3>1. Fail(p) /\ UNCHANGED <<canon, prev>>
      BY <1>17, <2>3 DEF RenameAway
    <3> QED
      BY <1>0, <1>5, <2>1, <3>1 DEF LiveCarries, Carry
  <2> QED
    BY <2>2, <2>3
<1>18. CASE RenameInto(p)
  <2>1. pc[p] = "renameB" /\ UNCHANGED <<prev, backup, committed, draft, saved>>
    BY <1>18 DEF RenameInto
  <2>2. CASE CanRenameOnto(canon)
    <3>1. pc'[p] = "discard" /\ canon' = next
      BY <1>0, <1>18, <2>2 DEF RenameInto, Go, ProcessesOK
    <3> QED
      BY <1>0, <1>2, <2>1, <3>1 DEF LiveCarries, InstallCarries, EditCarries, Carry
  <2>3. CASE ~CanRenameOnto(canon)
    <3>1. pc'[p] = "undoA" /\ UNCHANGED <<canon, next>>
      BY <1>0, <1>18, <2>3 DEF RenameInto, Go, ProcessesOK
    <3> QED
      BY <1>0, <1>2, <2>1, <3>1 DEF LiveCarries, InstallCarries, EditCarries, Carry
  <2> QED
    BY <2>2, <2>3
<1>19. CASE UndoRenameAway(p)
  <2>1. /\ pc[p] = "undoA" /\ Fail(p) /\ UNCHANGED <<committed, draft, saved>>
        /\ \/ canon' = prev /\ prev' = AbsentDir
           \/ UNCHANGED <<canon, prev>>
    BY <1>19 DEF UndoRenameAway
  <2>2. LiveCarries'
    BY <1>0, <2>1, FixedDirs DEF LiveCarries, InstallCarries, Carry
  <2> QED
    BY <1>5, <2>1, <2>2
<1>20. CASE DiscardPrevious(p)
  <2>1. /\ pc[p] = "discard" /\ pc'[p] = "behavior" /\ prev' = AbsentDir
        /\ UNCHANGED <<canon, backup, committed, draft, saved>>
    BY <1>0, <1>20 DEF DiscardPrevious, Go, ProcessesOK
  <2> QED
    BY <1>0, <1>2, <2>1, FixedDirs DEF LiveCarries, InstallCarries, EditCarries, Carry
<1>21. CASE FinishBehavior(p)
  <2>1. pc[p] = "behavior" /\ UNCHANGED <<canon, prev, committed, draft, saved>>
    BY <1>21 DEF FinishBehavior
  <2>2. CASE Fail(p)
    BY <1>0, <1>5, <2>1, <2>2 DEF LiveCarries, Carry
  <2>3. CASE ~Fail(p)
    <3>1. \/ pc'[p] = "release" /\ failed' = failed
          \/ pc'[p] = "dropLive" /\ KeepsBackup /\ backup' = backup
      BY <1>0, <1>21, <2>3 DEF FinishBehavior, Go, ProcessesOK
    <3> QED
      BY <1>0, <1>2, <2>1, <3>1 DEF LiveCarries, InstallCarries, EditCarries, Carry
  <2> QED
    BY <2>2, <2>3
<1>22. CASE DropLive(p)
  <2>1. pc[p] = "dropLive" /\ UNCHANGED <<prev, committed, draft, saved>>
    BY <1>22 DEF DropLive
  <2>2. CASE Fail(p) /\ canon' \in Remains(canon)
    <3>1. canon'.exists /\ canon'.manifest \in {canon.manifest, NoFile}
      BY <1>0, <2>2, Remaining, TypeParts DEF DirsOK
    <3> QED
      BY <1>0, <1>5, <2>1, <2>2, <3>1 DEF LiveCarries, Carry
  <2>3. CASE ~(Fail(p) /\ canon' \in Remains(canon))
    <3>1. pc'[p] = "renameBack" /\ canon' = AbsentDir /\ backup' = backup
      BY <1>0, <1>22, <2>3 DEF DropLive, Go, ProcessesOK
    <3> QED
      BY <1>0, <1>2, <2>1, <3>1, FixedDirs DEF LiveCarries, InstallCarries, EditCarries, Carry
  <2> QED
    BY <2>2, <2>3
<1>23. CASE RenameBack(p)
  <2>1. /\ pc[p] = "renameBack" /\ UNCHANGED <<prev, committed, draft, saved>>
        /\ canon' = backup \/ canon' = canon
    BY <1>23 DEF RenameBack
  <2>2. LiveCarries'
    BY <1>0, <2>1 DEF LiveCarries, InstallCarries, Carry
  <2>3. CASE Fail(p)
    BY <1>5, <2>1, <2>2, <2>3
  <2>4. CASE ~Fail(p)
    <3>1. pc'[p] = "release" /\ canon' = backup
      BY <1>0, <1>23, <2>4 DEF RenameBack, Go, ProcessesOK
    <3>2. backup.manifest # NoFile => backup.exists
      BY <1>0, FixedDirs DEF WholeDirs, WholeDir
    <3> QED
      BY <1>0, <1>2, <2>1, <2>2, <3>1, <3>2 DEF InstallCarries, EditCarries
  <2> QED
    BY <2>3, <2>4
<1>24. CASE RollBackInto(p)
  <2>1. /\ pc[p] = "discard" /\ pc'[p] = "undoA" /\ canon' = AbsentDir /\ prev' = prev
        /\ UNCHANGED <<backup, committed, draft, saved>>
    BY <1>0, <1>24 DEF RollBackInto, Go, ProcessesOK
  <2> QED
    BY <1>0, <1>2, <2>1, FixedDirs DEF LiveCarries, InstallCarries, EditCarries, Carry
<1> QED
  BY <1>6, <1>7, <1>8, <1>9, <1>10, <1>11, <1>12, <1>13, <1>14, <1>15, <1>16, <1>17, <1>18,
     <1>19, <1>20, <1>21, <1>22, <1>23, <1>24
  DEF Step, Work, TakeLock, Edit, Install

LEMMA EditNext == EditInv /\ [Next]_vars => EditInv'
<1>1. ASSUME EditInv, NEW p \in Procs, Step(p) PROVE EditInv'
  <2>1. IInv'
    BY <1>1, InvNext DEF EditInv, Next, Step
  <2>2. WholeDirs'
    BY <1>1, WholeStep DEF EditInv, IInv
  <2>3. (Platform = "windows")' => EditsCarried'
    BY <1>1, CarriedStep, SetupStep
  <2> QED
    BY <2>1, <2>2, <2>3 DEF EditInv
<1>2. ASSUME EditInv, UNCHANGED vars PROVE EditInv'
  <2>1. IInv'
    BY <1>2, InvNext DEF EditInv
  <2>2. UNCHANGED <<setup, canon, prev, next, backup, pc, draft, saved, failed, committed>>
    BY <1>2 DEF vars, dirs, procVars
  <2>3. WholeDirs' /\ Platform' = Platform
    BY <1>2, <2>2 DEF EditInv, WholeDirs, WholeDir, Platform
  <2>4. EditsCarried => EditsCarried'
    BY <2>2
    DEF EditsCarried, LiveCarries, InstallCarries, EditCarries, Carry, HoldsManifestLock,
        KeepsBackup
  <2> QED
    BY <1>2, <2>1, <2>3, <2>4 DEF EditInv
<1> QED
  BY <1>1, <1>2 DEF Next, Step

LEMMA EditInvariant == Spec => []EditInv
  BY EditInit, EditNext, PTL DEF Spec

\* Under the named mutex an edit that was reported is never lost: every manifest that
\* a rename, a recovery, a behavior rollback or an editor's restore puts back holds
\* it, whoever is killed and wherever (write_and_reinstall, publish_generation).
THEOREM ReportedEditsSurvive == Spec => []EditsSurvive
<1>1. EditInv => EditsSurvive
  BY DEF EditInv, EditsCarried, LiveCarries, Carry, EditsSurvive
<1> QED
  BY <1>1, EditInvariant, PTL
================================================================================
