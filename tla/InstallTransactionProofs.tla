------------------------ MODULE InstallTransactionProofs ------------------------
(***************************************************************************)
(* Proofs about InstallTransaction, for any molecules, versions and paths, any   *)
(* scenario, and any sequence of commands, failures and kills:                  *)
(*                                                                          *)
(*   - the variables keep their types, and no local outlives its command;        *)
(*   - a command that fails leaves the manifest it found, unless the behavior      *)
(*     rollback is what failed;                                               *)
(*   - a command that succeeds leaves a lock that is the manifest's;            *)
(*   - where nothing comes between a publication and its rollback, a command      *)
(*     that fails leaves the generation and the files it found, or, with the      *)
(*     publication complete, all the files of that, and one that succeeds leaves   *)
(*     the files its manifest asks for;                                       *)
(*   - what an operator has edited is never deleted;                            *)
(*   - what is published is not what was there, but in two cases.                *)
(*                                                                          *)
(* What makes them inductive is what is known of each copy that a rollback may    *)
(* bring back (IInv), that every recorded path has a hash (EditsInv), what the     *)
(* lock in place says of the files (DeliveryInv), and why the command has not     *)
(* stopped at the no-op decision (PublicationInv).                             *)
(***************************************************************************)
EXTENDS InstallTransaction, TLAPS

USE MoleculesAssumption, ScenariosAssumption, DistinctAssumption, BodiesAssumption

Points == {"idle", "resolve", "stage", "hooks", "prepare", "publish", "write",
           "orphans", "compose", "dropLive", "renameBack", "restore"}
Failures == {"none", "failed", "late", "lost"}
Outcomes == {"installed", "unchanged", "deferred", "crashed", "unrestored"} \cup Failures

\* A generation with a manifest.
Whole == [manifest : Manifests, lock : Locks, body : Bodies]

Runs == [cmd : {"none", "install", "edit"}, skip : BOOLEAN, staged : BOOLEAN,
         preimage : Whole, status : [Molecules -> HookStatuses], existing : Locks,
         todo : SUBSET Paths, rootBefore : [Paths -> Contents], published : BOOLEAN,
         backup : Whole \cup {None}, failure : Failures, saved : Manifests]

Typed ==
    /\ scenario \in Scenarios
    /\ current \in Gens
    /\ root \in [Paths -> Contents]
    /\ pc \in Points /\ run \in Runs
    /\ start \in [gen : Whole, root : [Paths -> Contents]]
    /\ outcome \in Outcomes
    /\ crashes \in Nat
    /\ pc = "idle" => run = NoRun
    /\ run.staged => pc = "hooks"

\* The live tree is without a manifest only within the behavior rollback, and where that
\* has failed.
IsLive == pc \notin {"idle", "renameBack", "restore"} => current \in Whole

InCommand == pc # "idle" =>
    outcome = "none" /\ run.cmd \in {"install", "edit"} /\ run.saved = start.gen.manifest

HasBackup ==
    /\ pc \in {"dropLive", "renameBack"} => run.backup # None
    /\ pc = "renameBack" => current = Nothing

\* When a command knows that it fails.
Failing ==
    /\ pc = "restore" => run.failure # "none"
    /\ pc \in {"dropLive", "renameBack"} => run.failure \in {"none", "failed"}
    /\ pc \notin {"restore", "dropLive", "renameBack"} => run.failure = "none"

\* A failure after the publication leaves a lock.
LateLock ==
    outcome = "late" \/ (pc = "restore" /\ run.failure = "late") => current.lock # NoLock

\* What a plain install may bring back has the manifest it found.
Keeps ==
    pc # "idle" /\ run.cmd = "install" =>
        /\ pc # "renameBack" => current.manifest = start.gen.manifest
        /\ run.staged \/ pc \in {"write", "orphans"}
             => run.preimage.manifest = start.gen.manifest
        /\ run.backup # None => run.backup.manifest = start.gen.manifest

Sealed == /\ current.lock # NoLock
          /\ current.lock.pins = current.manifest
          /\ current.lock.recorded = Delivered(current.manifest)

Seals == pc \in {"write", "orphans", "compose"} => Sealed

\* What is to be written is what the published manifest delivers.
Writes == pc = "write" => run.todo \subseteq Delivered(current.manifest)

\* A generation that is the one found, but for the manifest of an edit.
Found(gen) == gen.lock = start.gen.lock /\ gen.body = start.gen.body

\* Nothing is published, or not any more.
Untouched ==
    \/ pc \in {"resolve", "hooks", "prepare", "publish"}
    \/ pc = "restore" /\ run.failure = "failed"
    \/ pc = "compose" /\ ~run.published

\* Undisturbed, everything but the manifest is as it was until the publication, and
\* in what a rollback brings back.
Unchanged ==
    Undisturbed /\ pc # "idle" =>
        /\ ~run.staged /\ run.backup = None /\ run.failure # "lost"
        /\ pc \notin {"stage", "dropLive", "renameBack"}
        /\ Untouched => Found(current) /\ root = start.root
        /\ pc \in {"write", "orphans"}
             => Found(run.preimage) /\ run.rootBefore = start.root

Publishes ==
    /\ pc \in {"resolve", "stage", "hooks", "prepare", "publish"} => ~run.published
    /\ pc \in {"write", "orphans"} => run.published
    /\ pc = "stage" => current.manifest[Contributor] # 0

FoundAgain == Undisturbed /\ outcome = "failed" => current = start.gen /\ root = start.root

Ended == FailureRestoresManifest /\ SuccessSealsManifest /\ FoundAgain

IInv == /\ Typed /\ IsLive /\ InCommand /\ HasBackup /\ Failing /\ LateLock /\ Keeps
        /\ Seals /\ Writes /\ Unchanged /\ Publishes /\ Ended

--------------------------------------------------------------------------------
(* Data *)

\* What a manifest delivers are paths, and each has a molecule that delivers it.
LEMMA DeliveredPaths ==
    ASSUME scenario \in Scenarios, NEW manifest \in Manifests
    PROVE  /\ Delivered(manifest) \subseteq Paths
           /\ \A p \in Delivered(manifest) : FileContent(manifest, p) \in Molecules \X Versions
<1>1. Delivers \in [Molecules \X Versions -> SUBSET Paths]
  BY DEF Delivers, ScenarioKinds
<1>2. \A m \in Molecules : FilesOf(m, manifest) # {} => manifest[m] \in Versions
  BY DEF FilesOf, Manifests
<1>3. \A m \in Molecules : FilesOf(m, manifest) \subseteq Paths
  BY <1>1 DEF FilesOf, Manifests
<1>4. ASSUME NEW p \in Delivered(manifest)
      PROVE  FileContent(manifest, p) \in Molecules \X Versions
  <2>1. \E m \in Molecules : p \in FilesOf(m, manifest)
    BY DEF Delivered
  <2> DEFINE owner == CHOOSE m \in Molecules : p \in FilesOf(m, manifest)
  <2>2. owner \in Molecules /\ p \in FilesOf(owner, manifest)
    BY <2>1
  <2>3. manifest[owner] \in Versions
    BY <1>2, <2>2
  <2>4. QED
    BY <2>2, <2>3 DEF FileContent
<1>5. QED
  BY <1>3, <1>4 DEF Delivered

\* The lock of a publication is a lock, and the manifest's.
LEMMA LockForManifest ==
    ASSUME scenario \in Scenarios, NEW manifest \in Manifests,
           NEW hooks \in [Molecules -> HookStatuses]
    PROVE  /\ LockFor(manifest, hooks) \in LockFiles
           /\ LockFor(manifest, hooks).pins = manifest
           /\ LockFor(manifest, hooks).recorded = Delivered(manifest)
  BY DeliveredPaths DEF LockFor, LockFiles

LEMMA CandidateIsLock ==
    ASSUME NEW manifest \in Manifests
    PROVE  CandidateLock(manifest) \in Locks
  BY DEF CandidateLock, Locks, LockFiles, Manifests, NoHooks, HookStatuses

LEMMA WholeIsGen == Whole \subseteq Gens
  BY DEF Whole, Gens

LEMMA NothingIsTyped ==
    NoGen \in Whole /\ NoFiles \in [Paths -> Contents] /\ NoRun \in Runs
<1>1. NoGen \in Whole /\ NoFiles \in [Paths -> Contents] /\ NoGen.manifest \in Manifests
  BY DEF NoGen, NoFiles, Whole, Manifests, Locks, Contents, Bodies
<1>2. NoHooks \in [Molecules -> HookStatuses] /\ NoLock \in Locks
  BY DEF NoHooks, HookStatuses, Locks
<1>3. QED
  BY <1>1, <1>2 DEF NoRun, Runs, Failures

--------------------------------------------------------------------------------
(* Steps *)

\* The properties are about what a command has left, and silent while one runs.
LEMMA Busy ==
    ASSUME outcome' = "none"
    PROVE  Ended'
  BY DEF Ended, FailureRestoresManifest, SuccessSealsManifest, FoundAgain, Succeeded

\* At rest nothing is known but types and how the last command ended.
LEMMA AtRest ==
    ASSUME Typed', pc' = "idle", Ended', outcome' = "late" => current'.lock # NoLock
    PROVE  IInv'
  BY DEF IInv, Typed, IsLive, InCommand, HasBackup, Failing, LateLock, Keeps, Seals, Writes,
         Unchanged, Untouched, Publishes, NoRun

LEMMA InitInvariant == Init => IInv
<1>1. SUFFICES ASSUME Init PROVE IInv
  OBVIOUS
<1>2. Typed
  BY <1>1, NothingIsTyped, WholeIsGen DEF Init, Typed, Points, Outcomes, Failures, NoRun
<1>3. Ended
  BY <1>1 DEF Init, Ended, FailureRestoresManifest, SuccessSealsManifest, FoundAgain, Succeeded
<1>4. QED
  BY <1>1, <1>2, <1>3
     DEF Init, IInv, IsLive, InCommand, HasBackup, Failing, LateLock, Keeps, Seals, Writes,
         Unchanged, Untouched, Publishes, NoRun

\* A step of the scenario's: neither it nor the count of kills changes.
LEMMA UndisturbedStays ==
    ASSUME UNCHANGED <<scenario, crashes>>
    PROVE  Undisturbed' = Undisturbed
  BY DEF Undisturbed, Hooked, Behaving, MayInterrupt

\* What a failure has to leave behind.
Left(how) ==
    /\ current' \in Gens /\ root' \in [Paths -> Contents]
    /\ run.cmd = "install" =>
          \/ current'.manifest = start.gen.manifest
          \/ how = "lost" /\ current'.manifest = None
    /\ how = "late" => current'.lock # NoLock
    /\ Undisturbed =>
          /\ how # "lost" /\ run.backup = None
          /\ how = "failed" =>
                /\ current'.lock = start.gen.lock /\ current'.body = start.gen.body
                /\ root' = start.root

\* An exception leaves install.run: what it brings back is what the command found.
LEMMA FailStep ==
    ASSUME Typed, InCommand, pc # "idle",
           NEW how \in Failures \ {"none"}, FailAs(how), Left(how)
    PROVE  IInv'
<1>1. UNCHANGED <<scenario, start, commands, crashes>>
  BY DEF FailAs, Go, End
<1>2. Undisturbed' = Undisturbed
  BY <1>1, UndisturbedStays
<1>3. CASE run.cmd = "edit"
  <2>1. /\ pc' = "restore" /\ outcome' = "none"
        /\ run' = [run EXCEPT !.staged = FALSE, !.failure = how]
    BY <1>3 DEF FailAs, Go, InCommand
  <2>2. /\ run' \in Runs /\ run'.staged = FALSE /\ run'.cmd = "edit"
        /\ run'.saved = run.saved /\ run'.failure = how /\ run'.backup = run.backup
    BY <1>3, <2>1 DEF Typed, Runs
  <2>3. Typed'
    BY <1>1, <2>1, <2>2 DEF Typed, Points, Outcomes, Failures, Left
  <2>4. QED
    BY <1>1, <1>2, <2>1, <2>2, <2>3, Busy
       DEF IInv, IsLive, InCommand, HasBackup, Failing, LateLock, Keeps, Seals, Writes,
           Unchanged, Untouched, Publishes, Found, Left
<1>4. CASE run.cmd # "edit"
  <2>1. run.cmd = "install"
    BY <1>4 DEF InCommand
  <2>2. pc' = "idle" /\ outcome' = how /\ run' = NoRun
    BY <1>4 DEF FailAs, End
  <2>3. Typed'
    BY <1>1, <2>2, NothingIsTyped DEF Typed, Points, Outcomes, NoRun, Left
  <2>4. \/ current'.manifest = start'.gen.manifest
        \/ how = "lost" /\ current'.manifest = None
    BY <1>1, <2>1 DEF Left
  <2>5. Undisturbed /\ how = "failed" => current' = start'.gen /\ root' = start'.root
    <3>1. start.gen \in Whole
      BY DEF Typed
    <3>2. QED
      BY <1>1, <2>4, <3>1 DEF Whole, Gens, Left
  <2>6. Ended'
    BY <1>2, <2>2, <2>4, <2>5 DEF Ended, FailureRestoresManifest, SuccessSealsManifest,
                                  FoundAgain, Succeeded, Failures
  <2>7. QED
    BY <2>2, <2>3, <2>6, AtRest DEF Left
<1>5. QED
  BY <1>3, <1>4

\* An exception within generation_context, where there may be a copy to bring back.
LEMMA RaiseStep ==
    ASSUME Typed, InCommand, Failing, pc \notin {"idle", "dropLive", "renameBack", "restore"},
           ~run.staged,
           run.cmd = "install" /\ run.backup # None => run.backup.manifest = start.gen.manifest,
           NEW how \in {"failed", "late"}, Raise(how), Left(how), current' \in Whole
    PROVE  IInv'
<1>1. CASE run.backup = None
  <2>1. FailAs(how) /\ how \in Failures \ {"none"}
    BY <1>1 DEF Raise, Failures
  <2>2. QED
    BY <2>1, FailStep
<1>2. CASE run.backup # None
  <2>1. /\ pc' = "dropLive" /\ run' = [run EXCEPT !.failure = "failed"]
        /\ UNCHANGED <<scenario, start, outcome, crashes>>
    BY <1>2 DEF Raise, Go
  <2>2. /\ run' \in Runs /\ run'.failure = "failed" /\ run'.cmd = run.cmd
        /\ run'.saved = run.saved /\ run'.backup = run.backup /\ run'.staged = run.staged
    BY <2>1 DEF Typed, Runs, Failures
  <2>3. Undisturbed' = Undisturbed
    BY <2>1, UndisturbedStays
  <2>4. ~Undisturbed
    BY <1>2 DEF Left
  <2>5. run.cmd = "install" => current'.manifest = start.gen.manifest
    BY DEF Left
  <2>6. Typed'
    BY <2>1, <2>2 DEF Typed, Points, Left
  <2>7. QED
    BY <1>2, <2>1, <2>2, <2>3, <2>4, <2>5, <2>6, Busy
       DEF IInv, IsLive, InCommand, HasBackup, Failing, LateLock, Keeps, Seals, Writes,
           Unchanged, Untouched, Publishes
<1>3. QED
  BY <1>1, <1>2

\* Between commands, and their beginning.
LEMMA OperatorStep == IInv /\ Operator => IInv'
<1>1. SUFFICES ASSUME IInv, Operator PROVE IInv'
  OBVIOUS
<1>2. Typed
  BY <1>1 DEF IInv
<1>3. ASSUME NEW manifest \in Manifests, PullManifest(manifest) PROVE IInv'
  <2>1. /\ pc' = "idle" /\ run' = NoRun /\ outcome' = "none"
        /\ UNCHANGED <<scenario, root, start, crashes>>
    BY <1>2, <1>3 DEF PullManifest, Idle, Typed
  <2>2. current' \in Whole
    BY <1>2, <1>3 DEF PullManifest, Typed, Whole, Gens
  <2>3. Typed'
    BY <1>2, <2>1, <2>2, NothingIsTyped, WholeIsGen
       DEF Typed, Points, Outcomes, Failures, NoRun
  <2>4. QED
    BY <2>1, <2>3, Busy, AtRest
<1>4. ASSUME NEW p \in Paths, EditFile(p) PROVE IInv'
  <2>1. /\ pc' = "idle" /\ run' = NoRun /\ outcome' = "none"
        /\ UNCHANGED <<scenario, current, start, crashes>>
    BY <1>2, <1>4 DEF EditFile, Idle, Typed
  <2>2. root' \in [Paths -> Contents]
    BY <1>2, <1>4 DEF EditFile, Typed, Contents
  <2>3. Typed'
    BY <1>2, <2>1, <2>2, NothingIsTyped DEF Typed, Points, Outcomes, Failures, NoRun
  <2>4. QED
    BY <2>1, <2>3, Busy, AtRest
<1>5. ASSUME NEW cmd \in {"install", "edit"}, NEW skip \in BOOLEAN, NEW manifest \in Manifests,
             Begin(cmd, skip, manifest), cmd = "install" => manifest = current.manifest
      PROVE  IInv'
  <2>1. /\ pc' = "resolve" /\ outcome' = "none" /\ current \in Whole
        /\ current' = [current EXCEPT !.manifest = manifest]
        /\ start' = [gen |-> current, root |-> root]
        /\ UNCHANGED <<scenario, root, crashes>>
    BY <1>2, <1>5 DEF Begin, Typed, Whole, Gens
  <2>2. /\ current' \in Whole /\ current'.manifest = manifest
        /\ current'.lock = current.lock /\ current'.body = current.body
    BY <2>1 DEF Whole
  <2>3. run' = [NoRun EXCEPT !.cmd = cmd, !.skip = skip, !.saved = current.manifest]
    BY <1>5 DEF Begin
  <2>4. /\ run' \in Runs /\ run'.cmd = cmd /\ run'.saved = current.manifest
        /\ ~run'.staged /\ run'.backup = None /\ run'.failure = "none" /\ ~run'.published
    BY <2>1, <2>3, NothingIsTyped DEF Runs, Whole, NoRun
  <2>5. start' \in [gen : Gens, root : [Paths -> Contents]]
    BY <1>2, <2>1 DEF Typed
  <2>6. Typed'
    BY <1>2, <2>1, <2>2, <2>4, <2>5, WholeIsGen DEF Typed, Points, Outcomes, Failures
  <2>7. start'.gen = current /\ start'.root = root
    BY <2>1
  <2>8. QED
    BY <1>5, <2>1, <2>2, <2>4, <2>6, <2>7, Busy
       DEF IInv, IsLive, InCommand, HasBackup, Failing, LateLock, Keeps, Seals, Writes,
           Unchanged, Untouched, Publishes, Found
<1>6. ASSUME NEW skip \in BOOLEAN, StartInstall(skip) PROVE IInv'
  <2>1. current.manifest \in Manifests
    BY <1>2, <1>6 DEF StartInstall, Begin, Typed, Gens
  <2>2. QED
    BY <1>5, <1>6, <2>1 DEF StartInstall
<1>7. ASSUME NEW m \in Molecules, NEW v \in Versions \cup {0}, NEW skip \in BOOLEAN,
             StartEdit(m, v, skip)
      PROVE  IInv'
  <2>1. [current.manifest EXCEPT ![m] = v] \in Manifests
    BY <1>2, <1>7 DEF StartEdit, Typed, Gens, Manifests
  <2>2. QED
    BY <1>5, <1>7, <2>1 DEF StartEdit
<1>8. QED
  BY <1>1, <1>3, <1>4, <1>6, <1>7 DEF Operator

\* What is known while a command runs, in one place.
LEMMA Running ==
    ASSUME IInv, pc # "idle"
    PROVE  /\ Typed /\ InCommand /\ outcome = "none"
           /\ pc \notin {"renameBack", "restore"} =>
                 current \in Whole /\ current.manifest \in Manifests
           /\ run \in Runs /\ start.gen \in Whole /\ current \in Gens
  BY DEF IInv, IsLive, InCommand, Typed, Whole

LEMMA NoBehavior == Undisturbed => ~ComposesBehavior
  BY DEF Undisturbed, ComposesBehavior, Composes

\* Until the publication.
LEMMA PrepareStep == IInv /\ Prepare => IInv'
<1>1. SUFFICES ASSUME IInv, Prepare PROVE IInv'
  OBVIOUS
<1>2. pc \in {"resolve", "stage", "hooks", "prepare"}
  BY <1>1 DEF Prepare, Resolve, Stage, RunHooks, AbortHooks, CommitFails, Refuse,
              FindNoChange, FindChange
<1>3. /\ Typed /\ InCommand /\ outcome = "none" /\ run.failure = "none" /\ ~run.published
      /\ current \in Whole /\ current.manifest \in Manifests /\ run \in Runs
      /\ current \in Gens
  BY <1>1, <1>2, Running DEF IInv, Failing, Publishes
<1>4. /\ run.cmd = "install" => current.manifest = start.gen.manifest
      /\ run.cmd = "install" /\ run.staged => run.preimage.manifest = start.gen.manifest
      /\ Undisturbed => /\ ~run.staged /\ run.backup = None /\ pc # "stage"
                        /\ Found(current) /\ root = start.root
  BY <1>1, <1>2 DEF IInv, Keeps, Unchanged, Untouched
<1>5. ASSUME Fail, UNCHANGED <<current, root>> PROVE IInv'
  <2>1. Left("failed") /\ "failed" \in Failures \ {"none"}
    BY <1>3, <1>4, <1>5 DEF Left, Typed, Found, Failures
  <2>2. QED
    BY <1>2, <1>3, <1>5, <2>1, FailStep DEF Fail
<1>6. CASE Resolve
  <2>1. CASE Fail
    BY <1>5, <1>6, <2>1 DEF Resolve
  <2>2. CASE ~Fail
    <3>1. /\ pc = "resolve" /\ pc' \in {"stage", "hooks"}
          /\ pc' = "stage" => HooksToRun # {} /\ current.manifest[Contributor] # 0
          /\ UNCHANGED <<scenario, start, outcome, crashes, run, current, root>>
      BY <1>6, <2>2 DEF Resolve, Go
    <3>2. Undisturbed' = Undisturbed
      BY <3>1, UndisturbedStays
    <3>3. Undisturbed => pc' = "hooks"
      BY <3>1 DEF Undisturbed, HooksToRun
    <3>4. Typed'
      BY <1>3, <3>1 DEF Typed, Points
    <3>5. QED
      BY <1>1, <3>1, <3>2, <3>3, <3>4, Busy, <1>3
         DEF IInv, IsLive, InCommand, HasBackup, Failing, LateLock, Keeps, Seals, Writes,
           Unchanged, Untouched, Publishes, Found
  <2>3. QED
    BY <2>1, <2>2
<1>7. CASE Stage
  <2>1. /\ pc = "stage" /\ pc' = "hooks"
        /\ run' = [run EXCEPT !.preimage = current, !.staged = TRUE]
        /\ current' = [current EXCEPT !.lock = CandidateLock(current.manifest),
                                      !.body = current.manifest[Contributor]]
        /\ current.manifest[Contributor] # 0
        /\ UNCHANGED <<scenario, start, outcome, crashes, root>>
    BY <1>1, <1>7 DEF Stage, Go, IInv, Publishes
  <2>2. /\ run' \in Runs /\ run'.preimage = current /\ run'.staged
        /\ run'.failure = run.failure /\ run'.published = run.published
        /\ run'.cmd = run.cmd /\ run'.saved = run.saved /\ run'.backup = run.backup
    BY <1>3, <2>1 DEF Runs
  <2>3. current' \in Whole /\ current'.manifest = current.manifest
    <3>1. current.manifest[Contributor] \in Bodies
      BY <1>3, <2>1 DEF Manifests, Bodies
    <3>2. QED
      BY <1>3, <2>1, <3>1, CandidateIsLock DEF Whole
  <2>4. ~Undisturbed'
    BY <1>4, <2>1, UndisturbedStays
  <2>5. Typed'
    BY <1>3, <2>1, <2>2, <2>3, WholeIsGen DEF Typed, Points
  <2>6. QED
    BY <1>1, <1>3, <1>4, <2>1, <2>2, <2>3, <2>4, <2>5, Busy
       DEF IInv, IsLive, InCommand, HasBackup, Failing, LateLock, Keeps, Seals, Writes,
           Unchanged, Untouched, Publishes, Found
<1>8. CASE RunHooks
  <2>1. /\ pc = "hooks" /\ pc' = "prepare"
        /\ UNCHANGED <<scenario, start, outcome, crashes, root, current>>
    BY <1>8 DEF RunHooks, Go
  <2>2. PICK status \in [Molecules -> HookStatuses] :
            run' = [run EXCEPT !.staged = FALSE, !.status = status]
    <3>1. PICK result \in [HooksToRun -> IF run.skip THEN {"skipped"} ELSE {"ok", "failed"}] :
              run' = [run EXCEPT !.staged = FALSE,
                      !.status = [m \in Molecules |->
                                    IF m \in HooksToRun THEN result[m] ELSE "none"]]
      BY <1>8 DEF RunHooks
    <3>2. \A m \in HooksToRun : result[m] \in HookStatuses
      BY DEF HookStatuses
    <3>3. [m \in Molecules |-> IF m \in HooksToRun THEN result[m] ELSE "none"]
            \in [Molecules -> HookStatuses]
      BY <3>2 DEF HookStatuses
    <3>4. QED
      BY <3>1, <3>3
  <2>3. /\ run' \in Runs /\ ~run'.staged
        /\ run'.failure = run.failure /\ run'.published = run.published
        /\ run'.cmd = run.cmd /\ run'.saved = run.saved /\ run'.backup = run.backup
    BY <1>3, <2>2 DEF Runs
  <2>4. Undisturbed' = Undisturbed
    BY <2>1, UndisturbedStays
  <2>5. Typed'
    BY <1>3, <2>1, <2>3 DEF Typed, Points
  <2>6. QED
    BY <1>1, <1>3, <1>4, <2>1, <2>3, <2>4, <2>5, Busy
       DEF IInv, IsLive, InCommand, HasBackup, Failing, LateLock, Keeps, Seals, Writes,
           Unchanged, Untouched, Publishes, Found
<1>9. CASE AbortHooks
  <2>1. /\ Fail /\ UNCHANGED root
        /\ current' = IF run.staged THEN run.preimage ELSE current
    BY <1>9 DEF AbortHooks
  <2>2. run.preimage \in Gens
    BY <1>3, WholeIsGen DEF Runs
  <2>3. Left("failed") /\ "failed" \in Failures \ {"none"}
    BY <1>3, <1>4, <2>1, <2>2 DEF Left, Typed, Found, Failures
  <2>4. QED
    BY <1>2, <1>3, <2>1, <2>3, FailStep DEF Fail
<1>10. CASE Refuse \/ CommitFails
  BY <1>5, <1>10 DEF Refuse, CommitFails
<1>11. CASE FindNoChange
  <2>1. /\ pc = "prepare" /\ pc' = "compose" /\ IsNoOp(current, run.status)
        /\ UNCHANGED <<scenario, start, outcome, crashes, root, current, run>>
    BY <1>11 DEF FindNoChange, Go
  <2>2. Undisturbed' = Undisturbed
    BY <2>1, UndisturbedStays
  <2>3. Sealed'
    BY <2>1 DEF IsNoOp, Sealed, Delivered, FilesOf, Delivers
  <2>4. Typed'
    BY <1>3, <2>1 DEF Typed, Points
  <2>5. QED
    BY <1>1, <1>3, <1>4, <2>1, <2>2, <2>3, <2>4, Busy
       DEF IInv, IsLive, InCommand, HasBackup, Failing, LateLock, Keeps, Seals, Writes,
           Unchanged, Untouched, Publishes, Found
<1>12. CASE FindChange
  <2>1. /\ pc = "prepare" /\ pc' = "publish"
        /\ run' = [run EXCEPT !.backup = IF ComposesBehavior THEN current ELSE None]
        /\ UNCHANGED <<scenario, start, outcome, crashes, root, current>>
    BY <1>12 DEF FindChange, Go
  <2>2. /\ run' \in Runs /\ run'.backup \in {current, None}
        /\ run'.cmd = run.cmd /\ run'.saved = run.saved
        /\ run'.staged = run.staged /\ run'.preimage = run.preimage
        /\ run'.failure = run.failure /\ run'.published = run.published
        /\ Undisturbed => run'.backup = None
    BY <1>3, <2>1, NoBehavior DEF Runs
  <2>3. Undisturbed' = Undisturbed
    BY <2>1, UndisturbedStays
  <2>4. Typed'
    BY <1>3, <2>1, <2>2 DEF Typed, Points
  <2>5. QED
    BY <1>1, <1>3, <1>4, <2>1, <2>2, <2>3, <2>4, Busy
       DEF IInv, IsLive, InCommand, HasBackup, Failing, LateLock, Keeps, Seals, Writes,
           Unchanged, Untouched, Publishes, Found
<1>13. QED
  BY <1>1, <1>6, <1>7, <1>8, <1>9, <1>10, <1>11, <1>12 DEF Prepare

\* The files a manifest delivers depend on the scenario and the manifest alone.
LEMMA DeliveredStays ==
    ASSUME UNCHANGED <<scenario, current>>
    PROVE  /\ Delivered(current.manifest)' = Delivered(current.manifest)
           /\ Sealed' = Sealed
  BY DEF Delivered, FilesOf, Delivers, Sealed

\* The publication, the files, and the two ways to take them back.
LEMMA DeliverStep == IInv /\ Deliver => IInv'
<1>1. SUFFICES ASSUME IInv, Deliver PROVE IInv'
  OBVIOUS
<1>2. pc \in {"publish", "write", "orphans"}
  BY <1>1 DEF Deliver, Publish, PublishFails, EndWrites, DeliveryFails, DeliveryInterrupted,
              EndDelivery, EndDeliveryFails, WriteFile, DeleteOrphan
<1>3. /\ Typed /\ InCommand /\ outcome = "none" /\ Failing /\ run.failure = "none"
      /\ current \in Whole /\ current.manifest \in Manifests /\ run \in Runs
      /\ current \in Gens /\ ~run.staged
  BY <1>1, <1>2, Running DEF Typed, IInv, Failing
<1>4. /\ run.cmd = "install" => current.manifest = start.gen.manifest
      /\ run.cmd = "install" /\ run.backup # None => run.backup.manifest = start.gen.manifest
      /\ Undisturbed => run.backup = None
      /\ Undisturbed /\ pc = "publish" => Found(current) /\ root = start.root
      /\ pc \in {"write", "orphans"} =>
           /\ run.cmd = "install" => run.preimage.manifest = start.gen.manifest
           /\ Undisturbed => Found(run.preimage) /\ run.rootBefore = start.root
           /\ Sealed
  BY <1>1, <1>2 DEF IInv, Keeps, Unchanged, Untouched, Seals
<1>5. CASE Publish
  <2>1. /\ pc = "publish" /\ pc' = "write"
        /\ run' = [run EXCEPT !.existing = current.lock, !.preimage = current,
                              !.rootBefore = root, !.published = TRUE,
                              !.todo = Delivered(current.manifest)]
        /\ current' = [current EXCEPT !.lock = LockFor(current.manifest, run.status),
                                      !.body = PublishedBody]
        /\ UNCHANGED <<scenario, start, outcome, crashes, root>>
    BY <1>5 DEF Publish, Go
  <2>2. /\ LockFor(current.manifest, run.status) \in LockFiles
        /\ LockFor(current.manifest, run.status).pins = current.manifest
        /\ LockFor(current.manifest, run.status).recorded = Delivered(current.manifest)
        /\ Delivered(current.manifest) \subseteq Paths
    BY <1>3, LockForManifest, DeliveredPaths DEF Typed, Runs
  <2>3. /\ current' \in Whole /\ current'.manifest = current.manifest
        /\ current'.lock = LockFor(current.manifest, run.status)
    <3>1. PublishedBody \in Bodies
      BY <1>3 DEF PublishedBody, Manifests, Bodies, Whole
    <3>2. QED
      BY <1>3, <2>1, <2>2, <3>1 DEF Whole, Locks
  <2>4. Delivered(current.manifest)' = Delivered(current.manifest)
    BY <2>1, <2>3 DEF Delivered, FilesOf, Delivers
  <2>5. Sealed'
    BY <2>2, <2>3, <2>4 DEF Sealed
  <2>6. /\ run' \in Runs /\ run'.preimage = current /\ run'.rootBefore = root
        /\ run'.todo = Delivered(current.manifest)
        /\ run'.cmd = run.cmd /\ run'.saved = run.saved
        /\ run'.backup = run.backup /\ run'.staged = run.staged
        /\ run'.failure = run.failure /\ run'.published
    BY <1>3, <2>1, <2>2 DEF Typed, Runs, Whole
  <2>7. Undisturbed' = Undisturbed
    BY <2>1, UndisturbedStays
  <2>8. Typed'
    BY <1>3, <2>1, <2>3, <2>6, WholeIsGen DEF Typed, Points
  <2>9. QED
    BY <1>1, <1>3, <2>1, <2>3, <2>4, <2>5, <2>6, <2>7, <2>8, Busy
       DEF IInv, IsLive, InCommand, HasBackup, Failing, LateLock, Keeps, Seals, Writes,
           Unchanged, Untouched, Publishes, Found
<1>6. ASSUME NEW p \in Paths, WriteFile(p) PROVE IInv'
  <2>1. /\ pc = "write" /\ p \in run.todo /\ pc' = pc
        /\ root' = [root EXCEPT ![p] = FileContent(current.manifest, p)]
        /\ run' = [run EXCEPT !.todo = run.todo \ {p}]
        /\ UNCHANGED <<scenario, start, outcome, crashes, current>>
    BY <1>6 DEF WriteFile, Go
  <2>2. FileContent(current.manifest, p) \in Contents
    BY <1>1, <1>3, <2>1, DeliveredPaths DEF IInv, Writes, Typed, Contents
  <2>3. root' \in [Paths -> Contents]
    BY <1>3, <2>1, <2>2 DEF Typed
  <2>4. /\ run' \in Runs /\ run'.todo \subseteq run.todo
        /\ run'.preimage = run.preimage /\ run'.rootBefore = run.rootBefore
        /\ run'.cmd = run.cmd /\ run'.saved = run.saved
        /\ run'.backup = run.backup /\ run'.staged = run.staged
        /\ run'.failure = run.failure /\ run'.published = run.published
    BY <1>3, <2>1 DEF Runs
  <2>5. Undisturbed' = Undisturbed
    BY <2>1, UndisturbedStays
  <2>6. Typed'
    BY <1>3, <2>1, <2>3, <2>4 DEF Typed
  <2>7. QED
    BY <1>1, <1>3, <2>1, <2>4, <2>5, <2>6, Busy, DeliveredStays
       DEF IInv, IsLive, InCommand, HasBackup, Failing, LateLock, Keeps, Seals, Writes,
           Unchanged, Untouched, Publishes, Found
<1>7. CASE EndWrites
  <2>1. /\ pc = "write" /\ pc' = "orphans"
        /\ run' = [run EXCEPT !.todo = Orphans(run.existing, current.lock)]
        /\ UNCHANGED <<scenario, start, outcome, crashes, current, root>>
    BY <1>7 DEF EndWrites, Go
  <2>2. Orphans(run.existing, current.lock) \subseteq Paths
    BY <1>3 DEF Orphans, Runs, Locks, LockFiles
  <2>3. /\ run' \in Runs
        /\ run'.preimage = run.preimage /\ run'.rootBefore = run.rootBefore
        /\ run'.cmd = run.cmd /\ run'.saved = run.saved
        /\ run'.backup = run.backup /\ run'.staged = run.staged
        /\ run'.failure = run.failure /\ run'.published = run.published
    BY <1>3, <2>1, <2>2 DEF Runs
  <2>4. Undisturbed' = Undisturbed
    BY <2>1, UndisturbedStays
  <2>5. Typed'
    BY <1>3, <2>1, <2>3 DEF Typed, Points
  <2>6. QED
    BY <1>1, <1>3, <2>1, <2>3, <2>4, <2>5, Busy, DeliveredStays
       DEF IInv, IsLive, InCommand, HasBackup, Failing, LateLock, Keeps, Seals, Writes,
           Unchanged, Untouched, Publishes, Found
<1>8. ASSUME NEW p \in Paths, DeleteOrphan(p) PROVE IInv'
  <2>1. /\ pc = "orphans" /\ pc' = pc
        /\ root' \in {root, [root EXCEPT ![p] = None]}
        /\ run' = [run EXCEPT !.todo = run.todo \ {p}]
        /\ UNCHANGED <<scenario, start, outcome, crashes, current>>
    BY <1>8 DEF DeleteOrphan, Go
  <2>2. root' \in [Paths -> Contents]
    BY <1>3, <2>1 DEF Typed, Contents
  <2>3. /\ run' \in Runs
        /\ run'.preimage = run.preimage /\ run'.rootBefore = run.rootBefore
        /\ run'.cmd = run.cmd /\ run'.saved = run.saved
        /\ run'.backup = run.backup /\ run'.staged = run.staged
        /\ run'.failure = run.failure /\ run'.published = run.published
    BY <1>3, <2>1 DEF Runs
  <2>4. Undisturbed' = Undisturbed
    BY <2>1, UndisturbedStays
  <2>5. Typed'
    BY <1>3, <2>1, <2>2, <2>3 DEF Typed
  <2>6. QED
    BY <1>1, <1>3, <2>1, <2>3, <2>4, <2>5, Busy, DeliveredStays
       DEF IInv, IsLive, InCommand, HasBackup, Failing, LateLock, Keeps, Seals, Writes,
           Unchanged, Untouched, Publishes, Found
<1>9. run.preimage \in Whole /\ run.preimage \in Gens /\ run.rootBefore \in [Paths -> Contents]
  BY <1>3, WholeIsGen DEF Runs
<1>10. CASE DeliveryFails
  <2>1. /\ pc \in {"write", "orphans"} /\ Raise("failed")
        /\ root' = run.rootBefore /\ current' = run.preimage
    BY <1>10 DEF DeliveryFails
  <2>2. Left("failed")
    BY <1>3, <1>4, <1>9, <2>1 DEF Left, Found
  <2>3. QED
    BY <1>2, <1>3, <1>4, <1>9, <2>1, <2>2, RaiseStep
<1>11. CASE DeliveryInterrupted
  <2>1. /\ pc \in {"write", "orphans"} /\ Raise("failed") /\ ~Undisturbed
        /\ root' = root /\ current' = run.preimage
    BY <1>11 DEF DeliveryInterrupted, Undisturbed
  <2>2. Left("failed")
    BY <1>3, <1>4, <1>9, <2>1 DEF Left, Typed
  <2>3. QED
    BY <1>2, <1>3, <1>4, <1>9, <2>1, <2>2, RaiseStep
<1>12. CASE PublishFails
  <2>1. pc = "publish" /\ Raise("failed") /\ UNCHANGED <<current, root>>
    BY <1>12 DEF PublishFails
  <2>2. Left("failed")
    BY <1>3, <1>4, <2>1 DEF Left, Found, Typed
  <2>3. QED
    BY <1>2, <1>3, <1>4, <2>1, <2>2, RaiseStep
<1>13. CASE EndDeliveryFails
  <2>1. pc = "orphans" /\ Raise("late") /\ UNCHANGED <<current, root>>
    BY <1>13 DEF EndDeliveryFails
  <2>2. Left("late")
    BY <1>3, <1>4, <2>1 DEF Left, Typed, Sealed
  <2>3. QED
    BY <1>2, <1>3, <1>4, <2>1, <2>2, RaiseStep
<1>14. CASE EndDelivery
  <2>1. /\ pc = "orphans" /\ pc' = "compose"
        /\ UNCHANGED <<scenario, start, outcome, crashes, current, root, run>>
    BY <1>14 DEF EndDelivery, Go
  <2>2. Undisturbed' = Undisturbed
    BY <2>1, UndisturbedStays
  <2>3. Typed'
    BY <1>3, <2>1 DEF Typed, Points
  <2>4. QED
    BY <1>1, <1>3, <2>1, <2>2, <2>3, Busy, DeliveredStays
       DEF IInv, IsLive, InCommand, HasBackup, Failing, LateLock, Keeps, Seals, Writes,
           Unchanged, Untouched, Publishes, Found
<1>15. QED
  BY <1>1, <1>5, <1>6, <1>7, <1>8, <1>10, <1>11, <1>12, <1>13, <1>14 DEF Deliver

\* The behavior pipeline, its rollback, and the manifest that an edit puts back.
LEMMA FinishStep == IInv /\ Finish => IInv'
<1>1. SUFFICES ASSUME IInv, Finish PROVE IInv'
  OBVIOUS
<1>2. pc \in {"compose", "dropLive", "renameBack", "restore"}
  BY <1>1 DEF Finish, Compose, ReconcileFails, ComposeFails, ComposeDefers, DropLive,
              RenameBack, RollbackFails, RestoreManifest, RestoreFails
<1>3. /\ Typed /\ InCommand /\ outcome = "none" /\ Failing /\ ~run.staged
      /\ pc \in {"compose", "dropLive"} => current \in Whole /\ current.manifest \in Manifests
      /\ run \in Runs /\ start.gen \in Whole /\ current \in Gens
  BY <1>1, <1>2, Running DEF Typed, IInv
<1>4. /\ run.cmd = "install" /\ pc # "renameBack" => current.manifest = start.gen.manifest
      /\ run.cmd = "install" /\ run.backup # None => run.backup.manifest = start.gen.manifest
      /\ Undisturbed => run.backup = None /\ pc \notin {"dropLive", "renameBack"}
      /\ Undisturbed /\ pc = "compose" /\ ~run.published => Found(current) /\ root = start.root
      /\ pc = "compose" => Sealed
  BY <1>1, <1>2 DEF IInv, Keeps, Unchanged, Untouched, Seals
<1>5. /\ Failures \ {"none"} = {"failed", "late", "lost"}
      /\ run.failure \in Failures
  BY <1>3 DEF Failures, Runs
<1>6. ASSUME End("deferred"), UNCHANGED root, current' \in Gens PROVE IInv'
  <2>1. /\ pc' = "idle" /\ run' = NoRun /\ outcome' = "deferred"
        /\ UNCHANGED <<scenario, start, crashes>>
    BY <1>6 DEF End
  <2>2. Typed'
    BY <1>3, <1>6, <2>1, NothingIsTyped DEF Typed, Points, Outcomes, NoRun
  <2>3. Ended'
    BY <2>1 DEF Ended, FailureRestoresManifest, SuccessSealsManifest, FoundAgain, Succeeded
  <2>4. QED
    BY <2>1, <2>2, <2>3, AtRest
<1>7. ASSUME pc = "compose", Pass
      PROVE  /\ UNCHANGED root /\ current' \in Gens
             /\ current'.manifest = current.manifest /\ current'.lock = current.lock
             /\ Undisturbed => UNCHANGED current
  <2>1. current' \in {current, [current EXCEPT !.body = Composed]} /\ UNCHANGED root
    BY <1>7 DEF Pass
  <2>2. Undisturbed => UNCHANGED current
    BY <1>7, NoBehavior DEF Pass
  <2>3. QED
    BY <1>3, <2>1, <2>2 DEF Gens, Bodies
<1>8. CASE Compose
  <2>1. /\ pc = "compose" /\ Pass /\ pc' = "idle" /\ run' = NoRun
        /\ outcome' \in {"installed", "unchanged"}
        /\ UNCHANGED <<scenario, start, crashes>>
    BY <1>8 DEF Compose, End
  <2>2. Typed'
    BY <1>3, <1>7, <2>1, NothingIsTyped DEF Typed, Points, Outcomes, NoRun
  <2>3. Sealed'
    BY <1>4, <1>7, <2>1 DEF Sealed, Delivered, FilesOf, Delivers
  <2>4. Ended'
    BY <2>1, <2>3 DEF Ended, FailureRestoresManifest, SuccessSealsManifest, FoundAgain,
                      Succeeded, Sealed
  <2>5. QED
    BY <2>1, <2>2, <2>4, AtRest
<1>9. CASE ReconcileFails
  <2>1. PICK how \in {"failed", "late"} :
            /\ FailAs(how)
            /\ how = "failed" => ~run.published
    BY <1>9 DEF ReconcileFails
  <2>2. pc = "compose" /\ Pass
    BY <1>9 DEF ReconcileFails
  <2>3. Left(how)
    BY <1>3, <1>4, <1>7, <2>1, <2>2 DEF Left, Typed, Found, Sealed
  <2>4. QED
    BY <1>3, <1>5, <2>1, <2>2, <2>3, FailStep
<1>10. CASE ComposeFails
  <2>1. /\ pc = "compose" /\ ComposesBehavior /\ UNCHANGED <<current, root>>
        /\ Raise("failed")
    BY <1>10 DEF ComposeFails
  <2>2. Left("failed")
    BY <1>3, <1>4, <2>1, NoBehavior DEF Left, Typed
  <2>3. QED
    BY <1>3, <1>4, <2>1, <2>2, RaiseStep
<1>11. CASE ComposeDefers
  <2>1. pc = "compose" /\ ComposesBehavior /\ UNCHANGED <<current, root>>
    BY <1>11 DEF ComposeDefers
  <2>2. CASE run.backup = None
    BY <1>3, <1>6, <1>11, <2>1, <2>2 DEF ComposeDefers
  <2>3. CASE run.backup # None
    <3>1. /\ pc' = "dropLive"
          /\ UNCHANGED <<scenario, start, outcome, crashes, current, root, run>>
      BY <1>11, <2>3 DEF ComposeDefers, Go
    <3>2. ~Undisturbed'
      BY <2>1, <3>1, NoBehavior, UndisturbedStays
    <3>3. Typed'
      BY <1>3, <3>1 DEF Typed, Points
    <3>4. QED
      BY <1>1, <1>3, <1>4, <2>1, <2>3, <3>1, <3>2, <3>3, Busy
         DEF IInv, IsLive, InCommand, HasBackup, Failing, LateLock, Keeps, Seals, Writes,
             Unchanged, Untouched, Publishes
  <2>4. QED
    BY <2>2, <2>3
<1>12. CASE DropLive
  <2>1. /\ pc = "dropLive" /\ pc' = "renameBack" /\ current' = Nothing
        /\ UNCHANGED <<scenario, start, outcome, crashes, root, run>>
    BY <1>12 DEF DropLive, Go
  <2>2. Undisturbed' = Undisturbed
    BY <2>1, UndisturbedStays
  <2>3. Nothing \in Gens
    BY DEF Nothing, Gens, Locks, Bodies
  <2>4. Typed'
    BY <1>3, <2>1, <2>3 DEF Typed, Points
  <2>5. QED
    BY <1>1, <1>3, <1>4, <2>1, <2>2, <2>4, Busy
       DEF IInv, IsLive, InCommand, HasBackup, Failing, LateLock, Keeps, Seals, Writes,
           Unchanged, Untouched, Publishes
<1>13. CASE RenameBack
  <2>1. pc = "renameBack" /\ current' = run.backup /\ UNCHANGED root
    BY <1>13 DEF RenameBack
  <2>2. run.backup # None /\ run.backup \in Gens /\ ~Undisturbed
    BY <1>1, <1>3, <1>4, <2>1, WholeIsGen DEF IInv, HasBackup, Runs
  <2>3. CASE End("deferred")
    BY <1>6, <2>1, <2>2, <2>3
  <2>4. CASE ~End("deferred")
    <3>1. FailAs("failed")
      BY <1>3, <1>13, <2>1, <2>4 DEF RenameBack, Failing, Fail
    <3>2. Left("failed")
      BY <1>3, <1>4, <2>1, <2>2 DEF Left, Typed
    <3>3. QED
      BY <1>3, <1>5, <2>1, <3>1, <3>2, FailStep
  <2>5. QED
    BY <2>3, <2>4
<1>14. CASE RollbackFails
  <2>1. /\ pc \in {"dropLive", "renameBack"} /\ FailAs("lost") /\ UNCHANGED root
        /\ current' \in Remains(current)
    BY <1>14 DEF RollbackFails
  <2>2. /\ current' \in Gens
        /\ current'.manifest \in {current.manifest, None}
    BY <1>3, <2>1 DEF Remains, Gens, Locks, Bodies
  <2>3. pc = "renameBack" => current'.manifest = None
    BY <1>1, <2>2 DEF IInv, HasBackup, Nothing
  <2>4. Left("lost")
    BY <1>3, <1>4, <2>1, <2>2, <2>3 DEF Left, Typed
  <2>5. QED
    BY <1>3, <1>5, <2>1, <2>4, FailStep
<1>15. CASE RestoreManifest
  <2>1. /\ pc = "restore" /\ pc' = "idle" /\ run' = NoRun /\ outcome' = run.failure
        /\ current' = [current EXCEPT !.manifest = run.saved]
        /\ UNCHANGED <<scenario, start, crashes, root>>
    BY <1>15 DEF RestoreManifest, End
  <2>2. /\ current' \in Gens /\ current'.manifest = start.gen.manifest
        /\ current'.lock = current.lock /\ current'.body = current.body
    BY <1>3, <2>1 DEF Runs, InCommand, Gens
  <2>3. Undisturbed /\ run.failure = "failed" => Found(current) /\ root = start.root
    BY <1>1, <2>1 DEF IInv, Unchanged, Untouched
  <2>4. Undisturbed /\ run.failure = "failed" => current' = start.gen
    BY <1>3, <2>2, <2>3 DEF Whole, Gens, Found
  <2>5. Undisturbed' = Undisturbed
    BY <2>1, UndisturbedStays
  <2>6. Typed'
    BY <1>3, <1>5, <2>1, <2>2, NothingIsTyped DEF Typed, Points, Outcomes, NoRun
  <2>7. Ended'
    BY <1>5, <2>1, <2>2, <2>3, <2>4, <2>5
       DEF Ended, FailureRestoresManifest, SuccessSealsManifest, FoundAgain, Succeeded, Failures
  <2>8. outcome' = "late" => current'.lock # NoLock
    BY <1>1, <2>1, <2>2 DEF IInv, LateLock
  <2>9. QED
    BY <2>1, <2>6, <2>7, <2>8, AtRest
<1>16. CASE RestoreFails
  <2>1. /\ pc' = "idle" /\ run' = NoRun /\ outcome' = "unrestored"
        /\ UNCHANGED <<scenario, start, crashes, root, current>>
    BY <1>16 DEF RestoreFails, End
  <2>2. Typed'
    BY <1>3, <2>1, NothingIsTyped DEF Typed, Points, Outcomes, NoRun
  <2>3. Ended'
    BY <2>1 DEF Ended, FailureRestoresManifest, SuccessSealsManifest, FoundAgain, Succeeded
  <2>4. QED
    BY <2>1, <2>2, <2>3, AtRest
<1>17. QED
  BY <1>1, <1>8, <1>9, <1>10, <1>11, <1>12, <1>13, <1>14, <1>15, <1>16 DEF Finish

\* A kill leaves everything where it is, or half removed.
LEMMA CrashStep == IInv /\ Crash => IInv'
<1>1. SUFFICES ASSUME IInv, Crash PROVE IInv'
  OBVIOUS
<1>2. /\ pc' = "idle" /\ run' = NoRun /\ outcome' = "crashed" /\ crashes' = crashes + 1
      /\ current' \in {current} \cup Remains(current)
      /\ UNCHANGED <<scenario, root, start>>
  BY <1>1 DEF Crash
<1>3. current' \in Gens
  BY <1>1, <1>2 DEF IInv, Typed, Remains, Gens, Locks, Bodies
<1>4. Typed'
  BY <1>1, <1>2, <1>3, NothingIsTyped DEF IInv, Typed, Points, Outcomes, NoRun
<1>5. Ended'
  BY <1>2 DEF Ended, FailureRestoresManifest, SuccessSealsManifest, FoundAgain, Succeeded
<1>6. QED
  BY <1>2, <1>4, <1>5, AtRest

LEMMA StutterStep == IInv /\ UNCHANGED vars => IInv'
<1>1. SUFFICES ASSUME IInv, UNCHANGED vars PROVE IInv'
  OBVIOUS
<1>2. /\ UNCHANGED <<scenario, current, root, pc, run, start, outcome, crashes>>
      /\ Delivered(current.manifest)' = Delivered(current.manifest)
      /\ Sealed' = Sealed /\ Undisturbed' = Undisturbed
  BY <1>1, DeliveredStays, UndisturbedStays DEF vars
<1>3. QED
  BY <1>1, <1>2
     DEF IInv, Typed, IsLive, InCommand, HasBackup, Failing, LateLock, Keeps, Seals, Writes,
         Unchanged, Untouched, Publishes, Found, Ended, FailureRestoresManifest, SuccessSealsManifest,
         FoundAgain, Succeeded

--------------------------------------------------------------------------------
(* The operator's edits *)

Hashed(lock) == lock # NoLock => \A p \in lock.recorded : lock.hashes[p] # None

\* Every lock that may become the live one, or be compared with, has a hash for each path.
Hashes ==
    /\ Hashed(current.lock)
    /\ Hashed(run.preimage.lock) /\ Hashed(run.existing)
    /\ run.backup # None => Hashed(run.backup.lock)

OrphansRecorded == pc = "orphans" =>
    \A p \in run.todo : run.existing # NoLock /\ p \in run.existing.recorded

\* No step of a command makes an edit, so that the files to bring back have each.
EditsOlder == pc \in {"write", "orphans"} =>
    \A p \in Paths : root[p] = Edited => run.rootBefore[p] = Edited

EditsInv == Hashes /\ OrphansRecorded /\ EditsOlder

LEMMA LocksHashed ==
    /\ Hashed(NoLock)
    /\ \A manifest \in Manifests : Hashed(CandidateLock(manifest))
    /\ scenario \in Scenarios =>
          \A manifest \in Manifests : \A hooks : Hashed(LockFor(manifest, hooks))
<1>1. Hashed(NoLock) /\ \A manifest \in Manifests : Hashed(CandidateLock(manifest))
  BY DEF Hashed, CandidateLock
<1>2. ASSUME scenario \in Scenarios, NEW manifest \in Manifests, NEW hooks
      PROVE  Hashed(LockFor(manifest, hooks))
  <2>1. \A p \in Delivered(manifest) : p \in Paths /\ FileContent(manifest, p) # None
    BY <1>2, DeliveredPaths, ContentsAssumption
  <2>2. QED
    BY <2>1 DEF Hashed, LockFor
<1>3. QED
  BY <1>1, <1>2

\* A step that touches no file outside of `.spaex/` before or after a delivery.
LEMMA EditsQuiet ==
    ASSUME Hashes, pc' \notin {"write", "orphans"},
           Hashed(current'.lock),
           \/ run'.preimage \in {run.preimage, NoGen}
           \/ run'.preimage = current,
           run'.existing \in {run.existing, NoLock},
           \/ run'.backup \in {run.backup, None}
           \/ run'.backup = current
    PROVE  EditsInv'
  BY LocksHashed DEF EditsInv, Hashes, OrphansRecorded, EditsOlder, Hashed, NoGen

LEMMA NoRunCopies ==
    NoRun.preimage = NoGen /\ NoRun.existing = NoLock /\ NoRun.backup = None
  BY DEF NoRun

\* An exception: the locals are kept for an edit, or end.
LEMMA EditsFail ==
    ASSUME Typed, Hashes, NEW how, FailAs(how), Hashed(current'.lock)
    PROVE  EditsInv'
<1>1. CASE run.cmd = "edit"
  <2>1. pc' = "restore" /\ run' = [run EXCEPT !.staged = FALSE, !.failure = how]
    BY <1>1 DEF FailAs, Go
  <2>2. run'.preimage = run.preimage /\ run'.existing = run.existing /\ run'.backup = run.backup
    BY <2>1 DEF Typed, Runs
  <2>3. QED
    BY <2>1, <2>2, EditsQuiet
<1>2. CASE run.cmd # "edit"
  <2>1. pc' = "idle" /\ run' = NoRun
    BY <1>2 DEF FailAs, End
  <2>2. QED
    BY <2>1, NoRunCopies, EditsQuiet
<1>3. QED
  BY <1>1, <1>2

LEMMA EditsRaise ==
    ASSUME Typed, Hashes, NEW how, Raise(how), Hashed(current'.lock)
    PROVE  EditsInv'
<1>1. CASE run.backup = None
  BY <1>1, EditsFail DEF Raise
<1>2. CASE run.backup # None
  <2>1. pc' = "dropLive" /\ run' = [run EXCEPT !.failure = "failed"]
    BY <1>2 DEF Raise, Go
  <2>2. run'.preimage = run.preimage /\ run'.existing = run.existing /\ run'.backup = run.backup
    BY <2>1 DEF Typed, Runs
  <2>3. QED
    BY <2>1, <2>2, EditsQuiet
<1>3. QED
  BY <1>1, <1>2

LEMMA EditsOperator == IInv /\ EditsInv /\ Operator => EditsInv'
<1>1. SUFFICES ASSUME IInv, EditsInv, Operator PROVE EditsInv'
  OBVIOUS
<1>2. Typed /\ Hashes
  BY <1>1 DEF IInv, EditsInv
<1>3. ASSUME NEW manifest \in Manifests, PullManifest(manifest) PROVE EditsInv'
  <2>1. pc' = "idle" /\ run' = run /\ current' = [current EXCEPT !.manifest = manifest]
        /\ current \in Gens
    BY <1>2, <1>3 DEF PullManifest, Idle, Typed
  <2>2. current'.lock = current.lock
    BY <2>1 DEF Gens
  <2>3. QED
    BY <1>2, <2>1, <2>2, EditsQuiet DEF Hashes
<1>4. ASSUME NEW p \in Paths, EditFile(p) PROVE EditsInv'
  <2>1. pc' = "idle" /\ run' = run /\ current' = current
    BY <1>2, <1>4 DEF EditFile, Idle
  <2>2. QED
    BY <1>2, <2>1, EditsQuiet DEF Hashes
<1>5. ASSUME NEW cmd, NEW skip, NEW manifest \in Manifests, Begin(cmd, skip, manifest)
      PROVE  EditsInv'
  <2>1. /\ pc' = "resolve" /\ current' = [current EXCEPT !.manifest = manifest]
        /\ run' = [NoRun EXCEPT !.cmd = cmd, !.skip = skip, !.saved = current.manifest]
        /\ current \in Gens
    BY <1>2, <1>5 DEF Begin, Typed
  <2>2. current'.lock = current.lock
    BY <2>1 DEF Gens
  <2>3. run'.preimage = NoGen /\ run'.existing = NoLock /\ run'.backup = None
    BY <2>1 DEF NoRun
  <2>4. QED
    BY <1>2, <2>1, <2>2, <2>3, EditsQuiet DEF Hashes
<1>6. ASSUME NEW skip \in BOOLEAN, StartInstall(skip) PROVE EditsInv'
  <2>1. current.manifest \in Manifests
    BY <1>2, <1>6 DEF StartInstall, Begin, Typed, Gens
  <2>2. QED
    BY <1>5, <1>6, <2>1 DEF StartInstall
<1>7. ASSUME NEW m \in Molecules, NEW v \in Versions \cup {0}, NEW skip \in BOOLEAN,
             StartEdit(m, v, skip)
      PROVE  EditsInv'
  <2>1. [current.manifest EXCEPT ![m] = v] \in Manifests
    BY <1>2, <1>7 DEF StartEdit, Typed, Gens, Manifests
  <2>2. QED
    BY <1>5, <1>7, <2>1 DEF StartEdit
<1>8. QED
  BY <1>1, <1>3, <1>4, <1>6, <1>7 DEF Operator

LEMMA EditsPrepare == IInv /\ EditsInv /\ Prepare => EditsInv'
<1>1. SUFFICES ASSUME IInv, EditsInv, Prepare PROVE EditsInv'
  OBVIOUS
<1>2. pc \in {"resolve", "stage", "hooks", "prepare"}
  BY <1>1 DEF Prepare, Resolve, Stage, RunHooks, AbortHooks, CommitFails, Refuse,
              FindNoChange, FindChange
<1>3. /\ Typed /\ Hashes /\ run \in Runs /\ current \in Whole
      /\ current.manifest \in Manifests /\ Hashed(current.lock)
  BY <1>1, <1>2, Running DEF EditsInv, Hashes
<1>4. ASSUME Fail, UNCHANGED current PROVE EditsInv'
  BY <1>3, <1>4, EditsFail DEF Fail
<1>5. CASE Resolve
  <2>1. CASE Fail
    BY <1>4, <1>5, <2>1 DEF Resolve
  <2>2. CASE ~Fail
    <3>1. pc' \in {"stage", "hooks"} /\ UNCHANGED <<run, current>>
      BY <1>5, <2>2 DEF Resolve, Go
    <3>2. QED
      BY <1>3, <3>1, EditsQuiet
  <2>3. QED
    BY <2>1, <2>2
<1>6. CASE Stage
  <2>1. /\ pc' = "hooks" /\ run' = [run EXCEPT !.preimage = current, !.staged = TRUE]
        /\ current' = [current EXCEPT !.lock = CandidateLock(current.manifest),
                                      !.body = current.manifest[Contributor]]
    BY <1>6 DEF Stage, Go
  <2>2. run'.preimage = current /\ run'.existing = run.existing /\ run'.backup = run.backup
    BY <1>3, <2>1 DEF Runs
  <2>3. current'.lock = CandidateLock(current.manifest)
    BY <1>3, <2>1 DEF Whole
  <2>4. Hashed(current'.lock)
    BY <1>3, <2>3, LocksHashed
  <2>5. QED
    BY <1>3, <2>1, <2>2, <2>4, EditsQuiet
<1>7. CASE RunHooks
  <2>1. pc' = "prepare" /\ UNCHANGED current
    BY <1>7 DEF RunHooks, Go
  <2>2. PICK status : run' = [run EXCEPT !.staged = FALSE, !.status = status]
    BY <1>7 DEF RunHooks
  <2>3. run'.preimage = run.preimage /\ run'.existing = run.existing /\ run'.backup = run.backup
    BY <1>3, <2>2 DEF Runs
  <2>4. QED
    BY <1>3, <2>1, <2>3, EditsQuiet
<1>8. CASE AbortHooks
  <2>1. FailAs("failed") /\ current' \in {run.preimage, current}
    BY <1>8 DEF AbortHooks, Fail
  <2>2. QED
    BY <1>3, <2>1, EditsFail DEF Hashes
<1>9. CASE Refuse \/ CommitFails
  BY <1>4, <1>9 DEF Refuse, CommitFails
<1>10. CASE FindNoChange
  <2>1. pc' = "compose" /\ UNCHANGED <<run, current>>
    BY <1>10 DEF FindNoChange, Go
  <2>2. QED
    BY <1>3, <2>1, EditsQuiet
<1>11. CASE FindChange
  <2>1. /\ pc' = "publish" /\ UNCHANGED current
        /\ run' = [run EXCEPT !.backup = IF ComposesBehavior THEN current ELSE None]
    BY <1>11 DEF FindChange, Go
  <2>2. /\ run'.preimage = run.preimage /\ run'.existing = run.existing
        /\ run'.backup \in {current, None}
    BY <1>3, <2>1 DEF Runs
  <2>3. QED
    BY <1>3, <2>1, <2>2, EditsQuiet
<1>12. QED
  BY <1>1, <1>5, <1>6, <1>7, <1>8, <1>9, <1>10, <1>11 DEF Prepare

LEMMA EditsDeliver == IInv /\ EditsInv /\ Deliver => EditsInv'
<1>1. SUFFICES ASSUME IInv, EditsInv, Deliver PROVE EditsInv'
  OBVIOUS
<1>2. pc \in {"publish", "write", "orphans"}
  BY <1>1 DEF Deliver, Publish, PublishFails, EndWrites, DeliveryFails, DeliveryInterrupted,
              EndDelivery, EndDeliveryFails, WriteFile, DeleteOrphan
<1>3. /\ Typed /\ Hashes /\ run \in Runs /\ current \in Whole
      /\ current.manifest \in Manifests /\ Hashed(current.lock)
  BY <1>1, <1>2, Running DEF EditsInv, Hashes
<1>4. CASE Publish
  <2>1. /\ pc' = "write" /\ UNCHANGED root
        /\ run' = [run EXCEPT !.existing = current.lock, !.preimage = current,
                              !.rootBefore = root, !.published = TRUE,
                              !.todo = Delivered(current.manifest)]
        /\ current' = [current EXCEPT !.lock = LockFor(current.manifest, run.status),
                                      !.body = PublishedBody]
    BY <1>4 DEF Publish, Go
  <2>2. /\ run'.existing = current.lock /\ run'.preimage = current
        /\ run'.rootBefore = root /\ run'.backup = run.backup
    BY <1>3, <2>1 DEF Runs
  <2>3. current'.lock = LockFor(current.manifest, run.status)
    BY <1>3, <2>1 DEF Whole
  <2>4. Hashed(current'.lock)
    BY <1>3, <2>3, LocksHashed DEF Typed
  <2>5. QED
    BY <1>3, <2>1, <2>2, <2>4 DEF EditsInv, Hashes, OrphansRecorded, EditsOlder, Hashed
<1>5. ASSUME NEW p \in Paths, WriteFile(p) PROVE EditsInv'
  <2>1. /\ pc = "write" /\ p \in run.todo /\ pc' = pc
        /\ root' = [root EXCEPT ![p] = FileContent(current.manifest, p)]
        /\ run' = [run EXCEPT !.todo = run.todo \ {p}]
        /\ UNCHANGED current
    BY <1>5 DEF WriteFile, Go
  <2>2. FileContent(current.manifest, p) # Edited
    BY <1>1, <1>3, <2>1, DeliveredPaths, ContentsAssumption DEF IInv, Writes, Typed
  <2>3. /\ run'.preimage = run.preimage /\ run'.existing = run.existing
        /\ run'.backup = run.backup /\ run'.rootBefore = run.rootBefore
    BY <1>3, <2>1 DEF Runs
  <2>4. \A q \in Paths : root'[q] = Edited => root[q] = Edited
    BY <1>3, <2>1, <2>2 DEF Typed
  <2>5. QED
    BY <1>1, <1>3, <2>1, <2>3, <2>4 DEF EditsInv, Hashes, OrphansRecorded, EditsOlder, Hashed
<1>6. CASE EndWrites
  <2>1. /\ pc = "write" /\ pc' = "orphans" /\ UNCHANGED <<root, current>>
        /\ run' = [run EXCEPT !.todo = Orphans(run.existing, current.lock)]
    BY <1>6 DEF EndWrites, Go
  <2>2. /\ run'.preimage = run.preimage /\ run'.existing = run.existing
        /\ run'.backup = run.backup /\ run'.rootBefore = run.rootBefore
        /\ run'.todo = Orphans(run.existing, current.lock)
    BY <1>3, <2>1 DEF Runs
  <2>3. QED
    BY <1>1, <1>3, <2>1, <2>2
       DEF EditsInv, Hashes, OrphansRecorded, EditsOlder, Hashed, Orphans
<1>7. ASSUME NEW p \in Paths, DeleteOrphan(p) PROVE EditsInv'
  <2>1. /\ pc = "orphans" /\ pc' = pc
        /\ root' \in {root, [root EXCEPT ![p] = None]}
        /\ run' = [run EXCEPT !.todo = run.todo \ {p}]
        /\ UNCHANGED current
    BY <1>7 DEF DeleteOrphan, Go
  <2>2. /\ run'.preimage = run.preimage /\ run'.existing = run.existing
        /\ run'.backup = run.backup /\ run'.rootBefore = run.rootBefore
        /\ run'.todo \subseteq run.todo
    BY <1>3, <2>1 DEF Runs
  <2>3. \A q \in Paths : root'[q] = Edited => root[q] = Edited
    BY <1>3, <2>1, ContentsAssumption DEF Typed
  <2>4. QED
    BY <1>1, <1>3, <2>1, <2>2, <2>3 DEF EditsInv, Hashes, OrphansRecorded, EditsOlder, Hashed
<1>8. CASE DeliveryFails \/ DeliveryInterrupted
  BY <1>3, <1>8, EditsRaise DEF DeliveryFails, DeliveryInterrupted, Hashes
<1>9. CASE PublishFails \/ EndDeliveryFails
  BY <1>3, <1>9, EditsRaise DEF PublishFails, EndDeliveryFails, Hashes
<1>10. CASE EndDelivery
  <2>1. pc' = "compose" /\ UNCHANGED <<run, current>>
    BY <1>10 DEF EndDelivery, Go
  <2>2. QED
    BY <1>3, <2>1, EditsQuiet
<1>11. QED
  BY <1>1, <1>4, <1>5, <1>6, <1>7, <1>8, <1>9, <1>10 DEF Deliver

LEMMA EditsFinish == IInv /\ EditsInv /\ (Finish \/ Crash) => EditsInv'
<1>1. SUFFICES ASSUME IInv, EditsInv, Finish \/ Crash PROVE EditsInv'
  OBVIOUS
<1>2. Typed /\ Hashes /\ run \in Runs
  BY <1>1 DEF IInv, EditsInv, Typed
<1>3. ASSUME pc' = "idle", run' = NoRun, Hashed(current'.lock)
      PROVE  EditsInv'
  BY <1>2, <1>3, NoRunCopies, EditsQuiet
<1>4. ASSUME pc = "compose", Pass PROVE Hashed(current'.lock)
  <2>1. current' \in {current, [current EXCEPT !.body = Composed]}
    BY <1>4 DEF Pass
  <2>2. current'.lock = current.lock
    BY <1>2, <2>1 DEF Typed, Gens
  <2>3. QED
    BY <1>2, <2>2 DEF Hashes
<1>5. CASE Compose
  BY <1>3, <1>4, <1>5 DEF Compose, End
<1>6. CASE ReconcileFails
  BY <1>2, <1>4, <1>6, EditsFail DEF ReconcileFails
<1>7. CASE ComposeFails
  BY <1>2, <1>7, EditsRaise DEF ComposeFails, Hashes
<1>8. CASE ComposeDefers
  <2>1. CASE run.backup = None
    BY <1>2, <1>3, <1>8, <2>1 DEF ComposeDefers, End, Hashes
  <2>2. CASE run.backup # None
    BY <1>2, <1>8, <2>2, EditsQuiet DEF ComposeDefers, Go, Hashes
  <2>3. QED
    BY <2>1, <2>2
<1>9. CASE DropLive
  <2>1. Nothing.lock = NoLock
    BY DEF Nothing
  <2>2. QED
    BY <1>2, <1>9, <2>1, LocksHashed, EditsQuiet DEF DropLive, Go
<1>10. CASE RenameBack
  <2>1. Hashed(current'.lock)
    BY <1>1, <1>2, <1>10 DEF RenameBack, Hashes, IInv, HasBackup
  <2>2. CASE End("deferred")
    BY <1>3, <2>1, <2>2 DEF End
  <2>3. CASE ~End("deferred")
    BY <1>2, <1>10, <2>1, <2>3, EditsFail DEF RenameBack, Fail
  <2>4. QED
    BY <2>2, <2>3
<1>11. ASSUME current' \in Remains(current) PROVE Hashed(current'.lock)
  <2>1. current'.lock \in {current.lock, NoLock}
    BY <1>11 DEF Remains
  <2>2. QED
    BY <1>2, <2>1, LocksHashed DEF Hashes
<1>12. CASE RollbackFails
  BY <1>2, <1>11, <1>12, EditsFail DEF RollbackFails
<1>13. CASE RestoreManifest
  <2>1. /\ pc = "restore" /\ pc' = "idle" /\ run' = NoRun
        /\ current' = [current EXCEPT !.manifest = run.saved]
    BY <1>13 DEF RestoreManifest, End
  <2>2. current'.lock = current.lock
    BY <1>2, <2>1 DEF Typed, Gens
  <2>3. QED
    BY <1>2, <1>3, <2>1, <2>2 DEF Hashes
<1>14. CASE RestoreFails
  BY <1>2, <1>3, <1>14 DEF RestoreFails, End, Hashes
<1>15. CASE Crash
  BY <1>2, <1>3, <1>11, <1>15 DEF Crash, Hashes
<1>16. QED
  BY <1>1, <1>5, <1>6, <1>7, <1>8, <1>9, <1>10, <1>12, <1>13, <1>14, <1>15 DEF Finish

\* The content of a file changes where files are delivered, taken back or edited, and only
\* there.
LEMMA EditsKeptByStep ==
    IInv /\ EditsInv /\ [Next]_vars => \A q \in Paths : root[q] = Edited => root'[q] # None
<1>1. SUFFICES ASSUME IInv, EditsInv, [Next]_vars, NEW q \in Paths, root[q] = Edited
               PROVE  root'[q] # None
  OBVIOUS
<1>2. Typed /\ Hashes /\ run \in Runs
  BY <1>1 DEF IInv, EditsInv, Typed
<1>3. CASE root' = root
  BY <1>1, <1>3, ContentsAssumption
<1>4. ASSUME NEW p \in Paths, EditFile(p) PROVE root'[q] # None
  BY <1>1, <1>2, <1>4, ContentsAssumption DEF EditFile, Typed
<1>5. ASSUME NEW p \in Paths, WriteFile(p) PROVE root'[q] # None
  <2>1. /\ pc = "write" /\ p \in run.todo
        /\ root' = [root EXCEPT ![p] = FileContent(current.manifest, p)]
    BY <1>5 DEF WriteFile
  <2>2. current.manifest \in Manifests
    BY <1>1, <2>1, Running
  <2>3. FileContent(current.manifest, p) # None
    BY <1>1, <1>2, <2>1, <2>2, DeliveredPaths, ContentsAssumption DEF IInv, Writes, Typed
  <2>4. QED
    BY <1>1, <1>2, <2>1, <2>3, ContentsAssumption DEF Typed
<1>6. ASSUME NEW p \in Paths, DeleteOrphan(p) PROVE root'[q] # None
  <2>1. /\ pc = "orphans" /\ p \in run.todo
        /\ root' = IF run.existing.hashes[p] \in {None, root[p]}
                   THEN [root EXCEPT ![p] = None] ELSE root
    BY <1>6 DEF DeleteOrphan
  <2>2. run.existing # NoLock /\ p \in run.existing.recorded /\ run.existing.hashes[p] # None
    BY <1>1, <2>1 DEF EditsInv, OrphansRecorded, Hashes, Hashed
  <2>3. run.existing.hashes[p] # Edited
    BY <1>2, <2>2, ContentsAssumption DEF Runs, Locks, LockFiles
  <2>4. QED
    BY <1>1, <1>2, <2>1, <2>2, <2>3, ContentsAssumption DEF Typed
<1>7. CASE DeliveryFails
  BY <1>1, <1>7, ContentsAssumption DEF DeliveryFails, EditsInv, EditsOlder
<1>8. CASE Prepare \/ Finish \/ Crash \/ UNCHANGED vars
  BY <1>3, <1>8
     DEF Prepare, Resolve, Stage, RunHooks, AbortHooks, CommitFails, Refuse, FindNoChange,
         FindChange, Finish, Compose, ReconcileFails, Pass, ComposeFails, ComposeDefers,
         DropLive, RenameBack, RollbackFails, RestoreManifest, RestoreFails, Crash, vars
<1>9. CASE Operator
  BY <1>3, <1>4, <1>9 DEF Operator, PullManifest, StartInstall, StartEdit, Begin
<1>10. CASE Deliver
  BY <1>3, <1>5, <1>6, <1>7, <1>10
     DEF Deliver, Publish, PublishFails, EndWrites, DeliveryInterrupted, EndDelivery,
         EndDeliveryFails
<1>11. QED
  BY <1>1, <1>8, <1>9, <1>10 DEF Next

--------------------------------------------------------------------------------
(* What the deliveries leave *)

\* The lock of a publication: its hashes are those of its pins.
Faithful(lock) == lock # NoLock =>
    /\ lock.recorded = Delivered(lock.pins)
    /\ \A p \in lock.recorded : lock.hashes[p] = FileContent(lock.pins, p)

LeftBy(lock, p) == IF lock # NoLock /\ p \in lock.recorded
                   THEN {lock.hashes[p], Edited} ELSE {None, Edited}

HeldBy(lock, files) == \A p \in Paths : files[p] \in LeftBy(lock, p)

LiveFaithful == Faithful(current.lock)
LiveHeld == HeldBy(current.lock, root)
FoundFaithful == Faithful(start.gen.lock)
FoundHeld == HeldBy(start.gen.lock, start.root)

\* Half way: what has been written is there, what has been deleted is not, and the rest
\* is as the command found it.
Written == \A p \in Paths :
    root[p] \in IF p \in current.lock.recorded \ run.todo
                THEN {current.lock.hashes[p]} ELSE LeftBy(start.gen.lock, p)

Cleaned ==
    /\ run.todo \subseteq Orphans(start.gen.lock, current.lock)
    /\ \A p \in Paths :
          root[p] \in IF p \in run.todo
                      THEN LeftBy(start.gen.lock, p) ELSE LeftBy(current.lock, p)

DeliveryInv == Undisturbed =>
    /\ pc \in {"idle", "compose", "restore", "write", "orphans"} => LiveFaithful
    /\ pc \in {"idle", "compose", "restore"} => LiveHeld
    /\ pc # "idle" => FoundFaithful /\ FoundHeld
    /\ pc \in {"write", "orphans"} =>
          run.existing = start.gen.lock /\ current.lock # NoLock
    /\ pc = "write" => Written
    /\ pc = "orphans" => Cleaned

LEMMA FaithfulStays ==
    ASSUME UNCHANGED scenario
    PROVE  /\ LiveFaithful /\ current'.lock = current.lock => LiveFaithful'
           /\ FoundFaithful /\ current'.lock = start.gen.lock => LiveFaithful'
           /\ LiveFaithful /\ start'.gen.lock = current.lock => FoundFaithful'
           /\ FoundFaithful /\ start' = start => FoundFaithful'
<1>1. ASSUME NEW lock
      PROVE  Faithful(lock)' <=> Faithful(lock)
  BY DEF Faithful, Delivered, FilesOf, Delivers, FileContent
<1>2. ASSUME LiveFaithful, current'.lock = current.lock PROVE LiveFaithful'
  BY <1>1, <1>2 DEF LiveFaithful
<1>3. ASSUME FoundFaithful, current'.lock = start.gen.lock PROVE LiveFaithful'
  BY <1>1, <1>3 DEF LiveFaithful, FoundFaithful
<1>4. ASSUME LiveFaithful, start'.gen.lock = current.lock PROVE FoundFaithful'
  BY <1>1, <1>4 DEF LiveFaithful, FoundFaithful
<1>5. ASSUME FoundFaithful, start' = start PROVE FoundFaithful'
  BY <1>1, <1>5 DEF FoundFaithful
<1>6. QED
  BY <1>2, <1>3, <1>4, <1>5

\* A command goes on without touching what it delivers, or stops where it began.
LEMMA FoundStays ==
    ASSUME DeliveryInv, pc # "idle", UNCHANGED <<scenario, crashes, start>>,
           pc' \notin {"idle", "compose", "restore", "write", "orphans"}
    PROVE  DeliveryInv'
  BY FaithfulStays, UndisturbedStays DEF DeliveryInv, FoundHeld

LEMMA FoundIsLeft ==
    ASSUME DeliveryInv, pc # "idle", UNCHANGED <<scenario, crashes, start>>,
           pc' \in {"idle", "compose", "restore"},
           Undisturbed => current'.lock = start.gen.lock /\ root' = start.root
    PROVE  DeliveryInv'
  BY FaithfulStays, UndisturbedStays DEF DeliveryInv, FoundHeld, LiveHeld

LEMMA FailDelivery ==
    ASSUME DeliveryInv, IInv', pc # "idle", Typed, FailAs("failed")
    PROVE  DeliveryInv'
<1>1. UNCHANGED <<scenario, crashes, start>> /\ pc' \in {"restore", "idle"}
  BY DEF FailAs, Go, End
<1>2. Undisturbed' = Undisturbed
  BY <1>1, UndisturbedStays
<1>3. pc' = "restore" => run'.failure = "failed"
  BY DEF FailAs, Go, End, Typed, Runs
<1>4. pc' = "idle" => outcome' = "failed"
  BY DEF FailAs, Go, End
<1>5. Undisturbed => current'.lock = start'.gen.lock /\ root' = start'.root
  BY <1>1, <1>2, <1>3, <1>4 DEF IInv, Ended, FoundAgain, Unchanged, Untouched, Found
<1>6. QED
  BY <1>1, <1>5, FoundIsLeft

\* A failure that leaves the lock and the files as they are where the lock describes them.
LEMMA LateDelivery ==
    ASSUME DeliveryInv, pc # "idle", pc' \in {"restore", "idle"},
           UNCHANGED <<scenario, crashes, start, root>>,
           Undisturbed => LiveFaithful /\ LiveHeld /\ current'.lock = current.lock
    PROVE  DeliveryInv'
<1>1. LiveHeld /\ current'.lock = current.lock => LiveHeld'
  BY DEF LiveHeld, HeldBy, LeftBy
<1>2. QED
  BY <1>1, FaithfulStays, UndisturbedStays DEF DeliveryInv, FoundHeld

LEMMA UndisturbedRaises ==
    ASSUME IInv, pc \notin {"idle", "dropLive", "renameBack"}, Undisturbed, NEW how, Raise(how)
    PROVE  FailAs(how)
  BY DEF IInv, Unchanged, Untouched, Raise

LEMMA OperatorDelivers == IInv /\ DeliveryInv /\ Operator => DeliveryInv'
<1>1. SUFFICES ASSUME IInv, DeliveryInv, Operator PROVE DeliveryInv'
  OBVIOUS
<1>2. /\ pc = "idle" /\ Typed
      /\ UNCHANGED <<scenario, crashes>>
      /\ Undisturbed' = Undisturbed
  BY <1>1, UndisturbedStays
     DEF Operator, PullManifest, EditFile, StartInstall, StartEdit, Begin, Idle, IInv
<1>3. Undisturbed => LiveFaithful /\ LiveHeld
  BY <1>1, <1>2 DEF DeliveryInv
<1>4. ASSUME NEW manifest \in Manifests, PullManifest(manifest) PROVE DeliveryInv'
  <2>1. /\ pc' = "idle" /\ current \in Gens /\ UNCHANGED root
        /\ current' = [current EXCEPT !.manifest = manifest]
    BY <1>2, <1>4 DEF PullManifest, Idle, Typed
  <2>2. current'.lock = current.lock
    BY <2>1 DEF Gens
  <2>3. QED
    BY <1>2, <1>3, <2>1, <2>2, FaithfulStays DEF DeliveryInv, LiveHeld
<1>5. ASSUME NEW p \in Paths, EditFile(p) PROVE DeliveryInv'
  <2>1. pc' = "idle" /\ UNCHANGED current /\ root' = [root EXCEPT ![p] = Edited]
    BY <1>2, <1>5 DEF EditFile, Idle
  <2>2. LiveHeld => LiveHeld'
    BY <1>2, <2>1 DEF LiveHeld, HeldBy, LeftBy, Typed
  <2>3. QED
    BY <1>2, <1>3, <2>1, <2>2, FaithfulStays DEF DeliveryInv
<1>6. ASSUME NEW cmd, NEW skip, NEW manifest, Begin(cmd, skip, manifest) PROVE DeliveryInv'
  <2>1. pc' = "resolve" /\ start' = [gen |-> current, root |-> root]
    BY <1>6 DEF Begin
  <2>2. start'.gen = current /\ start'.root = root
    BY <2>1
  <2>3. LiveHeld => FoundHeld'
    BY <2>2 DEF LiveHeld, FoundHeld
  <2>4. QED
    BY <1>2, <1>3, <2>1, <2>2, <2>3, FaithfulStays DEF DeliveryInv
<1>7. QED
  BY <1>1, <1>4, <1>5, <1>6 DEF Operator, StartInstall, StartEdit

LEMMA PrepareDelivers == IInv /\ IInv' /\ DeliveryInv /\ Prepare => DeliveryInv'
<1>1. SUFFICES ASSUME IInv, IInv', DeliveryInv, Prepare PROVE DeliveryInv'
  OBVIOUS
<1>2. pc \in {"resolve", "stage", "hooks", "prepare"}
  BY <1>1 DEF Prepare, Resolve, Stage, RunHooks, AbortHooks, CommitFails, Refuse,
              FindNoChange, FindChange
<1>3. CASE Fail
  BY <1>1, <1>2, <1>3, FailDelivery DEF Fail, IInv
<1>4. CASE FindNoChange
  <2>1. /\ pc = "prepare" /\ pc' = "compose"
        /\ UNCHANGED <<scenario, crashes, start, current, root>>
    BY <1>4 DEF FindNoChange, Go
  <2>2. Undisturbed => current.lock = start.gen.lock /\ root = start.root
    BY <1>1, <2>1 DEF IInv, Unchanged, Untouched, Found
  <2>3. QED
    BY <1>1, <2>1, <2>2, FoundIsLeft
<1>5. CASE ~Fail /\ ~FindNoChange
  <2>1. /\ pc' \in {"stage", "hooks", "prepare", "publish"}
        /\ UNCHANGED <<scenario, crashes, start>>
    BY <1>1, <1>5 DEF Prepare, Resolve, Stage, RunHooks, AbortHooks, CommitFails, Refuse,
                     FindChange, Go
  <2>2. QED
    BY <1>1, <1>2, <2>1, FoundStays
<1>6. QED
  BY <1>3, <1>4, <1>5

LEMMA PublishDelivers == IInv /\ DeliveryInv /\ Publish => DeliveryInv'
<1>1. SUFFICES ASSUME IInv, DeliveryInv, Publish PROVE DeliveryInv'
  OBVIOUS
<1>2. /\ pc = "publish" /\ pc' = "write"
      /\ run' = [run EXCEPT !.existing = current.lock, !.preimage = current,
                            !.rootBefore = root, !.published = TRUE,
                            !.todo = Delivered(current.manifest)]
      /\ current' = [current EXCEPT !.lock = LockFor(current.manifest, run.status),
                                    !.body = PublishedBody]
      /\ UNCHANGED <<scenario, crashes, start, root>>
  BY <1>1 DEF Publish, Go
<1>3. Typed /\ run \in Runs /\ current \in Whole /\ current.manifest \in Manifests
  BY <1>1, <1>2, Running
<1>4. run'.existing = current.lock /\ run'.todo = Delivered(current.manifest)
  BY <1>2, <1>3 DEF Runs
<1>5. current'.lock = LockFor(current.manifest, run.status)
  BY <1>2, <1>3 DEF Whole
<1>6. /\ current'.lock \in LockFiles /\ current'.lock # NoLock
      /\ current'.lock.pins = current.manifest
      /\ current'.lock.recorded = Delivered(current.manifest)
  <2>1. /\ LockFor(current.manifest, run.status) \in LockFiles
        /\ LockFor(current.manifest, run.status).pins = current.manifest
        /\ LockFor(current.manifest, run.status).recorded = Delivered(current.manifest)
    BY <1>3, LockForManifest DEF Typed, Runs
  <2>2. QED
    BY <1>5, <2>1
<1>7. LiveFaithful'
  <2>1. \A p \in Delivered(current.manifest) :
            current'.lock.hashes[p] = FileContent(current.manifest, p)
    <3>1. Delivered(current.manifest) \subseteq Paths
      BY <1>3, DeliveredPaths DEF Typed
    <3>2. QED
      BY <1>5, <3>1 DEF LockFor
  <2>2. \A lock : Faithful(lock)' <=> Faithful(lock)
    BY <1>2 DEF Faithful, Delivered, FilesOf, Delivers, FileContent
  <2>3. Faithful(LockFor(current.manifest, run.status))
    BY <1>5, <1>6, <2>1 DEF Faithful
  <2>4. QED
    BY <1>5, <2>2, <2>3 DEF LiveFaithful
<1>8. Undisturbed' = Undisturbed
  BY <1>2, UndisturbedStays
<1>9. Undisturbed => current.lock = start.gen.lock /\ root = start.root
  BY <1>1, <1>2 DEF IInv, Unchanged, Untouched, Found
<1>10. Undisturbed => FoundHeld /\ FoundFaithful
  BY <1>1, <1>2 DEF DeliveryInv
<1>11. FoundHeld /\ root = start.root => Written'
  BY <1>2, <1>4, <1>6 DEF FoundHeld, HeldBy, LeftBy, Written
<1>12. FoundHeld => FoundHeld'
  BY <1>2 DEF FoundHeld
<1>13. QED
  BY <1>2, <1>4, <1>6, <1>7, <1>8, <1>9, <1>10, <1>11, <1>12, FaithfulStays DEF DeliveryInv

\* One file more is written, or one orphan more looked at.
LEMMA FileDelivers ==
    ASSUME IInv, DeliveryInv, NEW p \in Paths, WriteFile(p) \/ DeleteOrphan(p)
    PROVE  DeliveryInv'
<1>1. /\ pc \in {"write", "orphans"} /\ pc' = pc /\ p \in run.todo
      /\ run' = [run EXCEPT !.todo = run.todo \ {p}]
      /\ UNCHANGED <<scenario, crashes, start, current>>
  BY DEF WriteFile, DeleteOrphan, Go
<1>2. Typed /\ run \in Runs /\ current \in Whole /\ current.manifest \in Manifests
  BY <1>1, Running
<1>3. run'.existing = run.existing /\ run'.todo = run.todo \ {p}
  BY <1>1, <1>2 DEF Runs
<1>4. SUFFICES ASSUME Undisturbed', Undisturbed PROVE DeliveryInv'
  BY <1>1, UndisturbedStays DEF DeliveryInv
<1>5. /\ LiveFaithful /\ FoundFaithful /\ FoundHeld
      /\ run.existing = start.gen.lock /\ current.lock # NoLock
  BY <1>1, <1>4 DEF DeliveryInv
<1>6. LiveFaithful' /\ FoundFaithful' /\ FoundHeld'
  BY <1>1, <1>5, FaithfulStays DEF FoundHeld
<1>7. CASE pc = "write"
  <2>1. root' = [root EXCEPT ![p] = FileContent(current.manifest, p)]
    BY <1>7 DEF WriteFile, DeleteOrphan
  <2>2. Sealed /\ p \in Delivered(current.manifest)
    BY <1>1, <1>7 DEF IInv, Seals, Writes
  <2>3. p \in current.lock.recorded /\ current.lock.hashes[p] = FileContent(current.manifest, p)
    BY <1>5, <2>2 DEF LiveFaithful, Faithful, Sealed
  <2>4. Written
    BY <1>4, <1>7 DEF DeliveryInv
  <2>5. Written'
    BY <1>1, <1>2, <1>3, <2>1, <2>3, <2>4 DEF Written, LeftBy, Typed
  <2>6. QED
    BY <1>1, <1>3, <1>5, <1>6, <1>7, <2>5 DEF DeliveryInv
<1>8. CASE pc = "orphans"
  <2>1. root' = IF run.existing.hashes[p] \in {None, root[p]}
                THEN [root EXCEPT ![p] = None] ELSE root
    BY <1>8 DEF WriteFile, DeleteOrphan
  <2>2. Cleaned
    BY <1>4, <1>8 DEF DeliveryInv
  <2>3. root'[p] \in {None, Edited}
    BY <1>1, <1>2, <1>5, <2>1, <2>2 DEF Cleaned, LeftBy, Typed
  <2>4. p \notin current.lock.recorded
    BY <1>1, <2>2 DEF Cleaned, Orphans
  <2>5. Cleaned'
    BY <1>1, <1>2, <1>3, <2>1, <2>2, <2>3, <2>4 DEF Cleaned, LeftBy, Typed
  <2>6. QED
    BY <1>1, <1>3, <1>5, <1>6, <1>8, <2>5 DEF DeliveryInv
<1>9. QED
  BY <1>1, <1>7, <1>8

LEMMA DeliverDelivers == IInv /\ IInv' /\ DeliveryInv /\ Deliver => DeliveryInv'
<1>1. SUFFICES ASSUME IInv, IInv', DeliveryInv, Deliver PROVE DeliveryInv'
  OBVIOUS
<1>2. CASE Publish
  BY <1>1, <1>2, PublishDelivers
<1>3. ASSUME NEW p \in Paths, WriteFile(p) \/ DeleteOrphan(p) PROVE DeliveryInv'
  BY <1>1, <1>3, FileDelivers
<1>4. CASE EndWrites
  <2>1. /\ pc = "write" /\ pc' = "orphans" /\ run.todo = {}
        /\ run' = [run EXCEPT !.todo = Orphans(run.existing, current.lock)]
        /\ UNCHANGED <<scenario, crashes, start, current, root>>
    BY <1>4 DEF EndWrites, Go
  <2>2. run'.existing = run.existing /\ run'.todo = Orphans(run.existing, current.lock)
    BY <1>1, <2>1, Running DEF Runs
  <2>3. SUFFICES ASSUME Undisturbed', Undisturbed PROVE DeliveryInv'
    BY <2>1, UndisturbedStays DEF DeliveryInv
  <2>4. /\ LiveFaithful /\ FoundFaithful /\ FoundHeld /\ Written
        /\ run.existing = start.gen.lock /\ current.lock # NoLock
    BY <1>1, <2>1, <2>3 DEF DeliveryInv
  <2>5. LiveFaithful' /\ FoundFaithful' /\ FoundHeld'
    BY <2>1, <2>4, FaithfulStays DEF FoundHeld
  <2>6. Cleaned'
    <3>1. /\ run'.todo = Orphans(start.gen.lock, current.lock) /\ run.todo = {}
          /\ start' = start /\ current' = current /\ root' = root
      BY <2>1, <2>2, <2>4
    <3>2. \A p \in Paths :
              root[p] \in IF p \in Orphans(start.gen.lock, current.lock)
                          THEN LeftBy(start.gen.lock, p) ELSE LeftBy(current.lock, p)
      BY <2>4, <3>1 DEF Written, LeftBy, Orphans
    <3>3. QED
      BY <3>1, <3>2 DEF Cleaned
  <2>7. QED
    BY <2>1, <2>2, <2>4, <2>5, <2>6 DEF DeliveryInv
<1>5. CASE DeliveryFails \/ DeliveryInterrupted \/ PublishFails \/ EndDeliveryFails
  <2>1. PICK how \in {"failed", "late"} :
            /\ Raise(how) /\ pc \in {"publish", "write", "orphans"}
            /\ how = "late" => UNCHANGED <<current, root>> /\ pc = "orphans" /\ run.todo = {}
    BY <1>5 DEF DeliveryFails, DeliveryInterrupted, PublishFails, EndDeliveryFails
  <2>2. UNCHANGED <<scenario, crashes, start>>
    BY <2>1 DEF Raise, FailAs, Go, End
  <2>3. SUFFICES ASSUME Undisturbed PROVE DeliveryInv'
    BY <2>2, UndisturbedStays DEF DeliveryInv
  <2>4. FailAs(how)
    BY <1>1, <2>1, <2>3, UndisturbedRaises
  <2>5. CASE how = "failed"
    BY <1>1, <2>1, <2>4, <2>5, FailDelivery DEF IInv
  <2>6. CASE how = "late"
    <3>1. Cleaned /\ LiveFaithful
      BY <1>1, <2>1, <2>3, <2>6 DEF DeliveryInv
    <3>2. LiveHeld
      BY <2>1, <2>6, <3>1 DEF Cleaned, LiveHeld, HeldBy
    <3>3. pc' \in {"restore", "idle"}
      BY <2>4 DEF FailAs, Go, End
    <3>4. QED
      BY <1>1, <2>1, <2>2, <2>6, <3>1, <3>2, <3>3, LateDelivery
  <2>7. QED
    BY <2>1, <2>5, <2>6
<1>6. CASE EndDelivery
  <2>1. /\ pc = "orphans" /\ pc' = "compose" /\ run.todo = {}
        /\ UNCHANGED <<scenario, crashes, start, current, root, run>>
    BY <1>6 DEF EndDelivery, Go
  <2>2. Cleaned => LiveHeld'
    BY <2>1 DEF Cleaned, LiveHeld, HeldBy
  <2>3. QED
    BY <1>1, <2>1, <2>2, FaithfulStays, UndisturbedStays DEF DeliveryInv, FoundHeld
<1>7. QED
  BY <1>1, <1>2, <1>3, <1>4, <1>5, <1>6 DEF Deliver

\* Behavior is what disturbs; without it a command ends with what it has delivered.
LEMMA FinishDelivers == IInv /\ IInv' /\ DeliveryInv /\ (Finish \/ Crash) => DeliveryInv'
<1>1. SUFFICES ASSUME IInv, IInv', DeliveryInv, Finish \/ Crash PROVE DeliveryInv'
  OBVIOUS
<1>2. CASE Crash
  <2>1. crashes' # 0
    BY <1>1, <1>2 DEF Crash, IInv, Typed
  <2>2. QED
    BY <2>1 DEF DeliveryInv, Undisturbed
<1>3. CASE Finish
  <2>1. UNCHANGED <<scenario, crashes>>
    BY <1>3 DEF Finish, Compose, ReconcileFails, ComposeFails, ComposeDefers, DropLive, RenameBack,
                RollbackFails, RestoreManifest, RestoreFails, Fail, Raise, FailAs, Go, End
  <2>2. SUFFICES ASSUME Undisturbed PROVE DeliveryInv'
    BY <2>1, UndisturbedStays DEF DeliveryInv
  <2>3. pc \notin {"dropLive", "renameBack", "idle"} /\ ~ComposesBehavior
    BY <1>1, <1>3, <2>2, NoBehavior
       DEF IInv, Unchanged, Untouched, Finish, Compose, ReconcileFails, ComposeFails, ComposeDefers, DropLive,
           RenameBack, RollbackFails, RestoreManifest, RestoreFails
  <2>4. Compose \/ ReconcileFails \/ RestoreManifest \/ RestoreFails
    BY <1>3, <2>3 DEF Finish, ComposeFails, ComposeDefers, DropLive, RenameBack, RollbackFails
  <2>5. /\ pc \in {"compose", "restore"} /\ pc' \in {"restore", "idle"}
        /\ UNCHANGED <<scenario, crashes, start, root>>
    BY <2>4 DEF Compose, ReconcileFails, Pass, RestoreManifest, RestoreFails, FailAs, Go, End
  <2>6. current' \in {current, [current EXCEPT !.manifest = run.saved]}
    BY <2>3, <2>4 DEF Compose, ReconcileFails, Pass, RestoreManifest, RestoreFails
  <2>7. current'.lock = current.lock
    BY <1>1, <2>6 DEF IInv, Typed, Gens
  <2>8. LiveFaithful /\ LiveHeld
    BY <1>1, <2>2, <2>5 DEF DeliveryInv
  <2>9. QED
    BY <1>1, <2>5, <2>7, <2>8, LateDelivery
<1>4. QED
  BY <1>1, <1>2, <1>3

LEMMA InitDelivery == Init => DeliveryInv
  BY DEF Init, DeliveryInv, LiveFaithful, LiveHeld, Faithful, HeldBy, LeftBy, NoGen, NoFiles

LEMMA StutterDelivers == DeliveryInv /\ UNCHANGED vars => DeliveryInv'
<1>1. SUFFICES ASSUME DeliveryInv, UNCHANGED vars PROVE DeliveryInv'
  OBVIOUS
<1>2. UNCHANGED <<scenario, current, root, pc, run, start, outcome, crashes>>
  BY <1>1 DEF vars
<1>3. QED
  BY <1>1, <1>2, FaithfulStays, UndisturbedStays
     DEF DeliveryInv, LiveHeld, FoundHeld, Written, Cleaned

\* The lock says what the files are, and a success that the lock is the manifest's.
LEMMA DeliveryIsSuccess == IInv /\ DeliveryInv => SuccessDeliversUndisturbed
<1>1. SUFFICES ASSUME IInv, DeliveryInv, Undisturbed, Succeeded PROVE SuccessDelivers
  BY DEF SuccessDeliversUndisturbed, SuccessDelivers
<1>2. pc = "idle"
  BY <1>1 DEF IInv, InCommand, Succeeded
<1>3. LiveFaithful /\ LiveHeld
  BY <1>1, <1>2 DEF DeliveryInv
<1>4. /\ current.lock # NoLock /\ current.lock.pins = current.manifest
      /\ current.lock.recorded = Delivered(current.manifest)
  BY <1>1 DEF IInv, Ended, SuccessSealsManifest
<1>5. QED
  BY <1>3, <1>4 DEF LiveFaithful, LiveHeld, Faithful, HeldBy, LeftBy, SuccessDelivers

\* So does a failure: it leaves what was found, or the lock and the files of a publication.
LEMMA DeliveryIsFailure == IInv /\ DeliveryInv => FailureChangesNothing
<1>1. SUFFICES ASSUME IInv, DeliveryInv, Undisturbed
               PROVE  /\ outcome = "failed" => current = start.gen /\ root = start.root
                      /\ outcome = "late" => Settled
  BY DEF FailureChangesNothing
<1>2. outcome = "failed" => current = start.gen /\ root = start.root
  BY <1>1 DEF IInv, Ended, FoundAgain
<1>3. ASSUME outcome = "late" PROVE Settled
  <2>1. pc = "idle" /\ current.lock # NoLock
    BY <1>1, <1>3 DEF IInv, InCommand, LateLock
  <2>2. LiveHeld
    BY <1>1, <2>1 DEF DeliveryInv
  <2>3. QED
    BY <2>1, <2>2 DEF LiveHeld, HeldBy, LeftBy, Settled
<1>4. QED
  BY <1>2, <1>3

--------------------------------------------------------------------------------
(* What is published *)

\* Why a candidate was staged over the generation that the command found.
Outdated ==
    /\ start.gen.manifest[Contributor] # 0
    /\ Adopted(start.gen.manifest) \cap Hooked # {}
    /\ ~ContributorMatches(start.gen)

\* A change that the behavior pass cannot undo by writing the body that was there.
Changed ==
    \/ current.lock # start.gen.lock
    \/ NeverUnchanged(current.manifest)
    \/ ~ComposesBehavior /\ current # start.gen

PublicationInv == pc # "idle" =>
    /\ run.cmd = "edit" /\ pc \notin {"dropLive", "renameBack", "restore"}
         => current.manifest # start.gen.manifest
    /\ run.cmd = "install" =>
         /\ pc = "resolve" => current = start.gen
         /\ pc = "stage" => Outdated
         /\ pc \in {"hooks", "prepare"} => current = start.gen \/ Outdated
         /\ pc = "publish" => ~IsNoOp(start.gen, run.status) \/ Outdated
         /\ pc \in {"write", "orphans"} => Changed
         /\ pc = "compose" /\ run.published => Changed
    /\ pc \in {"resolve", "stage", "hooks", "prepare", "publish"} => ~run.published

PublicationSafe == PublicationInv /\ PublishesOnlyChanges

LEMMA OutdatedStays ==
    ASSUME UNCHANGED <<scenario, start>>
    PROVE  Outdated' <=> Outdated
  BY DEF Outdated, Hooked, ContributorMatches, FilesOf, Delivers, Adopted

LEMMA ChangedStays ==
    ASSUME UNCHANGED <<scenario, start, current>>
    PROVE  Changed' <=> Changed
  BY DEF Changed, NeverUnchanged, ComposesBehavior, Composes, Adopted, Behaving, Hooked, FilesOf,
         Delivers

\* A command that does not end with a publication.
LEMMA NotInstalled ==
    ASSUME pc' \in {"idle", "dropLive", "renameBack", "restore"}, outcome' # "installed"
    PROVE  PublicationSafe'
  BY DEF PublicationSafe, PublicationInv, PublishesOnlyChanges

LEMMA FailPublication ==
    ASSUME outcome = "none", NEW how, FailAs(how) \/ Raise(how), how # "installed"
    PROVE  PublicationSafe'
  BY NotInstalled DEF Raise, FailAs, Go, End

LEMMA OperatorPublishes == IInv /\ PublicationSafe /\ Operator => PublicationSafe'
<1>1. SUFFICES ASSUME IInv, Operator PROVE PublicationSafe'
  OBVIOUS
<1>2. Typed
  BY <1>1 DEF IInv
<1>3. CASE \/ \E manifest \in Manifests : PullManifest(manifest)
           \/ \E p \in Paths : EditFile(p)
  BY <1>3, NotInstalled DEF PullManifest, EditFile, Idle
<1>4. ASSUME NEW cmd \in {"install", "edit"}, NEW skip, NEW manifest,
             Begin(cmd, skip, manifest), current \in Whole,
             cmd = "install" => manifest = current.manifest,
             cmd = "edit" => manifest # current.manifest
      PROVE  PublicationSafe'
  <2>1. /\ pc' = "resolve" /\ outcome' = "none"
        /\ current' = [current EXCEPT !.manifest = manifest]
        /\ start' = [gen |-> current, root |-> root]
        /\ run' = [NoRun EXCEPT !.cmd = cmd, !.skip = skip, !.saved = current.manifest]
    BY <1>4 DEF Begin
  <2>2. /\ start'.gen = current /\ run'.cmd = cmd /\ ~run'.published
        /\ current'.manifest = manifest
        /\ cmd = "install" => current' = current
    BY <1>4, <2>1 DEF NoRun, Whole
  <2>3. QED
    BY <1>4, <2>1, <2>2 DEF PublicationSafe, PublicationInv, PublishesOnlyChanges
<1>5. ASSUME NEW skip \in BOOLEAN, StartInstall(skip) PROVE PublicationSafe'
  <2>1. current \in Whole
    BY <1>2, <1>5 DEF StartInstall, Begin, Typed, Whole, Gens
  <2>2. QED
    BY <1>4, <1>5, <2>1 DEF StartInstall
<1>6. ASSUME NEW m \in Molecules, NEW v \in Versions \cup {0}, NEW skip \in BOOLEAN,
             StartEdit(m, v, skip)
      PROVE  PublicationSafe'
  <2>1. current \in Whole
    BY <1>2, <1>6 DEF StartEdit, Typed, Whole, Gens
  <2>2. [current.manifest EXCEPT ![m] = v] # current.manifest
    BY <1>6, <2>1 DEF StartEdit, Whole, Manifests
  <2>3. QED
    BY <1>4, <1>6, <2>1, <2>2 DEF StartEdit
<1>7. QED
  BY <1>1, <1>3, <1>5, <1>6 DEF Operator

LEMMA PreparePublishes == IInv /\ PublicationSafe /\ Prepare => PublicationSafe'
<1>1. SUFFICES ASSUME IInv, PublicationSafe, Prepare PROVE PublicationSafe'
  OBVIOUS
<1>2. pc \in {"resolve", "stage", "hooks", "prepare"}
  BY <1>1 DEF Prepare, Resolve, Stage, RunHooks, AbortHooks, CommitFails, Refuse,
              FindNoChange, FindChange
<1>3. /\ Typed /\ InCommand /\ outcome = "none" /\ run \in Runs /\ current \in Whole
      /\ PublicationInv /\ ~run.published
  BY <1>1, <1>2, Running DEF PublicationSafe, PublicationInv
<1>4. CASE Fail
  BY <1>3, <1>4, FailPublication DEF Fail
<1>5. CASE Resolve /\ ~Fail
  <2>1. /\ pc = "resolve" /\ pc' \in {"stage", "hooks"}
        /\ pc' = "stage" => /\ HooksToRun # {} /\ ~ContributorMatches(current)
                            /\ current.manifest[Contributor] # 0
        /\ UNCHANGED <<scenario, start, outcome, current, run>>
    BY <1>5 DEF Resolve, Go
  <2>2. run.cmd = "install" /\ pc' = "stage" => Outdated
    BY <1>3, <2>1 DEF PublicationInv, Outdated, HooksToRun
  <2>3. QED
    BY <1>3, <2>1, <2>2, OutdatedStays DEF PublicationSafe, PublicationInv, PublishesOnlyChanges
<1>6. CASE Stage
  <2>1. /\ pc = "stage" /\ pc' = "hooks"
        /\ run' = [run EXCEPT !.preimage = current, !.staged = TRUE]
        /\ current' = [current EXCEPT !.lock = CandidateLock(current.manifest),
                                      !.body = current.manifest[Contributor]]
        /\ UNCHANGED <<scenario, start, outcome>>
    BY <1>6 DEF Stage, Go
  <2>2. /\ run'.cmd = run.cmd /\ run'.published = run.published
        /\ current'.manifest = current.manifest
    BY <1>3, <2>1 DEF Runs, Whole
  <2>3. QED
    BY <1>3, <2>1, <2>2, OutdatedStays DEF PublicationSafe, PublicationInv, PublishesOnlyChanges
<1>7. CASE RunHooks
  <2>1. /\ pc = "hooks" /\ pc' = "prepare"
        /\ UNCHANGED <<scenario, start, outcome, current>>
    BY <1>7 DEF RunHooks, Go
  <2>2. PICK status : run' = [run EXCEPT !.staged = FALSE, !.status = status]
    BY <1>7 DEF RunHooks
  <2>3. run'.cmd = run.cmd /\ run'.published = run.published
    BY <1>3, <2>2 DEF Runs
  <2>4. QED
    BY <1>3, <2>1, <2>3, OutdatedStays DEF PublicationSafe, PublicationInv, PublishesOnlyChanges
<1>8. CASE FindNoChange
  <2>1. /\ pc = "prepare" /\ pc' = "compose"
        /\ UNCHANGED <<scenario, start, outcome, current, run>>
    BY <1>8 DEF FindNoChange, Go
  <2>2. QED
    BY <1>3, <2>1 DEF PublicationSafe, PublicationInv, PublishesOnlyChanges
<1>9. CASE FindChange
  <2>1. /\ pc = "prepare" /\ pc' = "publish" /\ ~IsNoOp(current, run.status)
        /\ run' = [run EXCEPT !.backup = IF ComposesBehavior THEN current ELSE None]
        /\ UNCHANGED <<scenario, start, outcome, current>>
    BY <1>9 DEF FindChange, Go
  <2>2. run'.cmd = run.cmd /\ run'.published = run.published /\ run'.status = run.status
    BY <1>3, <2>1 DEF Runs
  <2>3. IsNoOp(start.gen, run.status)' <=> IsNoOp(start.gen, run.status)
    BY <2>1, <2>2 DEF IsNoOp, BodyMatches, Composes, Adopted, Behaving, Delivered,
                     FilesOf, Delivers
  <2>4. QED
    BY <1>3, <2>1, <2>2, <2>3, OutdatedStays
       DEF PublicationSafe, PublicationInv, PublishesOnlyChanges
<1>10. QED
  BY <1>1, <1>4, <1>5, <1>6, <1>7, <1>8, <1>9 DEF Prepare, AbortHooks, CommitFails, Refuse

\* What is published is not what was found: a candidate was staged only where the body or
\* the record of the contributor had changed, and otherwise the no-op decision compared.
LEMMA PublishIsChange ==
    ASSUME IInv, PublicationSafe, Publish
    PROVE  PublicationSafe'
<1>1. /\ pc = "publish" /\ pc' = "write"
      /\ run' = [run EXCEPT !.existing = current.lock, !.preimage = current,
                            !.rootBefore = root, !.published = TRUE,
                            !.todo = Delivered(current.manifest)]
      /\ current' = [current EXCEPT !.lock = LockFor(current.manifest, run.status),
                                    !.body = PublishedBody]
      /\ UNCHANGED <<scenario, start, outcome>>
  BY DEF Publish, Go
<1>2. /\ Typed /\ outcome = "none" /\ run \in Runs /\ PublicationInv
      /\ current \in Whole /\ current.manifest \in Manifests /\ start.gen \in Whole
  BY <1>1, Running DEF PublicationSafe
<1>3. run'.cmd = run.cmd
  BY <1>1, <1>2 DEF Runs
<1>4. /\ current'.manifest = current.manifest
      /\ current'.lock = LockFor(current.manifest, run.status)
      /\ current'.body = PublishedBody
  BY <1>1, <1>2 DEF Whole
<1>5. ASSUME run.cmd = "install" PROVE Changed'
  <2>1. start.gen.manifest = current.manifest
    BY <1>1, <1>5 DEF IInv, Keeps
  <2>2. /\ current'.lock \in LockFiles /\ current'.lock.pins = current.manifest
        /\ current'.lock.recorded = Delivered(current.manifest)
        /\ current'.lock.hooks = run.status
    <3>1. LockFor(current.manifest, run.status).hooks = run.status
      BY DEF LockFor
    <3>2. QED
      BY <1>2, <1>4, <3>1, LockForManifest DEF Typed, Runs
  <2>3. current'.lock # NoLock
    BY <2>2
  <2>4. /\ NeverUnchanged(current.manifest)' <=> NeverUnchanged(current.manifest)
        /\ ComposesBehavior' <=> ComposesBehavior
    BY <1>1, <1>4 DEF NeverUnchanged, ComposesBehavior, Composes, Adopted, Behaving, Hooked,
                      FilesOf, Delivers
  <2>5. SUFFICES ASSUME current'.lock = start.gen.lock, ~NeverUnchanged(current.manifest)
                 PROVE  ~ComposesBehavior /\ current'.body # start.gen.body
    BY <1>1, <2>4 DEF Changed
  <2>6. /\ start.gen.lock # NoLock /\ start.gen.lock.pins = start.gen.manifest
        /\ start.gen.lock.recorded = Delivered(start.gen.manifest)
        /\ start.gen.lock.hooks = run.status
    BY <2>1, <2>2, <2>3, <2>5
  <2>7. CASE Outdated
    <3>1. /\ FilesOf(Contributor, current.manifest) = {} /\ ~ComposesBehavior
          /\ current.manifest[Contributor] # 0
      BY <2>1, <2>5, <2>7 DEF Outdated, NeverUnchanged, ComposesBehavior
    <3>2. start.gen.body # start.gen.manifest[Contributor]
      BY <2>1, <2>6, <2>7, <3>1 DEF Outdated, ContributorMatches
    <3>3. QED
      BY <1>4, <2>1, <3>1, <3>2 DEF PublishedBody
  <2>8. CASE ~Outdated
    <3>1. ~BodyMatches(start.gen)
      BY <1>1, <1>2, <1>5, <2>6, <2>8 DEF PublicationInv, IsNoOp
    <3>2. CASE current.manifest[Contributor] # 0
      <4>1. start.gen.body # current.manifest[Contributor]
        BY <2>1, <3>1, <3>2 DEF BodyMatches
      <4>2. ~ComposesBehavior
        BY <2>5, <3>2 DEF NeverUnchanged, ComposesBehavior
      <4>3. QED
        BY <1>4, <3>2, <4>1, <4>2 DEF PublishedBody
    <3>3. CASE current.manifest[Contributor] = 0
      <4>1. start.gen.body # None /\ ~ComposesBehavior
        BY <2>1, <3>1, <3>3 DEF BodyMatches, ComposesBehavior
      <4>2. QED
        BY <1>4, <3>3, <4>1 DEF PublishedBody
    <3>4. QED
      BY <3>2, <3>3
  <2>9. QED
    BY <2>7, <2>8
<1>6. QED
  BY <1>1, <1>2, <1>3, <1>4, <1>5 DEF PublicationSafe, PublicationInv, PublishesOnlyChanges

LEMMA DeliverPublishes ==
    ASSUME IInv, PublicationSafe, Deliver
    PROVE  PublicationSafe'
<1>1. pc \in {"publish", "write", "orphans"}
  BY DEF Deliver, Publish, PublishFails, EndWrites, DeliveryFails, DeliveryInterrupted,
         EndDelivery, EndDeliveryFails, WriteFile, DeleteOrphan
<1>2. outcome = "none" /\ run \in Runs /\ PublicationInv
  BY <1>1, Running DEF PublicationSafe
<1>3. CASE Publish
  BY <1>3, PublishIsChange
<1>4. CASE EndWrites \/ EndDelivery \/ \E p \in Paths : WriteFile(p) \/ DeleteOrphan(p)
  <2>1. /\ pc \in {"write", "orphans"} /\ pc' \in {"write", "orphans", "compose"}
        /\ UNCHANGED <<scenario, start, outcome, current>>
        /\ \E todo : run' \in {run, [run EXCEPT !.todo = todo]}
    BY <1>4 DEF EndWrites, EndDelivery, WriteFile, DeleteOrphan, Go
  <2>2. run'.cmd = run.cmd
    BY <1>2, <2>1 DEF Runs
  <2>3. QED
    BY <1>2, <2>1, <2>2, ChangedStays DEF PublicationSafe, PublicationInv, PublishesOnlyChanges
<1>5. CASE PublishFails \/ DeliveryFails \/ DeliveryInterrupted \/ EndDeliveryFails
  <2>1. PICK how \in {"failed", "late"} : Raise(how)
    BY <1>5 DEF PublishFails, DeliveryFails, DeliveryInterrupted, EndDeliveryFails
  <2>2. QED
    BY <1>2, <2>1, FailPublication
<1>6. QED
  BY <1>3, <1>4, <1>5 DEF Deliver

\* The pass writes the body, which is not all that has changed where there is behavior.
LEMMA PassPublishes ==
    ASSUME IInv, PublicationInv, pc = "compose", Pass, run.published,
           UNCHANGED <<scenario, start>>
    PROVE  current' # start.gen \/ NeverUnchanged(current'.manifest)
<1>1. /\ InCommand /\ current \in Whole /\ start.gen \in Whole
      /\ run.cmd \in {"install", "edit"}
  BY Running DEF InCommand
<1>2. current' \in {current, [current EXCEPT !.body = Composed]}
  BY DEF Pass
<1>3. current'.manifest = current.manifest /\ current'.lock = current.lock
  BY <1>1, <1>2 DEF Whole
<1>4. CASE run.cmd = "edit"
  BY <1>3, <1>4 DEF PublicationInv
<1>5. CASE run.cmd = "install"
  <2>1. Changed
    BY <1>5 DEF PublicationInv
  <2>2. ~ComposesBehavior => current' = current
    BY DEF Pass
  <2>3. QED
    BY <1>3, <2>1, <2>2 DEF Changed
<1>6. QED
  BY <1>1, <1>4, <1>5

LEMMA FinishPublishes == IInv /\ PublicationSafe /\ (Finish \/ Crash) => PublicationSafe'
<1>1. SUFFICES ASSUME IInv, PublicationSafe, Finish \/ Crash PROVE PublicationSafe'
  OBVIOUS
<1>2. pc # "idle"
  BY <1>1 DEF Finish, Compose, ReconcileFails, ComposeFails, ComposeDefers, DropLive, RenameBack,
              RollbackFails, RestoreManifest, RestoreFails, Crash
<1>3. outcome = "none" /\ InCommand /\ run \in Runs /\ PublicationInv
  BY <1>1, <1>2, Running DEF PublicationSafe
<1>4. CASE Compose
  <2>1. /\ pc = "compose" /\ Pass /\ pc' = "idle" /\ UNCHANGED <<scenario, start>>
        /\ outcome' = "installed" => run.published
    BY <1>4 DEF Compose, End
  <2>2. run.published => current' # start.gen \/ NeverUnchanged(current'.manifest)
    BY <1>1, <1>3, <2>1, PassPublishes
  <2>3. NeverUnchanged(current'.manifest) <=> NeverUnchanged(current.manifest)'
    BY <2>1 DEF NeverUnchanged, Composes, Adopted, Behaving, Hooked, FilesOf, Delivers
  <2>4. QED
    BY <2>1, <2>2, <2>3 DEF PublicationSafe, PublicationInv, PublishesOnlyChanges
<1>5. CASE \E how \in {"failed", "late", "lost"} : FailAs(how) \/ Raise(how)
  BY <1>3, <1>5, FailPublication
<1>6. CASE ~(\E how \in {"failed", "late", "lost"} : FailAs(how) \/ Raise(how)) /\ ~Compose
  <2>1. run.failure # "installed"
    BY <1>3 DEF Runs, Failures
  <2>2. pc = "renameBack" => run.failure \in {"none", "failed"}
    BY <1>1 DEF IInv, Failing
  <2>3. pc' \in {"idle", "dropLive", "renameBack"} /\ outcome' # "installed"
    BY <1>1, <1>3, <1>6, <2>1, <2>2
       DEF Finish, ReconcileFails, ComposeFails, ComposeDefers, DropLive, RenameBack,
           RollbackFails, RestoreManifest, RestoreFails, Crash, Fail, Go, End
  <2>4. QED
    BY <2>3, NotInstalled
<1>7. QED
  BY <1>4, <1>5, <1>6

--------------------------------------------------------------------------------
(* Theorems *)

\* The strengthening that install.run keeps at every line: what each copy that a rollback
\* of publish.py, of _GenerationRollback or of write_and_reinstall may bring back holds.
THEOREM Invariance == Spec => []IInv
<1>1. IInv /\ [Next]_vars => IInv'
  BY OperatorStep, PrepareStep, DeliverStep, FinishStep, CrashStep, StutterStep DEF Next
<1>2. QED
  BY <1>1, InitInvariant, PTL DEF Spec

\* The live generation, the files and the locals of a command keep their types, and no
\* local of install.run outlives its command.
THEOREM TypeCorrect == Spec => []TypeOK
<1>1. IInv => TypeOK
  BY DEF IInv, Typed, TypeOK, Runs, Whole, Gens, Points, Outcomes, Failures
<1>2. QED
  BY <1>1, Invariance, PTL

\* `spaex add` and `spaex remove` that fail, at any line and after any rollback of the swap
\* or of the behavior pipeline, leave the manifest they found; so does a plain install, unless
\* the rollback of the behavior pipeline fails itself, which may leave none.
THEOREM FailureRestores == Spec => []FailureRestoresManifest
<1>1. IInv => FailureRestoresManifest
  BY DEF IInv, Ended
<1>2. QED
  BY <1>1, Invariance, PTL

\* An install that reports success, through the publication or through _is_no_op, leaves a
\* lock with the pins and the paths of the manifest in place, whatever was killed before.
THEOREM SuccessSeals == Spec => []SuccessSealsManifest
<1>1. IInv => SuccessSealsManifest
  BY DEF IInv, Ended
<1>2. QED
  BY <1>1, Invariance, PTL

\* The content of an operator's edit is never deleted, by a delivery, by the deletion of
\* orphans, by a rollback or by anything else.
THEOREM EditsKept == Spec => OperatorEditsKept
<1>1. Init => EditsInv
  BY LocksHashed, NoRunCopies
     DEF Init, EditsInv, Hashes, OrphansRecorded, EditsOlder, NoGen, NoRun
<1>2. IInv /\ EditsInv /\ UNCHANGED vars => EditsInv'
  BY DEF EditsInv, Hashes, OrphansRecorded, EditsOlder, Hashed, vars
<1>3. IInv /\ EditsInv /\ [Next]_vars => EditsInv'
  BY <1>2, EditsOperator, EditsPrepare, EditsDeliver, EditsFinish DEF Next
<1>4. Spec => [](IInv /\ EditsInv)
  BY <1>1, <1>3, Invariance, PTL DEF Spec
<1>5. IInv /\ EditsInv /\ [Next]_vars
        => [ \A p \in Paths : root[p] = Edited => root'[p] # None ]_vars
  BY EditsKeptByStep
<1>6. QED
  BY <1>4, <1>5, PTL DEF Spec, OperatorEditsKept
\* What a command leaves outside of `.spaex/`, where nothing disturbs it.
THEOREM Deliveries == Spec => []DeliveryInv
<1>1. IInv /\ IInv' /\ DeliveryInv /\ [Next]_vars => DeliveryInv'
  BY OperatorDelivers, PrepareDelivers, DeliverDelivers, FinishDelivers, StutterDelivers DEF Next
<1>2. QED
  BY <1>1, InitDelivery, Invariance, PTL DEF Spec

\* Without hooks, behavior fragments, interrupts and kills, an install that reports success
\* leaves every file that the manifest asks for, as delivered or as the operator has edited
\* it, and of the files delivered earlier only edited ones.
THEOREM SuccessDelivered == Spec => []SuccessDeliversUndisturbed
  BY Deliveries, DeliveryIsSuccess, Invariance, PTL

\* Without hooks, behavior fragments, interrupts and kills, a command that fails leaves the
\* generation and the delivered files as it found them; or, where it fails with its
\* publication complete, the lock it has published and all the files of that.
THEOREM FailureChanges == Spec => []FailureChangesNothing
  BY Deliveries, DeliveryIsFailure, Invariance, PTL

\* An install that reports a publication has changed the generation it found: a candidate is
\* staged over a generation that is out of date, and _is_no_op is asked about every other;
\* save for a constitution that shares `.spaex/constitution.md` with behavior, and for a
\* contributor with a hook to run and files of its own.
THEOREM PublishesChanges == Spec => []PublishesOnlyChanges
<1>1. Init => PublicationSafe
  BY DEF Init, PublicationSafe, PublicationInv, PublishesOnlyChanges
<1>2. IInv /\ PublicationSafe /\ UNCHANGED vars => PublicationSafe'
  <2>1. SUFFICES ASSUME IInv, PublicationSafe, UNCHANGED vars PROVE PublicationSafe'
    OBVIOUS
  <2>2. UNCHANGED <<scenario, current, pc, run, start, outcome>>
    BY <2>1 DEF vars
  <2>3. /\ IsNoOp(start.gen, run.status)' <=> IsNoOp(start.gen, run.status)
        /\ NeverUnchanged(current.manifest)' <=> NeverUnchanged(current.manifest)
    BY <2>2 DEF IsNoOp, BodyMatches, NeverUnchanged, Composes, Adopted, Behaving, Hooked,
                Delivered, FilesOf, Delivers
  <2>4. QED
    BY <2>1, <2>2, <2>3, OutdatedStays, ChangedStays
       DEF PublicationSafe, PublicationInv, PublishesOnlyChanges
<1>3. IInv /\ PublicationSafe /\ [Next]_vars => PublicationSafe'
  BY <1>2, OperatorPublishes, PreparePublishes, DeliverPublishes, FinishPublishes DEF Next
<1>4. PublicationSafe => PublishesOnlyChanges
  BY DEF PublicationSafe
<1>5. QED
  BY <1>1, <1>3, <1>4, Invariance, PTL DEF Spec
================================================================================
