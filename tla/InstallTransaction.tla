-------------------------- MODULE InstallTransaction ---------------------------
(***************************************************************************)
(* One checkout under a sequence of spaex commands: install.run              *)
(* (src/spaex/cli/install.py) with the publication it makes                  *)
(* (src/spaex/constitution/publish.py), the files it delivers outside of     *)
(* `.spaex/` (src/spaex/install/generic_atoms.py), the hooks, the behavior   *)
(* rollback, and the manifest edit of `spaex add`/`spaex remove`             *)
(* (src/spaex/install/write_and_reinstall.py) around all of it.              *)
(*                                                                          *)
(* A generation is what the directory swap replaces as a whole: the          *)
(* manifest, the install lock and `.spaex/constitution.md`.  The swap is      *)
(* atomic here, as GenerationSwap shows; the delivered files are outside of   *)
(* it and are written one by one.  Commands of several processes are          *)
(* serialised by the install mutex.                                          *)
(***************************************************************************)
EXTENDS Naturals, FiniteSets

CONSTANTS
    Molecules, Versions, Paths,
    Contributor,   \* the molecule with atoms.constitution
    Scenarios,     \* what the molecules are like, what may go wrong, and the bounds
    None, Edited, NoLock,
    Composed       \* the body that a behavior pass writes

\*  delivers       the exclusive atoms of each molecule and version
\*  hooked         the molecules with an install_hook
\*  behaving       the molecules with behavior fragments
\*  mayRefuse      whether Spec Kit or the local scope may refuse or fail an install
\*  mayInterrupt   whether Ctrl-C may arrive while files are delivered
\*  maxCommands    bound on commands and operator edits, together
\*  maxCrashes     bound on killed commands
ScenarioKinds ==
    [delivers : [Molecules \X Versions -> SUBSET Paths],
     hooked : SUBSET Molecules, behaving : SUBSET Molecules,
     mayRefuse : BOOLEAN, mayInterrupt : BOOLEAN, maxCommands : Nat, maxCrashes : Nat]

ASSUME MoleculesAssumption == Contributor \in Molecules /\ Versions \subseteq Nat \ {0}
ASSUME ScenariosAssumption == \A s \in Scenarios : s \in ScenarioKinds

VARIABLES
    scenario,   \* one of Scenarios
    current,    \* the live generation, or what is left of it
    root,       \* the files outside of `.spaex/`
    pc,         \* what the command does next
    run,        \* the locals of the command, see Runs
    start,      \* generation and files when the command began
    outcome,    \* how the last command ended, see below
    commands, crashes

Delivers == scenario.delivers
Hooked == scenario.hooked
Behaving == scenario.behaving
MayRefuse == scenario.mayRefuse
MayInterrupt == scenario.mayInterrupt
MaxCommands == scenario.maxCommands
MaxCrashes == scenario.maxCrashes

\* A command ends "installed", "unchanged", "deferred" or "crashed", or as a failure, of
\* which the model distinguishes those after a publication was complete ("late"), those of
\* the behavior rollback itself ("lost"), and those of the manifest that an edit puts
\* back ("unrestored") from all others ("failed").

vars == <<scenario, current, root, pc, run, start, outcome, commands, crashes>>

--------------------------------------------------------------------------------
(* Data *)

Manifests == [Molecules -> Versions \cup {0}]   \* 0: not adopted
HookStatuses == {"none", "ok", "failed", "skipped"}
Contents == (Molecules \X Versions) \cup {None, Edited}

LockFiles == [pins : Manifests, recorded : SUBSET Paths,
              hashes : [Paths -> (Molecules \X Versions) \cup {None}],
              hooks : [Molecules -> HookStatuses]]
Locks == LockFiles \cup {NoLock}

\* What `.spaex/constitution.md` holds: nothing, the constitution of a version of the
\* contributor, or what a behavior pass has composed.
Bodies == Versions \cup {Composed, None}
Gens == [manifest : Manifests \cup {None}, lock : Locks, body : Bodies]

\* What the removal of a generation leaves when it is cut short.
Remains(gen) == [manifest : {gen.manifest, None}, lock : {gen.lock, NoLock},
                 body : {gen.body, None}]
Nothing == [manifest |-> None, lock |-> NoLock, body |-> None]

ASSUME DistinctAssumption == NoLock \notin LockFiles /\ None \notin Manifests \cup Gens
ASSUME BodiesAssumption == None # Composed /\ {None, Composed} \cap Nat = {}
ASSUME ContentsAssumption == Edited # None /\ {None, Edited} \cap (Molecules \X Versions) = {}

Adopted(manifest) == {m \in Molecules : manifest[m] # 0}
FilesOf(m, manifest) == IF manifest[m] = 0 THEN {} ELSE Delivers[m, manifest[m]]
Delivered(manifest) == UNION {FilesOf(m, manifest) : m \in Molecules}

\* What collect_exclusive_atoms read for a path: the one molecule that owns it.
FileContent(manifest, p) ==
    LET owner == CHOOSE m \in Molecules : p \in FilesOf(m, manifest)
    IN  <<owner, manifest[owner]>>

\* exclusive-atom-path-collision
Collides(manifest) ==
    \E m, n \in Molecules : m # n /\ FilesOf(m, manifest) \cap FilesOf(n, manifest) # {}

NoHooks == [m \in Molecules |-> "none"]

LockFor(manifest, hooks) ==
    [pins |-> manifest, recorded |-> Delivered(manifest),
     hashes |-> [p \in Paths |-> IF p \in Delivered(manifest)
                                 THEN FileContent(manifest, p) ELSE None],
     hooks |-> hooks]

\* stage_constitution: only the contributor, with its constitution for a path.
CandidateLock(manifest) ==
    [pins |-> [m \in Molecules |-> IF m = Contributor THEN manifest[m] ELSE 0],
     recorded |-> {}, hashes |-> [p \in Paths |-> None], hooks |-> NoHooks]

Composes(manifest) == Adopted(manifest) \cap Behaving # {}

\* The body is that of the contributor; without one, only behavior may have left a body.
BodyMatches(gen) ==
    IF gen.manifest[Contributor] # 0 THEN gen.body = gen.manifest[Contributor]
                                     ELSE gen.body = None \/ Composes(gen.manifest)

\* Seeded fault: only the body and the hooks are compared.
IsNoOpByBody(gen, hooks) ==
    /\ gen.lock # NoLock
    /\ BodyMatches(gen)
    /\ gen.lock.hooks = hooks

\* _is_no_op: body and molecule records; neither content_hashes nor the files.
IsNoOp(gen, hooks) ==
    /\ gen.lock # NoLock
    /\ BodyMatches(gen)
    /\ gen.lock.pins = gen.manifest
    /\ gen.lock.recorded = Delivered(gen.manifest)
    /\ gen.lock.hooks = hooks

\* Seeded fault: the record on disk is compared with one without hook status.
ContributorMatchesRecord(gen) ==
    /\ gen.lock # NoLock
    /\ gen.body = gen.manifest[Contributor]
    /\ gen.lock.pins[Contributor] = gen.manifest[Contributor]
    /\ gen.lock.hooks[Contributor] = "none"

\* contributor_matches_disk: the body, and a record with the constitution as its only path.
ContributorMatches(gen) ==
    /\ gen.lock # NoLock
    /\ gen.body = gen.manifest[Contributor]
    /\ gen.lock.pins[Contributor] = gen.manifest[Contributor]
    /\ gen.lock.recorded \cap FilesOf(Contributor, gen.manifest) = {}

\* Seeded fault: the difference is taken the wrong way round.
OrphansSwapped(previous, lock) ==
    IF previous = NoLock THEN {} ELSE lock.recorded \ previous.recorded

Orphans(previous, lock) ==
    IF previous = NoLock THEN {} ELSE previous.recorded \ lock.recorded

--------------------------------------------------------------------------------

NoGen == [manifest |-> [m \in Molecules |-> 0], lock |-> NoLock, body |-> None]
NoFiles == [p \in Paths |-> None]

\* The locals of a command:
\*   cmd          "install", or "edit" for add and remove
\*   skip         --skip-hooks
\*   staged       the candidate of the hooks is live, uncommitted
\*   preimage     the generation that a rollback of the swap brings back
\*   status       hook_status of the molecules
\*   existing     the lock read before the publication
\*   todo         the paths to write, then the orphans to delete
\*   rootBefore   the files before the publication touched them
\*   published    whether this command published a generation
\*   backup       the copy kept for the behavior pipeline, or None
\*   failure      how the command fails, once it does: see outcome
\*   saved        the manifest that an edit puts back
NoRun == [cmd |-> "none", skip |-> FALSE, staged |-> FALSE, preimage |-> NoGen,
          status |-> NoHooks, existing |-> NoLock, todo |-> {}, rootBefore |-> NoFiles,
          published |-> FALSE, backup |-> None, failure |-> "none",
          saved |-> NoGen.manifest]

\* The type invariant; no local outlives its command.
TypeOK ==
    /\ scenario \in Scenarios
    /\ current.manifest \in Manifests \cup {None} /\ current.lock \in Locks
    /\ current.body \in Bodies
    /\ root \in [Paths -> Contents] /\ run.rootBefore \in [Paths -> Contents]
    /\ pc \in {"idle", "resolve", "stage", "hooks", "prepare", "publish", "write",
               "orphans", "compose", "dropLive", "renameBack", "restore"}
    /\ run.cmd \in {"none", "install", "edit"}
    /\ run.status \in [Molecules -> HookStatuses]
    /\ run.existing \in Locks
    /\ run.todo \subseteq Paths
    /\ run.staged => pc = "hooks"
    /\ pc = "idle" => run = NoRun
    /\ outcome \in {"none", "installed", "unchanged", "deferred", "crashed",
                   "failed", "late", "lost", "unrestored"}

\* A checkout after `spaex init`.
Init ==
    /\ scenario \in Scenarios
    /\ current = NoGen
    /\ root = NoFiles
    /\ pc = "idle" /\ run = NoRun
    /\ start = [gen |-> NoGen, root |-> NoFiles]
    /\ outcome = "none" /\ commands = 0 /\ crashes = 0

Go(point) == pc' = point /\ UNCHANGED <<scenario, start, outcome, commands, crashes>>

\* Seeded fault: state of one command leaks into the next.
EndKeepsLocals(how) ==
    /\ pc' = "idle" /\ run' = run
    /\ outcome' = how
    /\ UNCHANGED <<scenario, start, commands, crashes>>

End(how) ==
    /\ pc' = "idle" /\ run' = NoRun
    /\ outcome' = how
    /\ UNCHANGED <<scenario, start, commands, crashes>>

\* Seeded fault: the edited manifest stays after a failure.
FailUnrestored(how) == End(how)

\* An exception leaves install.run; write_and_reinstall catches it for an edit.
FailAs(how) ==
    IF run.cmd = "edit"
      THEN Go("restore") /\ run' = [run EXCEPT !.staged = FALSE, !.failure = how]
      ELSE End(how)

Fail == FailAs("failed")

\* An exception within generation_context: __exit__ brings a copy back, if there is one.
Raise(how) ==
    IF run.backup = None
      THEN FailAs(how)
      ELSE Go("dropLive") /\ run' = [run EXCEPT !.failure = "failed"]

--------------------------------------------------------------------------------
(* What happens between commands. *)

Idle == pc = "idle" /\ commands < MaxCommands /\ commands' = commands + 1

\* Another revision of the manifest is checked out; the install lock stays.
PullManifest(manifest) ==
    /\ Idle
    /\ current' = [current EXCEPT !.manifest = manifest]
    /\ outcome' = "none"
    /\ UNCHANGED <<scenario, root, pc, run, start, crashes>>

EditFile(p) ==
    /\ Idle
    /\ root' = [root EXCEPT ![p] = Edited]
    /\ outcome' = "none"
    /\ UNCHANGED <<scenario, current, pc, run, start, crashes>>

\* Each command takes the locks and recovers; without a manifest it refuses.
Begin(cmd, skip, manifest) ==
    /\ Idle /\ current.manifest # None
    /\ pc' = "resolve"
    /\ run' = [NoRun EXCEPT !.cmd = cmd, !.skip = skip, !.saved = current.manifest]
    /\ current' = [current EXCEPT !.manifest = manifest]
    /\ start' = [gen |-> current, root |-> root]
    /\ outcome' = "none"
    /\ UNCHANGED <<scenario, root, crashes>>

StartInstall(skip) == Begin("install", skip, current.manifest)

\* `spaex add` adopts or re-pins a molecule, `spaex remove` retracts it (0);
\* write_and_reinstall keeps the old bytes and writes the new ones.
StartEdit(m, version, skip) ==
    /\ current.manifest # None /\ current.manifest[m] # version
    /\ Begin("edit", skip, [current.manifest EXCEPT ![m] = version])

--------------------------------------------------------------------------------
(* install.run *)

HooksToRun == Adopted(current.manifest) \cap Hooked

\* Resolution may refuse (a fetch, an invalid molecule, two owners of a path).
Resolve ==
    /\ pc = "resolve"
    /\ \/ /\ ~Collides(current.manifest)
          /\ Go(IF /\ current.manifest[Contributor] # 0
                   /\ HooksToRun # {} /\ ~run.skip
                   /\ ~ContributorMatches(current)
                THEN "stage" ELSE "hooks")
          /\ run' = run
       \/ Fail
    /\ UNCHANGED <<current, root>>

\* stage_constitution: the candidate becomes live for the hooks.
Stage ==
    /\ pc = "stage"
    /\ Go("hooks")
    /\ run' = [run EXCEPT !.preimage = current, !.staged = TRUE]
    /\ current' = [current EXCEPT !.lock = CandidateLock(current.manifest),
                                  !.body = current.manifest[Contributor]]
    /\ UNCHANGED root

\* Every hook runs; a failing one with on_failure "warn" is recorded.  Leaving
\* the with statement commits the candidate.
RunHooks ==
    /\ pc = "hooks"
    /\ Go("prepare")
    /\ \E result \in [HooksToRun -> IF run.skip THEN {"skipped"} ELSE {"ok", "failed"}] :
          run' = [run EXCEPT !.staged = FALSE,
                  !.status = [m \in Molecules |->
                                IF m \in HooksToRun THEN result[m] ELSE "none"]]
    /\ UNCHANGED <<current, root>>

\* on_failure "abort": the exception rolls the candidate back.
AbortHooks ==
    /\ pc = "hooks" /\ HooksToRun # {} /\ ~run.skip
    /\ current' = IF run.staged THEN run.preimage ELSE current
    /\ Fail
    /\ UNCHANGED root

\* Leaving the with statement, the removal of the previous generation raises.
CommitFails ==
    /\ pc = "hooks" /\ run.staged
    /\ Fail
    /\ UNCHANGED <<current, root>>

\* prepare_install and local_scope.prepare may refuse.
Refuse ==
    /\ pc = "prepare" /\ MayRefuse
    /\ Fail
    /\ UNCHANGED <<current, root>>

ComposesBehavior == Composes(current.manifest)

FindNoChange ==
    /\ pc = "prepare" /\ IsNoOp(current, run.status)
    /\ Go("compose")
    /\ UNCHANGED <<current, root, run>>

\* _preserve_generation_for_behavior copies the live tree.
FindChange ==
    /\ pc = "prepare" /\ ~IsNoOp(current, run.status)
    /\ Go("publish")
    /\ run' = [run EXCEPT !.backup = IF ComposesBehavior THEN current ELSE None]
    /\ UNCHANGED <<current, root>>

\* The constitution of the contributor; without one, the composed body is carried over as
\* long as there is behavior to compose, and disappears in the swap otherwise.
PublishedBody ==
    IF current.manifest[Contributor] # 0 THEN current.manifest[Contributor]
    ELSE IF ComposesBehavior THEN current.body ELSE None

\* The swap; post_write_verify then finds its own lock and snapshots the files.
Publish ==
    /\ pc = "publish"
    /\ Go("write")
    /\ run' = [run EXCEPT !.existing = current.lock, !.preimage = current,
                          !.rootBefore = root, !.published = TRUE,
                          !.todo = Delivered(current.manifest)]
    /\ current' = [current EXCEPT !.lock = LockFor(current.manifest, run.status),
                                  !.body = PublishedBody]
    /\ UNCHANGED root

\* A call before or within the swap raises.
PublishFails ==
    /\ pc = "publish"
    /\ Raise("failed")
    /\ UNCHANGED <<current, root>>

\* write_delivered_files: an existing file is overwritten.
WriteFile(p) ==
    /\ pc = "write" /\ p \in run.todo
    /\ Go(pc)
    /\ root' = [root EXCEPT ![p] = FileContent(current.manifest, p)]
    /\ run' = [run EXCEPT !.todo = @ \ {p}]
    /\ UNCHANGED current

EndWrites ==
    /\ pc = "write" /\ run.todo = {}
    /\ Go("orphans")
    /\ run' = [run EXCEPT !.todo = Orphans(run.existing, current.lock)]
    /\ UNCHANGED <<current, root>>

\* Seeded fault: the recorded hash is not looked at.
DeleteAnyOrphan(p) ==
    /\ pc = "orphans" /\ p \in run.todo
    /\ Go(pc)
    /\ root' = [root EXCEPT ![p] = None]
    /\ run' = [run EXCEPT !.todo = @ \ {p}]
    /\ UNCHANGED current

\* delete_orphaned_paths: a file that no longer matches its hash is left alone.
DeleteOrphan(p) ==
    /\ pc = "orphans" /\ p \in run.todo
    /\ Go(pc)
    /\ root' = IF run.existing.hashes[p] \in {None, root[p]}
               THEN [root EXCEPT ![p] = None] ELSE root
    /\ run' = [run EXCEPT !.todo = @ \ {p}]
    /\ UNCHANGED current

\* Seeded fault: the swap is undone, the files are not.
DeliveryFailsHalfway ==
    /\ pc \in {"write", "orphans"} /\ run.todo # {}
    /\ current' = run.preimage
    /\ Raise("failed")
    /\ UNCHANGED root

\* An OSError: deletions and writes are undone, then the swap.
DeliveryFails ==
    /\ pc \in {"write", "orphans"} /\ run.todo # {}
    /\ root' = run.rootBefore
    /\ current' = run.preimage
    /\ Raise("failed")

\* A KeyboardInterrupt: `except (OSError, HaexError)` lets it pass, the handler
\* of publish_generation rolls the swap back.
DeliveryInterrupted ==
    /\ pc \in {"write", "orphans"} /\ MayInterrupt
    /\ current' = run.preimage
    /\ Raise("failed")
    /\ UNCHANGED root

EndDelivery ==
    /\ pc = "orphans" /\ run.todo = {}
    /\ Go("compose")
    /\ UNCHANGED <<current, root, run>>

\* The files are delivered, and the removal of the previous generation raises.
EndDeliveryFails ==
    /\ pc = "orphans" /\ run.todo = {}
    /\ Raise("late")
    /\ UNCHANGED <<current, root>>

\* The behavior pass replaces the body, or has nothing to compose.
Pass ==
    /\ current' = IF ComposesBehavior THEN [current EXCEPT !.body = Composed] ELSE current
    /\ UNCHANGED root

\* _run_behavior_pipeline and reconcile_exclusions succeed.
Compose ==
    /\ pc = "compose"
    /\ Pass
    /\ End(IF run.published THEN "installed" ELSE "unchanged")

\* reconcile_exclusions raises, after the pass and outside of generation_context.
ReconcileFails ==
    /\ pc = "compose" /\ MayRefuse
    /\ Pass
    /\ FailAs(IF run.published THEN "late" ELSE "failed")

\* The pipeline raises and leaves the body: a copy of the generation is brought back.
ComposeFails ==
    /\ pc = "compose" /\ ComposesBehavior
    /\ Raise("failed")
    /\ UNCHANGED <<current, root>>

\* At add or remove time a contradiction defers the publication instead.
ComposeDefers ==
    /\ pc = "compose" /\ ComposesBehavior /\ run.cmd = "edit"
    /\ IF run.backup = None THEN End("deferred") ELSE Go("dropLive") /\ run' = run
    /\ UNCHANGED <<current, root>>

\* _GenerationRollback.__exit__: rmtree(live), then backup_live.rename(live).
DropLive ==
    /\ pc = "dropLive"
    /\ Go("renameBack")
    /\ current' = Nothing
    /\ UNCHANGED <<root, run>>

\* A deferred edit is a success, unless reconcile_exclusions raises.
RenameBack ==
    /\ pc = "renameBack"
    /\ current' = run.backup
    /\ \/ run.failure = "none" /\ End("deferred")
       \/ run.failure = "none" /\ MayRefuse /\ Fail
       \/ run.failure # "none" /\ FailAs(run.failure)
    /\ UNCHANGED root

\* rmtree or rename raises, and the finally clause removes the copy.
RollbackFails ==
    /\ pc \in {"dropLive", "renameBack"}
    /\ current' \in Remains(current)
    /\ FailAs("lost")
    /\ UNCHANGED root

\* write_and_reinstall puts the manifest bytes back.
RestoreManifest ==
    /\ pc = "restore"
    /\ current' = [current EXCEPT !.manifest = run.saved]
    /\ End(run.failure)
    /\ UNCHANGED root

\* manifest-rollback-failed
RestoreFails ==
    /\ pc = "restore"
    /\ End("unrestored")
    /\ UNCHANGED <<current, root>>

\* A kill: the directories and files stay as they are, also half removed.
Crash ==
    /\ pc # "idle" /\ crashes < MaxCrashes
    /\ crashes' = crashes + 1
    /\ pc' = "idle" /\ run' = NoRun
    /\ outcome' = "crashed"
    /\ current' \in IF pc = "dropLive" THEN Remains(current) ELSE {current}
    /\ UNCHANGED <<scenario, root, start, commands>>

Operator ==
    \/ \E manifest \in Manifests : PullManifest(manifest)
    \/ \E p \in Paths : EditFile(p)
    \/ \E skip \in BOOLEAN : StartInstall(skip)
    \/ \E m \in Molecules, v \in Versions \cup {0}, skip \in BOOLEAN : StartEdit(m, v, skip)
Prepare ==
    \/ Resolve \/ Stage \/ RunHooks \/ AbortHooks \/ CommitFails
    \/ Refuse \/ FindNoChange \/ FindChange
Deliver ==
    \/ Publish \/ PublishFails \/ EndWrites \/ DeliveryFails \/ DeliveryInterrupted
    \/ EndDelivery \/ EndDeliveryFails
    \/ \E p \in Paths : WriteFile(p) \/ DeleteOrphan(p)
Finish ==
    \/ Compose \/ ReconcileFails \/ ComposeFails \/ ComposeDefers
    \/ DropLive \/ RenameBack \/ RollbackFails \/ RestoreManifest \/ RestoreFails

Next == Operator \/ Prepare \/ Deliver \/ Finish \/ Crash
Spec == Init /\ [][Next]_vars

--------------------------------------------------------------------------------
(* Properties *)

Succeeded == outcome \in {"installed", "unchanged"}

\* After a command that succeeds, every file the manifest asks for is there, as
\* delivered or as the operator has edited it since, and of the files it no
\* longer asks for only those the operator edited are left (specs/027, SC-001
\* and SC-002; specs/008, SC-001).
SuccessDelivers ==
    Succeeded => \A p \in Paths :
        root[p] \in IF p \in Delivered(current.manifest)
                    THEN {FileContent(current.manifest, p), Edited}
                    ELSE {None, Edited}

\* Nothing may come between a publication and its rollback: no committed
\* candidate, no late behavior failure, no Ctrl-C, no kill.
Undisturbed == Hooked = {} /\ Behaving = {} /\ ~MayInterrupt /\ crashes = 0

\* SuccessDelivers, through refusals, failing deliveries, and files that change
\* hands between molecules.
SuccessDeliversUndisturbed == Undisturbed => SuccessDelivers

\* Every file that the lock in place records is there as it was delivered or as the
\* operator has edited it since, and no other delivered file is.
Settled ==
    /\ current.lock # NoLock
    /\ \A p \in Paths :
          root[p] \in IF p \in current.lock.recorded
                      THEN {current.lock.hashes[p], Edited} ELSE {None, Edited}

\* A command that fails leaves the generation and the delivered files as they
\* were (specs/013 FR-021, specs/016 FR-016; the rollback of publish.py).  Not so one
\* that fails with its publication complete, in the removal of the previous generation
\* or in reconcile_exclusions: nothing takes the publication back, and it leaves the
\* files of the lock that it has published, all of them.
FailureChangesNothing ==
    Undisturbed =>
        /\ outcome = "failed" => current = start.gen /\ root = start.root
        /\ outcome = "late" => Settled

\* A failed or interrupted command leaves the manifest it found, an edit included,
\* whatever the rollbacks of the swap and of the behavior copy have done to the
\* directory meanwhile.  Where the behavior rollback itself fails, an install may leave
\* none, but never another.  (An edit that cannot write the old manifest back reports
\* just that, and is not covered.)
FailureRestoresManifest ==
    /\ outcome \in {"failed", "late"} => current.manifest = start.gen.manifest
    /\ outcome = "lost" => current.manifest \in {start.gen.manifest, None}

\* A success says that the lock in place is the one of this manifest, even after
\* crashes, candidates and rollbacks.
SuccessSealsManifest ==
    Succeeded => /\ current.lock # NoLock
                 /\ current.lock.pins = current.manifest
                 /\ current.lock.recorded = Delivered(current.manifest)

\* The content of an operator's edit is never deleted: only overwritten by a
\* delivery or left in place (specs/027 FR-007).
OperatorEditsKept ==
    [][\A p \in Paths : root[p] = Edited => root'[p] # None]_vars

\* The two cases in which the code publishes whether or not anything has changed: the
\* pass overwrites the constitution that the no-op decision compares; and the record of
\* a contributor with files of its own never matches, so that a candidate is staged.
NeverUnchanged(manifest) ==
    /\ manifest[Contributor] # 0
    /\ \/ Composes(manifest)
       \/ FilesOf(Contributor, manifest) # {} /\ Adopted(manifest) \cap Hooked # {}

\* A generation is published only when it differs from the one in place before
\* the command (specs/016 FR-025), NeverUnchanged aside.
PublishesOnlyChanges ==
    outcome = "installed" => current # start.gen \/ NeverUnchanged(current.manifest)
================================================================================
