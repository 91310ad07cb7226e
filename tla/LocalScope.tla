------------------------------- MODULE LocalScope -------------------------------
(***************************************************************************)
(* One install with two scopes.  What the team adopts is pinned in the       *)
(* project manifest; what one developer adopts for this checkout only is     *)
(* pinned in an overlay, .spaex/local/manifest.json.  An install publishes   *)
(* the project scope and then, as a second generation, the local one         *)
(* (src/spaex/install/local_scope.py, local_publish.py), keeps the local      *)
(* files out of git (git_exclude.py), and watches what local hooks do to the  *)
(* repository (side_effects.py).                                            *)
(*                                                                          *)
(* The generation is swapped as one value, as GenerationSwap shows it may    *)
(* be; the files in the repository root and the exclusion block of git are   *)
(* outside of it and written one after the other.  Publication of the        *)
(* project scope is one step here: InstallTransaction opens it up.           *)
(***************************************************************************)
EXTENDS Naturals, FiniteSets

CONSTANTS
    Molecules,    \* molecules that either scope may adopt
    Paths,        \* paths in the repository root
    FilesOf,      \* [Molecules -> SUBSET Paths]: the files a molecule delivers
    HookFile,     \* [Molecules -> Paths \cup {None}]: what its install hook creates
    Behaving,     \* the molecules that declare behavior
    MaxMoves,     \* bound on commands and operator's moves
    MaxKills,     \* bound on kills, failing rollbacks and failing restorations, together
    None, Edited, Team, Hooked,   \* file contents that no molecule delivers
    NoOverlay, NoLock, NoGen

ASSUME LayoutAssumption ==
    /\ FilesOf \in [Molecules -> SUBSET Paths]
    /\ HookFile \in [Molecules -> Paths \cup {None}]
    /\ Behaving \subseteq Molecules
ASSUME BoundsAssumption == MaxMoves \in Nat /\ MaxKills \in Nat

VARIABLES
    gen,        \* .spaex: both manifests and both locks
    root,       \* [Paths -> contents], None where there is no file
    tracked,    \* the paths git tracks
    excluded,   \* this worktree's block in info/exclude
    pc,         \* what the command does next
    edit,       \* which manifest it has edited, or "none"
    start,      \* the generation it found when it began
    preimage,   \* [Paths -> contents]: taken by the guard, then by the publication
    created,    \* the files its local hooks have created
    plan,       \* the local records and hashes to publish
    backup,     \* the copy of the generation, or NoGen
    outcome,    \* how it ended
    moves, kills

disk == <<gen, root, tracked, excluded>>
locals == <<edit, start, preimage, created, plan, backup>>
counters == <<moves, kills>>
vars == <<disk, pc, locals, outcome, counters>>

Contents == Molecules \cup {None, Edited, Team, Hooked}
LockFiles == [paths : [Molecules -> SUBSET Paths], of : SUBSET Molecules,
              hash : [Paths -> Contents]]
Locks == LockFiles \cup {NoLock}
Generations == [manifest : SUBSET Molecules, lock : SUBSET Molecules,
                overlay : (SUBSET Molecules) \cup {NoOverlay}, local : Locks]

\* A tree that may have lost its manifest.
Leftovers == [manifest : (SUBSET Molecules) \cup {None}, lock : SUBSET Molecules,
              overlay : (SUBSET Molecules) \cup {NoOverlay}, local : Locks]

\* What the removal of .spaex leaves when it is cut short: some of its four files.
Remains(g) == [manifest : {g.manifest, None}, lock : {g.lock, {}},
               overlay : {g.overlay, NoOverlay}, local : {g.local, NoLock}]

ASSUME MarksAssumption ==
    /\ None \notin Molecules /\ \A ms \in SUBSET Molecules : ms # None
    /\ NoLock \notin LockFiles /\ NoGen \notin Generations

Points == {"idle", "prepare", "hooks", "guard", "plan", "project", "localSwap", "localFiles",
           "localOrphans", "exclude", "undoSwap", "compose", "rollback", "giveBack", "reconcile", "restore",
           "restoreLate", "restoreLost"}

\* A failure is "failedLate" where nothing takes back what is published, "lost" where the
\* rollback fails, and "unrestored" where an edited manifest cannot be put back.
Outcomes == {"none", "done", "deferred", "failed", "failedLate", "lost", "unrestored", "killed"}

--------------------------------------------------------------------------------
(* Both scopes *)

Files(ms) == UNION {FilesOf[m] : m \in ms}

Overlay(g) == IF g.overlay = NoOverlay THEN {} ELSE g.overlay

\* What the project adopts too is shadowed.
LocalOf(g) == Overlay(g) \ g.manifest

\* is_active: .spaex/local exists.
IsActive(g) == g.overlay # NoOverlay \/ g.local # NoLock

\* exclusion_paths
Recorded(lock) == IF lock = NoLock THEN {} ELSE UNION {lock.paths[m] : m \in lock.of}

\* The paths of the published lock and those of this install.
ProjectOwned(g) == Files(g.lock) \cup Files(g.manifest)

OwnerIn(ms, p) == CHOOSE m \in ms : p \in FilesOf[m]

Collides(ms) == \E m, n \in ms : m # n /\ FilesOf[m] \cap FilesOf[n] # {}

\* preflight, and the check that an install makes of the project's own files.
Conflicts ==
    \/ Collides(gen.manifest)
    \/ Collides(LocalOf(gen))
    \/ Files(LocalOf(gen)) \cap (ProjectOwned(gen) \cup tracked) # {}

\* Files of git's index or owned by the project: the guard and git watch them.
TeamPaths == tracked \cup ProjectOwned(gen)

--------------------------------------------------------------------------------
(* Commands *)

NoFiles == [p \in Paths |-> None]
NoPlan == NoLock

Init ==
    /\ gen = [manifest |-> {}, lock |-> {}, overlay |-> NoOverlay, local |-> NoLock]
    /\ root = NoFiles /\ tracked = {} /\ excluded = {}
    /\ pc = "idle" /\ edit = "none"
    /\ start = gen
    /\ preimage = NoFiles /\ created = {} /\ plan = NoPlan /\ backup = NoGen
    /\ outcome = "none" /\ moves = 0 /\ kills = 0

\* Seeded fault: the copy of the generation is left behind.
EndKeepsCopy(how) ==
    /\ pc' = "idle" /\ outcome' = how /\ edit' = "none"
    /\ preimage' = NoFiles /\ created' = {} /\ plan' = NoPlan
    /\ UNCHANGED <<start, backup>>

\* The command ends.  `start` stays: properties compare with it.
End(how) ==
    /\ pc' = "idle" /\ outcome' = how /\ edit' = "none"
    /\ preimage' = NoFiles /\ created' = {} /\ plan' = NoPlan /\ backup' = NoGen
    /\ UNCHANGED start

\* An exception reaches the caller of install.run.
FailAs(how, point) ==
    IF edit = "none"
      THEN End(how)
      ELSE pc' = point /\ UNCHANGED <<locals, outcome>>

Fail == FailAs("failed", "restore")
FailLate == FailAs("failedLate", "restoreLate")

\* Without a manifest every command refuses, and the model ends.
Move == pc = "idle" /\ gen.manifest # None /\ moves < MaxMoves /\ moves' = moves + 1

Start(what, g) ==
    /\ pc' = "prepare" /\ edit' = what /\ gen' = g /\ outcome' = "none"
    /\ start' = gen
    /\ UNCHANGED <<root, tracked, excluded, preimage, created, plan, backup, kills>>

\* spaex add and remove, with and without --local: write_and_reinstall.
AddLocal(m) ==
    /\ Move /\ m \notin gen.manifest
    /\ Start("overlay", [gen EXCEPT !.overlay = Overlay(gen) \cup {m}])

RemoveLocal(m) ==
    /\ Move /\ m \in Overlay(gen)
    /\ Start("overlay", [gen EXCEPT !.overlay = @ \ {m}])

Add(m) ==
    /\ Move /\ m \notin gen.manifest
    /\ Start("manifest", [gen EXCEPT !.manifest = @ \cup {m}])

Remove(m) ==
    /\ Move /\ m \in gen.manifest
    /\ Start("manifest", [gen EXCEPT !.manifest = @ \ {m}])

StartInstall == Move /\ Start("none", gen)

\* write_and_reinstall puts the file back that it has edited.
Restore ==
    /\ gen' = IF edit = "overlay" THEN [gen EXCEPT !.overlay = start.overlay]
              ELSE [gen EXCEPT !.manifest = start.manifest]
    /\ \/ pc = "restore" /\ End("failed")
       \/ pc = "restoreLate" /\ End("failedLate")
       \/ pc = "restoreLost" /\ End("lost")
    /\ UNCHANGED <<root, tracked, excluded, counters>>

\* manifest-rollback-failed
RestoreFails ==
    /\ pc \in {"restore", "restoreLate", "restoreLost"}
    /\ kills < MaxKills /\ kills' = kills + 1
    /\ End("unrestored")
    /\ UNCHANGED <<disk, moves>>

--------------------------------------------------------------------------------
(* local_scope.prepare *)

Prepare ==
    /\ pc = "prepare"
    /\ IF Conflicts
         THEN Fail
         ELSE /\ pc' = IF \E m \in LocalOf(gen) : HookFile[m] # None THEN "hooks" ELSE "plan"
              /\ preimage' = root
              /\ UNCHANGED <<edit, start, created, plan, backup, outcome>>
    /\ UNCHANGED <<disk, counters>>

\* Hooks create a file they do not find, and may change one they should not.
RunHooks ==
    /\ pc = "hooks"
    /\ \E new \in SUBSET {p \in {HookFile[m] : m \in LocalOf(gen)} \ {None} : root[p] = None},
          touched \in SUBSET TeamPaths :
          /\ Cardinality(touched) <= 1
          /\ root' = [p \in Paths |-> IF p \in new THEN Hooked
                                      ELSE IF p \in touched THEN Edited ELSE root[p]]
    /\ pc' = "guard"
    /\ UNCHANGED <<gen, tracked, excluded, locals, outcome, counters>>

Changed == {p \in TeamPaths : root[p] # preimage[p]}

\* __exit__ of the guard: a change to the team's files is taken back and refused;
\* otherwise the new files that git sees are taken down.
Guard ==
    /\ pc = "guard"
    /\ IF Changed # {}
         THEN /\ root' = [p \in Paths |-> IF p \in Changed THEN preimage[p] ELSE root[p]]
              /\ Fail
         ELSE /\ created' = {p \in Paths \ (tracked \cup excluded) :
                               root[p] # None /\ preimage[p] = None}
              /\ pc' = "plan"
              /\ UNCHANGED <<root, edit, start, preimage, plan, backup, outcome>>
    /\ UNCHANGED <<gen, tracked, excluded, counters>>

\* _build_records.  Files that a hook created in an earlier install are carried over
\* while they exist.
Carried(m) ==
    IF gen.local # NoLock /\ m \in gen.local.of
      THEN {p \in gen.local.paths[m] \ FilesOf[m] : root[p] # None}
      ELSE {}
Fresh(m) == (created \cap {HookFile[m]}) \ FilesOf[m]
AllCarried == UNION {Carried(m) : m \in LocalOf(gen)}
AllFresh == UNION {Fresh(m) : m \in LocalOf(gen)}

Records ==
    [of |-> LocalOf(gen),
     paths |-> [m \in Molecules |-> IF m \in LocalOf(gen)
                                    THEN FilesOf[m] \cup Carried(m) \cup Fresh(m) ELSE {}],
     hash |-> [p \in Paths |-> IF p \in AllCarried THEN gen.local.hash[p]
                               ELSE IF p \in AllFresh THEN root[p]
                               ELSE IF p \in Files(LocalOf(gen)) THEN OwnerIn(LocalOf(gen), p)
                               ELSE None]]

\* Seeded fault: the lock is believed.
LocalIsNoOpByLock ==
    \/ ~IsActive(gen)
    \/ Overlay(gen) # {} /\ gen.local = Records

\* is_no_op of the plan: a crash may have left the lock current and files missing.
LocalIsNoOp ==
    \/ ~IsActive(gen)
    \/ /\ Overlay(gen) # {}
       /\ gen.local = Records
       /\ \A p \in Files(LocalOf(gen)) : root[p] = OwnerIn(LocalOf(gen), p)

ProjectIsNoOp == gen.lock = gen.manifest

ProjectBehaves == gen.manifest \cap Behaving # {}
Composes == ProjectBehaves \/ LocalOf(gen) \cap Behaving # {}

\* Seeded fault: the copy is kept for behavior only, not for local scope.
PlanWithoutCopy ==
    /\ pc = "plan"
    /\ plan' = Records
    /\ backup' = IF ProjectBehaves THEN gen ELSE NoGen
    /\ pc' = IF ProjectIsNoOp /\ LocalIsNoOp THEN "compose"
             ELSE IF ProjectIsNoOp THEN "localSwap" ELSE "project"
    /\ UNCHANGED <<disk, edit, start, preimage, created, outcome, counters>>

\* The copy of the generation is kept for behavior and for local scope.
Plan ==
    /\ pc = "plan"
    /\ plan' = Records
    /\ backup' = IF ProjectIsNoOp /\ LocalIsNoOp THEN NoGen
                 ELSE IF ProjectBehaves \/ IsActive(gen) THEN gen ELSE NoGen
    /\ pc' = IF ProjectIsNoOp /\ LocalIsNoOp THEN "compose"
             ELSE IF ProjectIsNoOp THEN "localSwap" ELSE "project"
    /\ UNCHANGED <<disk, edit, start, preimage, created, outcome, counters>>

--------------------------------------------------------------------------------
(* The two publications *)

\* The project's lock, its files, and the orphans that nobody edited.
ProjectPublished ==
    /\ gen' = [gen EXCEPT !.lock = gen.manifest]
    /\ root' = [p \in Paths |->
                  IF p \in Files(gen.manifest) THEN OwnerIn(gen.manifest, p)
                  ELSE IF p \in Files(gen.lock) /\ root[p] = OwnerIn(gen.lock, p) THEN None
                  ELSE root[p]]
    /\ UNCHANGED <<tracked, excluded, counters>>

PublishProject ==
    /\ pc = "project"
    /\ ProjectPublished
    /\ pc' = IF LocalIsNoOp THEN "compose" ELSE "localSwap"
    /\ UNCHANGED <<locals, outcome>>

\* The removal of the previous generation raises; only a copy takes this one back.
PublishProjectFails ==
    /\ pc = "project"
    /\ ProjectPublished
    /\ IF backup = NoGen THEN FailLate ELSE pc' = "rollback" /\ UNCHANGED <<locals, outcome>>

\* An overlay that lists nothing takes .spaex/local away.
LocalSwap ==
    /\ pc = "localSwap"
    /\ gen' = IF Overlay(gen) = {} THEN [gen EXCEPT !.overlay = NoOverlay, !.local = NoLock]
              ELSE [gen EXCEPT !.local = plan]
    /\ preimage' = root
    /\ pc' = "localFiles"
    /\ UNCHANGED <<root, tracked, excluded, edit, start, created, plan, backup, outcome, counters>>

LocalFiles ==
    /\ pc = "localFiles"
    /\ root' = [p \in Paths |-> IF p \in Files(LocalOf(gen)) THEN OwnerIn(LocalOf(gen), p)
                                ELSE root[p]]
    /\ pc' = "localOrphans"
    /\ UNCHANGED <<gen, tracked, excluded, locals, outcome, counters>>

\* plan.previous_lock: the local lock that the command found.
Previous == start.local

Orphans(keep) ==
    {p \in Recorded(Previous) \ (Recorded(gen.local) \cup keep) :
        Previous.hash[p] \in {None, root[p]}}

\* Seeded fault: what the project owns now is deleted with the rest.
LocalOrphansAll ==
    /\ pc = "localOrphans"
    /\ root' = [p \in Paths |-> IF p \in Orphans({}) THEN None ELSE root[p]]
    /\ pc' = "exclude"
    /\ UNCHANGED <<gen, tracked, excluded, locals, outcome, counters>>

\* delete_orphaned_paths, which spares what the published project lock owns.
LocalOrphans ==
    /\ pc = "localOrphans"
    /\ root' = [p \in Paths |-> IF p \in Orphans(Files(gen.lock)) THEN None ELSE root[p]]
    /\ pc' = "exclude"
    /\ UNCHANGED <<gen, tracked, excluded, locals, outcome, counters>>

\* Here too the removal of the previous generation may raise.
Exclude ==
    /\ pc = "exclude"
    /\ excluded' = Recorded(gen.local)
    /\ pc' \in {"compose", "rollback"}
    /\ UNCHANGED <<gen, root, tracked, locals, outcome, counters>>

\* The handler of post_write_verify restores the files it was to deliver, not the
\* orphans; then the swap is undone.
LocalPublicationFails ==
    /\ pc \in {"localFiles", "localOrphans", "exclude"}
    /\ root' = [p \in Paths |-> IF p \in Files(LocalOf(gen)) THEN preimage[p] ELSE root[p]]
    /\ pc' = "undoSwap"
    /\ UNCHANGED <<gen, tracked, excluded, locals, outcome, counters>>

\* The overlay before the swap: one that lists nothing has been taken away.
Swapped ==
    IF gen.overlay # NoOverlay THEN gen.overlay
    ELSE IF edit = "overlay" THEN {} ELSE start.overlay

UndoSwap ==
    /\ pc = "undoSwap"
    /\ gen' = [gen EXCEPT !.overlay = Swapped, !.local = Previous]
    /\ pc' = "rollback"
    /\ UNCHANGED <<root, tracked, excluded, locals, outcome, counters>>

--------------------------------------------------------------------------------
(* Behavior of both scopes, the rollback around it, and the last step *)

Compose ==
    /\ pc = "compose"
    /\ pc' = "reconcile"
    /\ UNCHANGED <<disk, locals, outcome, counters>>

ComposeFails ==
    /\ pc = "compose" /\ Composes
    /\ pc' = "rollback"
    /\ UNCHANGED <<disk, locals, outcome, counters>>

\* __exit__ of _preserve_generation_for_behavior, with the copy if there is one.
RollBack ==
    /\ pc = "rollback"
    /\ gen' = IF backup = NoGen THEN gen ELSE backup
    /\ Fail
    /\ UNCHANGED <<root, tracked, excluded, counters>>

\* An edit whose project fragments contradict each other gives the old generation
\* back and succeeds.
Defer ==
    /\ pc = "compose" /\ edit # "none" /\ ProjectBehaves /\ backup # NoGen
    /\ pc' = "giveBack"
    /\ UNCHANGED <<disk, locals, outcome, counters>>

GiveBack ==
    /\ pc = "giveBack"
    /\ gen' = backup /\ outcome' = "deferred"
    /\ pc' = "reconcile"
    /\ UNCHANGED <<root, tracked, excluded, locals, counters>>

\* rmtree of the live generation or the rename of the copy raises, and the finally clause
\* removes the copy.
RollBackFails ==
    /\ pc \in {"rollback", "giveBack"} /\ backup # NoGen
    /\ kills < MaxKills /\ kills' = kills + 1
    /\ gen' \in Remains(gen)
    /\ FailAs("lost", "restoreLost")
    /\ UNCHANGED <<root, tracked, excluded, moves>>

\* reconcile_exclusions, where there is local scope.
Reconcile ==
    /\ pc = "reconcile"
    /\ excluded' = IF IsActive(gen) THEN Recorded(gen.local) ELSE excluded
    /\ End(IF outcome = "deferred" THEN "deferred" ELSE "done")
    /\ UNCHANGED <<gen, root, tracked, counters>>

\* The block is unbalanced, or cannot be written: by now everything is published.
ReconcileFails ==
    /\ pc = "reconcile" /\ IsActive(gen) /\ excluded # Recorded(gen.local)
    /\ FailAs("failedLate", "restoreLate")
    /\ UNCHANGED <<disk, counters>>

\* Resolution, Spec Kit, a hook that aborts, or the project's publication fails.
Refuse ==
    /\ pc \in {"prepare", "plan", "project"}
    /\ IF pc = "project" THEN pc' = "rollback" /\ UNCHANGED <<locals, outcome>> ELSE Fail
    /\ UNCHANGED <<disk, counters>>

\* A kill within the rollback leaves what it has not removed yet.
Kill ==
    /\ pc # "idle" /\ kills < MaxKills
    /\ kills' = kills + 1
    /\ End("killed")
    /\ gen' \in IF pc \in {"rollback", "giveBack"} /\ backup # NoGen
                THEN Remains(gen) ELSE {gen}
    /\ UNCHANGED <<root, tracked, excluded, moves>>

--------------------------------------------------------------------------------
(* The operator and the team *)

AtRest == outcome' = "none" /\ UNCHANGED <<pc, locals, kills>>

\* git add and commit of everything that is not ignored.
Commit ==
    /\ Move
    /\ tracked' = {p \in Paths : root[p] # None /\ (p \in tracked \/ p \notin excluded)}
    /\ AtRest /\ UNCHANGED <<gen, root, excluded>>

EditFile(p) ==
    /\ Move
    /\ \E content \in {Edited, None} : root' = [root EXCEPT ![p] = content]
    /\ AtRest /\ UNCHANGED <<gen, tracked, excluded>>

\* The operator removes the block from info/exclude.
EditExclude ==
    /\ Move
    /\ excluded # {} /\ excluded' = {}
    /\ AtRest /\ UNCHANGED <<gen, root, tracked>>

\* git pull of a file of the team: it refuses to overwrite an untracked file, unless
\* that is ignored.
PullFile(p) ==
    /\ Move
    /\ p \in tracked \/ p \in excluded \/ root[p] = None
    /\ root' = [root EXCEPT ![p] = Team] /\ tracked' = tracked \cup {p}
    /\ AtRest /\ UNCHANGED <<gen, excluded>>

\* git pull of an adoption that a team member has installed and committed.
PullAdoption(m) ==
    /\ Move /\ m \notin gen.manifest /\ gen.lock = gen.manifest
    /\ \A p \in FilesOf[m] : p \in tracked \/ p \in excluded \/ root[p] = None
    /\ gen' = [gen EXCEPT !.manifest = @ \cup {m}, !.lock = @ \cup {m}]
    /\ root' = [p \in Paths |-> IF p \in FilesOf[m] THEN m ELSE root[p]]
    /\ tracked' = tracked \cup FilesOf[m]
    /\ AtRest /\ UNCHANGED excluded

PullRetraction(m) ==
    /\ Move /\ m \in gen.manifest /\ gen.lock = gen.manifest /\ FilesOf[m] \subseteq tracked
    /\ gen' = [gen EXCEPT !.manifest = @ \ {m}, !.lock = @ \ {m}]
    /\ root' = [p \in Paths |-> IF p \in FilesOf[m] THEN None ELSE root[p]]
    /\ tracked' = tracked \ FilesOf[m]
    /\ AtRest /\ UNCHANGED excluded

Local == RunHooks \/ Guard \/ LocalSwap \/ LocalFiles \/ LocalOrphans \/ Exclude
         \/ LocalPublicationFails \/ UndoSwap

Next ==
    \/ \E m \in Molecules : AddLocal(m) \/ RemoveLocal(m) \/ Add(m) \/ Remove(m)
                            \/ PullAdoption(m) \/ PullRetraction(m)
    \/ \E p \in Paths : EditFile(p) \/ PullFile(p)
    \/ StartInstall \/ Commit \/ EditExclude
    \/ Prepare \/ Plan \/ PublishProject \/ PublishProjectFails \/ Compose \/ ComposeFails
    \/ RollBack \/ Defer \/ GiveBack \/ RollBackFails \/ Reconcile \/ ReconcileFails
    \/ Refuse \/ Restore \/ RestoreFails \/ Kill
    \/ Local

Spec == Init /\ [][Next]_vars

--------------------------------------------------------------------------------
(* Properties *)

\* The type of every variable; local values exist only while a command runs.
TypeOK ==
    /\ gen \in Leftovers
    /\ root \in [Paths -> Contents] /\ tracked \subseteq Paths /\ excluded \subseteq Paths
    /\ pc \in Points /\ edit \in {"none", "overlay", "manifest"}
    /\ start \in Generations
    /\ preimage \in [Paths -> Contents] /\ created \subseteq Paths
    /\ plan \in Locks /\ backup \in Generations \cup {NoGen}
    /\ outcome \in Outcomes /\ moves \in 0..MaxMoves /\ kills \in 0..MaxKills
    /\ pc = "idle" => edit = "none" /\ created = {} /\ plan = NoPlan /\ backup = NoGen

\* A file of the team's: the published project lock owns it, or git tracks it and it
\* is not, byte for byte, what the local lock has recorded.
TeamFiles ==
    Files(gen.lock) \cup {p \in tracked : p \notin Recorded(Previous) \/ Previous.hash[p] # root[p]}

\* No step of the local scope changes a file of the team's, and what a local hook has
\* done to one is taken back by the next step: preflight, the guard, and the orphans
\* that are spared, also while molecules move between the scopes.
LocalStepsKeepTeamFiles ==
    [][ Local /\ pc # "hooks"
        => \A p \in TeamFiles : root'[p] = IF pc = "guard" THEN preimage[p] ELSE root[p] ]_vars

\* An install that succeeds has delivered the local scope: every file of a molecule
\* that is not shadowed is there and recorded, the records are what git is told to
\* ignore, and no local file of before has dropped out of the records unless it is
\* gone, the project's, or edited.
SuccessDeliversLocal ==
    outcome = "done" =>
        /\ \A m \in LocalOf(gen) :
              /\ gen.local # NoLock /\ FilesOf[m] \subseteq gen.local.paths[m]
              /\ \A p \in FilesOf[m] : root[p] = m
        /\ IF Overlay(gen) = {} THEN ~IsActive(gen) ELSE gen.local.of = LocalOf(gen)
        /\ IsActive(gen) => excluded = Recorded(gen.local)
        /\ \A p \in Recorded(Previous) :
              \/ p \in Recorded(gen.local) \cup Files(gen.lock)
              \/ root[p] = None \/ root[p] # Previous.hash[p]

\* A command that fails leaves both manifests and both locks as it found them,
\* however far it came: the local publication may fail after the project's is done.  Where
\* it fails with everything published, in reconcile_exclusions or in the removal of the
\* previous generation, it leaves both manifests; and where the rollback itself fails, a
\* manifest that is still there is the one found.
FailureRestoresScopes ==
    /\ outcome = "failed" => gen = start
    /\ outcome = "failedLate" =>
          gen.manifest = start.manifest /\ gen.overlay = start.overlay
    /\ outcome = "lost" =>
          /\ gen.manifest \in {start.manifest, None}
          /\ gen.overlay \in {start.overlay, NoOverlay}
================================================================================
