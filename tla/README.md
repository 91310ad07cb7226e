# A TLA+ model of spaex

spaex installs *molecules* (git subdirectories pinned in
`.spaex/manifest.json`) into a repository. Everything it publishes for one state
of that manifest is a *generation*: the directory `.spaex/` with its manifest,
its `install.lock` and its composed constitution, together with files it delivers
outside of `.spaex/`. The program has no server, and threads only where the
Composer is called for several batches at once. What makes it hard is the file
system: several processes, of one checkout or of several that share a cache;
kills between two calls; calls that fail half-way through a handler that is itself
undoing something; readers that take no lock; external programs whose state
nobody rolls back; and cached records (`install.lock`, an extracted tree) that
stand for files nobody looks at again.

The modules here translate that part of `src/src/spaex/`. TLC checks them on
small instances, and TLAPS proves every invariant and action property the passing runs
check for every value of the constants, under the conditions that section 4 names; liveness
stays with TLC.

Paths below are relative to `src/src/spaex/`, unless they start with `specs/`.

## 1. Inventory

| component | state | operations | interacts with |
|---|---|---|---|
| rename-swap transaction (`io/transaction.py`) | `.spaex`, `.spaex.next`, `.spaex.prev` | `publish_generation`, `stage_generation`, `_rollback_swap` | called by publication, by hook staging and by the local scope, under both locks |
| in-flight recovery (`install/inflight.py`) | the same three directories | `restore_previous_generation`, `clean_stale_siblings` | first thing of every install |
| manifest lock (`install/manifest_lock.py`) | `.spaex/manifest.json.lock`, the inode or the named mutex it leads to | `active_manifest_lock_path`, `__enter__`, `__exit__` | lies *inside* the directory that the swap renames |
| install mutex (`io/writer_lock.py`, `io/state.py`) | `install.mutex` in the state directory, its holder | non-blocking acquire, release | around the whole of `install.run` |
| install pipeline (`cli/install.py`, `constitution/resolve.py`) | the locals of one run | resolve, stage around hooks, decide no-op, publish, behavior rollback | calls everything else |
| publication (`constitution/publish.py`, `install/generation.py`) | `install.lock`, generation ids | `publish_constitution`, `stage_constitution`, `delete_orphaned_paths` | swap, delivered files |
| exclusive root files (`install/generic_atoms.py`) | files in the repository root | collect, write, snapshot, restore | written after the swap, inside its verification |
| manifest edits (`cli/add.py`, `cli/remove.py`, `install/write_and_reinstall.py`) | `manifest.json` | read, edit, write, install, put back on failure | manifest lock, install pipeline |
| install lock file (`model/install_lock.py`) | records, content hashes, hook status | parse, dump, `read_with_consistent_generation` | the no-op decision, orphan deletion, reports |
| status and trace (`report/*.py`, `cli/status.py`) | none | read `.spaex/` file by file without a lock | races the swap |
| install hooks (`install/hook_runner.py`) | hook status per molecule | run, warn, abort | run while the candidate is live |
| behavior pipeline (`behavior/orchestrate.py` and its helpers) | `constitution.d`, `constitution.md`, `clarifications.json`, `.stale` | materialise, compose, commit with its own rollback | runs after the publication, on the live tree |
| behavior composer (`behavior/composer/*.py`) | clarification store, logs | batch, merge, clarify, retry | calls an external model |
| local scope (`install/local_scope.py`, `local_publish.py`, `git_exclude.py`, `side_effects.py`) | `.spaex/local/`, `info/exclude` | overlay, publish, exclude, guard | a second swap of the same install |
| molecule store and fetch (`git/*.py`) | clones and extracted trees in the state directory | fetch, extract, reuse | resolution |
| Spec Kit (`integrations/*.py`) | the selection in `install.lock`; the registry and files of the official CLI | select, verify, initialise, detect drift, repair, record | may refuse before the publication; its files are not rolled back |
| external skills, nix packages, models and schemas, command line | — | parsing, printing, external commands | — |

What is hard about them, and what makes each correct:

* **Swap and recovery.** A kill or an `OSError` at any of about twenty calls.
  Correct when a reader never finds a half-written live tree, when the old or the
  new generation is found by the next install whatever happened, and when a
  refused publication leaves no trace.
* **Manifest lock.** A process resolves a path, makes its parent, opens the file
  and polls its lock in four steps, while the holder renames the directory that
  contains it. Correct when two processes never work under it at once, and when
  no edit that was reported as done is overwritten by an older manifest.
* **Install mutex.** Correct when two installs never overlap, also where the
  manifest lock has let two processes in.
* **Install pipeline.** One run publishes up to three times and may stop after
  any of them; it decides that there is nothing to do from records and not from
  files. Correct when success means that the repository holds what the manifest
  asks for, and failure that it is as before.
* **Reports.** Correct when all files of a report come from one generation.
* **Behavior pipeline.** Three artifacts are replaced one after the other on the
  live tree, and the decision not to compose is taken from two hashes in one of
  them. Correct when a success leaves tree, document and answers that belong
  together whatever came before, a failure leaves what was there, and an answer of
  the operator is neither lost nor asked for again.
* **Composer.** Batches are composed on a pool of threads, any call may fail or
  come back with questions, and answers, hashes and parts are threaded through
  batches, retries and levels of merges. Correct when the outcome does not depend on
  the order of the threads, when the merged document speaks for every batch and
  every stored answer, and when the composition ends.
* **Molecule store.** Commands of all checkouts of a user share it, nothing is ever
  verified again, and locks lie next to what they protect. Correct when a path that
  was handed out holds a whole tree, and two extractions do not meet.
* **Local scope.** The same install publishes a second generation from an overlay
  that git must not see, next to files of the team. Correct when it delivers, records
  and excludes its files, never touches the team's, and goes back with the project.
* **Spec Kit.** The selection is in the lock, the files are the official CLI's; pulls,
  clones and clean-ups separate the two. Correct when a repair is complete, the
  operator's choice neither guessed nor lost, and an unchanged install quiet.

## 2. The modules

| module | stands for | state |
|---|---|---|
| `AtomicPublish` | the promise of a publication: one generation is current at each moment, an attempt switches, switches back, and ends committed, refused or broken off | `current`, `attempt`, `verdict` |
| `GenerationSwap` | `transaction.py` and `inflight.py`, one file-system call per step | three directories, the program point, the Python locals, the exception under way |
| `GenerationSwapProofs` | theorems about it, among them that it implements `AtomicPublish`, and about `ConsistentRead` | — |
| `ConsistentRead` | `GenerationSwap` with one lock-free report reader and the ids that installs allocate | adds the reader's locals |
| `ManifestLock` | several processes that edit and install: both locks and the renames between them | directories with a lock inode and a manifest, a program point per process |
| `ManifestLockProofs` | theorems about the two locks | — |
| `InstallTransaction` | a checkout under a sequence of commands: manifest, lock, delivered files, hooks, behavior rollback | the live generation, the root files, the locals of the command |
| `InstallTransactionProofs` | theorems about it | — |
| `BehaviorPipeline` | one scope's behavior passes, from staging to the commit and its rollback, as run by an install, `add` or `remove`, and `constitution build` | the artifacts, the pinned bodies, the locals of the pass |
| `BehaviorPipelineProofs` | theorems about it | — |
| `ComposerReduce` | one composition in batches: partition, pool, question rounds, merges | the answers, the reply of each batch, the nodes of a level, the call under way |
| `ComposerReduceProofs` | theorems about it | — |
| `MoleculeStore` | commands of several checkouts that fill and read the shared cache | the clone, the trees, their locks, a program point per command |
| `MoleculeStoreProofs` | theorems about it | — |
| `LocalScope` | a checkout whose installs publish both scopes, between moves of git and the operator | the generation, root files, tracked paths, exclusion block, the locals of the command |
| `LocalScopeProofs` | theorems about it | — |
| `SpeckitInstall` | the Spec Kit step of a sequence of installs, with what happens between them | the recorded selections, the CLI's registry and files, the locals of the step |
| `SpeckitInstallProofs` | theorems about it | — |
| `MCManifestLock`, `MCConsistentRead`, `MCInstallTransaction`, `MCBehaviorPipeline`, `MCComposerReduce`, `MCMoleculeStore`, `MCLocalScope`, `MCSpeckitInstall` | small constants for TLC | — |

They are views of one install. `GenerationSwap` opens the publication up and
treats a generation as one value. `InstallTransaction` opens the generation up and
takes the swap as one step, which the refinement to `AtomicPublish` justifies:
what the other modules see of a swap is `Recovered`, and that changes atomically.
`ManifestLock` opens the processes up, and keeps the renames apart because the
lock file lives in what is renamed. `BehaviorPipeline` opens up what
`InstallTransaction` takes as the step `Compose`, and `ComposerReduce` what
`BehaviorPipeline` takes as one call of the Composer. `MoleculeStore` is what
happens below the step `Resolve`, `SpeckitInstall` the refusal or success before
`Publish`, and `LocalScope` takes the project's publication as one step and
follows the second one.

### GenerationSwap

A directory is a complete generation, `Absent`, or `Partial`: being written or
being removed file by file. `live`, `next` and `prev` are the three names; `pc` is
the call to be made next; `liveExisted` and `renameADone` are the locals
`live_existed_before` and `rename_a_done` that the outer handler reads. Each call
has an action for success and one for failure (`RenameB`, `RenameBFails`,
`RenameBSyncFails` where the rename succeeds and the following `fsync` does not).
`HandleException` is the outer `except BaseException`: it decides by what exists.
`Crash` is a kill at any point. `Begin` starts a publication of a scope and mode;
one install makes up to three of them (`Rank`), and recovery runs only before the
first.

### ManifestLock

`StartCommand`, `ResolveCanonical`, `ResolveRecovery`, `MakeParent`, `OpenLock`,
`AcquireLock` and `TimeOut` follow `__enter__` call by call. `setup` is chosen from
`Setups` when the system starts: on `"posix"` a lock belongs to an inode, on
`"windows"` to a kernel mutex named after the canonical path, and `KeepsBackup`
says whether installs keep a copy for the behavior rollback. `ReadManifest`,
`WriteManifest`, `RestoreManifest` are the edit of `add` and `remove`, and `TakeMutex`
to `RenameBack` the install below it, reduced to the calls that move a directory and
to one publication: the candidate and the local scope swap in the same way.
`RollBackInto` and `UndoRenameAway` are the way back after a failed verification.
`FinishBehavior` goes on, fails, or has the generation brought back from the copy, for
a pass that failed or for an edit that is deferred and then reported as done;
`DropLive` and `RenameBack` may raise, and then leave a tree that has lost its
manifest. `intruded` records whether a process
has made a directory that a swap, or a kill during one, had left absent; it is
read by properties only.

### ConsistentRead

The reader takes the steps of `read_with_consistent_generation`: does the lock
exist, its bytes, the local id, the builder's reads, and the ids again, with one
retry. A generation is known by its two ids; `Allocated` makes each publication
take a greater one in its scope, where there is a lock to be greater than: a local
publication may leave no local lock, and the next adoption then takes any id. The
swap is that of `GenerationSwap` with its refusals, failing calls and kills.
`rewound` is a history variable: whether, since the attempt began, a step took a swap
back (an undo, a rollback, a recovery) or adopted a local scope; it is read by the
property only.

### InstallTransaction

`current` is the live manifest, lock and `constitution.md`, `root` the delivered
files. A run goes `resolve`, `stage`, `hooks`, `prepare`, `publish`, `write`,
`orphans`, `compose`; `dropLive` and `renameBack` are the behavior rollback, `restore`
the edit's own one. A file's content is the molecule and version that delivered it,
`Edited` when the operator changed it, `None` when it is absent. A body is the
version of the contributor's constitution that it holds, or `Composed`, which is what
a behavior pass leaves in its place. `IsNoOp` compares what `_is_no_op` does, the body
and the records; `content_hashes` and the files it does not look at.
`ContributorMatches` is what decides on a candidate, again with the body.

Any call may fail, and `outcome` says where: "failed" for a failure that the handlers
take back; "late" for one with the publication complete, in the removal of the
previous generation (`CommitFails` for a candidate's, `EndDeliveryFails`) or in
`reconcile_exclusions` (`ReconcileFails`); "lost" for the behavior rollback's own
(`RollbackFails`), after which the copy is gone and the tree is what is left; and
"unrestored" when an edit cannot put its manifest back (`RestoreFails`). A scenario,
chosen at the start from `Scenarios`, says which molecules deliver what, have hooks or
behavior, and which of the rarer failures may happen. The handlers of the swap do not
fail here, as `GenerationSwap` has those; a pull changes the manifest and leaves the
lock and the body, though git may bring those as well; and a command without a
manifest refuses, which ends the behavior.

### BehaviorPipeline

`sources` gives each fragment the version of its body, 0 when no pinned molecule
has it. `disk` holds `constitution.d` and its two siblings, `constitution.md`,
`clarifications.json` and `.stale`. Hashes are modelled by what they are taken
from: the `source_hash` of the document is the function of bodies it was composed
from, the `build_input_hash` is the set of answers, and an answer is known by the
fragments it cites together with their bodies (`derive_key`). Prompt and answer
texts do not change here, so the pass never composes for their sake.

A pass goes `reset`, `decide`, `compose`, `backup`, `moveAside`, `moveIn`, `moved`,
`emit`, `save`, `discard`, `clear`. The Composer is external: it composes a body that
cites any of the fragments, asks any questions, or fails. `Unwind` is the
handler of `_commit_behavior_artifacts`; the way back is one call per step,
because a kill may come in between. `Interrupt` is a Ctrl-C. The two renames and the
assignment that tells the handler of them (`Note`) are steps of their own, since it may
come between any two; `lost` is a history variable that says it did, or that the inner
handler's own rename failed. A document that the restoring copy was writing when it
failed counts as absent. `Republish` is what
the directory swap of an install does to these files before the pass. With
`--force --check` the pass is followed by `Revert`, however it ended.

### ComposerReduce

A partition packs molecules greedily into batches by two limits; answers whose
fragments lie in one batch go with it, the others are `cross`. `StartBatch` and
`EndBatch` are the worker threads; `Collect`, `FoldBatch`, `VerifyBatch`, `Ask`,
`Decline` and `Retry` the main thread, batch by batch in order; `StartLevel` to
`EndLevel` the pairwise merges, or one flat merge when everything fits; `CallMerge`
and `PlaceMerged` one call. A reply is a body of any size in `Bytes`, a set of
questions, or one of the failure categories. A node records which batches it
speaks for, which answers its calls were told, and the hash its header would have,
as the set of answers that it was computed from.

### MoleculeStore

A command runs `LockClone` to `Fetch` once and then, per molecule, `MakeParent`,
`OpenLock`, `Acquire`, `Exists`, `Archive`, `MakeTemp`, `Extract`, `Place` and
`ReadTree`. A tree is absent, *bare* (a directory made on the way to the lock of a
molecule nested below it) or whole; `Above` is the nesting. `served` are the paths
a command has been given.

### LocalScope

`gen` is both manifests and both locks, since one swap replaces them together; the
root files, what git tracks, and the exclusion block are separate. A command goes
`prepare`, `hooks`, `guard`, `plan`, `project`, `localSwap`, `localFiles`,
`localOrphans`, `exclude`, `compose`, `reconcile`, with `undoSwap`, `rollback` and
`restore` as ways back. `guard` compares the files before and after the local hooks
and reverts what is the team's. `RollBack` brings the copy back after a failure and
`GiveBack` after a deferral; `RollBackFails` is either when it raises, and leaves some
of the four files (`Remains`). Failures after a publication are `PublishProjectFails`,
which is taken back only where there is a copy, the way of `Exclude` to "rollback",
and `ReconcileFails`. `MaxKills` bounds kills, failing rollbacks and failing
restorations (`RestoreFails`) together. Between commands git commits and pulls, and the
operator edits. Without a manifest every command refuses, and the model ends.

### SpeckitInstall

A pin stands for a source, a revision and its declaration, so that comparing pins is
comparing fingerprints, and the pins of one policy are its revisions. `registered`
and `default` are `.specify/integration.json`; `readable` says whose official
manifest is there, and `whole` whose files are. What the CLI does is external and
follows `tests/integration/test_speckit_drift_repair.py`: an installed key is not
installed again, the default counts as installed, and the first key installed into
an empty record becomes the default. The step goes `select`, `verify`, `init`,
`list`, `status`, `clear`, `repair` key by key, and `publish`; `skip` and `disable`
are the ways without the CLI. `choice` and `settled` are read by properties only:
the operator's last published choice for each policy, and whether anything has
happened since a successful install.

## 3. Runs

| run | instance | states | shows |
|---|---|---|---|
| `swap` | 3 generations, 3 faults | 11,861 | the swap implements `AtomicPublish`; old or new is found, nothing is lost, a refusal leaves no trace, recovery comes first, an install ends |
| `lock` | 2 editors, 1 installer, 3 commands, 1 kill; Windows with backups and POSIX without | 393,381 | exclusion and no lost edit on Windows; on both, installs never overlap, the lock inode survives every swap, a generation stays recoverable, every command ends |
| `lock_race` | 2 editors | violation | the manifest lock with two holders on POSIX |
| `read` | project ids 0..2, local ids 0..1, 2 reads, refusals and 1 failing call or kill | 6,220,547 | reports with ids from disk are of one generation, unless a swap was taken back or a local scope adopted meanwhile |
| `install` | 2 molecules in 2 versions, 2 paths; 5 commands with a file that changes owner, 3 with a hook, behavior, a kill and Ctrl-C, or 3 with a hooked contributor that delivers a file | 1,462,112 | success delivers, failure changes nothing or leaves all of the new generation, the manifest is restored or sealed, nothing is published without a change but in two named cases, the operator's files stay |
| `install_crashed` | 3 commands, 1 kill | violation | undelivered files after a kill |
| `behavior` | 2 fragments, questions about one or both, 3 passes or changes, 2 faults or kills | 1,047,827 | success is current, failure is atomic but for one window of Ctrl-C, answers survive, no needless call, a check changes nothing, a pass ends |
| `reduce` | 4 molecules of 2 sizes, 2 threads, 2 question rounds, 2 failing calls | 417,927 | the same error in every order of the threads, a success speaks for all batches and answers, the composition ends |
| `store` | 2 commands at a time and 3 in all, 3 molecules, one nested, of 2 revisions | 1,224,499 | served trees are whole, extractions never collide |
| `local` | 2 molecules that share a hook's file, 5 commands or moves, 1 kill or failing rollback | 3,630,262 | local scope delivers and excludes, restores both scopes or keeps their manifests, keeps its hands off the team's files |
| `speckit` | 2 molecules in 3 revisions, 2 policies, 2 agents, 2 CLI versions, 4 commands or changes, 1 fault | 3,752,792 | a repair is complete, a choice stands, an unchanged install is quiet |
| `speckit_opt_out` | the same | violation | an opt-out that overwrites the saved selection |

Why the bounds are enough. In `swap`, three generations are an old one, a new one
and one left over in `.prev`; the deepest paths of the handlers need two failing
calls in one publication, the third fault is a kill in the install after it. In
`lock`, the race needs a holder and a waiter, and the third process distinguishes
who took the lock over from whom; a kill is needed once, because after it the
interesting question is what the next command does. `read` needs an old and a new
project id, a missing lock in each scope, and two reads for a swap to come between;
with the one fault a swap is left half done and recovered, or undone. In `install`
a file moves from one molecule to the other, which takes two edits and the installs
around them; 5 covers an operator's edit as well; and 3 are enough for a pull, an
install and the one after it that ought to find no change. `behavior` starts from any set of
pinned fragments, so three passes or changes are: publish, unpin, publish again; or
ask, fail, and meet the answer again. Two faults are a failing call and a failing
rollback, or a kill in one pass and a failing call in the next. `reduce` has one to
four batches by the sizes chosen, so no merge, a flat one, and one or two levels
with an odd node; two threads for more than two batches keep one waiting; two
failing calls make the first in time and the first in order differ. `store` has a
second command that waits, finds, or meets what the first left when killed, and a
third that begins after both. `local` has room for an adoption in each scope, the
install, a pull or edit and the command after it. `speckit` has room for a choice, a
loss of any kind, a failed or killed repair, and the one after it, or for two
changes of the declaration around a choice.

`CHECK_DEADLOCK FALSE` stands where commands are bounded or a composition is over:
the system may stop when nobody runs another command. `swap` and `read` check
deadlock. The type invariants that TLAPS proves (`GenerationSwap`, `ManifestLock`,
`MoleculeStore`, `SpeckitInstall`) and `LiveIsWhole` have no run of their own;
`LiveIsWhole` follows from the refinement besides.

### Fairness

`GenerationSwap`: `WF_vars(Work)`. An install that has started is a sequential
process which the operating system runs on; nothing obliges anybody to start one,
to be killed, or to see a call fail. `ManifestLock`: `WF_vars(Work(p))` for each
process, for the same reason; the deadline of the poll makes `TimeOut` part of
`Work`, so a waiter ends even when the holder never does. `BehaviorPipeline`:
`WF_vars(Work)`; a call of the Composer has a timeout, and a question is answered
or declined. `ComposerReduce`: weak fairness of the main thread and of every batch's
thread, for the same two reasons; a batch that waits for a free worker is not
enabled, and gets its turn because the others' calls end.

## 4. What is proved

`GenerationSwapProofs`, for any set of generations and any number of faults:
`TypeCorrect`, `LiveWhole`, `OldOrNewFound`, `NothingIsLost`, `RecoveryComesFirst`,
`RefusalIsUndone`, and `SwapIsAtomic`: `Spec => AbstractSpec`. None of the safety
properties is inductive: at `renameB` one has to know that `prev` holds the base
and `next` the target, at `except` that what the handler finds is one of the two.
`IInv` says for each program point what the directories and the two locals hold
(`BeforePublishing`, `BeforeSwap`, `Swapped`, `Unwound`). The assumptions are that
`Absent` and `Partial` are two values and no generations, and that the bound on
faults is a number.

The same module, of `ConsistentRead`, for any ids and files and any interleaving of reports and installs:
`ReportsAreUntorn`, also while installs are refused, fail and are killed. It extends the
invariant of the swap. A step that rewinds nothing changes the live tree by rename A or B
only, and takes the ids forward: the project's grow, the local one grows and may then be
gone (`UpTo`, `InstallNext`). So a reader that missed or met a newer file finds another id
at its second look (`GapNoticed`), and one that finds the same has read one generation
(`Confirmed`). Where a step rewinds, an id may come back after another one was seen, and
the property says nothing (section 5).

`ManifestLockProofs`, for any number of processes, commands, kills and lock files:
`TypeCorrect`; `InstallsExclude`, that installs never overlap; `NamedMutexExcludes`,
that on Windows the manifest lock has one holder; `OneHolderPerFile`, that on POSIX
two holders have two different files open, so that replacement of the file is the
only way in which exclusion fails. `IInv` adds to the types that a process under
the manifest lock owns what it opened, and that an install is the holder the mutex
names. `LockFilePermanent`, `GenerationIsRecoverable` and `CalmExcludes` are about what
happens while the behavior rollback has kept no copy and no process has made a directory
that a swap left absent: there is then one lock file for ever, a generation to go back
to, and one holder on POSIX as well. Each needs the others, since only the one holder of
the lock moves directories: `LockInv` says where the lock file and the whole directories
are at each point of a swap, also when the process at that point was killed.
`ReportedEditsSurvive`, that on Windows a reported edit stays, follows a manifest through
everything that may put an older one back: the live tree, the backup of the behavior
rollback, the candidate, the copy an edit restores (`EditInv`: each of them carries the
edits reported before it was taken, and none is reported by another while it is held). An
edit is reported also where the backup has come back; the backup then carries it, since it
is taken after the edit was written. A rollback that raises may leave no manifest, and
what is left is never an older one.
The one assumption is that `None` is not the number of a file.

`MoleculeStoreProofs`, for any number of commands, revisions and molecules, nested in
any way: `TypeCorrect`; `ServedAreWhole`, that a path handed out for a molecule with
none nested in it holds the whole tree ever after; `NeverCollide`, that the place of
such a molecule is free when an extraction is renamed into it. The strengthening
follows the lock of a tree: whoever is between `Exists` and `Place` holds it, found
nothing at the path, and nobody else can have put anything there; a path becomes
bare only on the way to a molecule below it.

`SpeckitInstallProofs`, for any number of integrations, molecules, revisions and
policies: `TypeCorrect`; `ChoiceHolds`, for which one has to know that past the
selection all declarations agree and that a selection not made now is the one made
before; and `RepairCompletes`. Its invariant `RInv` says of every program point what
the status check has found and what is still in line: a selected key is whole, or to
be refreshed, or to be installed and not counted as installed unless it is whole; and a
default that was cleared is the next key in line. That integrations are numbers stands
for the order of their names, that molecules are for the resolver's (priority, then id).
`SettledStaysQuiet`, that an install with nothing changed since a success leaves keys and
records alone, rests on what that success has left: every selected key in place with the
hash on record, and the records as the selection makes them (`RecordsAgree`,
`KeysInPlace`), so that nothing gets in line while the premise stands (`NothingInLine`).

`InstallTransactionProofs`, for any molecules, versions and paths, any scenario and any
sequence of commands, pulls, failures and kills: `TypeCorrect`; `FailureRestores`, that a
command that fails leaves the manifest it found, or none where the behavior rollback
itself has failed; `SuccessSeals`, that a command that succeeds leaves a lock that is the
manifest's; `FailureChanges`, that an undisturbed one that fails leaves the generation and
the files it found, or all files of what it has published. A failure is only as good as
the copy that its rollback brings back, so `IInv` says of each copy what it holds while it
may be used: the preimage of the candidate (`run.staged`) and of the publication
(`write`, `orphans`), the files before the publication, the behavior backup, and the
manifest an edit puts back (`Keeps`, `Unchanged`, `HasBackup`, `InCommand`); where the tree
has a manifest at all is `IsLive`, and how a command fails, once it does, `Failing` and
`LateLock`. `Seals` carries the lock of
the publication, or the one the no-op decision found, up to the end of the command. The
assumptions are those of the module: the contributor is a molecule, the versions are
positive, the values for "no lock" and "no generation" are neither, no version of the
constitution is the composed one or none, and "no file" and "an edited file" are two
contents that no molecule delivers. Three invariants stand on `IInv`.
`EditsKept`, that no step deletes what the operator has edited: every lock that may become
the live one has a hash for each path it records, so that an orphan is deleted only where
it is as delivered, and no step of a command makes an edit, so that the files a rollback
brings back have each (`EditsInv`). `SuccessDelivered`, that an undisturbed success leaves
every file as delivered or edited since, and nothing else of earlier deliveries: the lock
in place says what the files are, between commands and, file by file, half way through a
delivery (`DeliveryInv`, which also gives `FailureChanges` its second half).
`PublishesChanges`, that what is published is not what was found: a candidate is staged
only over a generation that is out of date, the no-op decision sees every other, and the
pass that follows writes a body that does not hide the change (`PublicationInv`). The two
cases in which the code compares what cannot be equal are named in `NeverUnchanged`, and
section 5 has them.

`BehaviorPipelineProofs`, for any fragments, questions, answers and any sequence of
passes, pulls, failures and kills: `TypeCorrect`; `SuccessCurrent`, that a success leaves a
document of the sources and answers on disk and no stale marker; `FailureAtomic`, that a
failure leaves all artifacts as found or all committed, save for a Ctrl-C before the
handler knows of the renames, which leaves document and answers as found; `AnswersKept`; `NoNeedless`, that
the Composer is called for a reason; and `CheckMutates`. Whether a pass may be skipped is
read from the document, so its invariant says what the document on disk is worth at each
moment: `Settled`, that the last publication is still the last change, is carried from
pass to pass. Within a pass `Prepared` and `Same` say what is as the pass found it,
`Decided` what it is about to publish, `Committing` and `Undone` where the copies are that
the rollback brings back. `None` is assumed to be no document and no set of bodies.

`LocalScopeProofs`, for any molecules, files, hooks and any sequence of commands, moves of
git and the operator, failures and kills: `TypeCorrect`; `FailureRestores`, that a failure
that is rolled back goes back in both scopes, that one with everything published keeps both
manifests, and that a rollback that fails leaves of each what was found or nothing; `TeamFilesKept`, that no step of the local scope touches a file
of the team; and `SuccessDelivers`, that a success has delivered, recorded and excluded
the local scope. Three invariants, one upon the other. `UndoInv`: undoing the command's
own edit of the copy gives what it found, after a rollback generation and copy agree, and
where nothing takes a publication back the manifests are those of the edit (`Kept`).
`TeamInv`: a recorded file has a hash, what is delivered anew was not there, and after the
preflight the local scope owns no file of the project's. `SuccessInv`: what is planned,
recorded, delivered and cleaned up so far, step by step; of a command that finds nothing to
do, that its comparison with the disk has seen the same. The assumptions are that `None`
is no molecule and that the values for "no lock" and "no generation" are neither.

`ComposerReduceProofs`, for any number of molecules of any sizes, any limits, threads,
questions and failures: `TypeCorrect`, which bounds the invocations of a step by two;
`FirstErrorReported`; and `RootSpeaks`, that the document of a success stands for every
batch once and in order, was told every stored answer and names the answers stored.
`ReduceInv` has three threads. What a level stands for: the parts of its nodes are runs of
batches that cut 1 to n without a gap, and the nodes made so far of the next level cut what
they replace (`Tiled`); each level is smaller than the last (`MergeInv`), so that the steps
have names of their own (`Fresh`, `Paired`). Where an answer was heard: at every point each
stored answer spans batches, or was told to a call that a node at hand came from, or lies
within the step that is asking (`FoldHeard`, `MergeHeard`); an answer that spans batches is
told to the last merge at the latest, whose scope is all fragments. What the collection has
seen: no failure yet or the first one (`FirstError`). The packing and the concatenation of parts
are recursive functions; what they yield is proved by induction over a set of naturals
(`NatSetInduction`, from the least element of its complement). The assumptions:
`RulesAssumption`, that there is a molecule (with no fragment the code returns before,
`behavior/orchestrate.py:185`) and that no fragment is of two; `KnownAssumption`, that the
answers at the start cite fragments there are, since `invalidate` has dropped the others
(`behavior/composer/clarifications.py:208`); `SizesAssumption` and `BoundsAssumption`, that
sizes, limits and bounds are numbers and there is a thread; and `NoneAssumption`, that
"no error" is not an error.

Only model-checked: the liveness properties `InstallEnds`, `CommandsEnd`, `PassEnds` and
`ComposeEnds`, since TLAPS has no rule for fairness.

## 5. Where the code and its documents disagree

Three disagreements have a run that finds them.

* **Two holders of the manifest lock** (`lock_race`). On POSIX a process that
  resolved the canonical path before rename A makes a fresh `.spaex/` and a fresh
  lock file after it. `_preserve_manifest_lock` says that this cannot happen. The
  install mutex still keeps the installs apart; an edit may be lost.
* **Files never delivered** (`install_crashed`). A kill after the swap and before
  the root files leaves a lock that records them; the next install finds no
  change.
* **An opt-out that forgets the selection** (`speckit_opt_out`).
  `--no-speckit-integrations` keeps the previous record of the molecule that
  contributes the classic constitution, and overwrites every other one with an empty
  selection (`cli/install.py:1075` takes the results of the invocation, and
  `constitution/publish.py:348` the records to publish).

The same models reach these, which have no run of their own. To see one, check the
property it names, with the constants it names.

Swap, locks, reports, installs:

* `ReportIsUntorn` of `ConsistentRead` fails with ids 0..3 and 2 reads. The id of a
  missing lock is the empty string before and after, so a report that begins in one
  rename window and ends in another compares equal ids around files of a complete
  generation (`model/install_lock.py:268` against
  `specs/028-status-provenance/data-model.md:93`). `SealedReportIsUntorn` is what
  remains true.
* `SuccessDelivers` fails in a scenario with a hook and no kill: retracted files
  stay. When a candidate was staged for hooks, the lock that says what to delete is
  the candidate's own (`constitution/publish.py:188` against
  `specs/027-generic-atom-delivery/spec.md:114`).
* With a setup `<<"posix", TRUE>>`, `LockFileIsPermanent` fails: the behavior
  rollback brings back a `copytree` copy of the lock file
  (`cli/install.py:729` against `install/manifest_lock.py:8`).
* Without the condition on `intruded`, `GenerationRecoverable` fails: after a kill
  between the renames, the `mkdir` of a waiting process makes an empty `.spaex/`
  that recovery takes for a live generation (`install/manifest_lock.py:91`).
* Without the condition on `rewound`, `SealedReportIsUntorn` of `ConsistentRead` fails: a
  rolled-back swap brings the first id back around files of the refused one; the second
  rename fails and the first is undone, or the install is killed between them and
  recovered, and a report that came in between has missed a file and finds the same id
  (`model/install_lock.py:268`). A local scope that is removed and adopted again within
  the second, with the same overlay, gets its former id back, since there is no lock to be
  greater than (`install/local_publish.py:110`, `install/generation.py:28`).
* One swap may cost a report both of its attempts, when the retry begins in the
  rename window (`specs/028-status-provenance/research.md:104` expects one swap to
  be absorbed).
* In a scenario with behavior, `SuccessDelivers` fails: a deferred `add` restores the
  lock and not the root files (`cli/install.py:729`). So does `FailureChangesNothing`
  without the condition `Undisturbed`.
* Without it, in a scenario with `mayInterrupt`, `FailureChangesNothing` fails:
  `except (OSError, HaexError)` lets a `KeyboardInterrupt` pass, and the files written so
  far stay (`constitution/publish.py:249`).
* Without it, in one with a hook and `mayRefuse`, `FailureChangesNothing` fails: a refusal
  of Spec Kit or the local scope comes after the candidate is committed
  (`cli/install.py:480`).
* A failure with the publication complete is not taken back (the outcome "late"). The
  removal of `.spaex.prev` comes after the verification, and `reconcile_exclusions` after
  the last handler, so that a command reports a failure with its generation and all its
  files in place (`io/transaction.py:310`, `cli/install.py:422` and 613); an edit then puts
  the old manifest next to the new lock (`install/write_and_reinstall.py:94`).
* Without the first disjunct of `NeverUnchanged`, `PublishesOnlyChanges` fails: the behavior
  pass overwrites the `constitution.md` of a classic contributor, which then never equals
  the body it is compared with, so that every install publishes and, with a hook, stages a
  candidate before (`cli/install.py:177` and 454, against FR-025 in the docstring of `_is_no_op`).
* Without the second it fails as well, with `SharedDelivers` and a hooked contributor: a
  contributor that also delivers files is never equal to its record (`cli/install.py:206`).
* The behavior rollback removes the only copy when it fails itself: `rmtree(live)` or
  `backup_live.rename(live)` raises, and the `finally` clause drops `backup_root`
  (`cli/install.py:727` and 741). The command then ends "lost", without a manifest, or with
  one and without its lock: with `current.manifest = start.gen.manifest` for that outcome,
  `FailureRestoresManifest` fails.
* A kill after `DropLive` leaves nothing at all: neither recovery finds the copy,
  which lies under a random name outside of the repository (`cli/install.py:727`).
* Beside the models: when the id on disk is malformed, the next id is taken from the
  clock alone (`install/generation.py:39`), and may be smaller than the last good one.

Behavior pass and Composer:

* A behavior pass that rewrites files of the live generation in place leaves its id
  alone, so a report that overlaps it sees equal ids around different files
  (`behavior/orchestrate.py:95`).
* A Ctrl-C between the two renames of `_publish_constitution_d` loses
  `constitution.d`: the inner handler takes back an `OSError` only, and the outer
  one believes that the tree was not touched (`behavior/orchestrate.py:692`
  against "Any failure leaves tracked files byte-unchanged", line 20). One between the
  second rename and the assignment that follows the call (lines 691 and 574) leaves the new
  tree beside the old document. Both are ordinary failures of the model, and what the third
  disjunct of `FailureIsAtomic` is for. A second `OSError`, in the inner handler's own
  rename, leaves the tree aside as well; a failure of the outer handler's calls ends the
  pass "broken", and then nothing is said.
* After a kill there, the next pass begins by removing `.constitution.d.prev`, the
  only copy (`behavior/orchestrate.py:174`); `constitution.d` is missing until a
  pass succeeds.
* A failure of the clean-up after the commit is reported as a failure although
  everything is published (`behavior/orchestrate.py:602`), which is why
  `FailureIsAtomic` has a second disjunct.
* Answers are "persisted, and the Composer is re-invoked"
  (`behavior/orchestrate.py:14`), but they are written with the commit only: when
  the second call fails, the operator is asked again.
* An answer is lost from the store when a later step asks about the same fragments
  (`behavior/composer/clarify.py:107` against the docstring at line 74): the store
  knows an answer by its citations only. `RootSpeaksForAll` holds since the store it
  compares with is the one that is left.
* With `abort_on_contradiction=False` only the first asking batch's questions are
  returned (`behavior/composer/reduce.py:202`): a contradiction in another batch
  comes up at the next composition.
* A question that is answered at a lower level of merges is not told to the merges
  above it (`behavior/composer/reduce.py:341`); only its result is.
* A step whose body is incomplete is logged twice under the same step and invocation
  (`behavior/composer/invoke.py:144` and `completeness.py:88`), and
  `_serialized_size` measures clarifications with empty hashes
  (`behavior/composer/batching.py:212`), so a batch may be larger than its limit.

Molecule store:

* `EveryServedTreeIsWhole` fails: the lock of `a/b` makes the directory `a`, and
  `get_or_extract` of `a` then returns that empty directory, for every checkout and
  for good (`git/molecule_store.py:203` and `install/manifest_lock.py:91` against the
  docstring of `get_or_extract`).

Local scope:

* With `gen = start` for the outcome "failedLate", `FailureRestoresScopes` fails: when
  the exclusion block cannot be reconciled, the last step of an install raises with both
  publications in place (`cli/install.py:613` against
  `specs/029-local-molecule-scope/tasks.md:80`); and so does the removal of `.spaex.prev`
  after the project's publication where no copy was made (`io/transaction.py:311`).
* With it for "lost", it fails too: the rollback of both scopes removes its copy when it
  raises, and leaves neither manifest (`cli/install.py:741`).
* An `add --local` that fails in its behavior pass leaves its root file and the
  exclusion entry behind for good (`cli/install.py:651`; `spec.md:149` SC-005 of the
  same directory says otherwise).
* After a kill before the exclusion step git sees the local files; once committed, they
  are deleted as the local scope's own by `remove --local`.
* A file that a hook created in a run that was refused or killed is never recorded.
* An exclusion entry stays on a hook's file that the project has come to deliver, and
  a hook's recorded hash may stand for a file that another local molecule now delivers
  (`install/local_scope.py:406`).
* A deferred `add --local` reports success while the local lock lacks the molecule
  until the next install; `spaex remove` of a molecule that shadows a local one is
  refused since its files are the project's; and a failure in the exclusion step after
  orphans were deleted does not bring them back.

Spec Kit:

* In a repository without `.specify/`, `specify init` runs with the first selected key
  before the supported keys are known, so a selection that is then refused has
  written agent files (`integrations/speckit.py:282` against
  `specs/024-speckit-integration-installer/spec.md:58`, "refuses before modifying
  agent files").
* A kill or a failing call between the clearing of the registry and the reinstall
  loses the default for good: the next repair finds none and installs in the order of
  the names (`integrations/speckit.py:396`). `RepairIsComplete` speaks of the default
  that the command itself found.
* With an opt-out and a contributor whose record is kept, every install publishes,
  since the expected records are made from the results.

## 6. Plan

Done: the swap and its refinement, both locks, the reader, the install pipeline,
the behavior pass, the Composer's map-reduce, the molecule store, the local scope,
the Spec Kit step.
Next, in this order:

1. The behavior pass of the local scope, as a second scope of `BehaviorPipeline`
   (`install/local_publish.py:159`), and with it what `LocalScope` leaves out.
2. A report that overlaps a behavior pass, which rewrites files of the live generation
   under one id: `ConsistentRead` with a third kind of writer.
3. The arithmetic of generation ids (`install/generation.py:18`), from which the order
   that `ConsistentRead` takes as given should follow.
4. What the liveness properties rest on, in the form of action properties that can be
   proved: a measure that every step of an install, a pass and a composition lowers.

## 7. What is not modelled, and why

Parsing and validation of immutable documents, message texts, exit codes, prompts
and model output: they decide whether a step refuses, which the models leave open.
The order of `fsync` inside an atomic file write, and the heartbeat of the
install mutex, which nothing reads to decide. Re-entry of the manifest lock by the
process that holds it: no caller nests two acquisitions of its own. The inode reuse
of real file systems: a number stands for one file for ever. Worktrees that share one
`info/exclude`: `LocalScope` has one worktree. Spec Kit, packages and behavior
documents of local scope: `LocalScope` keeps manifests, records and files. The
arithmetic of generation ids: `ConsistentRead` takes their order as given. The nix
package list is a pure union and part of what resolution yields. External skills are
installed by an external command after a question, and no state of spaex depends on
what it leaves. What git answers, and the scan of an archive, are one step that may
refuse. The text of prompts and replies of the Composer, and an exception of a worker
thread that is none of spaex's own errors (`behavior/composer/reduce.py:189`). In the Spec
Kit step the registry is rewritten in one step, although `path.write_text`
(`integrations/speckit.py:425`) truncates and writes in place, so a registry cut off by a
kill, or malformed for any other reason (lines 402 to 410, which clear nothing), is not a
state of the model; and an `add` whose generation is given back after the step has run, and
which succeeds with the old records (`cli/install.py:601`), is not among its successes. That
a quiet install "publishes nothing" is said of the Spec Kit records only. Changes that git
makes inside `.spaex/` while a report is read.
