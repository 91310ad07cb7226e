---------------------------- MODULE GenerationSwap -----------------------------
(***************************************************************************)
(* Publication of the `.spaex/` directory by rename-swap, one file-system   *)
(* call per step: publish_generation and stage_generation of                *)
(* src/spaex/io/transaction.py, with the recovery of                        *)
(* src/spaex/install/inflight.py that runs first in every install.          *)
(*                                                                          *)
(* The three directories hold a complete generation, nothing (Absent), or   *)
(* some of the files of one (Partial): a staging directory being written    *)
(* or a directory being removed file by file.  Any step may be the last     *)
(* one of its process (a kill), and any file-system call may fail, in which *)
(* case the Python exception travels through the handlers of the source.    *)
(***************************************************************************)
EXTENDS Naturals

CONSTANTS
    Generations,   \* the directory contents an install may stage
    Absent,        \* the directory does not exist
    Partial,       \* the directory exists with files missing
    MaxFaults      \* bound on kills and failing file-system calls, together

ASSUME ContentsAssumption ==
    /\ Absent \notin Generations
    /\ Partial \notin Generations
    /\ Absent # Partial
ASSUME MaxFaultsAssumption == MaxFaults \in Nat

VARIABLES
    live, next, prev,   \* `.spaex`, `.spaex.next`, `.spaex.prev`
    pc,                 \* the call the install makes next
    mode,               \* which publication of the install is under way
    target,             \* the generation being published
    liveExisted,        \* the local live_existed_before
    renameADone,        \* the local rename_a_done
    raised,             \* the exception under way: "none", "callback", "io"
    base,               \* the generation that was live when the publication began
    verdict,            \* how the last publication ended
    faults              \* kills and failed calls so far

dirs == <<live, next, prev>>
locals == <<mode, target, liveExisted, renameADone, base>>
vars == <<live, next, prev, pc, mode, target, liveExisted, renameADone, raised,
          base, verdict, faults>>

Contents == Generations \cup {Absent, Partial}

\* The publications one install can make, in their order: the candidate staged
\* around the hooks, the project generation, the local-scope generation.
Modes == {"none", "stage", "publish", "local"}
Rank(m) == CASE m = "none" -> 0
             [] m = "stage" -> 1
             [] m = "publish" -> 2
             [] m = "local" -> 3

PublishingPoints == {"reset", "write", "dropPrev", "renameA", "renameB", "undoA",
                     "verify", "rollB", "rollA", "discard", "except"}
Points == PublishingPoints \cup {"idle", "restore", "clean", "choose", "prune"}

Publishing == pc \in PublishingPoints

\* What a reader, or the recovery of the next install, finds.
Recovered == IF live # Absent THEN live ELSE prev

\* The type invariant; a target is set for the time of a publication only.
TypeOK ==
    /\ live \in Contents /\ next \in Contents /\ prev \in Contents
    /\ pc \in Points
    /\ mode \in Modes
    /\ target \in Generations \cup {Absent}
    /\ base \in Contents
    /\ liveExisted \in BOOLEAN /\ renameADone \in BOOLEAN
    /\ raised \in {"none", "callback", "io"}
    /\ verdict \in {"none", "ok", "refused", "broken"}
    /\ faults \in 0..MaxFaults
    /\ target \in Generations <=> Publishing

Init ==
    /\ live \in Generations \cup {Absent}
    /\ next = Absent /\ prev = Absent
    /\ pc = "idle" /\ mode = "none"
    /\ target = Absent /\ base = Absent
    /\ liveExisted = FALSE /\ renameADone = FALSE
    /\ raised = "none" /\ verdict = "none"
    /\ faults = 0

--------------------------------------------------------------------------------
(* Steps shared by the operations. *)

\* A file-system call of a publication fails: the exception goes to the handler.
Raise ==
    /\ faults < MaxFaults
    /\ faults' = faults + 1
    /\ raised' = "io"
    /\ pc' = "except"

\* shutil.rmtree removes a directory file by file: it is seen Partial until gone.
RemovalStep(before, after) ==
    /\ before # Absent
    /\ after \in {Partial, Absent} \ {before}

\* The publication is over and the install with it.
EndPublication(how) ==
    /\ verdict' = how
    /\ pc' = "idle"
    /\ mode' = "none" /\ target' = Absent /\ base' = Absent
    /\ liveExisted' = FALSE /\ renameADone' = FALSE /\ raised' = "none"

\* The install ends between two publications.
EndInstall ==
    /\ pc' = "idle"
    /\ mode' = "none"
    /\ UNCHANGED <<live, next, prev, target, liveExisted, renameADone, raised, base,
                   verdict, faults>>

--------------------------------------------------------------------------------
(* install.run before it publishes: recovery, then the decision. *)

StartInstall ==
    /\ pc = "idle"
    /\ pc' = "restore"
    /\ UNCHANGED <<live, next, prev, locals, raised, verdict, faults>>

\* Seeded fault: both siblings are taken for garbage.
RestoreDropsPrev ==
    /\ pc = "restore"
    /\ pc' = "clean"
    /\ prev' = Absent
    /\ UNCHANGED <<live, next, locals, raised, verdict, faults>>

\* Seeded fault: the install goes on without looking for `.prev`.
RestoreSkipped ==
    /\ pc = "restore"
    /\ pc' = "clean"
    /\ UNCHANGED <<dirs, locals, raised, verdict, faults>>

\* restore_previous_generation: `.prev` becomes live when there is no live tree.
RestorePrevious ==
    /\ pc = "restore"
    /\ pc' = "clean"
    /\ IF live = Absent /\ prev # Absent
         THEN live' = prev /\ prev' = Absent
         ELSE UNCHANGED <<live, prev>>
    /\ UNCHANGED <<next, locals, raised, verdict, faults>>

\* clean_stale_siblings: a `.next` left by a killed install is removed.
CleanNext ==
    /\ pc = "clean"
    /\ IF next = Absent
         THEN pc' = "choose" /\ next' = next
         ELSE pc' = pc /\ RemovalStep(next, next')
    /\ UNCHANGED <<live, prev, locals, raised, verdict, faults>>

\* A refusal between two publications, or a failing call outside of them.
RefuseInstall ==
    /\ pc \in {"restore", "clean", "choose", "prune"}
    /\ EndInstall

\* The published state matches: clean_stale_siblings(remove_prev=True) runs.
FindNoChange ==
    /\ pc = "choose" /\ mode = "none" /\ live # Absent
    /\ pc' = "prune"
    /\ UNCHANGED <<live, next, prev, locals, raised, verdict, faults>>

PrunePrevious ==
    /\ pc = "prune"
    /\ IF prev = Absent
         THEN EndInstall
         ELSE /\ RemovalStep(prev, prev')
              /\ UNCHANGED <<live, next, pc, locals, raised, verdict, faults>>

FinishInstall ==
    /\ pc = "choose" /\ mode \in {"publish", "local"}
    /\ EndInstall

--------------------------------------------------------------------------------
(* publish_generation ("publish" and "local") and stage_generation ("stage"). *)

\* Seeded fault: the same publication may be begun again and again.
BeginAgain(m, g) ==
    /\ pc = "choose"
    /\ Rank(m) >= Rank(mode)
    /\ m = "local" => live # Absent
    /\ pc' = "reset"
    /\ mode' = m /\ target' = g /\ base' = live
    /\ UNCHANGED <<live, next, prev, liveExisted, renameADone, raised, verdict, faults>>

Begin(m, g) ==
    /\ pc = "choose"
    /\ Rank(m) > Rank(mode)
    /\ m = "local" => live # Absent
    /\ pc' = "reset"
    /\ mode' = m /\ target' = g /\ base' = live
    /\ UNCHANGED <<live, next, prev, liveExisted, renameADone, raised, verdict, faults>>

\* rmtree(next), mkdir(next); live.exists() is read once, here.
ResetStaging ==
    /\ pc = "reset"
    /\ IF next # Absent
         THEN /\ RemovalStep(next, next')
              /\ UNCHANGED <<pc, liveExisted, renameADone>>
         ELSE /\ next' = Partial
              /\ pc' = "write"
              /\ liveExisted' = (live # Absent)
              /\ renameADone' = FALSE
    /\ UNCHANGED <<live, prev, mode, target, base, raised, verdict, faults>>

\* These calls come before the try: a failure leaves without the handler.
ResetStagingFails ==
    /\ pc = "reset"
    /\ faults < MaxFaults /\ faults' = faults + 1
    /\ next' \in {next, Partial}
    /\ EndPublication("broken")
    /\ UNCHANGED <<live, prev>>

\* _write_staging, _preserve_manifest_lock, write_identity_record.
WriteStaging ==
    /\ pc = "write"
    /\ next' = target
    /\ pc' = IF ~liveExisted THEN "renameB"
             ELSE IF prev # Absent THEN "dropPrev" ELSE "renameA"
    /\ UNCHANGED <<live, prev, locals, raised, verdict, faults>>

WriteStagingFails ==
    /\ pc = "write"
    /\ next' \in {Partial, target}
    /\ Raise
    /\ UNCHANGED <<live, prev, locals, verdict>>

\* A `.prev` left by an earlier install makes way for the one of this publication.
DropStalePrev ==
    /\ pc = "dropPrev"
    /\ RemovalStep(prev, prev')
    /\ pc' = IF prev' = Absent THEN "renameA" ELSE pc
    /\ UNCHANGED <<live, next, locals, raised, verdict, faults>>

DropStalePrevFails ==
    /\ pc = "dropPrev"
    /\ prev' \in {prev, Partial}
    /\ Raise
    /\ UNCHANGED <<live, next, locals, verdict>>

\* Seeded fault: the live tree is removed to make room, with no `.prev`.
RenameADeletes ==
    /\ pc = "renameA"
    /\ live' = Absent
    /\ renameADone' = TRUE
    /\ pc' = "renameB"
    /\ UNCHANGED <<next, prev, mode, target, base, liveExisted, raised, verdict, faults>>

RenameA ==
    /\ pc = "renameA"
    /\ prev' = live /\ live' = Absent
    /\ renameADone' = TRUE
    /\ pc' = "renameB"
    /\ UNCHANGED <<next, mode, target, base, liveExisted, raised, verdict, faults>>

\* The rename fails, or the fsync after it does, before rename_a_done is set.
RenameAFails ==
    /\ pc = "renameA"
    /\ \/ UNCHANGED dirs
       \/ prev' = live /\ live' = Absent /\ next' = next
    /\ Raise
    /\ UNCHANGED <<locals, verdict>>

RenameB ==
    /\ pc = "renameB"
    /\ live' = next /\ next' = Absent
    /\ pc' = "verify"
    /\ UNCHANGED <<prev, locals, raised, verdict, faults>>

\* The rename fails: rename A is undone if it ran.
RenameBFails ==
    /\ pc = "renameB"
    /\ faults < MaxFaults /\ faults' = faults + 1
    /\ raised' = "io"
    /\ pc' = IF renameADone THEN "undoA" ELSE "except"
    /\ UNCHANGED <<live, next, prev, locals, verdict>>

\* The fsync after rename B fails: the new generation is already live.
RenameBSyncFails ==
    /\ pc = "renameB"
    /\ live' = next /\ next' = Absent
    /\ Raise
    /\ UNCHANGED <<prev, locals, verdict>>

UndoRenameA ==
    /\ pc = "undoA"
    /\ live' = prev /\ prev' = Absent
    /\ renameADone' = FALSE
    /\ pc' = "except"
    /\ UNCHANGED <<next, mode, target, base, liveExisted, raised, verdict, faults>>

UndoRenameAFails ==
    /\ pc = "undoA"
    /\ \/ UNCHANGED dirs
       \/ live' = prev /\ prev' = Absent /\ next' = next
    /\ Raise
    /\ UNCHANGED <<locals, verdict>>

\* post_write_verify (publish) or the body of the with statement (stage) returns.
VerifyPasses ==
    /\ pc = "verify"
    /\ pc' = "discard"
    /\ UNCHANGED <<live, next, prev, locals, raised, verdict, faults>>

VerifyRaises ==
    /\ pc = "verify"
    /\ raised' = "callback"
    /\ pc' = "rollB"
    /\ UNCHANGED <<live, next, prev, locals, verdict, faults>>

\* _rollback_swap, first rename.
RollBackB ==
    /\ pc = "rollB"
    /\ IF live # Absent
         THEN next' = live /\ live' = Absent
         ELSE UNCHANGED <<live, next>>
    /\ pc' = "rollA"
    /\ UNCHANGED <<prev, locals, raised, verdict, faults>>

\* _rollback_swap, second rename; rename_a_done is reset after it.
RollBackA ==
    /\ pc = "rollA"
    /\ IF liveExisted /\ prev # Absent
         THEN live' = prev /\ prev' = Absent
         ELSE UNCHANGED <<live, prev>>
    /\ renameADone' = FALSE
    /\ pc' = "except"
    /\ UNCHANGED <<next, mode, target, base, liveExisted, raised, verdict, faults>>

RollBackBFails ==
    /\ pc = "rollB"
    /\ \/ UNCHANGED dirs
       \/ next' = live /\ live' = Absent /\ prev' = prev
    /\ Raise
    /\ UNCHANGED <<locals, verdict>>

RollBackAFails ==
    /\ pc = "rollA" /\ liveExisted
    /\ \/ UNCHANGED dirs
       \/ live' = prev /\ prev' = Absent /\ next' = next
    /\ Raise
    /\ UNCHANGED <<locals, verdict>>

\* `.prev` is removed as the transaction's final step, and the install goes on.
DiscardPrev ==
    /\ pc = "discard"
    /\ IF prev # Absent
         THEN /\ RemovalStep(prev, prev')
              /\ UNCHANGED <<pc, target, base, liveExisted, renameADone, verdict>>
         ELSE /\ prev' = prev
              /\ pc' = "choose" /\ verdict' = "ok"
              /\ target' = Absent /\ base' = Absent
              /\ liveExisted' = FALSE /\ renameADone' = FALSE
    /\ UNCHANGED <<live, next, mode, raised, faults>>

DiscardPrevFails ==
    /\ pc = "discard" /\ prev # Absent
    /\ prev' \in {prev, Partial}
    /\ Raise
    /\ UNCHANGED <<live, next, locals, verdict>>

\* Seeded fault: the staging directory of a rolled-back publication stays.
HandlerKeepsNext == ~renameADone /\ next # Absent /\ live = Absent

\* The condition under which the outer handler removes the staging directory.
HandlerRemovesNext ==
    /\ ~renameADone
    /\ next # Absent
    /\ \/ mode = "stage"
       \/ live = Absent
       \/ prev = Absent

\* Seeded fault: every failure is reported as a refusal that changed nothing.
HandleAsRefused ==
    /\ pc = "except"
    /\ IF HandlerRemovesNext
         THEN /\ RemovalStep(next, next')
              /\ UNCHANGED <<pc, locals, raised, verdict>>
         ELSE next' = next /\ EndPublication("refused")
    /\ UNCHANGED <<live, prev, faults>>

HandleException ==
    /\ pc = "except"
    /\ IF HandlerRemovesNext
         THEN /\ RemovalStep(next, next')
              /\ UNCHANGED <<pc, locals, raised, verdict>>
         ELSE /\ next' = next
              /\ EndPublication(IF raised = "callback" THEN "refused" ELSE "broken")
    /\ UNCHANGED <<live, prev, faults>>

\* The removal in the handler fails: its own exception leaves the install.
HandlerFails ==
    /\ pc = "except" /\ HandlerRemovesNext
    /\ faults < MaxFaults /\ faults' = faults + 1
    /\ next' \in {next, Partial}
    /\ EndPublication("broken")
    /\ UNCHANGED <<live, prev>>

--------------------------------------------------------------------------------

\* The process is killed between two calls; the directories stay as they are.
Crash ==
    /\ pc # "idle"
    /\ faults < MaxFaults /\ faults' = faults + 1
    /\ pc' = "idle"
    /\ mode' = "none" /\ target' = Absent /\ base' = Absent
    /\ liveExisted' = FALSE /\ renameADone' = FALSE /\ raised' = "none"
    /\ verdict' = IF Publishing THEN "broken" ELSE verdict
    /\ UNCHANGED dirs

Recovery == RestorePrevious \/ CleanNext \/ FindNoChange \/ PrunePrevious
Stage == ResetStaging \/ WriteStaging \/ DropStalePrev
Swap == RenameA \/ RenameB \/ UndoRenameA \/ VerifyPasses \/ VerifyRaises
Unwind == RollBackB \/ RollBackA \/ DiscardPrev \/ HandleException
Failure ==
    \/ ResetStagingFails \/ WriteStagingFails \/ DropStalePrevFails
    \/ RenameAFails \/ RenameBFails \/ RenameBSyncFails \/ UndoRenameAFails
    \/ RollBackBFails \/ RollBackAFails \/ DiscardPrevFails \/ HandlerFails

\* What the running install does next, without faults.
Work ==
    \/ Recovery
    \/ RefuseInstall
    \/ FinishInstall
    \/ \E m \in Modes \ {"none"}, g \in Generations : Begin(m, g)
    \/ Stage
    \/ Swap
    \/ Unwind

Next == StartInstall \/ Work \/ Failure \/ Crash

\* A started process runs on; nobody is obliged to start an install.
Fairness == WF_vars(Work)
Spec == Init /\ [][Next]_vars /\ Fairness

--------------------------------------------------------------------------------
(* Properties *)

\* No reader of `.spaex` ever finds a directory with files missing: the live
\* tree is written and removed file by file only under another name
\* (transaction.py, "atomic visibility" of inflight.py).
LiveIsWhole == live # Partial

\* Whatever is killed or fails, and whatever directories are left behind, once
\* a generation is current there is a current generation ever after: it is live
\* or the `.prev` that the next install restores, and no removal has begun on
\* it.  Only the first publication of a checkout, still under way, may be
\* taken back to nothing.
NothingLost ==
    [][(Publishing => base # Absent) /\ Recovered \in Generations
         => Recovered' \in Generations]_vars

\* During a publication a recovery would find the old generation or the new
\* one, and with nothing left behind in between.
OldOrNew == Publishing => Recovered \in {base, target}

\* A publication that its verification or its hooks refuse leaves the old
\* generation live and no sibling of the publication behind, unless a file-
\* system call fails on the way back (_rollback_swap).
RefusalRestores ==
    [][verdict' = "refused" /\ Publishing /\ ~Publishing' =>
         live' = base /\ next' = Absent /\ (base # Absent => prev' = Absent)]_vars

\* Recovery brings a generation that was current when the last install ended
\* back under the live name before anything is resolved or staged, and the
\* staging directory of a killed install is gone by then
\* (restore_previous_generation and clean_stale_siblings run first).
RecoveryFirst ==
    [][pc = "choose" /\ pc' = "reset" => live = Recovered /\ next = Absent]_vars

\* A started install comes to an end.
InstallEnds == []<>(pc = "idle")

\* The abstract publication this one implements.
Abs == INSTANCE AtomicPublish WITH
    current <- Recovered,
    attempt <- IF Publishing THEN [from |-> base, to |-> target]
               ELSE [from |-> Absent, to |-> Absent]
AbstractSpec == Abs!Spec
================================================================================
