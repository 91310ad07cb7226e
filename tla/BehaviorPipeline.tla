---------------------------- MODULE BehaviorPipeline ---------------------------
(***************************************************************************)
(* The behavior pass: fragments are staged, the Composer writes one          *)
(* document from them, and tree, document and clarifications are committed   *)
(* together (src/spaex/behavior/orchestrate.py, with materialize.py,         *)
(* emit.py, stale.py, composer/clarify.py and composer/clarifications.py).   *)
(*                                                                          *)
(* It works on the live `.spaex/`, without a directory swap around it: this  *)
(* is `spaex constitution build`, and the pass of an install that found no   *)
(* change.  Its commit has a rollback of its own.  The Composer is external: *)
(* it may answer anything that parses.                                      *)
(***************************************************************************)
EXTENDS Naturals, FiniteSets

CONSTANTS
    Fragments, Versions,   \* fragment ids, and their bodies
    Citable,               \* the sets of fragments a question may cite
    MaxRuns,               \* bound on passes and outside changes, together
    MaxFaults,             \* bound on failing calls, interrupts and kills, together
    Absent, Partial, None

ASSUME FragmentsAssumption ==
    Versions \subseteq Nat \ {0} /\ Citable \subseteq SUBSET Fragments
ASSUME BoundsAssumption == MaxRuns \in Nat /\ MaxFaults \in Nat

VARIABLES
    sources,   \* the fragment bodies of the pinned molecules, 0: not pinned
    disk,      \* the artifacts of the pass, see Disks
    pc, run,   \* what the pass does next, and its locals, see Runs
    start,     \* the artifacts when the pass began
    outcome,   \* how the last pass ended
    lost,      \* history: it left a tree it had touched as it was, see TakesNothingBack
    settled,   \* the sources that the last pass published, None after trouble
    runs, faults

bounds == <<runs, faults>>
vars == <<sources, disk, pc, run, start, outcome, lost, settled, bounds>>

Pins == [Fragments -> Versions \cup {0}]
Active == {f \in Fragments : sources[f] # 0}
Bodies == {<<f, sources[f]>> : f \in Active}

\* A clarification is known by the fragments it cites and their bodies.
Keys == SUBSET (Fragments \X Versions)
Key(cited) == {<<f, sources[f]>> : f \in cited}
Cited(answers) == {fv[1] : fv \in UNION answers}

\* The header's two hashes, and the fragments the body cites.
DocumentFiles == [source : Pins, answers : SUBSET Keys, cites : SUBSET Fragments]
Documents == DocumentFiles \cup {None}
Trees == Pins \cup {Absent, Partial}

ASSUME MarksAssumption == Absent # Partial /\ None \notin DocumentFiles \cup Pins

\* constitution.d and its two siblings, constitution.md, clarifications.json, .stale
Disks == [tree : Trees, staging : Trees, prev : Trees, doc : Documents,
          answers : SUBSET Keys, stale : BOOLEAN]

Artifacts(d) == <<d.tree, d.doc, d.answers>>

NoRun == [cmd |-> "none", force |-> FALSE, store |-> {}, pruned |-> FALSE,
          composed |-> None, asked |-> FALSE, removes |-> FALSE,
          backup |-> <<None, {}>>, swapped |-> FALSE]
EmptyDisk == [tree |-> Absent, staging |-> Absent, prev |-> Absent, doc |-> None,
              answers |-> {}, stale |-> FALSE]

Init ==
    /\ sources \in Pins
    /\ disk = EmptyDisk /\ start = EmptyDisk
    /\ pc = "idle" /\ run = NoRun
    /\ outcome = "none" /\ lost = FALSE /\ settled = None
    /\ runs = 0 /\ faults = 0

Go(point) == pc' = point /\ UNCHANGED <<sources, start, outcome, lost, settled, bounds>>

\* Seeded fault: state of one pass leaks into the next.
EndKeepsLocals(how, last) ==
    /\ pc' = IF run.cmd = "check" THEN "revertDoc" ELSE "idle"
    /\ outcome' = how /\ settled' = last
    /\ UNCHANGED <<sources, run, start, lost, runs>>

\* The pass is over; `--force --check` puts every artifact back, however it
\* ended.
End(how, last) ==
    /\ IF run.cmd = "check"
         THEN pc' = "revertDoc" /\ UNCHANGED <<run, outcome, settled>>
         ELSE pc' = "idle" /\ run' = NoRun /\ outcome' = how /\ settled' = last
    /\ UNCHANGED <<sources, start, lost, runs>>

\* The handler of _commit_behavior_artifacts: the tree goes back only when
\* `constitution_published` is set, the files in any case.
Unwind ==
    /\ pc' = IF run.swapped THEN "dropTree" ELSE "dropDoc"
    /\ UNCHANGED <<sources, run, start, outcome, settled, runs>>

\* A file-system call fails (OSError), the operator interrupts, or a kill comes.
Fault == faults < MaxFaults /\ faults' = faults + 1

--------------------------------------------------------------------------------
(* Between two passes. *)

Idle == pc = "idle" /\ runs < MaxRuns /\ runs' = runs + 1

\* Other molecules are pinned, or their bodies change.
ChangeSources(pins) ==
    /\ Idle /\ pins # sources
    /\ sources' = pins
    /\ outcome' = "none" /\ start' = EmptyDisk
    /\ UNCHANGED <<disk, pc, run, lost, settled, faults>>

\* An install publishes: the swap carries the artifacts over when a molecule
\* declares behavior (it may declare an empty list), drops all of them when none
\* does, and the siblings always; a contributor's constitution takes the place
\* of the document.
Republish(declares, contributes) ==
    /\ Idle /\ (Active # {} => declares)
    /\ disk' = IF ~declares THEN EmptyDisk
               ELSE [disk EXCEPT !.staging = Absent, !.prev = Absent,
                                 !.doc = IF contributes THEN None ELSE @]
    /\ settled' = IF ~declares \/ contributes THEN None ELSE settled
    /\ outcome' = "none" /\ start' = EmptyDisk
    /\ UNCHANGED <<sources, pc, run, lost, faults>>

\* "install" aborts on a contradiction, "edit" (add, remove) defers, "check" is
\* `constitution build --force --check`.  Without behavior fragments there is
\* nothing to do, unless a molecule declares an empty list of them.
Start(cmd, force) ==
    /\ Idle
    /\ force => cmd # "edit"
    /\ cmd = "check" => force
    /\ pc' = "reset"
    /\ run' = [NoRun EXCEPT !.cmd = cmd, !.force = force]
    /\ start' = disk
    /\ outcome' = "none" /\ lost' = FALSE
    /\ UNCHANGED <<sources, disk, settled, faults>>

--------------------------------------------------------------------------------
(* Up to the document. *)

\* _reset_scratch of both siblings, then materialize into the staging tree.
Materialize ==
    /\ pc = "reset"
    /\ disk' = [disk EXCEPT !.staging = sources, !.prev = Absent]
    /\ Go("decide")
    /\ UNCHANGED run

\* A pre-check refuses, before the staging tree is made.
Refuse ==
    /\ pc = "reset"
    /\ disk' = [disk EXCEPT !.staging = Absent, !.prev = Absent]
    /\ End("failed", settled) /\ UNCHANGED faults

\* An rmtree or a write fails half-way.
ResetFails ==
    /\ pc = "reset" /\ Fault
    /\ \E staging \in {disk.staging, Partial, Absent} :
          disk' = [disk EXCEPT !.staging = staging,
                               !.prev = IF staging = Absent THEN Absent ELSE @]
    /\ End("failed", settled)

\* Seeded fault: only answers that cite every fragment are kept.
ValidOnlyFull(answers) == {key \in answers : key = Bodies}

Valid(answers) == {key \in answers : key \subseteq Bodies}

\* Seeded fault: the second hash is not compared.
SkipBySource(store) ==
    /\ disk.doc # None
    /\ disk.doc.source = sources
    /\ ~run.force

\* The reproducibility skip: the header on disk has both hashes, and no stored
\* clarification was dropped.
Skip(store) ==
    /\ disk.doc # None
    /\ disk.doc.source = sources /\ disk.doc.answers = store
    /\ store = disk.answers
    /\ ~run.force

\* load and invalidate; an empty fragment set removes the document.
Decide ==
    /\ pc = "decide"
    /\ LET store == Valid(disk.answers)
       IN  IF Active = {}
             THEN run' = [run EXCEPT !.removes = TRUE] /\ Go("backup")
           ELSE /\ run' = [run EXCEPT !.store = store, !.pruned = store # disk.answers]
                /\ Go(IF Skip(store) THEN "backup" ELSE "compose")
    /\ UNCHANGED disk

\* Shape A: a body that cites some of the fragments.  What is neither cited nor
\* named by a clarification was dropped (verify_completeness).
ComposeBody(cites) ==
    /\ pc = "compose"
    /\ Active \subseteq cites \cup Cited(run.store)
    /\ run' = [run EXCEPT !.composed =
                  [source |-> sources, answers |-> run.store, cites |-> cites]]
    /\ Go("backup")
    /\ UNCHANGED disk

\* A timeout, an exhausted quota, invalid or incomplete output, an unknown
\* fragment cited, a second Shape B, no runtime.
ComposerFails ==
    /\ pc = "compose"
    /\ End("failed", settled) /\ UNCHANGED faults
    /\ UNCHANGED disk

\* Seeded fault: a question in the retry starts the round anew.
AskAgain(cited) ==
    /\ pc = "compose" /\ run.cmd # "edit"
    /\ run' = [run EXCEPT !.store = @ \cup {Key(c) : c \in cited}, !.asked = ~@]
    /\ Go("compose")
    /\ UNCHANGED disk

\* Shape B: every question is answered, and the Composer is called once more.
Ask(cited) ==
    /\ pc = "compose" /\ run.cmd # "edit" /\ ~run.asked
    /\ run' = [run EXCEPT !.store = @ \cup {Key(c) : c \in cited}, !.asked = TRUE]
    /\ Go("compose")
    /\ UNCHANGED disk

\* A blank answer, or no terminal.
Decline ==
    /\ pc = "compose" /\ run.cmd # "edit" /\ ~run.asked
    /\ End("failed", settled) /\ UNCHANGED faults
    /\ UNCHANGED disk

\* At add or remove time a contradiction is recorded in `.stale`; questions of
\* another kind are dropped, and the marker with them.
Defer(contradiction) ==
    /\ pc = "compose" /\ run.cmd = "edit"
    /\ disk' = [disk EXCEPT !.staging = Absent, !.stale = contradiction]
    /\ End("deferred", settled) /\ UNCHANGED faults

--------------------------------------------------------------------------------
(* _commit_behavior_artifacts *)

\* Copies of the document and, when it may change, of the clarifications.
Backup ==
    /\ pc = "backup"
    /\ run' = [run EXCEPT !.backup = <<disk.doc, disk.answers>>]
    /\ Go("moveAside")
    /\ UNCHANGED disk

BackupFails ==
    /\ pc = "backup" /\ Fault
    /\ End("failed", settled)
    /\ UNCHANGED disk

\* _publish_constitution_d: target to `.prev`.
MoveAside ==
    /\ pc = "moveAside"
    /\ disk' = IF disk.tree = Absent THEN disk
               ELSE [disk EXCEPT !.prev = disk.tree, !.tree = Absent]
    /\ Go("moveIn")
    /\ UNCHANGED run

MoveAsideFails ==
    /\ pc = "moveAside" /\ disk.tree # Absent /\ Fault
    /\ Unwind
    /\ UNCHANGED <<disk, lost>>

PrevBack == IF disk.prev = Absent THEN disk
            ELSE [disk EXCEPT !.tree = disk.prev, !.prev = Absent]

\* Staging to target.
MoveIn ==
    /\ pc = "moveIn"
    /\ disk' = [disk EXCEPT !.tree = disk.staging, !.staging = Absent]
    /\ Go("moved")
    /\ UNCHANGED run

\* Seeded fault: the handler does not learn that the tree was replaced.
NoteNothing == pc = "moved" /\ Go("emit") /\ UNCHANGED <<disk, run>>

\* `constitution_published = True`: from here on a failure takes the tree back.
Note ==
    /\ pc = "moved"
    /\ run' = [run EXCEPT !.swapped = TRUE]
    /\ Go("emit")
    /\ UNCHANGED disk

\* An OSError there is undone on the spot.
MoveInFails ==
    /\ pc = "moveIn" /\ Fault
    /\ pc' = "moveBack"
    /\ UNCHANGED <<sources, disk, run, start, outcome, lost, settled, runs>>

MoveBack ==
    /\ pc = "moveBack"
    /\ disk' = PrevBack
    /\ Go("dropDoc")
    /\ UNCHANGED run

\* A second OSError there leaves the tree aside.
MoveBackFails ==
    /\ pc = "moveBack" /\ disk.prev # Absent /\ Fault
    /\ lost' = TRUE
    /\ Unwind
    /\ UNCHANGED disk

\* Between the renames and the note of them the handler takes nothing back: the tree
\* has been moved aside, or the new one is in its place.
TakesNothingBack == pc = "moved" \/ (pc = "moveIn" /\ disk.prev # Absent)

\* A Ctrl-C; the handler catches BaseException.
Interrupt ==
    /\ pc \in {"moveAside", "moveIn", "moved", "emit", "save"} /\ Fault
    /\ lost' = TakesNothingBack
    /\ Unwind
    /\ UNCHANGED disk

\* emit_composed replaces the document, in one rename; an empty fragment set
\* removes it, and the tree after it; a skip keeps it.
Emit ==
    /\ pc = "emit"
    /\ disk' = IF run.removes THEN [disk EXCEPT !.doc = None, !.tree = Absent]
               ELSE IF run.composed = None THEN disk
               ELSE [disk EXCEPT !.doc = run.composed]
    /\ Go("save")
    /\ UNCHANGED run

\* The header of the body has other hashes than those computed.
EmitRefuses ==
    /\ pc = "emit" /\ run.composed # None
    /\ Unwind
    /\ UNCHANGED <<disk, lost, faults>>

Saves == run.composed # None /\ (run.pruned \/ run.asked)

\* Seeded fault: new answers alone do not count as a change.
SaveOnlyPruned ==
    /\ pc = "save"
    /\ disk' = IF Saves /\ run.pruned THEN [disk EXCEPT !.answers = run.store] ELSE disk
    /\ Go("discard")
    /\ UNCHANGED run

\* Clarifications, when they changed in the course of a composition.
Save ==
    /\ pc = "save"
    /\ disk' = IF Saves THEN [disk EXCEPT !.answers = run.store] ELSE disk
    /\ Go("discard")
    /\ UNCHANGED run

PublicationFails ==
    /\ \/ pc = "emit" /\ (run.removes \/ run.composed # None)
       \/ pc = "save" /\ Saves
    /\ Fault
    /\ Unwind
    /\ UNCHANGED <<disk, lost>>

\* Committed: `.prev` and the stale marker go.
DiscardPrev ==
    /\ pc = "discard"
    /\ disk' = [disk EXCEPT !.prev = Absent]
    /\ Go("clear")
    /\ UNCHANGED run

ClearStale ==
    /\ pc = "clear"
    /\ disk' = [disk EXCEPT !.stale = FALSE]
    /\ End("published", sources)
    /\ UNCHANGED faults

\* An error there leaves the `else` branch, where nothing is taken back.
FinishFails ==
    /\ \/ pc = "discard" /\ disk.prev # Absent
       \/ pc = "clear" /\ disk.stale
    /\ Fault
    /\ End("failed", sources)
    /\ UNCHANGED disk

--------------------------------------------------------------------------------
(* The way back: _rollback_constitution_d, then _restore_file for the document *)
(* and the clarifications, which unlinks before it copies.                     *)

UndoStep(point, following, after) ==
    /\ pc = point
    /\ disk' = after
    /\ Go(following)
    /\ UNCHANGED run

RollBack ==
    \/ UndoStep("dropTree", "treeBack", [disk EXCEPT !.tree = Absent])
    \/ UndoStep("treeBack", "dropDoc", PrevBack)
    \/ UndoStep("dropDoc", "copyDoc", [disk EXCEPT !.doc = None])
    \/ UndoStep("copyDoc", IF run.composed = None THEN "undone" ELSE "dropAnswers",
                [disk EXCEPT !.doc = run.backup[1]])
    \/ UndoStep("dropAnswers", "copyAnswers", [disk EXCEPT !.answers = {}])
    \/ UndoStep("copyAnswers", "undone", [disk EXCEPT !.answers = run.backup[2]])

Undoing == {"dropTree", "treeBack", "dropDoc", "copyDoc", "dropAnswers", "copyAnswers"}

FinishUndone ==
    /\ pc = "undone"
    /\ End("failed", settled)
    /\ UNCHANGED <<disk, faults>>

\* The handler itself fails: the rollback is incomplete.
RollBackFails ==
    /\ pc \in Undoing /\ Fault
    /\ End("broken", None)
    /\ UNCHANGED disk

\* Seeded fault: the clarifications are not among the managed artifacts.
RevertWithoutAnswers ==
    \/ UndoStep("revertDoc", "revertTree", [disk EXCEPT !.doc = start.doc])
    \/ UndoStep("revertTree", "revertRest", [disk EXCEPT !.tree = start.tree])
    \/ UndoStep("revertRest", "checked",
                [disk EXCEPT !.stale = start.stale, !.staging = start.staging,
                             !.prev = start.prev])

\* _restore_managed_artifacts of `--force --check`.
Revert ==
    \/ UndoStep("revertDoc", "revertTree", [disk EXCEPT !.doc = start.doc])
    \/ UndoStep("revertTree", "revertAnswers", [disk EXCEPT !.tree = start.tree])
    \/ UndoStep("revertAnswers", "revertRest", [disk EXCEPT !.answers = start.answers])
    \/ UndoStep("revertRest", "checked",
                [disk EXCEPT !.stale = start.stale, !.staging = start.staging,
                             !.prev = start.prev])

Reverting == {"revertDoc", "revertTree", "revertAnswers", "revertRest"}

Leave(how) == pc' = "idle" /\ run' = NoRun /\ outcome' = how

RevertFails ==
    /\ pc \in Reverting /\ Fault
    /\ Leave("broken") /\ settled' = None
    /\ UNCHANGED <<sources, disk, start, lost, runs>>

FinishCheck ==
    /\ pc = "checked"
    /\ Leave("checked")
    /\ UNCHANGED <<sources, disk, start, lost, settled, bounds>>

\* What a kill in the middle of a removal or a copy leaves.
Halfway ==
    CASE pc = "emit" /\ run.removes -> [disk EXCEPT !.doc = None, !.tree = Partial]
      [] pc \in {"dropTree", "revertTree"} -> [disk EXCEPT !.tree = Partial]
      [] pc = "revertDoc" -> [disk EXCEPT !.doc = None]
      [] pc = "revertAnswers" -> [disk EXCEPT !.answers = {}]
      [] OTHER -> disk

Kill ==
    /\ pc # "idle" /\ Fault
    /\ disk' \in {disk, Halfway}
    /\ Leave("killed") /\ settled' = None
    /\ UNCHANGED <<sources, start, lost, runs>>

--------------------------------------------------------------------------------

Outside ==
    \/ \E pins \in Pins : ChangeSources(pins)
    \/ \E declares, contributes \in BOOLEAN : Republish(declares, contributes)
    \/ \E cmd \in {"install", "edit", "check"}, force \in BOOLEAN : Start(cmd, force)

Questions == {asked \in SUBSET Citable : asked # {} /\ UNION asked \subseteq Active}

Prepare == Materialize \/ Refuse \/ Decide
Composer ==
    \/ \E cites \in SUBSET Active : ComposeBody(cites)
    \/ \E cited \in Questions : Ask(cited)
    \/ \E contradiction \in BOOLEAN : Defer(contradiction)
    \/ Decline \/ ComposerFails
Commit ==
    \/ Backup \/ MoveAside \/ MoveIn \/ Note \/ Emit \/ EmitRefuses \/ Save
    \/ DiscardPrev \/ ClearStale
Failure ==
    \/ ResetFails \/ BackupFails \/ MoveAsideFails \/ MoveInFails \/ MoveBackFails
    \/ PublicationFails \/ Interrupt \/ FinishFails \/ RollBackFails \/ RevertFails

Work == Prepare \/ Composer \/ Commit \/ MoveBack \/ RollBack \/ FinishUndone \/ Revert \/ FinishCheck

Next == Outside \/ Work \/ Failure \/ Kill
Spec == Init /\ [][Next]_vars /\ WF_vars(Work)

--------------------------------------------------------------------------------
(* Properties *)

Points == {"idle", "reset", "decide", "compose", "backup", "moveAside", "moveIn", "moved",
           "emit", "moveBack", "save", "discard", "clear", "undone", "checked"}
          \cup Undoing \cup Reverting

\* The type invariant; no local outlives its pass.
TypeOK ==
    /\ sources \in Pins /\ disk \in Disks /\ start \in Disks
    /\ pc \in Points
    /\ run.composed \in Documents /\ run.store \subseteq Keys
    /\ run.composed # None => run.composed.source = sources
    /\ pc = "idle" => run = NoRun
    /\ outcome \in {"none", "published", "deferred", "failed", "broken", "checked", "killed"}
    /\ lost \in BOOLEAN
    /\ settled \in Pins \cup {None}

\* Tree, document and clarifications belong together and to the pinned bodies,
\* and every fragment is in the document or named by an answer.
Current ==
    IF Active = {} THEN disk.tree = Absent /\ disk.doc = None
    ELSE /\ disk.tree = sources
         /\ disk.doc # None
         /\ disk.doc.source = sources /\ disk.doc.answers = disk.answers
         /\ Active \subseteq disk.doc.cites \cup Cited(disk.answers)

\* A pass that publishes, or finds nothing to compose, leaves artifacts that
\* belong together, whatever kills, rollbacks and deferrals came before (FR-009,
\* FR-012a, FR-012b of specs/023).
SuccessIsCurrent == outcome = "published" => Current /\ ~disk.stale

\* A pass that fails has either changed nothing or committed everything, as long as
\* no call of the rollback itself fails.  A Ctrl-C between the renames and the note of
\* them is an ordinary failure too, but not atomic: the document and the
\* clarifications are as found, and the tree is gone or the new one (step 9 of the
\* module docstring of orchestrate.py promises more).
FailureIsAtomic ==
    outcome = "failed" =>
        \/ Artifacts(disk) = Artifacts(start)
        \/ Current
        \/ lost /\ disk.doc = start.doc /\ disk.answers = start.answers

\* An answer of the operator is asked for once: as long as the bodies it cites
\* stay the same no pass loses it, unless it is killed or its rollback fails
\* (FR-010, FR-011).
AnswersSurvive ==
    outcome \in {"published", "deferred", "failed", "checked"} =>
        \A key \in start.answers : key \subseteq Bodies => key \in disk.answers

\* The Composer is called only when something has changed since the last pass
\* that published, or when it is forced (FR-009); failed, deferred and checking
\* passes in between do not count as a change.
NoNeedlessCall == pc = "compose" => run.force \/ settled # sources

\* `constitution build --force --check` mutates nothing, however the pass ends
\* (the docstring of _force_check_build).
CheckMutatesNothing == outcome = "checked" => disk = start

\* A pass ends, with at most one round of questions.
PassEnds == []<>(pc = "idle")
================================================================================
