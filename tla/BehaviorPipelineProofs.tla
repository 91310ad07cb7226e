------------------------- MODULE BehaviorPipelineProofs -------------------------
(***************************************************************************)
(* Proofs about BehaviorPipeline, for any fragments, bodies and questions, and *)
(* any sequence of passes, outside changes, failing calls, interrupts and     *)
(* kills:                                                                   *)
(*                                                                          *)
(*   - the variables keep their types, and no local outlives its pass;        *)
(*   - a pass that publishes leaves artifacts that belong together;            *)
(*   - one that fails has changed nothing or committed everything, or was        *)
(*     interrupted between two renames and has left the tree alone different;    *)
(*   - answers that still apply survive every pass that ends by itself;         *)
(*   - the Composer is called only after a change, or when it is forced;       *)
(*   - a check leaves every artifact as it was.                              *)
(*                                                                          *)
(* The invariant says for each point of the pass which artifacts are still    *)
(* those it found, what the new ones will be, and where the copies are.        *)
(***************************************************************************)
EXTENDS BehaviorPipeline, TLAPS

ActiveIn(pins) == {f \in Fragments : pins[f] # 0}
BodiesIn(pins) == {<<f, pins[f]>> : f \in ActiveIn(pins)}

Outcomes == {"none", "published", "deferred", "failed", "broken", "checked", "killed"}

Runs == [cmd : {"none", "install", "edit", "check"}, force : BOOLEAN, store : SUBSET Keys,
         pruned : BOOLEAN, composed : Documents, asked : BOOLEAN, removes : BOOLEAN,
         backup : Documents \X SUBSET Keys, swapped : BOOLEAN]

Typed ==
    /\ sources \in Pins /\ disk \in Disks /\ start \in Disks
    /\ pc \in Points /\ run \in Runs
    /\ outcome \in Outcomes /\ lost \in BOOLEAN /\ settled \in Pins \cup {None}
    /\ run.composed # None => run.composed.source = sources
    /\ pc = "idle" => run = NoRun
    /\ pc # "idle" => outcome = "none"

\* verify_completeness: each fragment is cited, or named by an answer.
Complete(doc) == doc # None => ActiveIn(doc.source) \subseteq doc.cites \cup Cited(doc.answers)

DocumentsComplete ==
    Complete(disk.doc) /\ Complete(start.doc) /\ Complete(run.composed)

AllValid(answers) == \A key \in answers : key \subseteq Bodies

\* The document and the answers are those of the pins, as _can_skip sees them.
Matches(pins, doc, answers) ==
    /\ doc # None
    /\ doc.source = pins /\ doc.answers = answers
    /\ \A key \in answers : key \subseteq BodiesIn(pins)

\* How much of the artifacts is still what the pass found.
SameTree == disk.tree = start.tree
SameDoc == disk.doc = start.doc
SameAnswers == disk.answers = start.answers
Same == SameTree /\ SameDoc /\ SameAnswers

\* The new document and answers, once they are decided upon.
Decided ==
    /\ run.removes => Active = {} /\ run.composed = None
    /\ ~run.removes => Active # {}
    /\ ~run.removes /\ run.composed = None => Matches(sources, start.doc, start.answers)
    /\ run.composed # None =>
          /\ Matches(sources, run.composed, run.store)
          /\ Valid(start.answers) \subseteq run.store
          /\ ~Saves => run.store = start.answers

Prepared ==
    /\ pc \in {"reset", "decide", "compose", "backup", "moveAside"} => Same
    /\ pc \in {"decide", "compose", "backup", "moveAside", "moveIn"} => disk.staging = sources
    /\ pc \in {"decide", "compose", "backup", "moveAside"} => disk.prev = Absent
    /\ pc \in {"reset", "decide", "compose", "backup", "moveAside", "moveIn", "moved",
                "moveBack"}
         => ~run.swapped
    /\ pc \in {"reset", "decide"}
         => run.composed = None /\ ~run.removes /\ ~run.pruned /\ ~run.asked

InRound ==
    pc = "compose" =>
        /\ Active # {} /\ ~run.removes /\ run.composed = None
        /\ AllValid(run.store) /\ Valid(start.answers) \subseteq run.store
        /\ ~run.pruned /\ ~run.asked => run.store = start.answers
        /\ run.force \/ settled # sources

Committing ==
    /\ pc \in {"backup", "moveAside", "moveIn", "moved", "emit", "save"} => Decided
    /\ pc \in {"moveAside", "moveIn", "moved", "moveBack", "emit", "save"} \cup Undoing
         => run.backup = <<start.doc, start.answers>>
    /\ pc \in {"moveIn", "moved", "moveBack", "emit", "save", "dropTree", "treeBack"}
         => disk.prev = start.tree /\ SameAnswers
    /\ pc \in {"moveIn", "moved", "moveBack", "emit"} => SameDoc
    /\ pc \in {"moveIn", "moveBack", "treeBack"} => disk.tree = Absent
    /\ pc \in {"emit", "save"} => run.swapped
    /\ pc \in {"moved", "emit"} => disk.tree = sources
    /\ pc = "save" =>
          /\ disk.tree = IF run.removes THEN Absent ELSE sources
          /\ disk.doc = IF run.removes THEN None
                        ELSE IF run.composed = None THEN start.doc ELSE run.composed

Committed ==
    /\ Current
    /\ Active # {} => Matches(sources, disk.doc, disk.answers)
    /\ Valid(start.answers) \subseteq disk.answers

Undone ==
    /\ pc \in {"dropDoc", "copyDoc", "dropAnswers", "copyAnswers", "undone"}
         => SameTree \/ lost
    /\ pc \in {"dropDoc", "copyDoc", "undone"} => SameAnswers
    /\ pc \in {"dropAnswers", "copyAnswers", "undone"} => SameDoc
    /\ pc \in {"revertTree", "revertAnswers", "revertRest", "checked"} => SameDoc
    /\ pc \in {"revertAnswers", "revertRest", "checked"} => SameTree
    /\ pc \in {"revertRest", "checked"} => SameAnswers
    /\ pc = "checked" => disk = start

\* What the last pass that published left is there between passes, and when the next
\* one begins.
Settled ==
    settled # None /\ ActiveIn(settled) # {} =>
        IF pc = "idle" THEN Matches(settled, disk.doc, disk.answers)
        ELSE Matches(settled, start.doc, start.answers)

Ended == SuccessIsCurrent /\ FailureIsAtomic /\ AnswersSurvive /\ CheckMutatesNothing

IInv ==
    /\ Typed /\ DocumentsComplete /\ Prepared /\ InRound /\ Committing
    /\ pc \in {"discard", "clear"} => Committed
    /\ Undone /\ Settled /\ Ended

--------------------------------------------------------------------------------
(* Data *)

LEMMA PinnedBodies == Active = ActiveIn(sources) /\ Bodies = BodiesIn(sources)
  BY DEF Active, ActiveIn, Bodies, BodiesIn

LEMMA SourcesStay ==
    ASSUME UNCHANGED sources
    PROVE  Active' = Active /\ Bodies' = Bodies
  BY DEF Active, Bodies

LEMMA NothingIsTyped == EmptyDisk \in Disks /\ NoRun \in Runs
<1>1. EmptyDisk \in Disks
  BY DEF EmptyDisk, Disks, Trees, Documents
<1>2. None \in Documents /\ {} \in SUBSET Keys
  BY DEF Documents
<1>3. NoRun \in Runs
  BY <1>2 DEF NoRun, Runs
<1>4. QED
  BY <1>1, <1>3

\* The key of a question is a key: it cites active fragments.
LEMMA KeysOfQuestions ==
    ASSUME sources \in Pins, NEW cited \in Questions
    PROVE  \A c \in cited : Key(c) \in Keys /\ Key(c) \subseteq Bodies
<1>1. SUFFICES ASSUME NEW c \in cited PROVE Key(c) \in Keys /\ Key(c) \subseteq Bodies
  OBVIOUS
<1>2. c \subseteq Active
  BY DEF Questions
<1>3. \A f \in Active : f \in Fragments /\ sources[f] \in Versions
  BY DEF Active, Pins
<1>4. QED
  BY <1>2, <1>3 DEF Key, Keys, Bodies

--------------------------------------------------------------------------------
(* How a pass goes on, and how it ends *)

\* The properties are about what a pass has left, and silent while one runs.
LEMMA Busy ==
    ASSUME outcome' = "none"
    PROVE  Ended'
  BY DEF Ended, SuccessIsCurrent, FailureIsAtomic, AnswersSurvive, CheckMutatesNothing

LEMMA AtRest ==
    ASSUME pc' = "idle", Typed', DocumentsComplete', Settled', Ended'
    PROVE  IInv'
  BY DEF IInv, Prepared, InRound, Committing, Undone, Undoing, Reverting

\* What stays true of every step within a pass.
LEMMA Going ==
    ASSUME IInv, pc # "idle", pc' \in Points, pc' # "idle",
           UNCHANGED <<sources, start, outcome, settled>>, lost' \in {lost} \cup BOOLEAN,
           disk' \in Disks, Complete(disk'.doc),
           run' \in Runs, Complete(run'.composed),
           run'.composed # None => run'.composed.source = sources
    PROVE  Typed' /\ DocumentsComplete' /\ Settled' /\ Ended'
<1>1. Typed'
  BY DEF IInv, Typed
<1>2. DocumentsComplete'
  BY DEF IInv, DocumentsComplete, Complete
<1>3. Settled'
  BY DEF IInv, Settled, Matches
<1>4. Ended'
  BY Busy DEF IInv, Typed
<1>5. QED
  BY <1>1, <1>2, <1>3, <1>4

\* The end of a pass, or of the part of a check before its artifacts are put back.
LEMMA EndStep ==
    ASSUME IInv, pc # "idle",
           NEW how \in {"published", "deferred", "failed", "broken"}, NEW last \in Pins \cup {None},
           End(how, last), disk' \in Disks, Complete(disk'.doc),
           last # None /\ ActiveIn(last) # {} => Matches(last, disk'.doc, disk'.answers),
           how = "published" => Current' /\ ~disk'.stale,
           how = "failed" =>
              \/ Artifacts(disk') = Artifacts(start) \/ Current'
              \/ lost /\ disk'.doc = start.doc /\ disk'.answers = start.answers,
           how # "broken" => Valid(start.answers) \subseteq disk'.answers
    PROVE  IInv'
<1>1. sources' = sources /\ start' = start /\ lost' = lost
  BY DEF End
<1>2. CASE run.cmd = "check"
  <2>1. pc' = "revertDoc" /\ UNCHANGED <<run, outcome, lost, settled>>
    BY <1>2 DEF End
  <2>2. Typed' /\ DocumentsComplete' /\ Settled' /\ Ended'
    BY <1>1, <2>1, Going DEF IInv, Typed, DocumentsComplete, Points, Reverting
  <2>3. QED
    BY <2>1, <2>2 DEF IInv, Prepared, InRound, Committing, Undone, Undoing
<1>3. CASE run.cmd # "check"
  <2>1. pc' = "idle" /\ run' = NoRun /\ outcome' = how /\ settled' = last
    BY <1>3 DEF End
  <2>2. Typed'
    BY <1>1, <2>1, NothingIsTyped DEF IInv, Typed, Points, Outcomes, NoRun
  <2>3. DocumentsComplete'
    BY <1>1, <2>1 DEF IInv, DocumentsComplete, Complete, NoRun
  <2>4. Settled'
    BY <2>1 DEF Settled
  <2>5. Ended'
    <3>1. SuccessIsCurrent' /\ CheckMutatesNothing'
      BY <2>1 DEF SuccessIsCurrent, CheckMutatesNothing
    <3>2. FailureIsAtomic'
      BY <1>1, <2>1 DEF FailureIsAtomic, Artifacts
    <3>3. AnswersSurvive'
      BY <1>1, <2>1, SourcesStay DEF AnswersSurvive, Valid
    <3>4. QED
      BY <3>1, <3>2, <3>3 DEF Ended
  <2>6. QED
    BY <2>1, <2>2, <2>3, <2>4, <2>5, AtRest
<1>4. QED
  BY <1>2, <1>3

\* A pass that fails or defers before anything is replaced, or after all is put back.
LEMMA EndUnchanged ==
    ASSUME IInv, pc # "idle", NEW how \in {"deferred", "failed"}, End(how, settled),
           disk' \in Disks, disk'.tree = start.tree, disk'.doc = start.doc,
           disk'.answers = start.answers
    PROVE  IInv'
<1>1. Artifacts(disk') = Artifacts(start)
  BY DEF Artifacts
<1>2. Complete(disk'.doc) /\ settled \in Pins \cup {None}
  BY DEF IInv, DocumentsComplete, Typed
<1>3. settled # None /\ ActiveIn(settled) # {} => Matches(settled, disk'.doc, disk'.answers)
  BY DEF IInv, Settled
<1>4. Valid(start.answers) \subseteq disk'.answers
  BY DEF Valid
<1>5. QED
  BY <1>1, <1>2, <1>3, <1>4, EndStep

--------------------------------------------------------------------------------
(* Steps *)

LEMMA InitInvariant == Init => IInv
<1>1. SUFFICES ASSUME Init PROVE IInv
  OBVIOUS
<1>2. Typed
  BY <1>1, NothingIsTyped DEF Init, Typed, Points, Outcomes, NoRun
<1>3. DocumentsComplete
  BY <1>1 DEF Init, DocumentsComplete, Complete, EmptyDisk, NoRun
<1>4. Settled /\ Ended
  BY <1>1 DEF Init, Settled, Ended, SuccessIsCurrent, FailureIsAtomic, AnswersSurvive,
              CheckMutatesNothing
<1>5. QED
  BY <1>1, <1>2, <1>3, <1>4
     DEF Init, IInv, Prepared, InRound, Committing, Undone, Undoing, Reverting

\* Between two passes, and their beginning.
LEMMA OutsideStep == IInv /\ Outside => IInv'
<1>1. SUFFICES ASSUME IInv, Outside PROVE IInv'
  OBVIOUS
<1>2. Typed /\ DocumentsComplete /\ Settled
  BY <1>1 DEF IInv
<1>3. ASSUME NEW pins \in Pins, ChangeSources(pins) PROVE IInv'
  <2>1. /\ pc = "idle" /\ pc' = "idle" /\ run' = NoRun /\ outcome' = "none"
        /\ sources' = pins /\ start' = EmptyDisk
        /\ UNCHANGED <<disk, lost, settled>>
    BY <1>2, <1>3 DEF ChangeSources, Idle, Typed
  <2>2. Typed'
    BY <1>2, <2>1, NothingIsTyped DEF Typed, Points, Outcomes, NoRun
  <2>3. DocumentsComplete'
    BY <1>2, <2>1 DEF DocumentsComplete, Complete, EmptyDisk, NoRun
  <2>4. Settled'
    BY <1>2, <2>1 DEF Settled
  <2>5. QED
    BY <2>1, <2>2, <2>3, <2>4, Busy, AtRest
<1>4. ASSUME NEW declares \in BOOLEAN, NEW contributes \in BOOLEAN,
             Republish(declares, contributes)
      PROVE  IInv'
  <2>1. /\ pc = "idle" /\ pc' = "idle" /\ run' = NoRun /\ outcome' = "none"
        /\ start' = EmptyDisk /\ sources' = sources /\ lost' = lost
        /\ disk' = IF ~declares THEN EmptyDisk
                   ELSE [disk EXCEPT !.staging = Absent, !.prev = Absent,
                                     !.doc = IF contributes THEN None ELSE disk.doc]
        /\ settled' = IF ~declares \/ contributes THEN None ELSE settled
    BY <1>2, <1>4 DEF Republish, Idle, Typed
  <2>2. disk' \in Disks /\ disk'.doc \in {disk.doc, None}
    BY <1>2, <2>1, NothingIsTyped DEF Typed, Disks, Trees, Documents, EmptyDisk
  <2>3. Typed'
    BY <1>2, <2>1, <2>2, NothingIsTyped DEF Typed, Points, Outcomes, NoRun
  <2>4. DocumentsComplete'
    BY <1>2, <2>1, <2>2 DEF DocumentsComplete, Complete, EmptyDisk, NoRun
  <2>5. settled' # None => disk'.doc = disk.doc /\ disk'.answers = disk.answers
    BY <1>2, <2>1 DEF Typed, Disks
  <2>6. Settled'
    BY <1>2, <2>1, <2>5 DEF Settled
  <2>7. QED
    BY <2>1, <2>3, <2>4, <2>6, Busy, AtRest
<1>5. ASSUME NEW cmd \in {"install", "edit", "check"}, NEW force \in BOOLEAN, Start(cmd, force)
      PROVE  IInv'
  <2>1. /\ pc = "idle" /\ pc' = "reset" /\ outcome' = "none" /\ start' = disk
        /\ run' = [NoRun EXCEPT !.cmd = cmd, !.force = force]
        /\ UNCHANGED <<sources, disk, settled>> /\ lost' = FALSE
    BY <1>5 DEF Start, Idle
  <2>2. /\ run' \in Runs /\ run'.composed = None /\ ~run'.removes /\ ~run'.pruned
        /\ ~run'.asked /\ ~run'.swapped
    BY <2>1, NothingIsTyped DEF Runs, NoRun
  <2>3. Typed'
    BY <1>2, <2>1, <2>2 DEF Typed, Points, Outcomes
  <2>4. DocumentsComplete'
    BY <1>2, <2>1, <2>2 DEF DocumentsComplete, Complete
  <2>5. Settled'
    BY <1>2, <2>1 DEF Settled
  <2>6. QED
    BY <2>1, <2>2, <2>3, <2>4, <2>5, Busy
       DEF IInv, Prepared, InRound, Committing, Undone, Undoing, Reverting, Same, SameTree,
           SameDoc, SameAnswers
<1>6. QED
  BY <1>1, <1>3, <1>4, <1>5 DEF Outside

\* Staging, and the decision whether to compose.
LEMMA PrepareStep == IInv /\ Prepare => IInv'
<1>1. SUFFICES ASSUME IInv, Prepare PROVE IInv'
  OBVIOUS
<1>2. Typed /\ DocumentsComplete /\ Prepared /\ Settled
  BY <1>1 DEF IInv
<1>3. CASE Materialize
  <2>1. /\ pc = "reset" /\ pc' = "decide"
        /\ disk' = [disk EXCEPT !.staging = sources, !.prev = Absent]
        /\ UNCHANGED <<sources, start, outcome, lost, settled, run>>
    BY <1>3 DEF Materialize, Go
  <2>2. /\ disk' \in Disks /\ disk'.staging = sources /\ disk'.prev = Absent
        /\ disk'.tree = disk.tree /\ disk'.doc = disk.doc /\ disk'.answers = disk.answers
    BY <1>2, <2>1 DEF Typed, Disks, Trees
  <2>3. Typed' /\ DocumentsComplete' /\ Settled' /\ Ended'
    BY <1>1, <1>2, <2>1, <2>2, Going DEF Typed, Points, DocumentsComplete
  <2>4. QED
    BY <1>2, <2>1, <2>2, <2>3
       DEF IInv, Prepared, InRound, Committing, Undone, Undoing, Reverting, Same, SameTree,
           SameDoc, SameAnswers
<1>4. CASE Refuse
  <2>1. pc = "reset" /\ disk' = [disk EXCEPT !.staging = Absent, !.prev = Absent]
        /\ End("failed", settled)
    BY <1>4 DEF Refuse
  <2>2. /\ disk' \in Disks /\ disk'.tree = disk.tree /\ disk'.doc = disk.doc
        /\ disk'.answers = disk.answers
    BY <1>2, <2>1 DEF Typed, Disks, Trees
  <2>3. QED
    BY <1>1, <1>2, <2>1, <2>2, EndUnchanged DEF Prepared, Same, SameTree, SameDoc, SameAnswers
<1>5. CASE Decide
  <2> DEFINE store == Valid(disk.answers)
  <2>1. /\ pc = "decide" /\ Same /\ disk.staging = sources /\ disk.prev = Absent
        /\ run.composed = None /\ ~run.removes /\ ~run.pruned /\ ~run.asked
        /\ ~run.swapped
        /\ UNCHANGED <<sources, start, outcome, lost, settled, disk>>
    BY <1>2, <1>5 DEF Decide, Go, Prepared
  <2>2. Active' = Active /\ Bodies' = Bodies
    BY <2>1, SourcesStay
  <2>3. store = Valid(start.answers) /\ store \in SUBSET Keys /\ AllValid(store)
    BY <1>2, <2>1 DEF Valid, AllValid, Same, SameAnswers, Typed, Disks
  <2>4. CASE Active = {}
    <3>1. pc' = "backup" /\ run' = [run EXCEPT !.removes = TRUE]
      BY <1>5, <2>4 DEF Decide, Go
    <3>2. /\ run' \in Runs /\ run'.removes /\ run'.composed = None
          /\ ~run'.swapped
      BY <1>2, <2>1, <3>1 DEF Typed, Runs
    <3>3. Typed' /\ DocumentsComplete' /\ Settled' /\ Ended'
      BY <1>1, <1>2, <2>1, <3>1, <3>2, Going DEF Typed, Points, DocumentsComplete, Complete
    <3>4. Decided'
      BY <2>2, <2>4, <3>2 DEF Decided
    <3>5. QED
      BY <2>1, <3>1, <3>2, <3>3, <3>4
         DEF IInv, Prepared, InRound, Committing, Undone, Undoing, Reverting, Same, SameTree,
             SameDoc, SameAnswers
  <2>5. CASE Active # {}
    <3>1. /\ run' = [run EXCEPT !.store = store, !.pruned = store # disk.answers]
          /\ pc' = IF Skip(store) THEN "backup" ELSE "compose"
      BY <1>5, <2>5 DEF Decide, Go
    <3>2. /\ run' \in Runs /\ run'.store = store /\ run'.pruned = (store # disk.answers)
          /\ run'.force = run.force
          /\ run'.composed = None /\ ~run'.removes /\ ~run'.asked /\ ~run'.swapped
      BY <1>2, <2>1, <2>3, <3>1 DEF Typed, Runs
    <3>3. Typed' /\ DocumentsComplete' /\ Settled' /\ Ended'
      BY <1>1, <1>2, <2>1, <3>1, <3>2, Going DEF Typed, Points, DocumentsComplete, Complete
    <3>4. CASE Skip(store)
      <4>1. Matches(sources, start.doc, start.answers)
        BY <2>1, <2>3, <3>4, PinnedBodies
           DEF Skip, Matches, Same, SameDoc, SameAnswers, AllValid
      <4>2. Decided'
        BY <2>1, <2>2, <2>5, <3>2, <4>1 DEF Decided
      <4>3. QED
        BY <2>1, <3>1, <3>2, <3>3, <3>4, <4>2
           DEF IInv, Prepared, InRound, Committing, Undone, Undoing, Reverting, Same, SameTree,
               SameDoc, SameAnswers
    <3>5. CASE ~Skip(store)
      \* Nothing has changed since the last publication: then the pass is skipped.
      <4>1. run.force \/ settled # sources
        <5>1. SUFFICES ASSUME ~run.force, settled = sources PROVE FALSE
          OBVIOUS
        <5>2. Matches(sources, start.doc, start.answers)
          BY <1>2, <2>1, <2>5, <5>1, MarksAssumption, PinnedBodies DEF Settled, Typed
        <5>3. store = disk.answers
          BY <2>1, <5>2, PinnedBodies DEF Matches, Valid, Same, SameAnswers
        <5>4. QED
          BY <2>1, <3>5, <5>1, <5>2, <5>3 DEF Skip, Matches, Same, SameDoc, SameAnswers
      <4>2. InRound'
        BY <2>1, <2>2, <2>3, <2>5, <3>2, <4>1
           DEF InRound, AllValid, Valid, Same, SameAnswers
      <4>3. QED
        BY <2>1, <3>1, <3>2, <3>3, <3>5, <4>2
           DEF IInv, Prepared, Committing, Undone, Undoing, Reverting, Same, SameTree,
               SameDoc, SameAnswers
    <3>6. QED
      BY <3>4, <3>5
  <2>6. QED
    BY <2>4, <2>5
<1>6. QED
  BY <1>1, <1>3, <1>4, <1>5 DEF Prepare

\* The Composer's replies, and the operator's.
LEMMA ComposerStep == IInv /\ Composer => IInv'
<1>1. SUFFICES ASSUME IInv, Composer PROVE IInv'
  OBVIOUS
<1>2. pc = "compose"
  BY <1>1 DEF Composer, ComposeBody, Ask, Defer, Decline, ComposerFails
<1>3. /\ Typed /\ DocumentsComplete /\ Same /\ disk.staging = sources /\ disk.prev = Absent
      /\ ~run.swapped
      /\ Active # {} /\ ~run.removes /\ run.composed = None
      /\ AllValid(run.store) /\ Valid(start.answers) \subseteq run.store
      /\ ~run.pruned /\ ~run.asked => run.store = start.answers
      /\ run.force \/ settled # sources
  BY <1>1, <1>2 DEF IInv, Prepared, InRound
<1>4. ASSUME NEW cites \in SUBSET Active, ComposeBody(cites) PROVE IInv'
  <2> DEFINE doc == [source |-> sources, answers |-> run.store, cites |-> cites]
  <2>1. /\ pc' = "backup" /\ run' = [run EXCEPT !.composed = doc]
        /\ Active \subseteq cites \cup Cited(run.store)
        /\ UNCHANGED <<sources, start, outcome, lost, settled, disk>>
    BY <1>4 DEF ComposeBody, Go
  <2>2. Active' = Active /\ Bodies' = Bodies
    BY <2>1, SourcesStay
  <2>3. run.store \in SUBSET Keys /\ cites \in SUBSET Fragments
    BY <1>3 DEF Typed, Runs, Active
  <2>4. doc \in DocumentFiles /\ doc.source = sources /\ doc.answers = run.store
        /\ doc.cites = cites
    BY <1>3, <2>3 DEF Typed, DocumentFiles
  <2>5. doc # None /\ doc \in Documents
    BY <2>4, MarksAssumption DEF Documents
  <2>6. /\ run' \in Runs /\ run'.composed = doc /\ run'.store = run.store
        /\ run'.pruned = run.pruned /\ run'.asked = run.asked
        /\ ~run'.removes /\ ~run'.swapped
    BY <1>3, <2>1, <2>5 DEF Typed, Runs
  <2>7. Complete(doc)
    BY <2>1, <2>4, PinnedBodies DEF Complete
  <2>8. Typed' /\ DocumentsComplete' /\ Settled' /\ Ended'
    BY <1>1, <1>2, <1>3, <2>1, <2>4, <2>6, <2>7, Going DEF Typed, Points, DocumentsComplete
  <2>9. Matches(sources, doc, run.store)
    BY <1>3, <2>4, <2>5, PinnedBodies DEF Matches, AllValid
  <2>10. Decided'
    BY <1>3, <2>1, <2>2, <2>5, <2>6, <2>9 DEF Decided, Saves, Valid
  <2>11. QED
    BY <1>3, <2>1, <2>6, <2>8, <2>10
       DEF IInv, Prepared, InRound, Committing, Undone, Undoing, Reverting, Same, SameTree,
           SameDoc, SameAnswers
<1>5. ASSUME NEW cited \in Questions, Ask(cited) PROVE IInv'
  <2> DEFINE store == run.store \cup {Key(c) : c \in cited}
  <2>1. /\ pc' = "compose" /\ run' = [run EXCEPT !.store = store, !.asked = TRUE]
        /\ UNCHANGED <<sources, start, outcome, lost, settled, disk>>
    BY <1>5 DEF Ask, Go
  <2>2. Active' = Active /\ Bodies' = Bodies
    BY <2>1, SourcesStay
  <2>3. store \in SUBSET Keys /\ AllValid(store)
    BY <1>3, KeysOfQuestions DEF Typed, Runs, AllValid
  <2>4. /\ run' \in Runs /\ run'.composed = None /\ run'.store = store /\ run'.asked
        /\ run'.force = run.force /\ ~run'.removes /\ ~run'.swapped
    BY <1>3, <2>1, <2>3 DEF Typed, Runs
  <2>5. Typed' /\ DocumentsComplete' /\ Settled' /\ Ended'
    BY <1>1, <1>2, <1>3, <2>1, <2>4, Going DEF Typed, Points, DocumentsComplete, Complete
  <2>6. InRound'
    BY <1>3, <2>1, <2>2, <2>3, <2>4 DEF InRound, AllValid, Valid
  <2>7. QED
    BY <1>3, <2>1, <2>4, <2>5, <2>6
       DEF IInv, Prepared, Committing, Undone, Undoing, Reverting, Same, SameTree,
           SameDoc, SameAnswers
<1>6. ASSUME NEW contradiction \in BOOLEAN, Defer(contradiction) PROVE IInv'
  <2>1. disk' = [disk EXCEPT !.staging = Absent, !.stale = contradiction]
        /\ End("deferred", settled)
    BY <1>6 DEF Defer
  <2>2. /\ disk' \in Disks /\ disk'.tree = disk.tree /\ disk'.doc = disk.doc
        /\ disk'.answers = disk.answers
    BY <1>3, <2>1 DEF Typed, Disks, Trees
  <2>3. QED
    BY <1>1, <1>2, <1>3, <2>1, <2>2, EndUnchanged DEF Same, SameTree, SameDoc, SameAnswers
<1>7. CASE Decline \/ ComposerFails
  BY <1>1, <1>2, <1>3, <1>7, EndUnchanged
     DEF Decline, ComposerFails, Typed, Same, SameTree, SameDoc, SameAnswers
<1>8. QED
  BY <1>1, <1>4, <1>5, <1>6, <1>7 DEF Composer

\* The new artifacts, one after another.
LEMMA CommitStep == IInv /\ Commit => IInv'
<1>1. SUFFICES ASSUME IInv, Commit PROVE IInv'
  OBVIOUS
<1>2. pc \in {"backup", "moveAside", "moveIn", "moved", "emit", "save", "discard", "clear"}
  BY <1>1 DEF Commit, Backup, MoveAside, MoveIn, Note, Emit, EmitRefuses, Save, DiscardPrev,
              ClearStale
<1>3. Typed /\ DocumentsComplete /\ Prepared /\ Committing
  BY <1>1 DEF IInv
<1>4. sources' = sources /\ start' = start
  BY <1>1 DEF Commit, Backup, MoveAside, MoveIn, Note, Emit, EmitRefuses, Save, DiscardPrev,
              ClearStale, Go, Unwind, End
<1>5. Active' = Active /\ Bodies' = Bodies
  BY <1>4, SourcesStay
<1>6. CASE Backup
  <2>1. /\ pc = "backup" /\ pc' = "moveAside"
        /\ run' = [run EXCEPT !.backup = <<disk.doc, disk.answers>>]
        /\ UNCHANGED <<outcome, lost, settled, disk>>
    BY <1>6 DEF Backup, Go
  <2>2. /\ run' \in Runs /\ run'.backup = <<disk.doc, disk.answers>>
        /\ run'.composed = run.composed /\ run'.store = run.store /\ run'.removes = run.removes
        /\ run'.pruned = run.pruned /\ run'.asked = run.asked
        /\ run'.swapped = run.swapped
    BY <1>3, <2>1 DEF Typed, Runs, Disks
  <2>3. Typed' /\ DocumentsComplete' /\ Settled' /\ Ended'
    BY <1>1, <1>3, <1>4, <2>1, <2>2, Going DEF Typed, Points, DocumentsComplete
  <2>4. Decided'
    BY <1>3, <1>4, <1>5, <2>1, <2>2 DEF Committing, Decided, Saves, Valid
  <2>5. QED
    BY <1>3, <1>4, <2>1, <2>2, <2>3, <2>4
       DEF IInv, Prepared, InRound, Committing, Undone, Undoing, Reverting, Same, SameTree,
           SameDoc, SameAnswers
<1>7. ASSUME UNCHANGED run, pc \in {"backup", "moveAside", "moveIn", "moved", "emit", "save"}
      PROVE  Decided'
  BY <1>3, <1>4, <1>5, <1>7 DEF Committing, Decided, Saves, Valid
<1>8. CASE MoveAside
  <2>1. /\ pc = "moveAside" /\ pc' = "moveIn"
        /\ disk' = IF disk.tree = Absent THEN disk
                   ELSE [disk EXCEPT !.prev = disk.tree, !.tree = Absent]
        /\ UNCHANGED <<outcome, lost, settled, run>>
    BY <1>8 DEF MoveAside, Go
  <2>2. /\ disk' \in Disks /\ disk'.tree = Absent /\ disk'.prev = disk.tree
        /\ disk'.doc = disk.doc /\ disk'.answers = disk.answers /\ disk'.staging = disk.staging
    BY <1>3, <2>1 DEF Typed, Disks, Trees, Prepared
  <2>3. Typed' /\ DocumentsComplete' /\ Settled' /\ Ended'
    BY <1>1, <1>3, <1>4, <2>1, <2>2, Going DEF Typed, Points, DocumentsComplete
  <2>4. Decided'
    BY <1>7, <2>1
  <2>5. QED
    BY <1>3, <1>4, <2>1, <2>2, <2>3, <2>4
       DEF IInv, Prepared, InRound, Committing, Undone, Undoing, Reverting, Same, SameTree,
           SameDoc, SameAnswers
<1>9. CASE MoveIn
  <2>1. /\ pc = "moveIn" /\ pc' = "moved"
        /\ disk' = [disk EXCEPT !.tree = disk.staging, !.staging = Absent]
        /\ UNCHANGED <<outcome, lost, settled, run>>
    BY <1>9 DEF MoveIn, Go
  <2>2. /\ disk' \in Disks /\ disk'.tree = disk.staging /\ disk'.prev = disk.prev
        /\ disk'.doc = disk.doc /\ disk'.answers = disk.answers
    BY <1>3, <2>1 DEF Typed, Disks, Trees
  <2>3. Typed' /\ DocumentsComplete' /\ Settled' /\ Ended'
    BY <1>1, <1>3, <1>4, <2>1, <2>2, Going DEF Typed, Points, DocumentsComplete
  <2>4. Decided'
    BY <1>7, <2>1
  <2>5. QED
    BY <1>3, <1>4, <2>1, <2>2, <2>3, <2>4
       DEF IInv, Prepared, InRound, Committing, Undone, Undoing, Reverting, Same, SameTree,
           SameDoc, SameAnswers
<1>16. CASE Note
  <2>1. /\ pc = "moved" /\ pc' = "emit" /\ run' = [run EXCEPT !.swapped = TRUE]
        /\ UNCHANGED <<outcome, lost, settled, disk>>
    BY <1>16 DEF Note, Go
  <2>2. /\ run' \in Runs /\ run'.swapped /\ run'.backup = run.backup
        /\ run'.composed = run.composed /\ run'.store = run.store /\ run'.removes = run.removes
        /\ run'.pruned = run.pruned /\ run'.asked = run.asked
    BY <1>3, <2>1 DEF Typed, Runs
  <2>3. Typed' /\ DocumentsComplete' /\ Settled' /\ Ended'
    BY <1>1, <1>3, <1>4, <2>1, <2>2, Going DEF Typed, Points, DocumentsComplete
  <2>4. Decided'
    BY <1>3, <1>4, <1>5, <2>1, <2>2 DEF Committing, Decided, Saves, Valid
  <2>5. QED
    BY <1>3, <1>4, <2>1, <2>2, <2>3, <2>4
       DEF IInv, Prepared, InRound, Committing, Undone, Undoing, Reverting, Same, SameTree,
           SameDoc, SameAnswers
<1>10. CASE Emit
  <2>1. /\ pc = "emit" /\ pc' = "save"
        /\ disk' = IF run.removes THEN [disk EXCEPT !.doc = None, !.tree = Absent]
                   ELSE IF run.composed = None THEN disk
                   ELSE [disk EXCEPT !.doc = run.composed]
        /\ UNCHANGED <<outcome, lost, settled, run>>
    BY <1>10 DEF Emit, Go
  <2>2. /\ disk' \in Disks /\ disk'.prev = disk.prev /\ disk'.answers = disk.answers
        /\ disk'.tree = IF run.removes THEN Absent ELSE disk.tree
        /\ disk'.doc = IF run.removes THEN None
                       ELSE IF run.composed = None THEN disk.doc ELSE run.composed
    BY <1>3, <2>1 DEF Typed, Runs, Disks, Trees, Documents
  <2>3. Typed' /\ DocumentsComplete' /\ Settled' /\ Ended'
    BY <1>1, <1>3, <1>4, <2>1, <2>2, Going DEF Typed, Points, DocumentsComplete, Complete
  <2>4. Decided'
    BY <1>7, <2>1
  <2>5. QED
    BY <1>3, <1>4, <2>1, <2>2, <2>3, <2>4
       DEF IInv, Prepared, InRound, Committing, Undone, Undoing, Reverting, Same, SameTree,
           SameDoc, SameAnswers
<1>11. CASE EmitRefuses
  <2>1. /\ pc = "emit" /\ pc' = "dropTree"
        /\ UNCHANGED <<outcome, lost, settled, run, disk>>
    BY <1>3, <1>11 DEF EmitRefuses, Unwind, Committing
  <2>2. Typed' /\ DocumentsComplete' /\ Settled' /\ Ended'
    BY <1>1, <1>3, <1>4, <2>1, Going DEF Typed, Points, Undoing, DocumentsComplete
  <2>3. QED
    BY <1>3, <1>4, <2>1, <2>2
       DEF IInv, Prepared, InRound, Committing, Undone, Undoing, Reverting, Same, SameTree,
           SameDoc, SameAnswers
<1>12. CASE Save
  <2>1. /\ pc = "save" /\ pc' = "discard"
        /\ disk' = IF Saves THEN [disk EXCEPT !.answers = run.store] ELSE disk
        /\ UNCHANGED <<outcome, lost, settled, run>>
    BY <1>12 DEF Save, Go
  <2>2. /\ disk' \in Disks /\ disk'.tree = disk.tree /\ disk'.doc = disk.doc
        /\ disk'.answers = IF Saves THEN run.store ELSE disk.answers
    BY <1>3, <2>1 DEF Typed, Runs, Disks
  <2>3. Typed' /\ DocumentsComplete' /\ Settled' /\ Ended'
    BY <1>1, <1>3, <1>4, <2>1, <2>2, Going DEF Typed, Points, DocumentsComplete
  <2>4. /\ Decided /\ disk.answers = start.answers
        /\ disk.tree = IF run.removes THEN Absent ELSE sources
        /\ disk.doc = IF run.removes THEN None
                      ELSE IF run.composed = None THEN start.doc ELSE run.composed
    BY <1>3, <2>1 DEF Committing, SameAnswers
  <2>5. Active # {} => Matches(sources, disk'.doc, disk'.answers)
    BY <2>2, <2>4 DEF Decided, Saves
  <2>6. Valid(start.answers) \subseteq disk'.answers
    BY <2>2, <2>4 DEF Decided, Saves, Valid
  <2>7. Active # {} => Active \subseteq disk'.doc.cites \cup Cited(disk'.answers)
    BY <1>4, <2>3, <2>5, PinnedBodies DEF DocumentsComplete, Complete, Matches
  <2>8. Active = {} => run.removes
    BY <2>4 DEF Decided
  <2>9. Active # {} => ~run.removes
    BY <2>4 DEF Decided
  <2>10. Current'
    BY <1>4, <1>5, <2>2, <2>4, <2>5, <2>7, <2>8, <2>9 DEF Current, Matches
  <2>11. Committed'
    BY <1>4, <1>5, <2>5, <2>6, <2>10 DEF Committed, Valid
  <2>12. QED
    BY <2>1, <2>3, <2>11 DEF IInv, Prepared, InRound, Committing, Undone, Undoing, Reverting
<1>13. CASE DiscardPrev
  <2>1. /\ pc = "discard" /\ pc' = "clear" /\ disk' = [disk EXCEPT !.prev = Absent]
        /\ UNCHANGED <<outcome, lost, settled, run>>
    BY <1>13 DEF DiscardPrev, Go
  <2>2. /\ disk' \in Disks /\ disk'.tree = disk.tree /\ disk'.doc = disk.doc
        /\ disk'.answers = disk.answers
    BY <1>3, <2>1 DEF Typed, Disks, Trees
  <2>3. Typed' /\ DocumentsComplete' /\ Settled' /\ Ended'
    BY <1>1, <1>3, <1>4, <2>1, <2>2, Going DEF Typed, Points, DocumentsComplete
  <2>4. Committed'
    BY <1>1, <1>4, <1>5, <2>1, <2>2 DEF IInv, Committed, Current, Valid
  <2>5. QED
    BY <2>1, <2>3, <2>4 DEF IInv, Prepared, InRound, Committing, Undone, Undoing, Reverting
<1>14. CASE ClearStale
  <2>1. pc = "clear" /\ disk' = [disk EXCEPT !.stale = FALSE] /\ End("published", sources)
    BY <1>14 DEF ClearStale
  <2>2. /\ disk' \in Disks /\ disk'.tree = disk.tree /\ disk'.doc = disk.doc
        /\ disk'.answers = disk.answers /\ ~disk'.stale
    BY <1>3, <2>1 DEF Typed, Disks
  <2>3. Committed
    BY <1>1, <2>1 DEF IInv
  <2>4. Current'
    BY <1>4, <1>5, <2>2, <2>3 DEF Committed, Current
  <2>5. sources # None /\ ActiveIn(sources) # {} => Matches(sources, disk'.doc, disk'.answers)
    BY <2>2, <2>3, PinnedBodies DEF Committed
  <2>6. Complete(disk'.doc) /\ Valid(start.answers) \subseteq disk'.answers
    BY <1>3, <2>2, <2>3 DEF Committed, DocumentsComplete
  <2>7. QED
    BY <1>1, <1>3, <2>1, <2>2, <2>4, <2>5, <2>6, EndStep DEF Typed
<1>15. QED
  BY <1>1, <1>6, <1>8, <1>9, <1>10, <1>11, <1>12, <1>13, <1>14, <1>16 DEF Commit

\* A handler takes over: the tree goes back when it is known to be replaced.
LEMMA UnwindStep ==
    ASSUME IInv, Unwind, UNCHANGED disk,
           pc \in {"moveAside", "moveIn", "moved", "emit", "save"},
           \/ lost' = TakesNothingBack
           \/ lost' = lost /\ pc \notin {"moveIn", "moved"}
    PROVE  IInv'
<1>1. Typed /\ DocumentsComplete /\ Prepared /\ Committing
  BY DEF IInv
<1>2. /\ UNCHANGED <<sources, start, outcome, settled, run>> /\ lost' \in {lost} \cup BOOLEAN
      /\ pc' = IF run.swapped THEN "dropTree" ELSE "dropDoc"
  BY DEF Unwind, TakesNothingBack
<1>3. Typed' /\ DocumentsComplete' /\ Settled' /\ Ended'
  BY <1>1, <1>2, Going DEF Typed, Points, Undoing, DocumentsComplete
<1>4. CASE pc \in {"emit", "save"}
  <2>1. pc' = "dropTree" /\ disk.prev = start.tree /\ SameAnswers
        /\ run.backup = <<start.doc, start.answers>>
    BY <1>1, <1>2, <1>4 DEF Committing
  <2>2. QED
    BY <1>2, <1>3, <2>1
       DEF IInv, Prepared, InRound, Committing, Undone, Undoing, Reverting, SameAnswers
<1>5. CASE pc = "moveAside"
  <2>1. pc' = "dropDoc" /\ Same /\ run.backup = <<start.doc, start.answers>>
    BY <1>1, <1>2, <1>5 DEF Committing, Prepared
  <2>2. QED
    BY <1>2, <1>3, <2>1
       DEF IInv, Prepared, InRound, Committing, Undone, Undoing, Reverting, Same, SameTree,
           SameDoc, SameAnswers
<1>6. CASE pc \in {"moveIn", "moved"}
  <2>1. /\ pc' = "dropDoc" /\ SameAnswers /\ run.backup = <<start.doc, start.answers>>
        /\ lost' \/ (disk.tree = Absent /\ disk.prev = start.tree /\ disk.prev = Absent)
    BY <1>1, <1>2, <1>6 DEF Committing, Prepared, TakesNothingBack
  <2>2. QED
    BY <1>2, <1>3, <2>1
       DEF IInv, Prepared, InRound, Committing, Undone, Undoing, Reverting, SameTree, SameAnswers
<1>7. QED
  BY <1>4, <1>5, <1>6

\* The way back, and what a check puts back.
LEMMA ReturnStep == IInv /\ (MoveBack \/ RollBack \/ FinishUndone \/ Revert \/ FinishCheck) => IInv'
<1>1. SUFFICES ASSUME IInv, MoveBack \/ RollBack \/ FinishUndone \/ Revert \/ FinishCheck
               PROVE IInv'
  OBVIOUS
<1>2. Typed /\ DocumentsComplete /\ Prepared /\ Committing /\ Undone
  BY <1>1 DEF IInv
<1>3. /\ PrevBack \in Disks /\ PrevBack.doc = disk.doc /\ PrevBack.answers = disk.answers
      /\ disk.tree = Absent => PrevBack.tree = disk.prev
  BY <1>2 DEF PrevBack, Typed, Disks, Trees
\* A step of a handler changes the disk alone.
<1>4. ASSUME NEW point \in Undoing \cup Reverting \cup {"moveBack"},
             NEW following \in Points \ {"idle"}, NEW after \in Disks,
             UndoStep(point, following, after) \/ (pc = point /\ disk' = after /\ Go(following) /\ UNCHANGED run),
             Complete(after.doc)
      PROVE  /\ pc = point /\ pc' = following /\ disk' = after
             /\ UNCHANGED <<sources, start, outcome, lost, settled, run>>
             /\ Typed' /\ DocumentsComplete' /\ Settled' /\ Ended'
  <2>1. /\ pc = point /\ pc' = following /\ disk' = after
        /\ UNCHANGED <<sources, start, outcome, lost, settled, run>>
    BY <1>4 DEF UndoStep, Go
  <2>2. QED
    BY <1>1, <1>2, <1>4, <2>1, Going DEF Typed, DocumentsComplete, Undoing, Reverting
<1>5. Complete(None) /\ None \in Documents /\ Complete(disk.doc) /\ Complete(start.doc)
  BY <1>2 DEF Complete, Documents, DocumentsComplete
<1>6. CASE MoveBack
  <2>1. pc = "moveBack" /\ disk' = PrevBack /\ Go("dropDoc") /\ UNCHANGED run
    BY <1>6 DEF MoveBack
  <2>2. /\ pc' = "dropDoc" /\ UNCHANGED <<sources, start, outcome, lost, settled, run>>
        /\ Typed' /\ DocumentsComplete' /\ Settled' /\ Ended'
    BY <1>3, <1>4, <1>5, <2>1 DEF Points, Undoing
  <2>3. QED
    BY <1>2, <1>3, <2>1, <2>2
       DEF IInv, Prepared, InRound, Committing, Undone, Undoing, Reverting, SameTree, SameDoc,
           SameAnswers
<1>7. CASE RollBack
  <2>1. CASE UndoStep("dropTree", "treeBack", [disk EXCEPT !.tree = Absent])
    <3> DEFINE after == [disk EXCEPT !.tree = Absent]
    <3>1. /\ after \in Disks /\ after.tree = Absent /\ after.prev = disk.prev
          /\ after.doc = disk.doc /\ after.answers = disk.answers
      BY <1>2 DEF Typed, Disks, Trees
    <3>2. /\ pc = "dropTree" /\ pc' = "treeBack" /\ disk' = after
          /\ UNCHANGED <<sources, start, outcome, lost, settled, run>>
          /\ Typed' /\ DocumentsComplete' /\ Settled' /\ Ended'
      BY <1>4, <1>5, <2>1, <3>1 DEF Points, Undoing
    <3>3. QED
      BY <1>2, <3>1, <3>2
         DEF IInv, Prepared, InRound, Committing, Undone, Undoing, Reverting, SameAnswers
  <2>2. CASE UndoStep("treeBack", "dropDoc", PrevBack)
    <3>1. /\ pc = "treeBack" /\ pc' = "dropDoc" /\ disk' = PrevBack
          /\ UNCHANGED <<sources, start, outcome, lost, settled, run>>
          /\ Typed' /\ DocumentsComplete' /\ Settled' /\ Ended'
      BY <1>3, <1>4, <1>5, <2>2 DEF Points, Undoing
    <3>2. QED
      BY <1>2, <1>3, <3>1
         DEF IInv, Prepared, InRound, Committing, Undone, Undoing, Reverting, SameTree,
             SameAnswers
  <2>3. CASE UndoStep("dropDoc", "copyDoc", [disk EXCEPT !.doc = None])
    <3> DEFINE after == [disk EXCEPT !.doc = None]
    <3>1. /\ after \in Disks /\ after.tree = disk.tree /\ after.doc = None
          /\ after.answers = disk.answers
      BY <1>2, <1>5 DEF Typed, Disks
    <3>2. /\ pc = "dropDoc" /\ pc' = "copyDoc" /\ disk' = after
          /\ UNCHANGED <<sources, start, outcome, lost, settled, run>>
          /\ Typed' /\ DocumentsComplete' /\ Settled' /\ Ended'
      BY <1>4, <1>5, <2>3, <3>1 DEF Points, Undoing
    <3>3. QED
      BY <1>2, <3>1, <3>2
         DEF IInv, Prepared, InRound, Committing, Undone, Undoing, Reverting, SameTree,
             SameAnswers
  <2>4. CASE UndoStep("copyDoc", IF run.composed = None THEN "undone" ELSE "dropAnswers",
                      [disk EXCEPT !.doc = run.backup[1]])
    <3> DEFINE after == [disk EXCEPT !.doc = run.backup[1]]
    <3>1. pc = "copyDoc" /\ run.backup[1] = start.doc /\ start.doc \in Documents
      BY <1>2, <2>4 DEF UndoStep, Committing, Undoing, Typed, Disks
    <3>2. /\ after \in Disks /\ after.tree = disk.tree /\ after.doc = start.doc
          /\ after.answers = disk.answers
      BY <1>2, <3>1 DEF Typed, Disks
    <3>3. /\ pc' \in {"undone", "dropAnswers"} /\ disk' = after
          /\ UNCHANGED <<sources, start, outcome, lost, settled, run>>
          /\ Typed' /\ DocumentsComplete' /\ Settled' /\ Ended'
      BY <1>4, <1>5, <2>4, <3>2 DEF Points, Undoing
    <3>4. QED
      BY <1>2, <3>1, <3>2, <3>3
         DEF IInv, Prepared, InRound, Committing, Undone, Undoing, Reverting, SameTree, SameDoc,
             SameAnswers
  <2>5. CASE UndoStep("dropAnswers", "copyAnswers", [disk EXCEPT !.answers = {}])
    <3> DEFINE after == [disk EXCEPT !.answers = {}]
    <3>1. after \in Disks /\ after.tree = disk.tree /\ after.doc = disk.doc
      BY <1>2 DEF Typed, Disks
    <3>2. /\ pc = "dropAnswers" /\ pc' = "copyAnswers" /\ disk' = after
          /\ UNCHANGED <<sources, start, outcome, lost, settled, run>>
          /\ Typed' /\ DocumentsComplete' /\ Settled' /\ Ended'
      BY <1>4, <1>5, <2>5, <3>1 DEF Points, Undoing
    <3>3. QED
      BY <1>2, <3>1, <3>2
         DEF IInv, Prepared, InRound, Committing, Undone, Undoing, Reverting, SameTree, SameDoc
  <2>6. CASE UndoStep("copyAnswers", "undone", [disk EXCEPT !.answers = run.backup[2]])
    <3> DEFINE after == [disk EXCEPT !.answers = run.backup[2]]
    <3>1. pc = "copyAnswers" /\ run.backup[2] = start.answers /\ start.answers \in SUBSET Keys
      BY <1>2, <2>6 DEF UndoStep, Committing, Undoing, Typed, Disks
    <3>2. /\ after \in Disks /\ after.tree = disk.tree /\ after.doc = disk.doc
          /\ after.answers = start.answers
      BY <1>2, <3>1 DEF Typed, Disks
    <3>3. /\ pc' = "undone" /\ disk' = after
          /\ UNCHANGED <<sources, start, outcome, lost, settled, run>>
          /\ Typed' /\ DocumentsComplete' /\ Settled' /\ Ended'
      BY <1>4, <1>5, <2>6, <3>2 DEF Points, Undoing
    <3>4. QED
      BY <1>2, <3>1, <3>2, <3>3
         DEF IInv, Prepared, InRound, Committing, Undone, Undoing, Reverting, SameTree, SameDoc,
             SameAnswers
  <2>7. QED
    BY <1>7, <2>1, <2>2, <2>3, <2>4, <2>5, <2>6 DEF RollBack
<1>8. CASE FinishUndone
  <2>1. pc = "undone" /\ disk' = disk /\ SameDoc /\ SameAnswers /\ (SameTree \/ lost)
        /\ End("failed", settled)
    BY <1>2, <1>8 DEF FinishUndone, Undone
  <2>2. CASE SameTree
    BY <1>1, <1>2, <2>1, <2>2, EndUnchanged DEF Typed, SameTree, SameDoc, SameAnswers
  <2>3. CASE lost
    <3>1. disk'.doc = start.doc /\ disk'.answers = start.answers /\ Complete(disk'.doc)
      BY <1>2, <2>1 DEF SameDoc, SameAnswers, DocumentsComplete
    <3>2. settled # None /\ ActiveIn(settled) # {} => Matches(settled, disk'.doc, disk'.answers)
      BY <1>1, <2>1, <3>1 DEF IInv, Settled
    <3>3. Valid(start.answers) \subseteq disk'.answers
      BY <3>1 DEF Valid
    <3>4. QED
      BY <1>1, <1>2, <2>1, <2>3, <3>1, <3>2, <3>3, EndStep DEF Typed
  <2>4. QED
    BY <2>1, <2>2, <2>3
<1>9. CASE Revert
  <2>1. CASE UndoStep("revertDoc", "revertTree", [disk EXCEPT !.doc = start.doc])
    <3> DEFINE after == [disk EXCEPT !.doc = start.doc]
    <3>1. after \in Disks /\ after.doc = start.doc
      BY <1>2 DEF Typed, Disks
    <3>2. /\ pc' = "revertTree" /\ disk' = after
          /\ UNCHANGED <<sources, start, outcome, lost, settled, run>>
          /\ Typed' /\ DocumentsComplete' /\ Settled' /\ Ended'
      BY <1>4, <1>5, <2>1, <3>1 DEF Points, Reverting
    <3>3. QED
      BY <3>1, <3>2
         DEF IInv, Prepared, InRound, Committing, Undone, Undoing, Reverting, SameDoc
  <2>2. CASE UndoStep("revertTree", "revertAnswers", [disk EXCEPT !.tree = start.tree])
    <3> DEFINE after == [disk EXCEPT !.tree = start.tree]
    <3>1. after \in Disks /\ after.doc = disk.doc /\ after.tree = start.tree
      BY <1>2 DEF Typed, Disks
    <3>2. /\ pc = "revertTree" /\ pc' = "revertAnswers" /\ disk' = after
          /\ UNCHANGED <<sources, start, outcome, lost, settled, run>>
          /\ Typed' /\ DocumentsComplete' /\ Settled' /\ Ended'
      BY <1>4, <1>5, <2>2, <3>1 DEF Points, Reverting
    <3>3. QED
      BY <1>2, <3>1, <3>2
         DEF IInv, Prepared, InRound, Committing, Undone, Undoing, Reverting, SameTree, SameDoc
  <2>3. CASE UndoStep("revertAnswers", "revertRest", [disk EXCEPT !.answers = start.answers])
    <3> DEFINE after == [disk EXCEPT !.answers = start.answers]
    <3>1. /\ after \in Disks /\ after.doc = disk.doc /\ after.tree = disk.tree
          /\ after.answers = start.answers
      BY <1>2 DEF Typed, Disks
    <3>2. /\ pc = "revertAnswers" /\ pc' = "revertRest" /\ disk' = after
          /\ UNCHANGED <<sources, start, outcome, lost, settled, run>>
          /\ Typed' /\ DocumentsComplete' /\ Settled' /\ Ended'
      BY <1>4, <1>5, <2>3, <3>1 DEF Points, Reverting
    <3>3. QED
      BY <1>2, <3>1, <3>2
         DEF IInv, Prepared, InRound, Committing, Undone, Undoing, Reverting, SameTree, SameDoc,
             SameAnswers
  <2>4. CASE UndoStep("revertRest", "checked",
                      [disk EXCEPT !.stale = start.stale, !.staging = start.staging,
                                   !.prev = start.prev])
    <3> DEFINE after == [disk EXCEPT !.stale = start.stale, !.staging = start.staging,
                                     !.prev = start.prev]
    <3>1. pc = "revertRest" /\ SameTree /\ SameDoc /\ SameAnswers
      BY <1>2, <2>4 DEF UndoStep, Undone
    <3>2. after \in Disks /\ after.doc = disk.doc
      BY <1>2 DEF Typed, Disks
    <3>3. after = start
      BY <1>2, <3>1 DEF Typed, Disks, SameTree, SameDoc, SameAnswers
    <3>4. /\ pc' = "checked" /\ disk' = after
          /\ UNCHANGED <<sources, start, outcome, lost, settled, run>>
          /\ Typed' /\ DocumentsComplete' /\ Settled' /\ Ended'
      BY <1>4, <1>5, <2>4, <3>2 DEF Points, Reverting
    <3>5. QED
      BY <3>3, <3>4
         DEF IInv, Prepared, InRound, Committing, Undone, Undoing, Reverting, SameTree, SameDoc,
             SameAnswers
  <2>5. QED
    BY <1>9, <2>1, <2>2, <2>3, <2>4 DEF Revert
<1>10. CASE FinishCheck
  <2>1. /\ pc = "checked" /\ pc' = "idle" /\ run' = NoRun /\ outcome' = "checked"
        /\ disk = start
        /\ UNCHANGED <<sources, disk, start, lost, settled>>
    BY <1>2, <1>10 DEF FinishCheck, Leave, Undone
  <2>2. Typed'
    BY <1>2, <2>1, NothingIsTyped DEF Typed, Points, Outcomes, NoRun
  <2>3. DocumentsComplete'
    BY <1>2, <2>1 DEF DocumentsComplete, Complete, NoRun
  <2>4. Settled'
    BY <1>1, <2>1 DEF IInv, Settled
  <2>5. Ended'
    BY <2>1 DEF Ended, SuccessIsCurrent, FailureIsAtomic, AnswersSurvive, CheckMutatesNothing
  <2>6. QED
    BY <2>1, <2>2, <2>3, <2>4, <2>5, AtRest
<1>11. QED
  BY <1>1, <1>6, <1>7, <1>8, <1>9, <1>10

\* A pass that ends in trouble leaves nothing to rely on.
LEMMA TroubleStep ==
    ASSUME IInv, pc' = "idle", run' = NoRun, outcome' \in {"broken", "killed"}, settled' = None,
           UNCHANGED <<sources, start, lost>>, disk' \in Disks, Complete(disk'.doc)
    PROVE  IInv'
<1>1. Typed'
  BY NothingIsTyped DEF IInv, Typed, Points, Outcomes, NoRun
<1>2. DocumentsComplete'
  BY DEF IInv, DocumentsComplete, Complete, NoRun
<1>3. Settled' /\ Ended'
  BY DEF Settled, Ended, SuccessIsCurrent, FailureIsAtomic, AnswersSurvive, CheckMutatesNothing
<1>4. QED
  BY <1>1, <1>2, <1>3, AtRest

\* Calls that fail, and interrupts.
LEMMA FailureStep == IInv /\ Failure => IInv'
<1>1. SUFFICES ASSUME IInv, Failure PROVE IInv'
  OBVIOUS
<1>2. Typed /\ DocumentsComplete /\ Prepared /\ Committing
  BY <1>1 DEF IInv
<1>3. CASE ResetFails
  <2>1. pc = "reset" /\ End("failed", settled) /\ Same
    BY <1>2, <1>3 DEF ResetFails, Prepared
  <2>2. PICK staging \in {disk.staging, Partial, Absent} :
            disk' = [disk EXCEPT !.staging = staging,
                                 !.prev = IF staging = Absent THEN Absent ELSE disk.prev]
    BY <1>3 DEF ResetFails
  <2>3. /\ disk' \in Disks /\ disk'.tree = disk.tree /\ disk'.doc = disk.doc
        /\ disk'.answers = disk.answers
    BY <1>2, <2>2 DEF Typed, Disks, Trees
  <2>4. QED
    BY <1>1, <2>1, <2>3, EndUnchanged DEF Same, SameTree, SameDoc, SameAnswers
<1>4. CASE BackupFails
  BY <1>1, <1>2, <1>4, EndUnchanged
     DEF BackupFails, Prepared, Typed, Same, SameTree, SameDoc, SameAnswers
<1>5. CASE MoveAsideFails
  BY <1>1, <1>5, UnwindStep DEF MoveAsideFails
<1>6. CASE MoveInFails
  <2>1. /\ pc = "moveIn" /\ pc' = "moveBack"
        /\ UNCHANGED <<sources, disk, run, start, outcome, lost, settled>>
    BY <1>2, <1>6 DEF MoveInFails
  <2>2. Typed' /\ DocumentsComplete' /\ Settled' /\ Ended'
    BY <1>1, <1>2, <2>1, Going DEF Typed, Points, DocumentsComplete
  <2>3. QED
    BY <1>2, <2>1, <2>2
       DEF IInv, Prepared, InRound, Committing, Undone, Undoing, Reverting, SameDoc, SameAnswers
<1>7. CASE MoveBackFails
  <2>1. pc = "moveBack" /\ ~run.swapped /\ lost' = TRUE /\ Unwind /\ disk' = disk
    BY <1>2, <1>7 DEF MoveBackFails, Prepared
  <2>2. pc' = "dropDoc" /\ UNCHANGED <<sources, start, outcome, settled, run>>
    BY <2>1 DEF Unwind
  <2>3. Typed' /\ DocumentsComplete' /\ Settled' /\ Ended'
    BY <1>1, <1>2, <2>1, <2>2, Going DEF Typed, Points, Undoing, DocumentsComplete
  <2>4. QED
    BY <1>2, <2>1, <2>2, <2>3
       DEF IInv, Prepared, InRound, Committing, Undone, Undoing, Reverting, SameAnswers
<1>8. CASE PublicationFails
  BY <1>1, <1>8, UnwindStep DEF PublicationFails
<1>9. CASE Interrupt
  BY <1>1, <1>9, UnwindStep DEF Interrupt
<1>10. CASE FinishFails
  <2>1. pc \in {"discard", "clear"} /\ End("failed", sources) /\ disk' = disk
    BY <1>10 DEF FinishFails
  <2>2. Committed
    BY <1>1, <2>1 DEF IInv
  <2>3. sources' = sources
    BY <2>1 DEF End
  <2>4. Current'
    BY <2>1, <2>2, <2>3, SourcesStay DEF Committed, Current
  <2>5. sources # None /\ ActiveIn(sources) # {} => Matches(sources, disk'.doc, disk'.answers)
    BY <2>1, <2>2, PinnedBodies DEF Committed
  <2>6. disk' \in Disks /\ Complete(disk'.doc) /\ Valid(start.answers) \subseteq disk'.answers
    BY <1>2, <2>1, <2>2 DEF Committed, Typed, DocumentsComplete
  <2>7. QED
    BY <1>1, <1>2, <2>1, <2>4, <2>5, <2>6, EndStep DEF Typed
<1>11. CASE RollBackFails
  <2>1. pc # "idle" /\ End("broken", None) /\ disk' = disk
    BY <1>11 DEF RollBackFails, Undoing
  <2>2. QED
    BY <1>1, <1>2, <2>1, EndStep DEF Typed, DocumentsComplete
<1>12. CASE RevertFails
  BY <1>1, <1>2, <1>12, TroubleStep DEF RevertFails, Leave, Typed, DocumentsComplete
<1>13. QED
  BY <1>1, <1>3, <1>4, <1>5, <1>6, <1>7, <1>8, <1>9, <1>10, <1>11, <1>12 DEF Failure

LEMMA KillStep == IInv /\ Kill => IInv'
<1>1. SUFFICES ASSUME IInv, Kill PROVE IInv'
  OBVIOUS
<1>2. disk \in Disks /\ Complete(disk.doc)
  BY <1>1 DEF IInv, Typed, DocumentsComplete
<1>3. /\ [disk EXCEPT !.doc = None, !.tree = Partial] \in Disks
      /\ [disk EXCEPT !.doc = None, !.tree = Partial].doc = None
      /\ [disk EXCEPT !.tree = Partial] \in Disks
      /\ [disk EXCEPT !.tree = Partial].doc = disk.doc
      /\ [disk EXCEPT !.doc = None] \in Disks /\ [disk EXCEPT !.doc = None].doc = None
      /\ [disk EXCEPT !.answers = {}] \in Disks /\ [disk EXCEPT !.answers = {}].doc = disk.doc
  BY <1>2 DEF Disks, Trees, Documents
<1>4. Halfway \in Disks /\ Halfway.doc \in {disk.doc, None}
  BY <1>2, <1>3 DEF Halfway
<1>5. disk' \in Disks /\ Complete(disk'.doc)
  BY <1>1, <1>2, <1>4 DEF Kill, Complete
<1>6. QED
  BY <1>1, <1>5, TroubleStep DEF Kill, Leave

LEMMA StutterStep == IInv /\ UNCHANGED vars => IInv'
<1>1. SUFFICES ASSUME IInv, UNCHANGED vars PROVE IInv'
  OBVIOUS
<1>2. /\ UNCHANGED <<sources, disk, pc, run, start, outcome, lost, settled>>
      /\ Active' = Active /\ Bodies' = Bodies
  BY <1>1, SourcesStay DEF vars
<1>3. /\ Current' = Current /\ Committed' = Committed /\ Decided' = Decided /\ InRound' = InRound
      /\ Same' = Same /\ SameTree' = SameTree /\ SameDoc' = SameDoc /\ SameAnswers' = SameAnswers
  BY <1>2 DEF Current, Committed, Decided, InRound, Saves, AllValid, Valid, Same, SameTree,
              SameDoc, SameAnswers
<1>4. /\ Typed' /\ DocumentsComplete' /\ Prepared' /\ Committing' /\ Undone' /\ Settled'
  BY <1>1, <1>2, <1>3
     DEF IInv, Typed, DocumentsComplete, Prepared, Committing, Undone, Settled
<1>5. Ended'
  BY <1>1, <1>2, <1>3
     DEF IInv, Ended, SuccessIsCurrent, FailureIsAtomic, AnswersSurvive, CheckMutatesNothing,
         Artifacts
<1>6. QED
  BY <1>1, <1>2, <1>3, <1>4, <1>5 DEF IInv

--------------------------------------------------------------------------------
(* Theorems *)

\* What orchestrate.run and _commit_behavior_artifacts keep at every line: what is still
\* as the pass found it, what is decided, and what each copy holds.
THEOREM Invariance == Spec => []IInv
<1>1. IInv /\ [Next]_vars => IInv'
  BY OutsideStep, PrepareStep, ComposerStep, CommitStep, ReturnStep, FailureStep, KillStep,
     StutterStep DEF Next, Work
<1>2. QED
  BY <1>1, InitInvariant, PTL DEF Spec

\* The artifacts, the copies of _commit_behavior_artifacts and the locals of a pass keep
\* their types, and no local outlives its pass.
THEOREM TypeCorrect == Spec => []TypeOK
<1>1. IInv => TypeOK
  BY DEF IInv, Typed, TypeOK, Runs, Outcomes
<1>2. QED
  BY <1>1, Invariance, PTL

\* A pass that publishes, or is skipped by the two hashes of the header, leaves a tree, a
\* document and clarifications that belong together and to the pinned bodies, whatever was
\* killed, rolled back or deferred before.
THEOREM SuccessCurrent == Spec => []SuccessIsCurrent
<1>1. IInv => SuccessIsCurrent
  BY DEF IInv, Ended
<1>2. QED
  BY <1>1, Invariance, PTL

\* When a pass fails, the handlers of _commit_behavior_artifacts have put back all of tree,
\* document and clarifications, or a later step has failed and all of them are new.  The
\* one exception is named: after a Ctrl-C between the renames and the note of them, or a
\* second failing rename, the tree alone is not taken back.
THEOREM FailureAtomic == Spec => []FailureIsAtomic
<1>1. IInv => FailureIsAtomic
  BY DEF IInv, Ended
<1>2. QED
  BY <1>1, Invariance, PTL

\* invalidate and _save drop an answer only when a body that it cites has changed.
THEOREM AnswersKept == Spec => []AnswersSurvive
<1>1. IInv => AnswersSurvive
  BY DEF IInv, Ended
<1>2. QED
  BY <1>1, Invariance, PTL

\* _can_skip finds that nothing has changed since the last publication, through failed,
\* deferred and checking passes and outside publications in between.
THEOREM NoNeedless == Spec => []NoNeedlessCall
<1>1. IInv => NoNeedlessCall
  BY DEF IInv, InRound, NoNeedlessCall
<1>2. QED
  BY <1>1, Invariance, PTL

\* _force_check_build puts every managed artifact back, however the pass has ended.
THEOREM CheckMutates == Spec => []CheckMutatesNothing
<1>1. IInv => CheckMutatesNothing
  BY DEF IInv, Ended
<1>2. QED
  BY <1>1, Invariance, PTL
================================================================================
