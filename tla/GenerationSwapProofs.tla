------------------------- MODULE GenerationSwapProofs --------------------------
(***************************************************************************)
(* What GenerationSwap promises, proved for every set of generations and     *)
(* every number of faults: its type invariant, the inductive invariant IInv  *)
(* (what each program point knows of the three directories), the safety      *)
(* properties that follow from it, and the implementation of AtomicPublish.  *)
(*                                                                          *)
(* Then what a report of ConsistentRead may rely on, for any ids, any number *)
(* of installs, kills and failures, and any number of files read: unless a   *)
(* swap was taken back or a local scope adopted meanwhile, equal ids before  *)
(* and after mean that all files are of one generation.                      *)
(***************************************************************************)
EXTENDS ConsistentRead, TLAPS

\* A generation to which the next install can go back is never cut in pieces.
Visible ==
    /\ live # Partial
    /\ live = Absent => prev # Partial

\* Recovery has run: what it could restore is live.
BeforePublishing ==
    /\ pc \in {"clean", "choose"} /\ live = Absent => prev = Absent
    /\ pc = "choose" => next = Absent
    /\ pc = "prune" => live # Absent

\* Up to rename A the old generation is in place.
BeforeSwap ==
    /\ pc \in {"reset", "write", "dropPrev", "renameA"} =>
          live = base /\ (live = Absent => prev = Absent)
    /\ pc = "write" => ~renameADone /\ (liveExisted <=> live # Absent)
    /\ pc \in {"dropPrev", "renameA"} => live # Absent /\ next = target /\ liveExisted

\* Between the renames, and after them until `.prev` is given up.
Swapped ==
    /\ pc = "renameB" => /\ live = Absent /\ prev = base /\ next = target
                         /\ (liveExisted <=> base # Absent)
                         /\ (renameADone <=> base # Absent)
    /\ pc = "undoA" => live = Absent /\ prev = base /\ base # Absent
    /\ pc \in {"verify", "rollB"} =>
          live = target /\ prev = base /\ next = Absent /\ (liveExisted <=> base # Absent)
    /\ pc = "discard" => live = target /\ next = Absent

\* On the way back: what a failure leaves, and what a refusal has restored.
Unwound ==
    /\ pc = "rollA" => live = Absent /\ prev = base /\ (liveExisted <=> base # Absent)
    /\ pc = "except" => Recovered \in {base, target} /\ (live = Absent => prev = base)
    /\ pc = "except" /\ raised = "callback" =>
          live = base /\ prev = Absent /\ ~renameADone

ProgramPoints ==
    /\ Visible
    /\ base # Partial
    /\ BeforePublishing
    /\ BeforeSwap
    /\ Swapped
    /\ Unwound

IInv == TypeOK /\ ProgramPoints

--------------------------------------------------------------------------------
(* Type correctness *)

LEMMA TypeInit == Init => TypeOK
<1> USE ContentsAssumption, MaxFaultsAssumption
<1> SUFFICES ASSUME Init PROVE TypeOK
  OBVIOUS
<1>1. liveExisted \in BOOLEAN /\ renameADone \in BOOLEAN
  BY DEF Init
<1>2. target \in Generations <=> Publishing
  BY DEF Init, Publishing, PublishingPoints
<1>3. /\ live \in Contents /\ next \in Contents /\ prev \in Contents /\ pc \in Points
      /\ mode \in Modes /\ target \in Generations \cup {Absent} /\ base \in Contents
  BY DEF Init, Contents, Points, Modes
<1>4. /\ raised \in {"none", "callback", "io"}
      /\ verdict \in {"none", "ok", "refused", "broken"}
      /\ faults \in 0..MaxFaults
  BY DEF Init
<1> QED
  BY <1>1, <1>2, <1>3, <1>4 DEF TypeOK

\* The steps after which nothing of a publication remains.
LEMMA LocalsReset ==
  ASSUME TypeOK,
         live' \in Contents, next' \in Contents, prev' \in Contents,
         pc' \in {"idle", "choose"}, mode' \in Modes,
         target' = Absent, base' = Absent,
         liveExisted' = FALSE, renameADone' = FALSE,
         raised' \in {"none", "callback", "io"},
         verdict' \in {"none", "ok", "refused", "broken"},
         faults' \in 0..MaxFaults
  PROVE  TypeOK'
<1>1. liveExisted' \in BOOLEAN /\ renameADone' \in BOOLEAN
  OBVIOUS
<1>2. (target \in Generations)' <=> Publishing'
  BY ContentsAssumption DEF Publishing, PublishingPoints
<1>3. pc' \in Points /\ target' \in Generations \cup {Absent} /\ base' \in Contents
  BY DEF Points, Contents
<1> QED
  BY <1>1, <1>2, <1>3 DEF TypeOK

LEMMA TypeNext == TypeOK /\ [Next]_vars => TypeOK'
<1> SUFFICES ASSUME TypeOK, [Next]_vars PROVE TypeOK'
  OBVIOUS
<1> USE ContentsAssumption, MaxFaultsAssumption
<1> USE DEF TypeOK, Contents, Points, PublishingPoints, Publishing, Modes, dirs, locals
<1>1. CASE StartInstall
  BY <1>1 DEF StartInstall
<1>2. CASE Recovery
  <2>1. CASE RestorePrevious
    BY <2>1 DEF RestorePrevious
  <2>2. CASE CleanNext
    BY <2>2 DEF CleanNext, RemovalStep
  <2>3. CASE FindNoChange
    BY <2>3 DEF FindNoChange
  <2>4. CASE PrunePrevious
    BY <2>4 DEF PrunePrevious, RemovalStep, EndInstall
  <2> QED
    BY <1>2, <2>1, <2>2, <2>3, <2>4 DEF Recovery
<1>3. CASE RefuseInstall \/ FinishInstall
  BY <1>3 DEF RefuseInstall, FinishInstall, EndInstall
<1>4. CASE \E m \in Modes \ {"none"}, g \in Generations : Begin(m, g)
  BY <1>4 DEF Begin
<1>5. CASE Stage
  <2>1. CASE ResetStaging
    <3>1. CASE next = Absent
      <4>1. liveExisted' \in BOOLEAN /\ renameADone' \in BOOLEAN
        BY <2>1, <3>1 DEF ResetStaging
      <4>2. (target \in Generations)' <=> Publishing'
        BY <2>1, <3>1 DEF ResetStaging
      <4> QED
        BY <2>1, <3>1, <4>1, <4>2 DEF ResetStaging
    <3>2. CASE next # Absent
      BY <2>1, <3>2 DEF ResetStaging, RemovalStep
    <3> QED
      BY <3>1, <3>2
  <2>2. CASE WriteStaging
    BY <2>2 DEF WriteStaging
  <2>3. CASE DropStalePrev
    BY <2>3 DEF DropStalePrev, RemovalStep
  <2> QED
    BY <1>5, <2>1, <2>2, <2>3 DEF Stage
<1>6. CASE Swap
  <2>1. CASE RenameA
    BY <2>1 DEF RenameA
  <2>2. CASE RenameB
    BY <2>2 DEF RenameB
  <2>3. CASE UndoRenameA
    BY <2>3 DEF UndoRenameA
  <2>4. CASE VerifyPasses \/ VerifyRaises
    BY <2>4 DEF VerifyPasses, VerifyRaises
  <2> QED
    BY <1>6, <2>1, <2>2, <2>3, <2>4 DEF Swap
<1>7. CASE Unwind
  <2>1. CASE RollBackB
    BY <2>1 DEF RollBackB
  <2>2. CASE RollBackA
    BY <2>2 DEF RollBackA
  <2>3. CASE DiscardPrev
    <3>1. CASE prev = Absent
      BY <2>3, <3>1, LocalsReset DEF DiscardPrev
    <3>2. CASE prev # Absent
      BY <2>3, <3>2 DEF DiscardPrev, RemovalStep
    <3> QED
      BY <3>1, <3>2
  <2>4. CASE HandleException
    <3>1. CASE HandlerRemovesNext
      BY <2>4, <3>1 DEF HandleException, RemovalStep
    <3>2. CASE ~HandlerRemovesNext
      BY <2>4, <3>2, LocalsReset DEF HandleException, EndPublication
    <3> QED
      BY <3>1, <3>2
  <2> QED
    BY <1>7, <2>1, <2>2, <2>3, <2>4 DEF Unwind
<1>8. CASE Failure
  <2>1. CASE ResetStagingFails \/ HandlerFails
    <3>1. faults' \in 0..MaxFaults
      BY <2>1 DEF ResetStagingFails, HandlerFails
    <3>2. next' \in Contents /\ live' = live /\ prev' = prev
      BY <2>1 DEF ResetStagingFails, HandlerFails
    <3> HIDE DEF TypeOK
    <3>3. EndPublication("broken")
      BY <2>1 DEF ResetStagingFails, HandlerFails
    <3> QED
      BY <3>1, <3>2, <3>3, LocalsReset DEF TypeOK, EndPublication
  <2>2. CASE WriteStagingFails \/ DropStalePrevFails \/ DiscardPrevFails
    BY <2>2 DEF WriteStagingFails, DropStalePrevFails, DiscardPrevFails, Raise
  <2>3. CASE RenameAFails \/ RenameBFails \/ RenameBSyncFails \/ UndoRenameAFails
    BY <2>3 DEF RenameAFails, RenameBFails, RenameBSyncFails, UndoRenameAFails, Raise
  <2>4. CASE RollBackBFails \/ RollBackAFails
    BY <2>4 DEF RollBackBFails, RollBackAFails, Raise
  <2> QED
    BY <1>8, <2>1, <2>2, <2>3, <2>4 DEF Failure
<1>9. CASE Crash
  <2>1. faults' \in 0..MaxFaults /\ verdict' \in {"none", "ok", "refused", "broken"}
    BY <1>9 DEF Crash
  <2>2. live' = live /\ next' = next /\ prev' = prev
    BY <1>9 DEF Crash
  <2> QED
    BY <1>9, <2>1, <2>2, LocalsReset DEF Crash
<1>10. CASE UNCHANGED vars
  BY <1>10 DEF vars
<1> QED
  BY <1>1, <1>2, <1>3, <1>4, <1>5, <1>6, <1>7, <1>8, <1>9, <1>10 DEF Next, Work

\* Every state has the types of TypeOK, and a target is set exactly while a
\* publication is under way (the locals of publish_generation do not leak).
THEOREM TypeCorrect == Spec => []TypeOK
  BY TypeInit, TypeNext, PTL DEF Spec

--------------------------------------------------------------------------------
(* The inductive invariant *)

LEMMA InvInit == Init => IInv
<1> SUFFICES ASSUME Init PROVE ProgramPoints
  BY TypeInit DEF IInv
<1> QED
  BY ContentsAssumption
  DEF Init, ProgramPoints, Visible, BeforePublishing, BeforeSwap, Swapped, Unwound

LEMMA InvNext == IInv /\ [Next]_vars => IInv'
<1> SUFFICES ASSUME IInv, [Next]_vars PROVE ProgramPoints'
  BY TypeNext DEF IInv
<1>0. TypeOK'
  BY TypeNext DEF IInv
<1> USE ContentsAssumption
<1> USE DEF IInv, ProgramPoints, Visible, BeforePublishing, BeforeSwap, Swapped, Unwound,
            Recovered
<1>1. CASE StartInstall
  BY <1>1 DEF StartInstall, locals
<1>2. CASE Recovery
  <2>1. CASE RestorePrevious
    BY <2>1 DEF RestorePrevious, locals
  <2>2. CASE CleanNext
    BY <2>2 DEF CleanNext, RemovalStep, locals
  <2>3. CASE FindNoChange
    BY <2>3 DEF FindNoChange, locals
  <2>4. CASE PrunePrevious
    BY <2>4 DEF PrunePrevious, RemovalStep, EndInstall, locals
  <2> QED
    BY <1>2, <2>1, <2>2, <2>3, <2>4 DEF Recovery
<1>3. CASE RefuseInstall \/ FinishInstall
  BY <1>3 DEF RefuseInstall, FinishInstall, EndInstall
<1>4. CASE \E m \in Modes \ {"none"}, g \in Generations : Begin(m, g)
  BY <1>4 DEF Begin
<1>5. CASE Stage
  <2>1. CASE ResetStaging
    BY <2>1 DEF ResetStaging, RemovalStep
  <2>2. CASE WriteStaging
    <3>1. pc = "write" /\ live = base /\ ~renameADone /\ (liveExisted <=> live # Absent)
      BY <2>2 DEF WriteStaging
    <3>2. CASE live = Absent
      BY <2>2, <3>1, <3>2 DEF WriteStaging, locals
    <3>3. CASE live # Absent
      BY <2>2, <3>1, <3>3 DEF WriteStaging, locals
    <3> QED
      BY <3>2, <3>3
  <2>3. CASE DropStalePrev
    BY <2>3 DEF DropStalePrev, RemovalStep, locals
  <2> QED
    BY <1>5, <2>1, <2>2, <2>3 DEF Stage
<1>6. CASE Swap
  <2>1. CASE RenameA
    BY <2>1 DEF RenameA
  <2>2. CASE RenameB
    BY <2>2 DEF RenameB, locals, TypeOK, Publishing, PublishingPoints
  <2>3. CASE UndoRenameA
    BY <2>3 DEF UndoRenameA
  <2>4. CASE VerifyPasses
    BY <2>4 DEF VerifyPasses, locals
  <2>5. CASE VerifyRaises
    BY <2>5 DEF VerifyRaises, locals
  <2> QED
    BY <1>6, <2>1, <2>2, <2>3, <2>4, <2>5 DEF Swap
<1>7. CASE Unwind
  <2>1. CASE RollBackB
    BY <2>1 DEF RollBackB, locals, TypeOK, Publishing, PublishingPoints
  <2>2. CASE RollBackA
    BY <2>2 DEF RollBackA
  <2>3. CASE DiscardPrev
    BY <2>3 DEF DiscardPrev, RemovalStep, TypeOK, Publishing, PublishingPoints
  <2>4. CASE HandleException
    BY <2>4 DEF HandleException, RemovalStep, EndPublication, locals
  <2> QED
    BY <1>7, <2>1, <2>2, <2>3, <2>4 DEF Unwind
<1>8. CASE Failure
  <2>1. CASE ResetStagingFails \/ HandlerFails
    BY <2>1 DEF ResetStagingFails, HandlerFails, EndPublication
  <2>2. CASE WriteStagingFails \/ DropStalePrevFails
    BY <2>2 DEF WriteStagingFails, DropStalePrevFails, Raise, locals
  <2>3. CASE RenameAFails
    BY <2>3 DEF RenameAFails, Raise, dirs, locals
  <2>4. CASE RenameBFails
    BY <2>4 DEF RenameBFails, locals
  <2>5. CASE RenameBSyncFails
    BY <2>5 DEF RenameBSyncFails, Raise, locals, TypeOK, Publishing, PublishingPoints
  <2>6. CASE UndoRenameAFails
    BY <2>6 DEF UndoRenameAFails, Raise, dirs, locals
  <2>7. CASE RollBackBFails \/ RollBackAFails
    BY <2>7 DEF RollBackBFails, RollBackAFails, Raise, dirs, locals
  <2>8. CASE DiscardPrevFails
    BY <2>8 DEF DiscardPrevFails, Raise, locals, TypeOK, Publishing, PublishingPoints
  <2> QED
    BY <1>8, <2>1, <2>2, <2>3, <2>4, <2>5, <2>6, <2>7, <2>8 DEF Failure
<1>9. CASE Crash
  BY <1>9 DEF Crash, dirs
<1>10. CASE UNCHANGED vars
  BY <1>10 DEF vars
<1> QED
  BY <1>1, <1>2, <1>3, <1>4, <1>5, <1>6, <1>7, <1>8, <1>9, <1>10 DEF Next, Work

LEMMA Invariant == Spec => []IInv
  BY InvInit, InvNext, PTL DEF Spec

--------------------------------------------------------------------------------
(* The safety properties *)

LEMMA InvOldOrNew == IInv => OldOrNew
  BY ContentsAssumption
  DEF IInv, TypeOK, ProgramPoints, BeforeSwap, Swapped, Unwound, OldOrNew, Publishing,
         PublishingPoints, Recovered

\* No reader of `.spaex` finds a directory with files missing, whatever process
\* is killed and whatever call fails (publish_generation writes and removes the
\* tree under other names only).
THEOREM LiveWhole == Spec => []LiveIsWhole
<1>1. IInv => LiveIsWhole
  BY DEF IInv, ProgramPoints, Visible, LiveIsWhole
<1> QED
  BY <1>1, Invariant, PTL

\* While publish_generation or stage_generation runs, a recovery would find the
\* old or the new generation.
THEOREM OldOrNewFound == Spec => []OldOrNew
  BY Invariant, InvOldOrNew, PTL

LEMMA RecoveredGeneration ==
  ASSUME IInv, IInv', base' = base, Publishing', Publishing => base # Absent
  PROVE  Publishing => Recovered' \in Generations
<1> SUFFICES ASSUME Publishing PROVE Recovered' \in Generations
  OBVIOUS
<1>1. Recovered' \in {base', target'}
  <2>1. OldOrNew'
    BY InvOldOrNew, PTL
  <2> QED
    BY <2>1 DEF OldOrNew
<1>2. target' \in Generations /\ base' \in Generations
  BY ContentsAssumption DEF IInv, TypeOK, ProgramPoints, Contents
<1> QED
  BY <1>1, <1>2

\* The step that takes a generation away before another is current is not there
\* (restore_previous_generation, and the order of the two renames).
THEOREM NothingIsLost == Spec => NothingLost
<1>1. ASSUME IInv, IInv', [Next]_vars, Publishing => base # Absent,
             Recovered \in Generations
      PROVE  Recovered' \in Generations
  <2> USE <1>1, ContentsAssumption
  <2>1. CASE live' = live /\ prev' = prev
    BY <2>1 DEF Recovered
  <2>2. CASE Publishing /\ Publishing' /\ base' = base
    BY <2>2, RecoveredGeneration
  <2>3. CASE Recovery
    BY <2>3 DEF Recovery, RestorePrevious, CleanNext, FindNoChange, PrunePrevious,
                RemovalStep, EndInstall, Recovered, IInv, ProgramPoints, BeforePublishing
  <2>4. CASE StartInstall \/ RefuseInstall \/ FinishInstall \/ Crash \/ UNCHANGED vars
    BY <2>1, <2>4 DEF StartInstall, RefuseInstall, FinishInstall, EndInstall, Crash, dirs, vars
  <2>5. CASE \E m \in Modes \ {"none"}, g \in Generations : Begin(m, g)
    BY <2>1, <2>5 DEF Begin
  <2>6. CASE Stage
    BY <2>2, <2>6 DEF Stage, ResetStaging, WriteStaging, DropStalePrev, Publishing,
                      PublishingPoints, locals
  <2>7. CASE Swap
    BY <2>2, <2>7 DEF Swap, RenameA, RenameB, UndoRenameA, VerifyPasses, VerifyRaises,
                      Publishing, PublishingPoints, locals
  <2>8. CASE Unwind
    <3>1. CASE RollBackB \/ RollBackA
      BY <2>2, <3>1 DEF RollBackB, RollBackA, Publishing, PublishingPoints, locals
    <3>2. CASE HandleException
      BY <2>1, <3>2 DEF HandleException
    <3>3. CASE DiscardPrev
      BY <2>1, <2>2, <3>3 DEF DiscardPrev, Publishing, PublishingPoints
    <3> QED
      BY <2>8, <3>1, <3>2, <3>3 DEF Unwind
  <2>9. CASE Failure
    <3>1. CASE ResetStagingFails \/ HandlerFails
      BY <2>1, <3>1 DEF ResetStagingFails, HandlerFails
    <3>2. CASE WriteStagingFails \/ DropStalePrevFails \/ DiscardPrevFails
      BY <2>2, <3>2 DEF WriteStagingFails, DropStalePrevFails, DiscardPrevFails, Raise,
                        Publishing, PublishingPoints, locals
    <3>3. CASE RenameAFails \/ RenameBFails \/ RenameBSyncFails \/ UndoRenameAFails
      BY <2>2, <3>3 DEF RenameAFails, RenameBFails, RenameBSyncFails, UndoRenameAFails,
                        Raise, Publishing, PublishingPoints, locals
    <3>4. CASE RollBackBFails \/ RollBackAFails
      BY <2>2, <3>4 DEF RollBackBFails, RollBackAFails, Raise, Publishing,
                        PublishingPoints, locals
    <3> QED
      BY <2>9, <3>1, <3>2, <3>3, <3>4 DEF Failure
  <2> QED
    BY <2>3, <2>4, <2>5, <2>6, <2>7, <2>8, <2>9 DEF Next, Work
<1>2. IInv /\ IInv' /\ [Next]_vars =>
        [(Publishing => base # Absent) /\ Recovered \in Generations
           => Recovered' \in Generations]_vars
  BY <1>1
<1> QED
  BY <1>2, Invariant, PTL DEF Spec, NothingLost

\* A publication begins with the recovered generation live and without the
\* staging directory of a killed install (the first calls of install.run).
THEOREM RecoveryComesFirst == Spec => RecoveryFirst
<1>1. IInv /\ [Next]_vars => [pc = "choose" /\ pc' = "reset" => live = Recovered /\ next = Absent]_vars
  BY DEF IInv, ProgramPoints, BeforePublishing, Recovered
<1> QED
  BY <1>1, Invariant, PTL DEF Spec, RecoveryFirst

\* What a refusal (a hook, the verification) undoes, it undoes completely: the
\* old generation is live and neither sibling is left (_rollback_swap and the
\* handlers of publish_generation and stage_generation).
THEOREM RefusalIsUndone == Spec => RefusalRestores
<1>1. ASSUME IInv, Next, verdict' = "refused", Publishing, ~Publishing'
      PROVE  HandleException /\ raised = "callback"
  <2> USE <1>1 DEF Publishing, PublishingPoints
  <2>1. ~Recovery /\ ~StartInstall /\ ~RefuseInstall /\ ~FinishInstall
    BY DEF Recovery, RestorePrevious, CleanNext, FindNoChange, PrunePrevious, StartInstall,
           RefuseInstall, FinishInstall
  <2>2. ~(\E m \in Modes \ {"none"}, g \in Generations : Begin(m, g))
    BY DEF Begin
  <2>3. ~Stage /\ ~Swap
    BY DEF Stage, ResetStaging, WriteStaging, DropStalePrev, Swap, RenameA, RenameB,
           UndoRenameA, VerifyPasses, VerifyRaises
  <2>4. ~Failure
    BY DEF Failure, ResetStagingFails, WriteStagingFails, DropStalePrevFails, RenameAFails,
           RenameBFails, RenameBSyncFails, UndoRenameAFails, RollBackBFails, RollBackAFails,
           DiscardPrevFails, HandlerFails, Raise, EndPublication
  <2>5. ~Crash
    BY DEF Crash
  <2>6. Unwind
    BY <2>1, <2>2, <2>3, <2>4, <2>5 DEF Next, Work
  <2> QED
    BY <2>6 DEF Unwind, RollBackB, RollBackA, DiscardPrev, HandleException, EndPublication
<1>2. ASSUME IInv, HandleException, raised = "callback", ~Publishing'
      PROVE  live' = base /\ next' = Absent /\ (base # Absent => prev' = Absent)
  BY <1>2 DEF HandleException, HandlerRemovesNext, IInv, ProgramPoints, Unwound, Publishing,
              PublishingPoints
<1>3. IInv /\ [Next]_vars =>
        [verdict' = "refused" /\ Publishing /\ ~Publishing' =>
           live' = base /\ next' = Absent /\ (base # Absent => prev' = Absent)]_vars
  BY <1>1, <1>2
<1> QED
  BY <1>3, Invariant, PTL DEF Spec, RefusalRestores

--------------------------------------------------------------------------------
(* Publication by rename implements AtomicPublish *)

Attempt == IF Publishing THEN [from |-> base, to |-> target]
                         ELSE [from |-> Absent, to |-> Absent]

\* The abstract steps, in terms of this module.
LEMMA AbstractSteps ==
  ASSUME IInv
  PROVE  /\ Recovered' = Recovered /\ Attempt' = Attempt /\ verdict' = verdict
            => UNCHANGED Abs!vars
         /\ Publishing /\ Publishing' /\ base' = base /\ target' = target
            /\ verdict' = verdict /\ Recovered' \in {base, target}
            => [Abs!Next]_(Abs!vars)
         /\ Publishing /\ ~Publishing' /\ Recovered' = Recovered /\ verdict' = "broken"
            => Abs!BreakOff
<1> USE DEF Attempt, Abs!vars, Abs!Next, Abs!NoAttempt
<1>1. Publishing => [from |-> base, to |-> target] # [from |-> Absent, to |-> Absent]
  BY ContentsAssumption DEF IInv, TypeOK
<1>2. Publishing => Recovered \in {base, target}
  BY InvOldOrNew DEF OldOrNew
<1>3. Recovered' = Recovered /\ Attempt' = Attempt /\ verdict' = verdict
        => UNCHANGED Abs!vars
  OBVIOUS
<1>4. Publishing /\ Publishing' /\ base' = base /\ target' = target
        /\ verdict' = verdict /\ Recovered' \in {base, target}
        => [Abs!Next]_(Abs!vars)
  <2> SUFFICES ASSUME Publishing, Publishing', base' = base, target' = target,
                      verdict' = verdict, Recovered' \in {base, target}
               PROVE  [Abs!Next]_(Abs!vars)
    OBVIOUS
  <2>1. CASE Recovered' = Recovered
    BY <2>1
  <2>2. CASE Recovered = base /\ Recovered' = target
    BY <1>1, <2>2 DEF Abs!Switch
  <2>3. CASE Recovered = target /\ Recovered' = base
    BY <1>1, <2>3 DEF Abs!SwitchBack
  <2> QED
    BY <1>2, <2>1, <2>2, <2>3
<1>5. Publishing /\ ~Publishing' /\ Recovered' = Recovered /\ verdict' = "broken"
        => Abs!BreakOff
  BY <1>1 DEF Abs!BreakOff
<1> QED
  BY <1>3, <1>4, <1>5

LEMMA AbstractNext == IInv /\ IInv' /\ [Next]_vars => [Abs!Next]_(Abs!vars)
<1> SUFFICES ASSUME IInv, IInv', [Next]_vars PROVE [Abs!Next]_(Abs!vars)
  OBVIOUS
<1>0. Publishing => Recovered \in {base, target}
  BY InvOldOrNew DEF OldOrNew
<1>00. Publishing' => Recovered' \in {base', target'}
  <2>1. OldOrNew'
    BY InvOldOrNew, PTL
  <2> QED
    BY <2>1 DEF OldOrNew
\* Between publications nothing of the abstract state changes.
<1>1. CASE ~Publishing /\ ~Publishing' /\ Recovered' = Recovered /\ verdict' = verdict
  BY <1>1, AbstractSteps DEF Attempt
\* Within one, the current generation is the old one or the new one.
<1>2. CASE Publishing /\ Publishing' /\ base' = base /\ target' = target /\ verdict' = verdict
  BY <1>00, <1>2, AbstractSteps
<1>3. CASE Publishing /\ ~Publishing' /\ Recovered' = Recovered /\ verdict' = "broken"
  BY <1>3, AbstractSteps DEF Abs!Next
<1> USE DEF Publishing, PublishingPoints
<1>4. CASE StartInstall \/ RefuseInstall \/ FinishInstall \/ Recovery
  <2> USE DEF Recovered, locals, EndInstall
  <2>1. CASE StartInstall \/ RefuseInstall \/ FinishInstall
    BY <1>1, <2>1 DEF StartInstall, RefuseInstall, FinishInstall
  <2>2. CASE Recovery
    BY <1>1, <2>2 DEF Recovery, RestorePrevious, CleanNext, FindNoChange, PrunePrevious,
                      RemovalStep, IInv, ProgramPoints, BeforePublishing
  <2> QED
    BY <1>4, <2>1, <2>2
<1>5. CASE \E m \in Modes \ {"none"}, g \in Generations : Begin(m, g)
  <2>1. PICK m \in Modes \ {"none"}, g \in Generations : Begin(m, g)
    BY <1>5
  <2>2. Recovered = live
    BY <2>1 DEF Begin, Recovered, IInv, ProgramPoints, BeforePublishing
  <2>3. Abs!Open(g)
    BY <2>1, <2>2 DEF Begin, Abs!Open, Abs!NoAttempt, Recovered
  <2> QED
    BY <2>3 DEF Abs!Next
<1>6. CASE Stage \/ Swap
  BY <1>2, <1>6 DEF Stage, ResetStaging, WriteStaging, DropStalePrev, Swap, RenameA, RenameB,
                    UndoRenameA, VerifyPasses, VerifyRaises, locals
<1>7. CASE RollBackB \/ RollBackA
  BY <1>2, <1>7 DEF RollBackB, RollBackA, locals
<1>8. CASE DiscardPrev
  <2>1. CASE prev # Absent
    BY <1>2, <1>8, <2>1 DEF DiscardPrev
  <2>2. CASE prev = Absent
    <3>1. Recovered = target /\ Recovered' = Recovered
      BY <1>8, <2>2, ContentsAssumption
      DEF DiscardPrev, Recovered, IInv, TypeOK, ProgramPoints, Swapped
    <3>2. [from |-> base, to |-> target] # [from |-> Absent, to |-> Absent]
      BY <1>8, ContentsAssumption DEF DiscardPrev, IInv, TypeOK
    <3>3. Abs!Commit
      BY <1>8, <2>2, <3>1, <3>2 DEF DiscardPrev, Abs!Commit, Abs!NoAttempt
    <3> QED
      BY <3>3 DEF Abs!Next
  <2> QED
    BY <2>1, <2>2
<1>9. CASE HandleException
  <2>1. CASE HandlerRemovesNext
    BY <1>2, <1>9, <2>1 DEF HandleException, locals
  <2>2. CASE ~HandlerRemovesNext /\ raised # "callback"
    BY <1>3, <1>9, <2>2 DEF HandleException, EndPublication, Recovered
  <2>3. CASE ~HandlerRemovesNext /\ raised = "callback"
    <3>1. Recovered = base /\ Recovered' = Recovered
      BY <1>9, <2>3 DEF HandleException, Recovered, IInv, ProgramPoints, Unwound
    <3>2. [from |-> base, to |-> target] # [from |-> Absent, to |-> Absent]
      BY <1>9, ContentsAssumption DEF HandleException, IInv, TypeOK
    <3>3. Abs!Refuse
      BY <1>9, <2>3, <3>1, <3>2
      DEF HandleException, EndPublication, Abs!Refuse, Abs!NoAttempt
    <3> QED
      BY <3>3 DEF Abs!Next
  <2> QED
    BY <2>1, <2>2, <2>3
<1>10. CASE Failure
  <2>1. CASE ResetStagingFails \/ HandlerFails
    BY <1>3, <2>1 DEF ResetStagingFails, HandlerFails, EndPublication, Recovered
  <2>2. CASE WriteStagingFails \/ DropStalePrevFails \/ DiscardPrevFails
    BY <1>2, <2>2 DEF WriteStagingFails, DropStalePrevFails, DiscardPrevFails, Raise, locals
  <2>3. CASE RenameAFails \/ RenameBFails \/ RenameBSyncFails \/ UndoRenameAFails
    BY <1>2, <2>3 DEF RenameAFails, RenameBFails, RenameBSyncFails, UndoRenameAFails, Raise,
                      locals
  <2>4. CASE RollBackBFails \/ RollBackAFails
    BY <1>2, <2>4 DEF RollBackBFails, RollBackAFails, Raise, locals
  <2> QED
    BY <1>10, <2>1, <2>2, <2>3, <2>4 DEF Failure
<1>11. CASE Crash
  BY <1>1, <1>3, <1>11 DEF Crash, Recovered, dirs
<1>12. CASE UNCHANGED vars
  BY <1>12, AbstractSteps DEF vars, Attempt, Recovered
<1> QED
  BY <1>4, <1>5, <1>6, <1>7, <1>8, <1>9, <1>10, <1>11, <1>12 DEF Next, Work, Unwind

\* The rename swap, with kills and failing calls at every step, implements the
\* atomic publication: a recovery sees the current generation switch from the
\* old to the new one and, when the publication is refused, back.
THEOREM SwapIsAtomic == Spec => AbstractSpec
<1>1. Init => Abs!Init
  BY ContentsAssumption DEF Init, Abs!Init, Abs!NoAttempt, Recovered, Publishing, PublishingPoints
<1> QED
  BY <1>1, AbstractNext, Invariant, PTL DEF Spec, AbstractSpec, Abs!Spec

--------------------------------------------------------------------------------
(* The reports of ConsistentRead *)

Ids == [project : Nat, local : Nat]

\* The ids of the generation that is current now: also between the renames, when a
\* reader finds nothing.
Now == IdsOf(Recovered)

\* Local ids in the order in which a checkout has them: growing, and then none any
\* more, until a molecule is adopted again.
Later(a, b) == b = 0 \/ (a # 0 /\ a <= b)

UpTo(a, b) == a.project <= b.project /\ Later(a.local, b.local)

\* The same of an id that a reader has: a local id of 0 tells it nothing.
Since(a, b) == a.project <= b.project /\ (a.local # 0 => Later(a.local, b.local))

--------------------------------------------------------------------------------
(* The installs: what a step that rewinds nothing does to the ids *)

\* The generation under way has other ids than the one that it replaces, and later ones
\* unless the local scope is adopted.
Fresh ==
    pc \in {"reset", "write", "dropPrev", "renameA", "renameB"} =>
        /\ IdsOf(base) # target
        /\ UpTo(IdsOf(base), target) \/ (mode = "local" /\ base.local = 0)

InstallInv == IInv /\ Fresh

LEMMA IdsOfTree ==
  ASSUME NEW tree \in Generations \cup {Absent}
  PROVE  IdsOf(tree) \in Ids
  BY GenerationIdsAssumption DEF IdsOf, Ids, NoId

LEMMA Grows ==
  ASSUME NEW a \in Ids, NEW b \in Ids, NEW c \in Ids
  PROVE  /\ UpTo(a, a) /\ (UpTo(a, b) /\ UpTo(b, c) => UpTo(a, c))
         /\ (Since(a, b) /\ UpTo(b, c) => Since(a, c))
  BY DEF UpTo, Since, Later, Ids

LEMMA NowIsIds ==
  /\ IInv => Now \in Ids
  /\ IInv' => Now' \in Ids
<1>1. IInv => Recovered \in Generations \cup {Absent}
  BY ContentsAssumption DEF IInv, TypeOK, Contents, ProgramPoints, Visible, Recovered
<1>2. IInv' => Recovered' \in Generations \cup {Absent}
  BY ContentsAssumption DEF IInv, TypeOK, Contents, ProgramPoints, Visible, Recovered
<1> QED
  BY <1>1, <1>2, IdsOfTree DEF Now

LEMMA InstallInit == Init => InstallInv
  BY InvInit DEF Init, InstallInv, Fresh

LEMMA InstallIdle == InstallInv /\ UNCHANGED vars => InstallInv'
<1> SUFFICES ASSUME InstallInv, UNCHANGED vars PROVE InstallInv'
  OBVIOUS
<1>1. IInv'
  BY InvNext DEF InstallInv
<1> QED
  BY <1>1 DEF InstallInv, Fresh, vars

\* A step other than Begin and a change of the live tree at rename B keeps Fresh, and
\* leaves the current generation alone or rewinds.
Quiet ==
    /\ Fresh'
    /\ UNCHANGED Now \/ Rewinds
    /\ live = Absent /\ live' # Absent => Rewinds

\* At rename B the generation under way becomes the current one.
Switches ==
    /\ Fresh'
    /\ pc = "renameB" /\ live = Absent /\ prev = base /\ live' = target
    /\ target \in Generations

LEMMA InstallSteps ==
  ASSUME InstallInv, Next
  PROVE  Quiet \/ Switches \/ \E m \in Modes \ {"none"}, g \in Generations : Begin(m, g)
<1> USE MaxFaultsAssumption, ContentsAssumption
<1> USE DEF InstallInv, Fresh, Now, Recovered, IInv, ProgramPoints, Quiet, Rewinds
<1>1. CASE StartInstall \/ RefuseInstall \/ FinishInstall
  BY <1>1 DEF StartInstall, RefuseInstall, FinishInstall, EndInstall, locals
<1>2. CASE RestorePrevious
  BY <1>2 DEF RestorePrevious, locals
<1>3. CASE CleanNext \/ FindNoChange
  BY <1>3 DEF CleanNext, FindNoChange, RemovalStep, locals
<1>4. CASE PrunePrevious
  BY <1>4 DEF PrunePrevious, EndInstall, RemovalStep, locals, BeforePublishing
<1>5. CASE ResetStaging \/ DropStalePrev
  BY <1>5 DEF ResetStaging, DropStalePrev, RemovalStep, locals, BeforeSwap
<1>6. CASE WriteStaging
  BY <1>6 DEF WriteStaging, locals, BeforeSwap
<1>7. CASE ResetStagingFails \/ WriteStagingFails \/ DropStalePrevFails
  BY <1>7 DEF ResetStagingFails, WriteStagingFails, DropStalePrevFails, EndPublication,
    Raise, BeforeSwap, locals
<1>8. CASE RenameA
  BY <1>8 DEF RenameA, BeforeSwap
<1>9. CASE RenameAFails
  BY <1>9 DEF RenameAFails, Raise, BeforeSwap, locals, dirs
<1>10. CASE RenameB \/ RenameBSyncFails
  <2>1. /\ pc = "renameB" /\ pc' \in {"verify", "except"} /\ live = Absent /\ prev = base
        /\ live' = target /\ target \in Generations
    BY <1>10 DEF RenameB, RenameBSyncFails, Raise, Swapped, TypeOK, Publishing,
      PublishingPoints
  <2> QED
    BY <2>1 DEF Switches
<1>11. CASE RenameBFails \/ VerifyPasses \/ VerifyRaises
  BY <1>11 DEF RenameBFails, VerifyPasses, VerifyRaises, locals, Swapped
<1>12. CASE UndoRenameA \/ UndoRenameAFails
  BY <1>12 DEF UndoRenameA, UndoRenameAFails, Raise, dirs, locals, Swapped
<1>13. CASE RollBackB \/ RollBackBFails
  BY <1>13 DEF RollBackB, RollBackBFails, Raise, dirs, locals, Swapped
<1>14. CASE RollBackA \/ RollBackAFails
  BY <1>14 DEF RollBackA, RollBackAFails, Raise, dirs, locals, Unwound
<1>15. CASE DiscardPrev \/ DiscardPrevFails
  BY <1>15 DEF DiscardPrev, DiscardPrevFails, Raise, RemovalStep, locals, Swapped, TypeOK,
    Publishing, PublishingPoints
<1>16. CASE HandleException \/ HandlerFails
  BY <1>16 DEF HandleException, HandlerFails, EndPublication, RemovalStep, locals
<1>17. CASE Crash
  BY <1>17 DEF Crash, dirs
<1> QED
  BY <1>1, <1>2, <1>3, <1>4, <1>5, <1>6, <1>7, <1>8, <1>9, <1>10, <1>11, <1>12, <1>13, <1>14,
     <1>15, <1>16, <1>17
  DEF Next, Work, Recovery, Stage, Swap, Unwind, Failure

\* Unless the step rewinds, ids go on, and a missing tree comes back with other ones.
LEMMA InstallNext ==
  ASSUME InstallInv, InstallStep
  PROVE  /\ InstallInv'
         /\ ~Rewinds => /\ UpTo(Now, Now')
                        /\ live = Absent => live' = Absent \/ Now # Now'
<1>1. Next /\ IInv /\ IInv'
  BY InvNext DEF InstallInv, InstallStep
<1>2. Now \in Ids /\ Now' \in Ids
  BY <1>1, NowIsIds
<1>3. CASE Quiet
  BY <1>1, <1>2, <1>3, Grows DEF Quiet, InstallInv
<1>4. CASE Switches
  <2>1. Now = IdsOf(base) /\ Now' = target /\ Fresh' /\ pc = "renameB" /\ live' # live
    BY <1>4, ContentsAssumption DEF Switches, Now, Recovered, IdsOf
  <2>2. Now # Now' /\ (~Rewinds => UpTo(Now, Now'))
    BY <2>1 DEF InstallInv, Fresh, Rewinds
  <2> QED
    BY <1>1, <2>1, <2>2 DEF InstallInv
<1>5. ASSUME NEW m \in Modes \ {"none"}, NEW g \in Generations, Begin(m, g)
      PROVE  InstallInv' /\ UNCHANGED <<Now, live>>
  <2>1. /\ pc = "choose" /\ pc' = "reset" /\ mode' = m /\ target' = g /\ base' = live
        /\ UNCHANGED <<live, prev>> /\ (m = "local" => live # Absent)
    BY <1>5 DEF Begin
  <2>2. Allocated(m, g)
    BY <2>1 DEF InstallStep
  <2>3. live \in Generations \cup {Absent}
    BY <1>1 DEF IInv, TypeOK, Contents, ProgramPoints, Visible
  <2>4. IdsOf(live) \in Ids /\ g \in Ids
    BY <2>3, IdsOfTree, GenerationIdsAssumption DEF Ids
  <2>5. /\ IdsOf(live) # g
        /\ UpTo(IdsOf(live), g) \/ (m = "local" /\ live.local = 0)
    <3>1. CASE m = "local"
      BY <2>1, <2>2, <2>4, <3>1 DEF Allocated, UpTo, Later, IdsOf, Ids
    <3>2. CASE m # "local"
      BY <2>2, <2>4, <3>2 DEF Allocated, UpTo, Later, Ids
    <3> QED
      BY <3>1, <3>2
  <2> QED
    BY <1>1, <2>1, <2>5 DEF InstallInv, Fresh, Now, Recovered
<1> QED
  BY <1>1, <1>2, <1>3, <1>4, <1>5, InstallSteps, Grows

--------------------------------------------------------------------------------
(* The reader *)

Found == seen \ {Absent}

ReaderTypes ==
    /\ rpc \in {"idle", "exists", "bytes", "local", "build"}
    /\ confirming \in BOOLEAN /\ rewound \in BOOLEAN
    /\ lock \in Nat /\ firstId \in Ids /\ reads \in 0..Reads
    /\ \A g \in Found : g \in Generations

\* The first id was read from locks on disk.
Sealed == firstId.project # 0 /\ (LocalScopeInUse => firstId.local # 0)

\* What has been read is of the past: nothing read is newer than what is current,
\* and no file is older than the first id.
Past ==
    /\ lock <= Now.project /\ Since(firstId, Now)
    /\ \A g \in Found : Since(firstId, g) /\ UpTo(g, Now)

\* A file was missed in a swap which is not over, or has changed the ids.
GapNoticed ==
    Absent \in seen /\ Sealed =>
        live = Absent \/ firstId.project < Now.project \/ firstId.local # Now.local

\* The second lock was read after all files.
Confirmed ==
    confirming /\ rpc = "local" /\ lock # 0 =>
        /\ \A g \in Found : g.project <= lock
        /\ Absent \in seen /\ Sealed =>
              firstId.project < lock \/ firstId.local # Now.local

\* A report has read something, at least the manifest.
HasRead == confirming \/ (rpc = "build" /\ reads < Reads) => Found # {}

AtRest == (rpc = "idle" => ~confirming) /\ (outcome = "report" => rpc = "idle")

ReaderInv ==
    /\ ReaderTypes /\ HasRead /\ AtRest
    /\ ~rewound => Past /\ GapNoticed /\ Confirmed
    /\ SealedReportIsUntorn

Inv == InstallInv /\ ReaderInv

LEMMA ReadsInRange == 0 \in 0..Reads /\ Reads \in 0..Reads /\ Reads # 0
  BY ReadsAssumption

LEMMA NothingRead ==
  /\ IInv /\ lock = 0 /\ firstId = NoId /\ seen = {} => Past
  /\ IInv' /\ lock' = 0 /\ firstId' = NoId /\ seen' = {} => Past'
<1>1. NoId.project = 0 /\ NoId.local = 0
  BY DEF NoId
<1> QED
  BY <1>1, NowIsIds DEF Past, Found, Since, Ids

LEMMA ReaderInit == ReadInit => ReaderInv
<1> SUFFICES ASSUME ReadInit PROVE ReaderInv
  OBVIOUS
<1>1. NoId \in Ids
  BY DEF NoId, Ids
<1>2. Past
  BY InstallInit, NothingRead DEF ReadInit, InstallInv
<1>3. ReaderTypes
  BY <1>1, ReadsInRange DEF ReadInit, ReaderTypes, Found
<1> QED
  BY <1>2, <1>3
  DEF ReadInit, ReaderInv, GapNoticed, Confirmed, HasRead, AtRest, SealedReportIsUntorn

\* Without a local scope all trees have the local id 0.
LEMMA NoLocalIds ==
  ASSUME ~LocalScopeInUse
  PROVE  /\ \A g \in Generations : g.local = 0
         /\ IInv => Now.local = 0
         /\ IInv' => Now'.local = 0
<1>1. \A tree \in Generations \cup {Absent} : IdsOf(tree).local = 0
  BY DEF LocalScopeInUse, IdsOf, NoId
<1>2. IInv => Recovered \in Generations \cup {Absent}
  BY ContentsAssumption DEF IInv, TypeOK, Contents, ProgramPoints, Visible, Recovered
<1>3. IInv' => Recovered' \in Generations \cup {Absent}
  BY ContentsAssumption DEF IInv, TypeOK, Contents, ProgramPoints, Visible, Recovered
<1> QED
  BY <1>1, <1>2, <1>3 DEF Now, LocalScopeInUse

\* What the reader has is still of the past after a step of an install, and an id that
\* differs from the first one goes on to differ.
LEMMA ReaderWaits ==
  ASSUME Inv, InstallStep
  PROVE  ReaderInv'
<1>1. /\ InstallInv'
      /\ ~Rewinds => UpTo(Now, Now') /\ (live = Absent => live' = Absent \/ Now # Now')
  BY InstallNext DEF Inv
<1>2. /\ Now \in Ids /\ Now' \in Ids /\ firstId \in Ids /\ lock \in Nat
      /\ \A g \in Found : g \in Ids
  BY <1>1, NowIsIds, GenerationIdsAssumption DEF Inv, InstallInv, ReaderInv, ReaderTypes, Ids
<1>3. /\ UNCHANGED <<rpc, confirming, attempt, lock, firstId, reads, seen, outcome>>
      /\ rewound' \in BOOLEAN /\ (~rewound' => ~rewound /\ ~Rewinds)
  BY DEF InstallStep, Inv, ReaderInv, ReaderTypes
<1>4. UNCHANGED <<Found, Sealed>>
  BY <1>3 DEF Found, Sealed
<1>5. ASSUME ~rewound'
      PROVE  Past' /\ GapNoticed' /\ Confirmed'
  <2>1. /\ Past /\ GapNoticed /\ Confirmed /\ UpTo(Now, Now')
        /\ live = Absent => live' = Absent \/ Now # Now'
    BY <1>1, <1>3, <1>5 DEF Inv, ReaderInv
  <2>2. Past'
    <3>1. Since(firstId, Now')
      BY <1>2, <2>1, Grows DEF Past
    <3>2. \A g \in Found : UpTo(g, Now')
      BY <1>2, <2>1, Grows DEF Past
    <3>3. lock <= Now'.project
      BY <1>2, <2>1 DEF Past, UpTo, Ids
    <3> QED
      BY <1>3, <1>4, <2>1, <3>1, <3>2, <3>3 DEF Past
  <2>3. Sealed /\ firstId.local # Now.local => firstId.local # Now'.local
    <3>1. CASE LocalScopeInUse
      BY <1>2, <2>1, <3>1 DEF Past, Since, UpTo, Later, Sealed, Ids
    <3>2. CASE ~LocalScopeInUse
      BY <1>1, <3>2, NoLocalIds DEF Inv, InstallInv
    <3> QED
      BY <3>1, <3>2
  <2>4. Sealed /\ Now # Now' => firstId.project < Now'.project \/ firstId.local # Now'.local
    <3>1. Now.project # Now'.project \/ Now.local # Now'.local \/ Now = Now'
      BY <1>2 DEF Ids
    <3>2. CASE LocalScopeInUse
      BY <1>2, <2>1, <3>1, <3>2 DEF Past, Since, UpTo, Later, Sealed, Ids
    <3>3. CASE ~LocalScopeInUse
      <4>1. Now.local = Now'.local
        BY <1>1, <3>3, NoLocalIds DEF Inv, InstallInv
      <4> QED
        BY <1>2, <2>1, <3>1, <4>1 DEF Past, Since, UpTo, Ids
    <3> QED
      BY <3>2, <3>3
  <2>5. firstId.project < Now.project => firstId.project < Now'.project
    BY <1>2, <2>1 DEF UpTo, Ids
  <2>6. GapNoticed'
    BY <1>3, <1>4, <2>1, <2>3, <2>4, <2>5 DEF GapNoticed
  <2>7. Confirmed'
    BY <1>3, <1>4, <2>1, <2>3 DEF Confirmed
  <2> QED
    BY <2>2, <2>6, <2>7
<1>6. ReaderTypes' /\ HasRead' /\ AtRest'
  BY <1>3, <1>4 DEF Inv, ReaderInv, ReaderTypes, HasRead, AtRest
<1>7. SealedReportIsUntorn'
  BY <1>3 DEF Inv, ReaderInv, SealedReportIsUntorn, Untorn
<1> QED
  BY <1>5, <1>6, <1>7 DEF ReaderInv

\* A report that ends by itself at the comparison is of one generation.
LEMMA EqualIds ==
  ASSUME Inv, ~rewound, rpc = "local", confirming, Id = firstId, Sealed
  PROVE  Untorn
<1> USE DEF Inv, ReaderInv
<1>1. /\ Now \in Ids /\ firstId \in Ids /\ lock = firstId.project /\ lock # 0
      /\ IInv /\ Past /\ Confirmed /\ \A g \in Found : g \in Generations
  BY NowIsIds DEF ReaderTypes, Id, InstallInv, Sealed
<1>2. firstId.local = Now.local
  <2>1. CASE LocalScopeInUse
    <3>1. live # Absent /\ firstId.local = live.local
      BY <2>1 DEF Id, Sealed
    <3> QED
      BY <3>1 DEF Now, IdsOf, Recovered
  <2>2. CASE ~LocalScopeInUse
    <3>1. live # Absent => live \in Generations
      BY <1>1, ContentsAssumption DEF IInv, TypeOK, Contents, ProgramPoints, Visible
    <3> QED
      BY <1>1, <2>2, <3>1, NoLocalIds DEF Id
  <2> QED
    BY <2>1, <2>2
<1>3. \A g \in Found : g.project = lock /\ g.local = firstId.local /\ g \in Generations
  <2> TAKE g \in Found
  <2>1. /\ g \in Generations /\ Since(firstId, g) /\ UpTo(g, Now) /\ g.project <= lock
        /\ g.project \in Nat /\ g.local \in Nat
    BY <1>1, GenerationIdsAssumption DEF Past, Confirmed
  <2>2. CASE LocalScopeInUse
    BY <1>1, <1>2, <2>1, <2>2 DEF Since, UpTo, Later, Sealed, Ids
  <2>3. CASE ~LocalScopeInUse
    BY <1>1, <1>2, <2>1, <2>3, NoLocalIds DEF Since, Ids
  <2> QED
    BY <2>2, <2>3
<1>4. Absent \notin seen
  BY <1>1, <1>2 DEF Confirmed, Ids
<1>5. Found = seen /\ Found # {}
  BY <1>4 DEF Found, HasRead
<1>6. PICK g \in Found : TRUE
  BY <1>5
<1>7. \A h \in Found : h = g
  BY <1>3, <1>6, GenerationIdsAssumption
<1> QED
  BY <1>3, <1>5, <1>6, <1>7 DEF Untorn

\* Until a report ends there is nothing to show of its outcome.
LEMMA NoReport == outcome # "report" => SealedReportIsUntorn
  BY DEF SealedReportIsUntorn

\* The reader's own steps.
LEMMA ReaderGoesOn ==
  ASSUME Inv, ReaderStep
  PROVE  ReaderInv'
<1>1. UNCHANGED vars /\ UNCHANGED <<Now, pc, live>> /\ IInv /\ IInv'
  BY InvNext DEF ReaderStep, vars, Now, Recovered, Inv, InstallInv
<1>2. Now \in Ids /\ NoId \in Ids /\ NoId.project = 0 /\ NoId.local = 0
  BY <1>1, NowIsIds DEF NoId, Ids
<1>3. /\ live # Absent => Now = live /\ live \in Generations
      /\ live \in Generations \cup {Absent}
  BY <1>1, ContentsAssumption DEF IInv, TypeOK, Contents, ProgramPoints, Visible, Now, IdsOf,
    Recovered
<1>4. \A g \in Generations : g \in Ids /\ g.project \in Nat /\ g.local \in Nat
  BY GenerationIdsAssumption DEF Ids
<1>5. /\ ReaderTypes /\ HasRead /\ AtRest
      /\ ~rewound => Past /\ GapNoticed /\ Confirmed
      /\ firstId.project \in Nat /\ firstId.local \in Nat /\ lock \in Nat /\ reads \in 0..Reads
      /\ Now.project \in Nat /\ Now.local \in Nat
  BY <1>2 DEF Inv, ReaderInv, ReaderTypes, Ids
<1> USE ReadsAssumption, ReadsInRange
<1> USE DEF ReaderInv
<1>6. CASE BeginReport
  <2>1. /\ rpc' = "exists" /\ lock' = 0 /\ firstId' = NoId /\ seen' = {} /\ outcome' = "none"
        /\ rewound' = FALSE /\ UNCHANGED <<confirming, reads>> /\ rpc = "idle" /\ ~confirming
    BY <1>5, <1>6 DEF BeginReport, AtRest
  <2>2. Past'
    BY <1>1, <2>1, NothingRead
  <2>3. ReaderTypes'
    BY <1>2, <1>5, <2>1 DEF ReaderTypes, Found
  <2> QED
    BY <2>1, <2>2, <2>3 DEF GapNoticed, Confirmed, HasRead, AtRest, SealedReportIsUntorn
<1>7. CASE LockExists
  <2>1. /\ rpc = "exists" /\ UNCHANGED <<confirming, firstId, reads, seen, outcome, rewound>>
        /\ (rpc' = "bytes" /\ lock' = lock) \/ (rpc' = "local" /\ lock' = 0)
        /\ outcome # "report"
    BY <1>5, <1>7 DEF LockExists, AtRest
  <2>2. ~rewound' => Past'
    BY <1>1, <1>5, <2>1 DEF Past, Found
  <2>3. ReaderTypes'
    BY <1>5, <2>1 DEF ReaderTypes, Found
  <2>4. HasRead' /\ AtRest' /\ SealedReportIsUntorn' /\ Confirmed'
    BY <1>5, <2>1 DEF Confirmed, HasRead, AtRest, Found, SealedReportIsUntorn
  <2>5. ~rewound' => GapNoticed'
    BY <1>1, <1>5, <2>1 DEF GapNoticed, Sealed
  <2> QED
    BY <2>2, <2>3, <2>4, <2>5
<1>8. CASE LockBytes
  <2>0. rpc = "bytes" /\ outcome # "report" /\ UNCHANGED <<firstId, seen, rewound>>
    BY <1>5, <1>8 DEF LockBytes, AtRest
  <2>1. CASE HasLock
    <3>1. /\ rpc' = "local" /\ lock' = Now.project /\ live # Absent /\ lock' # 0
          /\ UNCHANGED <<confirming, reads, outcome>>
      BY <1>3, <1>8, <2>1 DEF LockBytes, HasLock
    <3>2. ~rewound' => Past'
      BY <1>1, <1>5, <2>0, <3>1 DEF Past, Found
    <3>3. ReaderTypes'
      BY <1>5, <2>0, <3>1 DEF ReaderTypes, Found
    <3>4. ~rewound' => Confirmed'
      BY <1>1, <1>5, <2>0, <3>1 DEF Confirmed, Past, GapNoticed, Found, UpTo, Sealed
    <3>5. HasRead' /\ AtRest' /\ SealedReportIsUntorn'
      BY <1>5, <2>0, <3>1 DEF HasRead, AtRest, Found, SealedReportIsUntorn
    <3>6. ~rewound' => GapNoticed'
      BY <1>1, <1>5, <2>0, <3>1 DEF GapNoticed, Sealed
    <3> QED
      BY <3>2, <3>3, <3>4, <3>5, <3>6
  <2>2. CASE ~HasLock
    <3>1. /\ rpc' = "idle" /\ confirming' = FALSE /\ reads' = 0 /\ outcome' = "error"
          /\ UNCHANGED lock
      BY <1>8, <2>2 DEF LockBytes, Finish
    <3>2. ~rewound' => Past' /\ GapNoticed'
      BY <1>1, <1>5, <2>0, <3>1 DEF Past, GapNoticed, Found, Sealed
    <3> QED
      BY <1>5, <2>0, <3>1, <3>2 DEF ReaderTypes, Confirmed, HasRead, AtRest, Found,
        SealedReportIsUntorn
  <2> QED
    BY <2>1, <2>2
<1>9. CASE FirstId
  <2>1. /\ rpc = "local" /\ ~confirming /\ firstId' = Id /\ rpc' = "build" /\ reads' = Reads
        /\ seen' = {} /\ UNCHANGED <<confirming, lock, outcome, rewound>>
        /\ outcome # "report"
    BY <1>5, <1>9 DEF FirstId, AtRest
  <2>2. Id \in Ids /\ (~rewound => Since(Id, Now))
    BY <1>2, <1>3, <1>4, <1>5 DEF Id, Ids, Since, Later, Past
  <2>3. ~rewound' => Past'
    BY <1>1, <1>5, <2>1, <2>2 DEF Past, Found
  <2>4. ReaderTypes'
    BY <1>5, <2>1, <2>2 DEF ReaderTypes, Found
  <2> QED
    BY <2>1, <2>3, <2>4 DEF GapNoticed, Confirmed, HasRead, AtRest, SealedReportIsUntorn
<1>10. CASE BuildRead
  <2>0. /\ rpc = "build" /\ reads > 0 /\ outcome # "report"
        /\ UNCHANGED <<lock, firstId, rewound>>
    BY <1>5, <1>10 DEF BuildRead, AtRest
  <2>1. CASE reads = Reads /\ live = Absent
    <3>1. /\ rpc' = "idle" /\ confirming' = FALSE /\ reads' = 0 /\ outcome' = "refused"
          /\ UNCHANGED seen
      BY <1>10, <2>1 DEF BuildRead, Finish
    <3>2. ~rewound' => Past' /\ GapNoticed'
      BY <1>1, <1>5, <2>0, <3>1 DEF Past, GapNoticed, Found, Sealed
    <3> QED
      BY <1>5, <2>0, <3>1, <3>2 DEF ReaderTypes, Confirmed, HasRead, AtRest, Found,
        SealedReportIsUntorn
  <2>2. CASE ~(reads = Reads /\ live = Absent)
    <3>1. /\ seen' = seen \cup {live} /\ reads' = reads - 1
          /\ UNCHANGED <<rpc, confirming, outcome>>
      BY <1>10, <2>2 DEF BuildRead
    <3>2. Found' = IF live = Absent THEN Found ELSE Found \cup {live}
      BY <3>1 DEF Found
    <3>3. ASSUME ~rewound PROVE Past'
      <4>1. live # Absent => Since(firstId, live) /\ UpTo(live, Now)
        BY <1>2, <1>3, <1>5, <3>3, Grows DEF Past
      <4> QED
        BY <1>1, <1>5, <2>0, <3>2, <3>3, <4>1 DEF Past
    <3>4. ~rewound' => GapNoticed'
      BY <1>1, <1>5, <2>0, <3>1 DEF GapNoticed, Sealed
    <3>5. HasRead'
      BY <1>5, <2>0, <2>2, <3>1, <3>2 DEF HasRead
    <3>6. ReaderTypes'
      BY <1>3, <1>5, <2>0, <3>1, <3>2 DEF ReaderTypes
    <3>7. Confirmed' /\ AtRest' /\ SealedReportIsUntorn'
      BY <1>5, <2>0, <3>1 DEF Confirmed, AtRest, SealedReportIsUntorn
    <3> QED
      BY <2>0, <3>3, <3>4, <3>5, <3>6, <3>7
  <2> QED
    BY <2>1, <2>2
<1>11. CASE ReadAgain
  <2>1. /\ rpc = "build" /\ reads = 0 /\ rpc' = "exists" /\ confirming' = TRUE
        /\ UNCHANGED <<lock, firstId, reads, seen, outcome, rewound>> /\ outcome # "report"
    BY <1>5, <1>11 DEF ReadAgain, AtRest
  <2>2. ~rewound' => Past' /\ GapNoticed'
    BY <1>1, <1>5, <2>1 DEF Past, GapNoticed, Found, Sealed
  <2> QED
    BY <1>5, <2>1, <2>2 DEF ReaderTypes, Confirmed, HasRead, AtRest, Found,
      SealedReportIsUntorn
<1>12. CASE Compare
  <2>0. /\ rpc = "local" /\ confirming /\ outcome # "report"
    BY <1>5, <1>12 DEF Compare, AtRest
  <2>1. CASE rpc' = "idle"
    <3>1. /\ confirming' = FALSE /\ reads' = 0 /\ outcome' \in {"report", "inconsistent"}
          /\ outcome' = "report" => Id = firstId
          /\ UNCHANGED <<lock, firstId, seen, rewound>>
      BY <1>12, <2>1 DEF Compare, Finish
    <3>2. ~rewound' => Past' /\ GapNoticed'
      BY <1>1, <1>5, <3>1 DEF Past, GapNoticed, Found, Sealed
    <3>3. SealedReportIsUntorn'
      BY <2>0, <3>1, EqualIds DEF SealedReportIsUntorn, Sealed, Untorn
    <3> QED
      BY <1>5, <2>0, <2>1, <3>1, <3>2, <3>3
      DEF ReaderTypes, Confirmed, HasRead, AtRest, Found
  <2>2. CASE rpc' # "idle"
    <3>1. /\ rpc' = "exists" /\ confirming' = FALSE /\ UNCHANGED <<reads, outcome>>
          /\ lock' = 0 /\ firstId' = NoId /\ seen' = {} /\ rewound' = FALSE
      BY <1>12, <2>2 DEF Compare, Finish
    <3>2. Past'
      BY <1>1, <3>1, NothingRead
    <3> QED
      BY <1>2, <1>5, <2>0, <3>1, <3>2
      DEF ReaderTypes, GapNoticed, Confirmed, HasRead, AtRest, Found, SealedReportIsUntorn
  <2> QED
    BY <2>1, <2>2
<1> QED
  BY <1>6, <1>7, <1>8, <1>9, <1>10, <1>11, <1>12 DEF ReaderStep

LEMMA InvIsKept == Inv /\ [ReadNext]_allVars => Inv'
<1> SUFFICES ASSUME Inv, [ReadNext]_allVars PROVE Inv'
  OBVIOUS
<1>1. CASE InstallStep
  BY <1>1, InstallNext, ReaderWaits DEF Inv
<1>2. CASE ReaderStep
  <2>1. UNCHANGED vars
    BY <1>2 DEF ReaderStep
  <2> QED
    BY <1>2, <2>1, InstallIdle, ReaderGoesOn DEF Inv
<1>3. CASE UNCHANGED allVars
  <2>1. UNCHANGED vars /\ UNCHANGED reader /\ UNCHANGED <<Now, live>>
    BY <1>3 DEF allVars, vars, Now, Recovered
  <2> QED
    BY <2>1, InstallIdle
    DEF Inv, ReaderInv, reader, ReaderTypes, Past, GapNoticed, Confirmed, HasRead, AtRest, Found,
        Sealed, SealedReportIsUntorn, Untorn
<1> QED
  BY <1>1, <1>2, <1>3 DEF ReadNext

--------------------------------------------------------------------------------
(* The theorem *)

\* A report whose first id was read from locks on disk is of one generation, however
\* installs run, are refused, fail or are killed between its reads, unless one of their
\* steps in that time took a swap back or adopted a local scope
\* (read_with_consistent_generation).
THEOREM ReportsAreUntorn == ReadSpec => []SealedReportIsUntorn
<1>1. ReadInit => Inv
  BY InstallInit, ReaderInit DEF ReadInit, Inv
<1>2. Inv /\ [ReadNext]_allVars => Inv'
  BY InvIsKept
<1>3. Inv => SealedReportIsUntorn
  BY DEF Inv, ReaderInv
<1> QED
  BY <1>1, <1>2, <1>3, PTL DEF ReadSpec
================================================================================
