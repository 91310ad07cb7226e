---------------------------- MODULE LocalScopeProofs ----------------------------
(***************************************************************************)
(* Theorems of LocalScope for any molecules, files, hooks and any sequence   *)
(* of commands, operator's moves, pulls, failures and kills: types, what a    *)
(* failure restores, what a success delivers, and what the steps of the local *)
(* scope may not touch.                                                     *)
(***************************************************************************)
EXTENDS LocalScope, TLAPS

--------------------------------------------------------------------------------
(* Generations, locks and owners *)

OverlayValues == (SUBSET Molecules) \cup {NoOverlay}

LEMMA GenFields ==
  ASSUME NEW g \in Generations
  PROVE  /\ g.manifest \in SUBSET Molecules /\ g.lock \in SUBSET Molecules
         /\ g.overlay \in OverlayValues /\ g.local \in Locks
         /\ g # NoGen /\ g.manifest # None /\ g \in Leftovers
  BY MarksAssumption DEF Generations, Leftovers, OverlayValues

LEMMA LeftoverFields ==
  ASSUME NEW g \in Leftovers
  PROVE  /\ g.manifest \in (SUBSET Molecules) \cup {None} /\ g.lock \in SUBSET Molecules
         /\ g.overlay \in OverlayValues /\ g.local \in Locks
         /\ g.manifest # None => g \in Generations
  BY DEF Generations, Leftovers, OverlayValues

\* Nothing new is in what an interrupted removal leaves.
LEMMA RemainsFields ==
  ASSUME NEW g \in Leftovers, NEW h \in Remains(g)
  PROVE  /\ h \in Leftovers
         /\ h.manifest \in {g.manifest, None} /\ h.overlay \in {g.overlay, NoOverlay}
         /\ h.local \in {g.local, NoLock}
<1>1. /\ h.manifest \in {g.manifest, None} /\ h.overlay \in {g.overlay, NoOverlay}
      /\ h.local \in {g.local, NoLock} /\ h.lock \in {g.lock, {}}
      /\ h = [manifest |-> h.manifest, lock |-> h.lock, overlay |-> h.overlay, local |-> h.local]
  BY DEF Remains
<1>2. /\ h.manifest \in (SUBSET Molecules) \cup {None} /\ h.lock \in SUBSET Molecules
      /\ h.overlay \in OverlayValues /\ h.local \in Locks
  BY <1>1, LeftoverFields DEF OverlayValues, Locks
<1> QED
  BY <1>1, <1>2 DEF Leftovers, OverlayValues

SetOverlay(g, o) == [g EXCEPT !.overlay = o]
SetManifest(g, ms) == [g EXCEPT !.manifest = ms]
SetLock(g, ms) == [g EXCEPT !.lock = ms]
SetLocal(g, lock) == [g EXCEPT !.local = lock]
SetBoth(g, o, lock) == [g EXCEPT !.overlay = o, !.local = lock]

LEMMA OverlaySet ==
  ASSUME NEW g \in Generations, NEW o \in OverlayValues
  PROVE  /\ SetOverlay(g, o) \in Generations
         /\ SetOverlay(g, o).overlay = o /\ SetOverlay(g, o).local = g.local
         /\ SetOverlay(g, o).manifest = g.manifest /\ SetOverlay(g, o).lock = g.lock
  BY DEF Generations, SetOverlay, OverlayValues

LEMMA ManifestSet ==
  ASSUME NEW g \in Generations, NEW ms \in SUBSET Molecules
  PROVE  /\ SetManifest(g, ms) \in Generations
         /\ SetManifest(g, ms).manifest = ms /\ SetManifest(g, ms).local = g.local
         /\ SetManifest(g, ms).overlay = g.overlay /\ SetManifest(g, ms).lock = g.lock
  BY DEF Generations, SetManifest

LEMMA LockSet ==
  ASSUME NEW g \in Generations, NEW ms \in SUBSET Molecules
  PROVE  /\ SetLock(g, ms) \in Generations
         /\ SetLock(g, ms).manifest = g.manifest /\ SetLock(g, ms).local = g.local
         /\ SetLock(g, ms).overlay = g.overlay /\ SetLock(g, ms).lock = ms
  BY DEF Generations, SetLock

LEMMA LocalSet ==
  ASSUME NEW g \in Generations, NEW lock \in Locks
  PROVE  /\ SetLocal(g, lock) \in Generations
         /\ SetLocal(g, lock).manifest = g.manifest /\ SetLocal(g, lock).local = lock
         /\ SetLocal(g, lock).overlay = g.overlay /\ SetLocal(g, lock).lock = g.lock
  BY DEF Generations, SetLocal

LEMMA BothSet ==
  ASSUME NEW g \in Generations, NEW o \in OverlayValues, NEW lock \in Locks
  PROVE  /\ SetBoth(g, o, lock) \in Generations
         /\ SetBoth(g, o, lock).manifest = g.manifest /\ SetBoth(g, o, lock).local = lock
         /\ SetBoth(g, o, lock).overlay = o /\ SetBoth(g, o, lock).lock = g.lock
  BY DEF Generations, SetBoth, OverlayValues

\* An edit is undone by putting back the field it has changed.
LEMMA OverlayUndone ==
  ASSUME NEW g \in Generations, NEW o
  PROVE  SetOverlay(SetOverlay(g, o), g.overlay) = g
  BY DEF Generations, SetOverlay

LEMMA ManifestUndone ==
  ASSUME NEW g \in Generations, NEW ms
  PROVE  SetManifest(SetManifest(g, ms), g.manifest) = g
  BY DEF Generations, SetManifest

\* Either field, put back into a tree that may have lost its manifest.
LEMMA LeftoverRestored ==
  ASSUME NEW g \in Leftovers, NEW o \in OverlayValues, NEW ms \in SUBSET Molecules
  PROVE  /\ SetOverlay(g, o) \in Leftovers
         /\ SetOverlay(g, o).overlay = o /\ SetOverlay(g, o).manifest = g.manifest
         /\ SetOverlay(g, o).local = g.local
         /\ SetManifest(g, ms) \in Leftovers
         /\ SetManifest(g, ms).overlay = g.overlay /\ SetManifest(g, ms).manifest = ms
         /\ SetManifest(g, ms).local = g.local
  BY DEF Leftovers, SetOverlay, SetManifest, OverlayValues

LEMMA LockFields ==
  ASSUME NEW lock \in LockFiles
  PROVE  /\ lock.paths \in [Molecules -> SUBSET Paths] /\ lock.of \in SUBSET Molecules
         /\ lock.hash \in [Paths -> Contents] /\ lock # NoLock
  BY MarksAssumption DEF LockFiles

LEMMA RecordedPaths ==
  ASSUME NEW lock \in Locks
  PROVE  Recorded(lock) \subseteq Paths
<1>1. CASE lock = NoLock
  BY <1>1 DEF Recorded
<1>2. CASE lock # NoLock
  <2>1. lock.paths \in [Molecules -> SUBSET Paths] /\ lock.of \in SUBSET Molecules
    BY <1>2, LockFields DEF Locks
  <2> QED
    BY <1>2, <2>1 DEF Recorded
<1> QED
  BY <1>1, <1>2

LEMMA FilesArePaths ==
  ASSUME NEW ms \in SUBSET Molecules
  PROVE  Files(ms) \subseteq Paths
  BY LayoutAssumption DEF Files

LEMMA OwnerOwns ==
  ASSUME NEW ms \in SUBSET Molecules, NEW p \in Files(ms)
  PROVE  OwnerIn(ms, p) \in ms /\ p \in FilesOf[OwnerIn(ms, p)] /\ OwnerIn(ms, p) \in Contents
<1>1. \E m \in ms : p \in FilesOf[m]
  BY DEF Files
<1>2. OwnerIn(ms, p) \in ms /\ p \in FilesOf[OwnerIn(ms, p)]
  BY <1>1 DEF OwnerIn
<1> QED
  BY <1>2 DEF Contents

LEMMA LocalOfType ==
  ASSUME NEW g \in Generations
  PROVE  Overlay(g) \in SUBSET Molecules /\ LocalOf(g) \in SUBSET Molecules
  BY GenFields DEF Overlay, LocalOf, OverlayValues

--------------------------------------------------------------------------------
(* Types *)

\* A tree is without a manifest only where a rollback of the copy has failed.
Lost == {"idle", "restoreLost"}

DiskOK ==
    /\ gen \in Leftovers /\ (pc \notin Lost => gen \in Generations)
    /\ root \in [Paths -> Contents]
    /\ tracked \in SUBSET Paths /\ excluded \in SUBSET Paths

LocalsOK ==
    /\ edit \in {"none", "overlay", "manifest"}
    /\ start \in Generations
    /\ preimage \in [Paths -> Contents] /\ created \in SUBSET Paths
    /\ plan \in Locks /\ backup \in Generations \cup {NoGen}
    /\ pc = "giveBack" => backup # NoGen

ControlOK == pc \in Points /\ outcome \in Outcomes

CountersOK == moves \in 0..MaxMoves /\ kills \in 0..MaxKills

IdleOK == pc = "idle" => edit = "none" /\ created = {} /\ plan = NoPlan /\ backup = NoGen

TypeInv ==
    TypeOK /\ (pc \notin Lost => gen \in Generations) /\ (pc = "giveBack" => backup # NoGen)

LEMMA TypeParts == TypeInv <=> DiskOK /\ LocalsOK /\ ControlOK /\ CountersOK /\ IdleOK
  BY DEF TypeInv, TypeOK, DiskOK, LocalsOK, ControlOK, CountersOK, IdleOK

LEMMA NoFilesType == NoFiles \in [Paths -> Contents]
  BY DEF NoFiles, Contents

LEMMA EndTyped ==
  ASSUME TypeInv, NEW how \in Outcomes, End(how)
  PROVE  LocalsOK' /\ ControlOK' /\ IdleOK'
  BY TypeParts, NoFilesType DEF End, LocalsOK, ControlOK, IdleOK, Points, NoPlan, Locks

LEMMA FailTyped ==
  ASSUME TypeInv, NEW how \in Outcomes,
         NEW point \in {"restore", "restoreLate", "restoreLost"}, FailAs(how, point)
  PROVE  LocalsOK' /\ ControlOK' /\ IdleOK'
<1>1. CASE edit = "none"
  BY <1>1, EndTyped DEF FailAs
<1>2. CASE edit # "none"
  BY <1>2, TypeParts DEF FailAs, locals, LocalsOK, ControlOK, IdleOK, Points
<1> QED
  BY <1>1, <1>2

\* What the start of a command leaves.
LEMMA Started ==
  ASSUME TypeInv, NEW what \in {"none", "overlay", "manifest"}, NEW g \in Generations,
         Move, Start(what, g)
  PROVE  TypeInv'
<1>0. gen \in Generations /\ g \in Leftovers
  BY TypeParts, LeftoverFields, GenFields DEF Move, DiskOK
<1>1. DiskOK' /\ LocalsOK' /\ ControlOK'
  BY <1>0, TypeParts DEF Start, DiskOK, LocalsOK, ControlOK, Points, Outcomes
<1>2. CountersOK' /\ IdleOK'
  BY TypeParts, BoundsAssumption DEF Move, Start, CountersOK, IdleOK
<1> QED
  BY <1>1, <1>2, TypeParts, PTL

\* What a move beside the commands leaves.
LEMMA Rested ==
  ASSUME TypeInv, Move, AtRest, DiskOK'
  PROVE  TypeInv'
<1>1. LocalsOK' /\ ControlOK'
  BY TypeParts DEF AtRest, locals, LocalsOK, ControlOK, Outcomes
<1>2. CountersOK' /\ IdleOK'
  BY TypeParts, BoundsAssumption DEF Move, AtRest, locals, CountersOK, IdleOK
<1> QED
  BY <1>1, <1>2, TypeParts, PTL

\* What an edit is undone with.
UndoWith(what, old, g) ==
    IF what = "none" THEN g
    ELSE IF what = "overlay" THEN SetOverlay(g, old.overlay) ELSE SetManifest(g, old.manifest)

\* The commands, and what happens to a checkout beside them.
Command ==
    \/ \E m \in Molecules : AddLocal(m) \/ RemoveLocal(m) \/ Add(m) \/ Remove(m)
    \/ StartInstall

LEMMA CommandStarts ==
  ASSUME TypeInv, Command
  PROVE  \E what \in {"none", "overlay", "manifest"}, g \in Generations :
            Move /\ Start(what, g) /\ g.local = gen.local /\ UndoWith(what, gen, g) = gen
<1> DEFINE Goal == \E what \in {"none", "overlay", "manifest"}, g \in Generations :
            Move /\ Start(what, g) /\ g.local = gen.local /\ UndoWith(what, gen, g) = gen
<1>0. /\ gen \in Generations /\ gen.manifest \in SUBSET Molecules
      /\ gen.overlay \in OverlayValues /\ Overlay(gen) \in SUBSET Molecules
  <2>1. gen \in Generations
    BY TypeParts, LeftoverFields
       DEF DiskOK, Command, AddLocal, RemoveLocal, Add, Remove, StartInstall, Move
  <2> QED
    BY <2>1, GenFields, LocalOfType
<1>1. CASE StartInstall
  BY <1>0, <1>1 DEF StartInstall, UndoWith
<1>2. ASSUME NEW o \in SUBSET Molecules, Move, Start("overlay", SetOverlay(gen, o)) PROVE Goal
  <2>1. /\ SetOverlay(gen, o) \in Generations /\ SetOverlay(gen, o).local = gen.local
        /\ SetOverlay(SetOverlay(gen, o), gen.overlay) = gen
    BY <1>0, OverlaySet, OverlayUndone DEF OverlayValues
  <2> QED
    BY <1>2, <2>1, Zenon DEF UndoWith
<1>3. ASSUME NEW ms \in SUBSET Molecules, Move, Start("manifest", SetManifest(gen, ms)) PROVE Goal
  <2>1. /\ SetManifest(gen, ms) \in Generations /\ SetManifest(gen, ms).local = gen.local
        /\ SetManifest(SetManifest(gen, ms), gen.manifest) = gen
    BY <1>0, ManifestSet, ManifestUndone
  <2> QED
    BY <1>3, <2>1, Zenon DEF UndoWith
<1>4. ASSUME NEW m \in Molecules, AddLocal(m) PROVE Goal
  BY <1>0, <1>2, <1>4 DEF AddLocal, SetOverlay
<1>5. ASSUME NEW m \in Molecules, RemoveLocal(m) PROVE Goal
  <2>1. gen.overlay \ {m} \in SUBSET Molecules
    BY <1>0, <1>5 DEF RemoveLocal, Overlay
  <2> QED
    BY <1>2, <1>5, <2>1 DEF RemoveLocal, SetOverlay
<1>6. ASSUME NEW m \in Molecules, Add(m) PROVE Goal
  BY <1>0, <1>3, <1>6 DEF Add, SetManifest
<1>7. ASSUME NEW m \in Molecules, Remove(m) PROVE Goal
  BY <1>0, <1>3, <1>7 DEF Remove, SetManifest
<1> QED
  BY <1>1, <1>4, <1>5, <1>6, <1>7 DEF Command

OperatorMove ==
    \/ \E m \in Molecules : PullAdoption(m) \/ PullRetraction(m)
    \/ \E p \in Paths : EditFile(p) \/ PullFile(p)
    \/ Commit \/ EditExclude

SetPins(g, ms, lock) == [g EXCEPT !.manifest = ms, !.lock = lock]

LEMMA PinsSet ==
  ASSUME NEW g \in Generations, NEW ms \in SUBSET Molecules, NEW lock \in SUBSET Molecules
  PROVE  SetPins(g, ms, lock) \in Generations /\ SetPins(g, ms, lock).local = g.local
  BY DEF Generations, SetPins

LEMMA OperatorRests ==
  ASSUME TypeInv, OperatorMove
  PROVE  Move /\ AtRest /\ DiskOK' /\ gen'.local = gen.local
<1>0. /\ gen \in Generations /\ root \in [Paths -> Contents]
      /\ tracked \in SUBSET Paths /\ excluded \in SUBSET Paths
      /\ gen.manifest \in SUBSET Molecules /\ gen.lock \in SUBSET Molecules
      /\ \A g \in Generations : g \in Leftovers
  <2>1. Move
    BY DEF OperatorMove, PullAdoption, PullRetraction, EditFile, PullFile, Commit, EditExclude
  <2>2. gen \in Generations
    BY <2>1, TypeParts, LeftoverFields DEF DiskOK, Move
  <2> QED
    BY <2>2, TypeParts, GenFields DEF DiskOK
<1>1. CASE \E m \in Molecules : PullAdoption(m)
  <2>1. PICK m \in Molecules : PullAdoption(m)
    BY <1>1
  <2>2. gen' = SetPins(gen, gen.manifest \cup {m}, gen.lock \cup {m})
    BY <2>1 DEF PullAdoption, SetPins
  <2>3. gen' \in Generations /\ gen'.local = gen.local
    BY <1>0, <2>2, PinsSet
  <2>4. root' \in [Paths -> Contents] /\ tracked' \in SUBSET Paths
    BY <1>0, <2>1, LayoutAssumption DEF PullAdoption, Contents
  <2> QED
    BY <1>0, <2>1, <2>3, <2>4 DEF PullAdoption, DiskOK
<1>2. CASE \E m \in Molecules : PullRetraction(m)
  <2>1. PICK m \in Molecules : PullRetraction(m)
    BY <1>2
  <2>2. gen' = SetPins(gen, gen.manifest \ {m}, gen.lock \ {m})
    BY <2>1 DEF PullRetraction, SetPins
  <2>3. gen' \in Generations /\ gen'.local = gen.local
    BY <1>0, <2>2, PinsSet
  <2>4. root' \in [Paths -> Contents] /\ tracked' \in SUBSET Paths
    BY <1>0, <2>1 DEF PullRetraction, Contents
  <2> QED
    BY <1>0, <2>1, <2>3, <2>4 DEF PullRetraction, DiskOK
<1>3. CASE \E p \in Paths : EditFile(p) \/ PullFile(p)
  BY <1>0, <1>3 DEF EditFile, PullFile, DiskOK, Contents
<1>4. CASE Commit \/ EditExclude
  BY <1>0, <1>4 DEF Commit, EditExclude, DiskOK
<1> QED
  BY <1>1, <1>2, <1>3, <1>4 DEF OperatorMove

LEMMA SwappedType ==
  ASSUME TypeInv, gen \in Generations
  PROVE  Swapped \in OverlayValues
<1>1. gen.overlay \in OverlayValues /\ start.overlay \in OverlayValues
  BY TypeParts, GenFields DEF LocalsOK
<1> QED
  BY <1>1 DEF Swapped, OverlayValues

\* What the records are made of.
LEMMA RecordsType ==
  ASSUME TypeInv, gen \in Generations
  PROVE  /\ Records \in LockFiles
         /\ Records.of = LocalOf(gen)
         /\ \A m \in LocalOf(gen) : Records.paths[m] = FilesOf[m] \cup Carried(m) \cup Fresh(m)
         /\ \A m \in Molecules \ LocalOf(gen) : Records.paths[m] = {}
<1>0. /\ gen \in Generations /\ gen.local \in Locks /\ LocalOf(gen) \in SUBSET Molecules
      /\ root \in [Paths -> Contents] /\ created \in SUBSET Paths
  BY TypeParts, GenFields, LocalOfType DEF DiskOK, LocalsOK
<1>1. ASSUME NEW m \in LocalOf(gen)
      PROVE  FilesOf[m] \in SUBSET Paths /\ Carried(m) \in SUBSET Paths /\ Fresh(m) \in SUBSET Paths
  <2>1. Carried(m) \in SUBSET Paths
    <3>1. CASE gen.local # NoLock /\ m \in gen.local.of
      BY <1>0, <3>1, LockFields DEF Carried, Locks
    <3>2. CASE ~(gen.local # NoLock /\ m \in gen.local.of)
      BY <3>2 DEF Carried
    <3> QED
      BY <3>1, <3>2
  <2> QED
    BY <1>0, <2>1, LayoutAssumption DEF Fresh
<1>2. ASSUME NEW p \in Paths
      PROVE  (IF p \in AllCarried THEN gen.local.hash[p]
              ELSE IF p \in AllFresh THEN root[p]
              ELSE IF p \in Files(LocalOf(gen)) THEN OwnerIn(LocalOf(gen), p)
              ELSE None) \in Contents
  <2>1. p \in AllCarried => gen.local.hash[p] \in Contents
    <3>1. p \in AllCarried => gen.local # NoLock
      BY DEF AllCarried, Carried
    <3> QED
      BY <1>0, <3>1, LockFields DEF Locks
  <2> QED
    BY <1>0, <2>1, OwnerOwns DEF Contents
<1> DEFINE ps == [m \in Molecules |-> IF m \in LocalOf(gen)
                                      THEN FilesOf[m] \cup Carried(m) \cup Fresh(m) ELSE {}]
           hs == [p \in Paths |-> IF p \in AllCarried THEN gen.local.hash[p]
                                  ELSE IF p \in AllFresh THEN root[p]
                                  ELSE IF p \in Files(LocalOf(gen)) THEN OwnerIn(LocalOf(gen), p)
                                  ELSE None]
<1>3. ps \in [Molecules -> SUBSET Paths]
  BY <1>1
<1>4. hs \in [Paths -> Contents]
  BY <1>2
<1>5. Records = [of |-> LocalOf(gen), paths |-> ps, hash |-> hs]
  BY DEF Records
<1>6. Records \in LockFiles /\ Records.of = LocalOf(gen) /\ Records.paths = ps
  <2> HIDE DEF ps, hs
  <2> QED
    BY <1>0, <1>3, <1>4, <1>5 DEF LockFiles
<1> QED
  BY <1>0, <1>6

\* A publication writes each file as the molecule that owns it.
LEMMA DeliveredType ==
  ASSUME TypeInv, NEW ms \in SUBSET Molecules, NEW other \in [Paths -> Contents]
  PROVE  [p \in Paths |-> IF p \in Files(ms) THEN OwnerIn(ms, p) ELSE other[p]]
            \in [Paths -> Contents]
  BY OwnerOwns

Work ==
    \/ Prepare \/ Plan \/ PublishProject \/ PublishProjectFails \/ Compose \/ ComposeFails
    \/ RollBack \/ Defer \/ GiveBack \/ Reconcile \/ ReconcileFails \/ Refuse \/ Local

\* What comes after a failure, or fails itself.
Aftermath == RollBackFails \/ Restore \/ RestoreFails

LEMMA WorkOnWhole ==
  ASSUME TypeInv, Work
  PROVE  gen \in Generations /\ pc \notin {"idle", "restore", "restoreLate", "restoreLost"}
<1>1. pc \notin {"idle", "restore", "restoreLate", "restoreLost"}
  BY DEF Work, Prepare, Plan, PublishProject, PublishProjectFails, Compose, ComposeFails,
         RollBack, Defer, GiveBack, Reconcile, ReconcileFails, Refuse, Local, RunHooks, Guard,
         LocalSwap, LocalFiles, LocalOrphans, Exclude, LocalPublicationFails, UndoSwap
<1> QED
  BY <1>1, TypeParts DEF DiskOK, Lost

LEMMA WorkTyped ==
  ASSUME TypeInv, Work
  PROVE  TypeInv'
<1> USE DEF counters, disk, locals, Lost
<1>0. /\ DiskOK /\ LocalsOK /\ ControlOK /\ CountersOK /\ IdleOK
      /\ gen \in Generations /\ gen.manifest \in SUBSET Molecules /\ gen.lock \in SUBSET Molecules
      /\ gen.overlay \in OverlayValues /\ gen.local \in Locks
      /\ Overlay(gen) \in SUBSET Molecules /\ LocalOf(gen) \in SUBSET Molecules
      /\ root \in [Paths -> Contents] /\ preimage \in [Paths -> Contents]
      /\ start \in Generations /\ start.local \in Locks
      /\ start.overlay \in OverlayValues /\ start.manifest \in SUBSET Molecules
      /\ \A g \in Generations : g \in Leftovers
  BY WorkOnWhole, TypeParts, GenFields, LocalOfType DEF DiskOK, LocalsOK
\* The counters never change here, and commands that go on are not idle.
<1>1. ASSUME DiskOK', LocalsOK', ControlOK', pc' # "idle", UNCHANGED counters PROVE TypeInv'
  <2>1. CountersOK' /\ IdleOK'
    BY <1>0, <1>1 DEF CountersOK, IdleOK
  <2> QED
    BY <1>1, <2>1, TypeParts, PTL
<1>2. ASSUME DiskOK', Fail \/ FailLate, UNCHANGED counters PROVE TypeInv'
  <2>1. LocalsOK' /\ ControlOK' /\ IdleOK' /\ CountersOK'
    BY <1>0, <1>2, FailTyped DEF Fail, FailLate, CountersOK, Outcomes, Points
  <2> QED
    BY <1>2, <2>1, TypeParts, PTL
<1>3. ASSUME DiskOK', NEW how \in Outcomes, End(how), UNCHANGED counters PROVE TypeInv'
  <2>1. LocalsOK' /\ ControlOK' /\ IdleOK' /\ CountersOK'
    BY <1>0, <1>3, EndTyped DEF CountersOK
  <2> QED
    BY <1>3, <2>1, TypeParts, PTL
<1> USE DEF Points
<1>4. CASE Prepare
  <2>1. DiskOK'
    BY <1>0, <1>4 DEF Prepare, DiskOK
  <2>2. CASE Conflicts
    BY <1>2, <1>4, <2>1, <2>2 DEF Prepare
  <2>3. CASE ~Conflicts
    BY <1>0, <1>1, <1>4, <2>1, <2>3 DEF Prepare, LocalsOK, ControlOK
  <2> QED
    BY <2>2, <2>3
<1>5. CASE RunHooks
  <2>1. root' \in [Paths -> Contents]
    BY <1>0, <1>5 DEF RunHooks, Contents
  <2> QED
    BY <1>0, <1>1, <1>5, <2>1 DEF RunHooks, DiskOK, LocalsOK, ControlOK
<1>6. CASE Guard
  <2>1. CASE Changed # {}
    <3>1. root' \in [Paths -> Contents]
      BY <1>0, <1>6, <2>1 DEF Guard
    <3> QED
      BY <1>0, <1>2, <1>6, <2>1, <3>1 DEF Guard, DiskOK
  <2>2. CASE Changed = {}
    BY <1>0, <1>1, <1>6, <2>2 DEF Guard, DiskOK, LocalsOK, ControlOK
  <2> QED
    BY <2>1, <2>2
<1>7. CASE Plan
  <2>1. plan' \in Locks /\ backup' \in Generations \cup {NoGen}
    BY <1>0, <1>7, RecordsType DEF Plan, Locks
  <2> QED
    BY <1>0, <1>1, <1>7, <2>1 DEF Plan, DiskOK, LocalsOK, ControlOK
<1>8. CASE PublishProject \/ PublishProjectFails
  <2>0. ProjectPublished
    BY <1>8 DEF PublishProject, PublishProjectFails
  <2>1. gen' = SetLock(gen, gen.manifest)
    BY <2>0 DEF ProjectPublished, SetLock
  <2>2. gen' \in Generations
    BY <1>0, <2>1, LockSet
  <2>3. root' \in [Paths -> Contents]
    BY <1>0, <2>0, OwnerOwns DEF ProjectPublished, Contents
  <2>4. DiskOK' /\ UNCHANGED counters
    BY <1>0, <2>0, <2>2, <2>3 DEF ProjectPublished, DiskOK
  <2>5. CASE PublishProject
    BY <1>0, <1>1, <2>4, <2>5 DEF PublishProject, LocalsOK, ControlOK
  <2>6. CASE PublishProjectFails /\ backup = NoGen
    BY <1>2, <2>4, <2>6 DEF PublishProjectFails
  <2>7. CASE PublishProjectFails /\ backup # NoGen
    BY <1>0, <1>1, <2>4, <2>7 DEF PublishProjectFails, LocalsOK, ControlOK
  <2> QED
    BY <1>8, <2>5, <2>6, <2>7
<1>9. CASE LocalSwap
  <2>1. gen' = IF Overlay(gen) = {} THEN SetBoth(gen, NoOverlay, NoLock) ELSE SetLocal(gen, plan)
    BY <1>9 DEF LocalSwap, SetBoth, SetLocal
  <2>2. gen' \in Generations
    BY <1>0, <2>1, BothSet, LocalSet DEF OverlayValues, Locks, LocalsOK
  <2> QED
    BY <1>0, <1>1, <1>9, <2>2 DEF LocalSwap, DiskOK, LocalsOK, ControlOK
<1>10. CASE LocalFiles
  <2>1. root' \in [Paths -> Contents]
    BY <1>0, <1>10, OwnerOwns DEF LocalFiles
  <2> QED
    BY <1>0, <1>1, <1>10, <2>1 DEF LocalFiles, DiskOK, LocalsOK, ControlOK
<1>11. CASE LocalOrphans \/ LocalPublicationFails
  <2>1. root' \in [Paths -> Contents]
    BY <1>0, <1>11 DEF LocalOrphans, LocalPublicationFails, Contents
  <2> QED
    BY <1>0, <1>1, <1>11, <2>1 DEF LocalOrphans, LocalPublicationFails, DiskOK, LocalsOK, ControlOK
<1>12. CASE Exclude
  <2>1. excluded' \in SUBSET Paths
    BY <1>0, <1>12, RecordedPaths DEF Exclude
  <2> QED
    BY <1>0, <1>1, <1>12, <2>1 DEF Exclude, DiskOK, LocalsOK, ControlOK
<1>13. CASE UndoSwap
  <2>1. gen' = SetBoth(gen, Swapped, start.local)
    BY <1>13 DEF UndoSwap, SetBoth, Previous
  <2>2. gen' \in Generations
    BY <1>0, <2>1, SwappedType, BothSet
  <2> QED
    BY <1>0, <1>1, <1>13, <2>2 DEF UndoSwap, DiskOK, LocalsOK, ControlOK
<1>14. CASE Compose \/ ComposeFails
  BY <1>0, <1>1, <1>14 DEF Compose, ComposeFails, DiskOK, LocalsOK, ControlOK
<1>15. CASE RollBack
  <2>1. DiskOK'
    BY <1>0, <1>15 DEF RollBack, DiskOK, LocalsOK
  <2> QED
    BY <1>2, <1>15, <2>1 DEF RollBack
<1>16. CASE Defer \/ GiveBack
  <2>1. CASE Defer
    BY <1>0, <1>1, <2>1 DEF Defer, DiskOK, LocalsOK, ControlOK
  <2>2. CASE GiveBack
    <3>1. gen' \in Generations /\ pc' = "reconcile"
      BY <1>0, <2>2 DEF GiveBack, LocalsOK
    <3>2. gen' \in Leftovers
      BY <1>0, <3>1
    <3>3. DiskOK'
      BY <1>0, <2>2, <3>1, <3>2 DEF GiveBack, DiskOK
    <3>4. LocalsOK' /\ ControlOK'
      BY <1>0, <2>2 DEF GiveBack, LocalsOK, ControlOK, Outcomes
    <3> QED
      BY <1>1, <2>2, <3>1, <3>3, <3>4 DEF GiveBack
  <2> QED
    BY <1>16, <2>1, <2>2
<1>17. CASE Reconcile
  <2>1. DiskOK'
    BY <1>0, <1>17, RecordedPaths DEF Reconcile, DiskOK
  <2> QED
    BY <1>3, <1>17, <2>1 DEF Reconcile, Outcomes
<1>18. CASE ReconcileFails
  <2>1. DiskOK'
    BY <1>0, <1>18 DEF ReconcileFails, DiskOK
  <2> QED
    BY <1>2, <1>18, <2>1 DEF ReconcileFails, FailLate
<1>19. CASE Refuse
  <2>1. DiskOK'
    BY <1>0, <1>19 DEF Refuse, DiskOK
  <2>2. CASE pc = "project"
    BY <1>0, <1>1, <1>19, <2>1, <2>2 DEF Refuse, LocalsOK, ControlOK
  <2>3. CASE pc # "project"
    BY <1>2, <1>19, <2>1, <2>3 DEF Refuse
  <2> QED
    BY <2>2, <2>3
<1> QED
  BY <1>4, <1>5, <1>6, <1>7, <1>8, <1>9, <1>10, <1>11, <1>12, <1>13, <1>14, <1>15, <1>16, <1>17,
     <1>18, <1>19 DEF Work, Local

LEMMA AftermathTyped ==
  ASSUME TypeInv, Aftermath
  PROVE  TypeInv'
<1> USE DEF counters, disk, Lost
<1>0. /\ DiskOK /\ LocalsOK /\ ControlOK /\ CountersOK /\ IdleOK
      /\ gen \in Leftovers
      /\ start.overlay \in OverlayValues /\ start.manifest \in SUBSET Molecules
      /\ kills \in 0..MaxKills /\ moves \in 0..MaxMoves
  BY TypeParts, GenFields DEF DiskOK, LocalsOK, CountersOK
<1>1. CASE RollBackFails
  <2>1. gen' \in Leftovers
    BY <1>0, <1>1, RemainsFields DEF RollBackFails
  <2>2. LocalsOK' /\ ControlOK' /\ IdleOK'
    BY <1>1, FailTyped DEF RollBackFails, Outcomes, Points
  <2>3. pc' \in Lost
    BY <1>1 DEF RollBackFails, FailAs, End
  <2>4. DiskOK' /\ CountersOK'
    BY <1>0, <1>1, <2>1, <2>3, BoundsAssumption DEF RollBackFails, DiskOK, CountersOK
  <2> QED
    BY <2>2, <2>4, TypeParts, PTL
<1>2. CASE Restore
  <2>1. gen' = IF edit = "overlay" THEN SetOverlay(gen, start.overlay)
               ELSE SetManifest(gen, start.manifest)
    BY <1>2 DEF Restore, SetOverlay, SetManifest
  <2>2. gen' \in Leftovers
    BY <1>0, <2>1, LeftoverRestored
  <2>3. LocalsOK' /\ ControlOK' /\ IdleOK'
    BY <1>2, EndTyped DEF Restore, Outcomes
  <2>4. pc' = "idle"
    BY <1>2 DEF Restore, End
  <2>5. DiskOK' /\ CountersOK'
    BY <1>0, <1>2, <2>2, <2>4 DEF Restore, DiskOK, CountersOK
  <2> QED
    BY <2>3, <2>5, TypeParts, PTL
<1>3. CASE RestoreFails
  <2>1. LocalsOK' /\ ControlOK' /\ IdleOK'
    BY <1>3, EndTyped DEF RestoreFails, Outcomes
  <2>2. pc' = "idle"
    BY <1>3 DEF RestoreFails, End
  <2>3. DiskOK' /\ CountersOK'
    BY <1>0, <1>3, <2>2, BoundsAssumption DEF RestoreFails, DiskOK, CountersOK
  <2> QED
    BY <2>1, <2>3, TypeParts, PTL
<1> QED
  BY <1>1, <1>2, <1>3 DEF Aftermath

LEMMA KillTyped ==
  ASSUME TypeInv, Kill
  PROVE  TypeInv'
<1>1. LocalsOK' /\ ControlOK' /\ IdleOK'
  BY EndTyped DEF Kill, Outcomes
<1>2. gen' \in Leftovers
  BY TypeParts, RemainsFields DEF Kill, DiskOK
<1>3. DiskOK' /\ CountersOK'
  BY <1>2, TypeParts, BoundsAssumption DEF Kill, End, DiskOK, Lost, CountersOK
<1> QED
  BY <1>1, <1>3, TypeParts, PTL

LEMMA NextParts == Next <=> Command \/ OperatorMove \/ Work \/ Aftermath \/ Kill
  BY DEF Next, Command, OperatorMove, Work, Aftermath

LEMMA TypeInit == Init => TypeInv
<1> SUFFICES ASSUME Init PROVE TypeInv
  OBVIOUS
<1>1. gen \in Generations /\ gen \in Leftovers
  BY DEF Init, Generations, Leftovers, Locks
<1>2. DiskOK
  BY <1>1, NoFilesType DEF Init, DiskOK
<1>3. LocalsOK
  BY <1>1, NoFilesType DEF Init, LocalsOK, NoPlan, Locks
<1>4. ControlOK /\ CountersOK /\ IdleOK
  BY BoundsAssumption DEF Init, ControlOK, CountersOK, IdleOK, Points, Outcomes
<1> QED
  BY <1>2, <1>3, <1>4, TypeParts

LEMMA TypeNext == TypeInv /\ [Next]_vars => TypeInv'
<1>1. ASSUME TypeInv, Command PROVE TypeInv'
  BY <1>1, CommandStarts, Started
<1>2. ASSUME TypeInv, OperatorMove PROVE TypeInv'
  BY <1>2, OperatorRests, Rested
<1>3. ASSUME TypeInv, UNCHANGED vars PROVE TypeInv'
  BY <1>3 DEF TypeInv, TypeOK, vars, disk, locals, counters
<1> QED
  BY <1>1, <1>2, <1>3, WorkTyped, AftermathTyped, KillTyped, NextParts

\* Both scopes, the repository root and the locals of a command keep their types, and
\* no local value outlives its command.
THEOREM TypeCorrect == Spec => []TypeOK
<1>1. TypeInv => TypeOK
  BY DEF TypeInv
<1> QED
  BY <1>1, TypeInit, TypeNext, PTL DEF Spec

--------------------------------------------------------------------------------
(* What a failure restores *)

Undo(g) == UndoWith(edit, start, g)

\* An edit changes one field: the others of a generation it is undone for are as found.
LEMMA UndoneFields ==
  ASSUME NEW g \in Generations, NEW old \in Generations,
         NEW what \in {"none", "overlay", "manifest"}, UndoWith(what, old, g) = old
  PROVE  /\ what # "manifest" => g.manifest = old.manifest
         /\ what # "overlay" => g.overlay = old.overlay
<1>1. old.overlay \in OverlayValues /\ old.manifest \in SUBSET Molecules
  BY GenFields
<1> QED
  BY <1>1, OverlaySet, ManifestSet DEF UndoWith

Early == {"prepare", "hooks", "guard", "plan", "project"}
Publishing == {"localSwap", "localFiles", "localOrphans", "exclude", "undoSwap"}

\* What is restored is what the command found, once the edit is taken back: the
\* generation itself until something is published, and the copy from there on.
CopyIsWhatWasFound == backup # NoGen => Undo(backup) = start

\* A publication without a copy is one that nothing can fail after: there is no local
\* scope, and no behavior to compose.
UndoneFrom ==
    /\ pc \in Early \cup {"restore"} => Undo(gen) = start
    /\ pc = "project" => backup # NoGen \/ (~IsActive(gen) /\ ~ProjectBehaves)
    /\ pc \in Publishing => backup # NoGen
    /\ pc = "compose" /\ backup = NoGen => Undo(gen) = start \/ ~Composes
    /\ pc = "rollback" /\ backup = NoGen => Undo(gen) = start
    /\ pc \in {"restore", "restoreLate", "restoreLost"} => edit # "none"

OutcomeSoFar ==
    /\ pc # "idle" => outcome \in {"none", "deferred"}
    /\ outcome = "deferred" => pc \in {"idle", "reconcile", "restoreLate"}

\* The manifest that is not edited is as found or gone with the tree, and the overlay that
\* is not edited as found or gone; while there is local scope, it is there.
Kept ==
    pc # "idle" =>
        /\ edit # "manifest" =>
              \/ gen.manifest = start.manifest
              \/ pc = "restoreLost" /\ gen.manifest = None
        /\ edit # "overlay" =>
              \/ gen.overlay = start.overlay
              \/ gen.overlay = NoOverlay /\ pc # "restoreLate" /\ (pc = "restoreLost" \/ ~IsActive(gen))

UndoInv ==
    /\ TypeInv /\ CopyIsWhatWasFound /\ UndoneFrom /\ OutcomeSoFar /\ Kept
    /\ FailureRestoresScopes

LEMMA UndoInit == Init => UndoInv
  BY TypeInit
  DEF Init, UndoInv, CopyIsWhatWasFound, UndoneFrom, OutcomeSoFar, Kept, FailureRestoresScopes,
      Early, Publishing

UndoParts == CopyIsWhatWasFound /\ UndoneFrom /\ OutcomeSoFar /\ Kept /\ FailureRestoresScopes

\* What the end of a command has to leave.
Restored(how) ==
    /\ how = "failed" => gen' = start
    /\ how = "failedLate" => gen'.manifest = start.manifest /\ gen'.overlay = start.overlay
    /\ how = "lost" => /\ gen'.manifest \in {start.manifest, None}
                       /\ gen'.overlay \in {start.overlay, NoOverlay}

LEMMA UndoEnd ==
  ASSUME NEW how, End(how), Restored(how)
  PROVE  UndoParts'
  BY DEF End, Restored, UndoParts, CopyIsWhatWasFound, UndoneFrom, OutcomeSoFar, Kept,
         FailureRestoresScopes, Early, Publishing

\* An exception restores, at once or by way of the edited file.
LEMMA UndoFail ==
  ASSUME UndoInv, Fail, UndoWith(edit, start, gen') = start, pc # "idle",
         gen' \in Generations, outcome # "deferred"
  PROVE  UndoParts'
<1>1. CASE edit = "none"
  BY <1>1, UndoEnd DEF Fail, FailAs, UndoWith, Restored
<1>2. CASE edit # "none"
  <2>1. pc' = "restore" /\ UNCHANGED <<edit, start, backup, outcome>>
    BY <1>2 DEF Fail, FailAs, locals
  <2>2. CopyIsWhatWasFound' /\ UndoneFrom'
    BY <1>2, <2>1 DEF UndoInv, CopyIsWhatWasFound, UndoneFrom, Undo, Early, Publishing
  <2>3. Kept'
    <3>1. start \in Generations /\ edit \in {"none", "overlay", "manifest"}
      BY TypeParts DEF UndoInv, LocalsOK
    <3>2. /\ edit # "manifest" => gen'.manifest = start.manifest
          /\ edit # "overlay" => gen'.overlay = start.overlay
      BY <3>1, UndoneFields
    <3> QED
      BY <2>1, <3>2 DEF Kept
  <2> QED
    BY <2>1, <2>2, <2>3 DEF UndoInv, UndoParts, OutcomeSoFar, FailureRestoresScopes
<1> QED
  BY <1>1, <1>2

\* Nothing takes back what is published: the manifests are still the ones found.
LEMMA UndoLate ==
  ASSUME UndoInv, FailLate, pc # "idle", pc # "restoreLost",
         gen'.manifest = gen.manifest, gen'.overlay = gen.overlay,
         edit # "overlay" => gen.overlay = start.overlay
  PROVE  UndoParts'
<1>1. edit # "manifest" => gen.manifest = start.manifest
  BY DEF UndoInv, Kept
<1>2. CASE edit = "none"
  BY <1>1, <1>2, UndoEnd DEF FailLate, FailAs, Restored
<1>3. CASE edit # "none"
  <2>1. pc' = "restoreLate" /\ UNCHANGED <<edit, start, backup, outcome>>
    BY <1>3 DEF FailLate, FailAs, locals
  <2>2. CopyIsWhatWasFound' /\ UndoneFrom'
    BY <1>3, <2>1 DEF UndoInv, CopyIsWhatWasFound, UndoneFrom, Undo, Early, Publishing
  <2>3. Kept'
    BY <1>1, <2>1 DEF Kept
  <2> QED
    BY <2>1, <2>2, <2>3 DEF UndoInv, UndoParts, OutcomeSoFar, FailureRestoresScopes
<1> QED
  BY <1>2, <1>3

LEMMA UndoWork ==
  ASSUME UndoInv, Work
  PROVE  UndoParts'
<1> USE DEF locals, disk, counters
<1>0. /\ TypeInv /\ CopyIsWhatWasFound /\ UndoneFrom /\ OutcomeSoFar /\ Kept
      /\ FailureRestoresScopes
      /\ gen \in Generations /\ start \in Generations
      /\ backup \in Generations \cup {NoGen}
      /\ edit \in {"none", "overlay", "manifest"}
      /\ gen # NoGen /\ pc \notin {"idle", "restore", "restoreLate", "restoreLost"}
  BY WorkOnWhole, TypeParts, GenFields DEF UndoInv, LocalsOK
\* A step that goes on, with the same generation and the same copy.
<1>1. ASSUME UNCHANGED <<edit, start, gen, backup>>, outcome' = "none", UndoneFrom',
             pc' \notin {"idle", "restoreLate", "restoreLost"}
      PROVE  UndoParts'
  BY <1>0, <1>1
  DEF UndoParts, CopyIsWhatWasFound, Undo, OutcomeSoFar, Kept, IsActive, FailureRestoresScopes
<1> USE DEF Early, Publishing
<1>2. CASE Prepare
  <2>1. pc = "prepare" /\ gen' = gen /\ outcome = "none"
    BY <1>0, <1>2 DEF Prepare, OutcomeSoFar
  <2>2. CASE Conflicts
    BY <1>0, <1>2, <2>1, <2>2, UndoFail DEF Prepare, UndoneFrom, Undo
  <2>3. CASE ~Conflicts
    <3>1. pc' \in {"hooks", "plan"} /\ UNCHANGED <<edit, start, backup, outcome>>
      BY <1>2, <2>3 DEF Prepare
    <3>2. UndoneFrom'
      BY <1>0, <2>1, <3>1 DEF UndoneFrom, Undo
    <3> QED
      BY <1>1, <2>1, <3>1, <3>2
  <2> QED
    BY <2>2, <2>3
<1>3. CASE RunHooks
  <2>1. pc = "hooks" /\ pc' = "guard" /\ UNCHANGED <<edit, start, gen, backup, outcome>>
    BY <1>3 DEF RunHooks
  <2>2. UndoneFrom' /\ outcome = "none"
    BY <1>0, <2>1 DEF UndoneFrom, Undo, OutcomeSoFar
  <2> QED
    BY <1>1, <2>1, <2>2
<1>4. CASE Guard
  <2>1. pc = "guard" /\ gen' = gen /\ outcome = "none"
    BY <1>0, <1>4 DEF Guard, OutcomeSoFar
  <2>2. CASE Changed # {}
    BY <1>0, <1>4, <2>1, <2>2, UndoFail DEF Guard, UndoneFrom, Undo
  <2>3. CASE Changed = {}
    <3>1. pc' = "plan" /\ UNCHANGED <<edit, start, backup, outcome>>
      BY <1>4, <2>3 DEF Guard
    <3>2. UndoneFrom'
      BY <1>0, <2>1, <3>1 DEF UndoneFrom, Undo
    <3> QED
      BY <1>1, <2>1, <3>1, <3>2
  <2> QED
    BY <2>2, <2>3
<1>5. CASE Plan
  <2>1. /\ pc = "plan" /\ outcome = "none" /\ outcome' = outcome
        /\ UNCHANGED <<edit, start, gen>>
        /\ Undo(gen) = start
    BY <1>0, <1>5 DEF Plan, OutcomeSoFar, UndoneFrom
  <2>2. CopyIsWhatWasFound'
    BY <1>5, <2>1 DEF Plan, CopyIsWhatWasFound, Undo
  <2>3. UndoneFrom'
    <3>1. CASE ProjectIsNoOp /\ LocalIsNoOp
      <4>1. pc' = "compose"
        BY <1>5, <3>1 DEF Plan
      <4> QED
        BY <2>1, <4>1 DEF UndoneFrom, Undo
    <3>2. CASE ProjectIsNoOp /\ ~LocalIsNoOp
      <4>1. pc' = "localSwap" /\ backup' = gen
        BY <1>5, <3>2 DEF Plan, LocalIsNoOp
      <4> QED
        BY <1>0, <2>1, <4>1 DEF UndoneFrom
    <3>3. CASE ~ProjectIsNoOp
      <4>1. pc' = "project" /\ backup' = IF ProjectBehaves \/ IsActive(gen) THEN gen ELSE NoGen
        BY <1>5, <3>3 DEF Plan
      <4> QED
        BY <1>0, <2>1, <4>1 DEF UndoneFrom, Undo, ProjectBehaves
    <3> QED
      BY <3>1, <3>2, <3>3
  <2>4. pc' \in {"compose", "localSwap", "project"}
    BY <1>5 DEF Plan
  <2>5. Kept'
    BY <1>0, <2>1, <2>4 DEF Kept, IsActive
  <2> QED
    BY <1>0, <2>1, <2>2, <2>3, <2>4, <2>5 DEF UndoParts, OutcomeSoFar, FailureRestoresScopes
<1>6. CASE PublishProject
  <2>1. /\ pc = "project" /\ outcome = "none" /\ outcome' = outcome
        /\ UNCHANGED <<edit, start, backup>>
        /\ gen' = SetLock(gen, gen.manifest)
        /\ pc' = IF LocalIsNoOp THEN "compose" ELSE "localSwap"
    BY <1>0, <1>6 DEF PublishProject, ProjectPublished, OutcomeSoFar, SetLock
  <2>2. gen'.manifest = gen.manifest /\ gen'.overlay = gen.overlay /\ gen'.local = gen.local
    BY <1>0, <2>1, LockSet, GenFields
  <2>3. backup # NoGen \/ (~IsActive(gen) /\ ~ProjectBehaves)
    BY <1>0, <2>1 DEF UndoneFrom
  <2>4. ~LocalIsNoOp => IsActive(gen)
    BY DEF LocalIsNoOp
  <2>5. ~IsActive(gen) /\ ~ProjectBehaves => ~Composes'
    BY <2>2 DEF IsActive, ProjectBehaves, Composes, LocalOf, Overlay
  <2>6. UndoneFrom'
    BY <2>1, <2>3, <2>4, <2>5 DEF UndoneFrom
  <2>7. Kept'
    BY <1>0, <2>1, <2>2 DEF Kept, IsActive
  <2> QED
    BY <1>0, <2>1, <2>6, <2>7
    DEF UndoParts, CopyIsWhatWasFound, Undo, OutcomeSoFar, FailureRestoresScopes
<1>17. CASE PublishProjectFails
  <2>1. pc = "project" /\ outcome = "none" /\ gen' = SetLock(gen, gen.manifest)
    BY <1>0, <1>17 DEF PublishProjectFails, ProjectPublished, OutcomeSoFar, SetLock
  <2>2. /\ gen'.manifest = gen.manifest /\ gen'.overlay = gen.overlay /\ gen'.local = gen.local
    BY <1>0, <2>1, LockSet, GenFields
  <2>3. CASE backup = NoGen
    <3>1. edit # "overlay" => gen.overlay = start.overlay
      BY <1>0, <2>1, UndoneFields DEF UndoneFrom, Undo
    <3> QED
      BY <1>0, <1>17, <2>1, <2>2, <2>3, <3>1, UndoLate DEF PublishProjectFails
  <2>4. CASE backup # NoGen
    <3>1. pc' = "rollback" /\ UNCHANGED <<edit, start, backup, outcome>>
      BY <1>17, <2>4 DEF PublishProjectFails
    <3>2. UndoneFrom'
      BY <2>4, <3>1 DEF UndoneFrom
    <3>3. Kept'
      BY <1>0, <2>2, <3>1 DEF Kept, IsActive
    <3> QED
      BY <1>0, <2>1, <3>1, <3>2, <3>3
      DEF UndoParts, CopyIsWhatWasFound, Undo, OutcomeSoFar, FailureRestoresScopes
  <2> QED
    BY <2>3, <2>4
<1>7. CASE LocalSwap \/ LocalFiles \/ LocalOrphans \/ Exclude \/ LocalPublicationFails \/ UndoSwap
  <2>1. /\ pc \in Publishing /\ outcome' = outcome /\ UNCHANGED <<edit, start, backup>>
        /\ pc' \in Publishing \cup {"compose", "rollback"}
    BY <1>7 DEF LocalSwap, LocalFiles, LocalOrphans, Exclude, LocalPublicationFails, UndoSwap
  <2>2. backup # NoGen /\ outcome = "none"
    BY <1>0, <2>1 DEF UndoneFrom, OutcomeSoFar
  <2>3. UndoneFrom'
    BY <2>1, <2>2 DEF UndoneFrom
  <2>4. Kept'
    <3>1. CASE LocalSwap
      <4>1. CASE Overlay(gen) = {}
        <5>1. gen' = SetBoth(gen, NoOverlay, NoLock)
          BY <3>1, <4>1 DEF LocalSwap, SetBoth
        <5>2. gen'.manifest = gen.manifest /\ gen'.overlay = NoOverlay /\ gen'.local = NoLock
          BY <1>0, <5>1, BothSet DEF OverlayValues, Locks
        <5> QED
          BY <1>0, <2>1, <5>2 DEF Kept, IsActive
      <4>2. CASE Overlay(gen) # {}
        <5>1. gen' = SetLocal(gen, plan) /\ gen.overlay # NoOverlay
          BY <3>1, <4>2 DEF LocalSwap, SetLocal, Overlay
        <5>2. plan \in Locks
          BY <1>0, TypeParts DEF LocalsOK
        <5>3. gen'.manifest = gen.manifest /\ gen'.overlay = gen.overlay
          BY <1>0, <5>1, <5>2, LocalSet
        <5> QED
          BY <1>0, <2>1, <5>1, <5>3 DEF Kept, IsActive
      <4> QED
        BY <4>1, <4>2
    <3>2. CASE UndoSwap
      <4>1. gen' = SetBoth(gen, Swapped, start.local) /\ start.local \in Locks
        BY <1>0, <3>2, GenFields DEF UndoSwap, SetBoth, Previous
      <4>2. gen'.manifest = gen.manifest /\ gen'.overlay = Swapped
        BY <1>0, <4>1, SwappedType, BothSet
      <4>3. edit # "overlay" => Swapped = start.overlay
        BY <1>0 DEF Swapped, Kept, IsActive
      <4> QED
        BY <1>0, <2>1, <4>2, <4>3 DEF Kept
    <3>3. CASE LocalFiles \/ LocalOrphans \/ Exclude \/ LocalPublicationFails
      <4>1. gen' = gen
        BY <3>3 DEF LocalFiles, LocalOrphans, Exclude, LocalPublicationFails
      <4> QED
        BY <1>0, <2>1, <4>1 DEF Kept, IsActive
    <3> QED
      BY <1>7, <3>1, <3>2, <3>3
  <2> QED
    BY <1>0, <2>1, <2>2, <2>3, <2>4
    DEF UndoParts, CopyIsWhatWasFound, Undo, OutcomeSoFar, FailureRestoresScopes
<1>8. CASE Compose \/ ComposeFails
  <2>1. /\ pc = "compose" /\ outcome = "none" /\ outcome' = outcome
        /\ UNCHANGED <<edit, start, gen, backup>>
        /\ \/ pc' = "reconcile"
           \/ pc' = "rollback" /\ Composes
    BY <1>0, <1>8 DEF Compose, ComposeFails, OutcomeSoFar
  <2>2. UndoneFrom'
    BY <1>0, <2>1 DEF UndoneFrom, Undo
  <2> QED
    BY <1>1, <2>1, <2>2
<1>9. CASE RollBack
  <2>1. /\ pc = "rollback" /\ outcome = "none" /\ Fail
        /\ gen' = IF backup = NoGen THEN gen ELSE backup
    BY <1>0, <1>9 DEF RollBack, OutcomeSoFar
  <2>2. UndoWith(edit, start, gen') = start /\ gen' \in Generations
    BY <1>0, <2>1 DEF UndoneFrom, CopyIsWhatWasFound, Undo
  <2> QED
    BY <2>1, <2>2, UndoFail
<1>10. CASE Defer
  <2>1. /\ pc' = "giveBack" /\ backup # NoGen /\ pc = "compose" /\ outcome = "none"
        /\ outcome' = outcome /\ UNCHANGED <<edit, start, gen, backup>>
    BY <1>0, <1>10 DEF Defer, OutcomeSoFar
  <2>2. UndoneFrom'
    BY <2>1 DEF UndoneFrom
  <2> QED
    BY <1>1, <2>1, <2>2
<1>16. CASE GiveBack
  <2>1. /\ pc = "giveBack" /\ pc' = "reconcile" /\ outcome' = "deferred" /\ gen' = backup
        /\ UNCHANGED <<edit, start, backup>>
    BY <1>16 DEF GiveBack
  <2>2. backup # NoGen /\ UndoWith(edit, start, backup) = start
    BY <1>0, <2>1, TypeParts DEF LocalsOK, CopyIsWhatWasFound, Undo
  <2>3. Kept'
    BY <1>0, <2>1, <2>2, UndoneFields DEF Kept
  <2> QED
    BY <1>0, <2>1, <2>3
    DEF UndoParts, CopyIsWhatWasFound, Undo, UndoneFrom, OutcomeSoFar, FailureRestoresScopes
<1>11. CASE Reconcile
  BY <1>11, UndoEnd DEF Reconcile, Restored
<1>12. CASE ReconcileFails
  <2>1. pc = "reconcile" /\ IsActive(gen) /\ gen' = gen /\ FailLate
    BY <1>12 DEF ReconcileFails, FailLate
  <2> QED
    BY <1>0, <2>1, UndoLate DEF Kept
<1>13. CASE Refuse
  <2>1. pc \in {"prepare", "plan", "project"} /\ gen' = gen /\ outcome = "none"
    BY <1>0, <1>13 DEF Refuse, OutcomeSoFar
  <2>2. CASE pc = "project"
    <3>1. pc' = "rollback" /\ UNCHANGED <<edit, start, backup, outcome>>
      BY <1>13, <2>2 DEF Refuse
    <3>2. UndoneFrom'
      BY <1>0, <2>1, <2>2, <3>1 DEF UndoneFrom, Undo
    <3> QED
      BY <1>1, <2>1, <3>1, <3>2
  <2>3. CASE pc # "project"
    BY <1>0, <1>13, <2>1, <2>3, UndoFail DEF Refuse, UndoneFrom, Undo
  <2> QED
    BY <2>2, <2>3
<1> QED
  BY <1>2, <1>3, <1>4, <1>5, <1>6, <1>7, <1>8, <1>9, <1>10, <1>11, <1>12, <1>13, <1>16, <1>17
  DEF Work, Local

LEMMA UndoAftermath ==
  ASSUME UndoInv, Aftermath
  PROVE  UndoParts'
<1> USE DEF disk, counters
<1>0. /\ CopyIsWhatWasFound /\ UndoneFrom /\ OutcomeSoFar /\ Kept
      /\ gen \in Leftovers /\ start \in Generations
      /\ start.overlay \in OverlayValues /\ start.manifest \in SUBSET Molecules
      /\ edit \in {"none", "overlay", "manifest"}
  BY TypeParts, GenFields DEF UndoInv, DiskOK, LocalsOK
<1>1. CASE RollBackFails
  <2>1. pc \in {"rollback", "giveBack"} /\ gen' \in Remains(gen)
    BY <1>1 DEF RollBackFails
  <2>2. /\ gen'.manifest \in {gen.manifest, None}
        /\ gen'.overlay \in {gen.overlay, NoOverlay}
    BY <1>0, <2>1, RemainsFields
  <2>3. /\ edit # "manifest" => gen'.manifest \in {start.manifest, None}
        /\ edit # "overlay" => gen'.overlay \in {start.overlay, NoOverlay}
    BY <1>0, <2>1, <2>2 DEF Kept
  <2>4. CASE edit = "none"
    BY <1>1, <2>3, <2>4, UndoEnd DEF RollBackFails, FailAs, Restored
  <2>5. CASE edit # "none"
    <3>1. pc' = "restoreLost" /\ UNCHANGED <<edit, start, backup, outcome>>
      BY <1>1, <2>5 DEF RollBackFails, FailAs, locals
    <3>2. CopyIsWhatWasFound' /\ UndoneFrom'
      BY <1>0, <2>5, <3>1 DEF CopyIsWhatWasFound, UndoneFrom, Undo, Early, Publishing
    <3>3. Kept'
      BY <2>3, <3>1 DEF Kept
    <3>4. OutcomeSoFar' /\ FailureRestoresScopes'
      BY <1>0, <2>1, <3>1 DEF OutcomeSoFar, FailureRestoresScopes
    <3> QED
      BY <3>2, <3>3, <3>4 DEF UndoParts
  <2> QED
    BY <2>4, <2>5
<1>2. CASE Restore
  <2>1. /\ pc \in {"restore", "restoreLate", "restoreLost"} /\ edit # "none"
        /\ gen' = IF edit = "overlay" THEN SetOverlay(gen, start.overlay)
                  ELSE SetManifest(gen, start.manifest)
    BY <1>0, <1>2 DEF Restore, UndoneFrom, SetOverlay, SetManifest
  <2>2. pc = "restore" => gen' = start
    BY <1>0, <2>1 DEF UndoneFrom, Undo, UndoWith
  <2>3. /\ edit = "overlay" => gen'.overlay = start.overlay /\ gen'.manifest = gen.manifest
        /\ edit = "manifest" => gen'.manifest = start.manifest /\ gen'.overlay = gen.overlay
    BY <1>0, <2>1, LeftoverRestored
  <2>4. pc = "restoreLate" => Restored("failedLate")
    BY <1>0, <2>1, <2>3 DEF Kept, Restored
  <2>5. pc = "restoreLost" => Restored("lost")
    BY <1>0, <2>1, <2>3 DEF Kept, Restored
  <2>6. pc = "restore" => Restored("failed")
    BY <2>2 DEF Restored
  <2> QED
    BY <1>2, <2>4, <2>5, <2>6, UndoEnd DEF Restore
<1>3. CASE RestoreFails
  BY <1>3, UndoEnd DEF RestoreFails, Restored
<1> QED
  BY <1>1, <1>2, <1>3 DEF Aftermath

LEMMA UndoNext == UndoInv /\ [Next]_vars => UndoInv'
<1>1. ASSUME UndoInv, Command PROVE UndoParts'
  <2>1. PICK what \in {"none", "overlay", "manifest"}, g \in Generations :
           Move /\ Start(what, g) /\ g.local = gen.local /\ UndoWith(what, gen, g) = gen
    BY <1>1, CommandStarts DEF UndoInv
  <2>2. /\ pc = "idle" /\ pc' = "prepare" /\ edit' = what /\ gen' = g /\ start' = gen
        /\ outcome' = "none" /\ backup' = backup
    BY <2>1 DEF Move, Start
  <2>3. backup' = NoGen
    BY <1>1, <2>2, TypeParts DEF UndoInv, IdleOK
  <2>4. Kept'
    <3>1. gen \in Generations
      BY <1>1, <2>1, TypeParts, LeftoverFields DEF UndoInv, DiskOK, Move
    <3> QED
      BY <2>1, <2>2, <3>1, UndoneFields DEF Kept
  <2> QED
    BY <2>1, <2>2, <2>3, <2>4
    DEF UndoParts, CopyIsWhatWasFound, UndoneFrom, Undo, OutcomeSoFar, FailureRestoresScopes,
        Early, Publishing
<1>2. ASSUME UndoInv, OperatorMove PROVE UndoParts'
  <2>1. pc = "idle" /\ pc' = "idle" /\ outcome' = "none" /\ backup' = NoGen
    BY <1>2, OperatorRests, TypeParts DEF UndoInv, IdleOK, Move, AtRest, locals
  <2> QED
    BY <2>1
    DEF UndoParts, CopyIsWhatWasFound, UndoneFrom, OutcomeSoFar, Kept, FailureRestoresScopes,
        Early, Publishing
<1>3. ASSUME UndoInv, Kill PROVE UndoParts'
  BY <1>3, UndoEnd DEF Kill, Restored
<1>4. ASSUME UndoInv, UNCHANGED vars PROVE UndoParts'
  BY <1>4
  DEF UndoInv, UndoParts, CopyIsWhatWasFound, UndoneFrom, Undo, OutcomeSoFar, Kept,
      FailureRestoresScopes, IsActive, ProjectBehaves, Composes, LocalOf, Overlay, vars, disk,
      locals
<1> QED
  BY <1>1, <1>2, <1>3, <1>4, UndoWork, UndoAftermath, TypeNext, NextParts DEF UndoInv, UndoParts

LEMMA UndoInvariant == Spec => []UndoInv
  BY UndoInit, UndoNext, PTL DEF Spec

\* A command that fails gives both manifests and both locks back as it found them,
\* wherever in the two publications and their rollbacks it fails (install.run,
\* publish_local, _preserve_generation_for_behavior, write_and_reinstall); both manifests
\* where it fails with everything published; and no other manifest where the rollback
\* itself fails and may leave none.
THEOREM FailureRestores == Spec => []FailureRestoresScopes
<1>1. UndoInv => FailureRestoresScopes
  BY DEF UndoInv
<1> QED
  BY <1>1, UndoInvariant, PTL

--------------------------------------------------------------------------------
(* What the local scope may not touch *)

\* Every recorded file has the contents it was recorded with.
Hashed(lock) == \A p \in Recorded(lock) : lock.hash[p] # None

LocksHashed ==
    /\ Hashed(gen.local) /\ Hashed(start.local) /\ Hashed(plan)
    /\ backup # NoGen => Hashed(backup.local)

CreatedExist ==
    /\ pc = "prepare" => created = {}
    /\ pc = "plan" => \A p \in created : root[p] # None

\* What preflight has found is not changed before the local scope is published.
Preflighted == {"hooks", "guard", "plan", "project"} \cup (Publishing \ {"undoSwap"})

Apart ==
    /\ ~Collides(LocalOf(gen))
    /\ Files(LocalOf(gen)) \cap (ProjectOwned(gen) \cup tracked) = {}

TeamInv ==
    TypeInv /\ LocksHashed /\ CreatedExist /\ (pc \in Preflighted => Apart)

TeamParts == LocksHashed /\ CreatedExist /\ (pc \in Preflighted => Apart)

LEMMA NothingRecorded == Hashed(NoLock)
  BY DEF Hashed, Recorded

LEMMA TeamInit == Init => TeamInv
<1> SUFFICES ASSUME Init PROVE TeamInv
  OBVIOUS
<1>1. LocksHashed
  BY NothingRecorded DEF Init, LocksHashed, NoPlan
<1>2. CreatedExist /\ pc \notin Preflighted
  BY DEF Init, CreatedExist, Preflighted, Publishing
<1> QED
  BY <1>1, <1>2, TypeInit DEF TeamInv

\* The records of an install have contents for every file, since those of before had.
LEMMA RecordsHashed ==
  ASSUME TypeInv, gen \in Generations, Hashed(gen.local), \A p \in created : root[p] # None
  PROVE  Hashed(Records)
<1>0. /\ gen \in Generations /\ gen.local \in Locks /\ LocalOf(gen) \in SUBSET Molecules
      /\ root \in [Paths -> Contents] /\ created \in SUBSET Paths
      /\ Records \in LockFiles /\ Records.of = LocalOf(gen)
  BY TypeParts, GenFields, LocalOfType, RecordsType DEF DiskOK, LocalsOK
<1> SUFFICES ASSUME NEW p \in Recorded(Records) PROVE Records.hash[p] # None
  BY DEF Hashed
<1>1. PICK m \in LocalOf(gen) : p \in FilesOf[m] \cup Carried(m) \cup Fresh(m)
  BY <1>0, LockFields, RecordsType DEF Recorded
<1>2. p \in Paths
  BY <1>0, RecordedPaths DEF Locks
<1>3. Records.hash[p] = IF p \in AllCarried THEN gen.local.hash[p]
                        ELSE IF p \in AllFresh THEN root[p]
                        ELSE IF p \in Files(LocalOf(gen)) THEN OwnerIn(LocalOf(gen), p)
                        ELSE None
  BY <1>2 DEF Records
<1>4. ASSUME p \in AllCarried PROVE gen.local.hash[p] # None
  <2>1. PICK n \in LocalOf(gen) : p \in Carried(n)
    BY <1>4 DEF AllCarried
  <2>2. gen.local # NoLock /\ n \in gen.local.of /\ p \in gen.local.paths[n]
    BY <2>1 DEF Carried
  <2>3. p \in Recorded(gen.local)
    BY <2>2 DEF Recorded
  <2> QED
    BY <2>3 DEF Hashed
<1>5. ASSUME p \in AllFresh PROVE root[p] # None
  BY <1>5 DEF AllFresh, Fresh
<1>6. ASSUME p \notin AllCarried, p \notin AllFresh
      PROVE  p \in Files(LocalOf(gen)) /\ OwnerIn(LocalOf(gen), p) # None
  <2>1. p \in FilesOf[m]
    BY <1>1, <1>6 DEF AllCarried, AllFresh
  <2>2. p \in Files(LocalOf(gen))
    BY <2>1 DEF Files
  <2> QED
    BY <1>0, <2>2, OwnerOwns, MarksAssumption
<1> QED
  BY <1>3, <1>4, <1>5, <1>6

LEMMA TeamEnd ==
  ASSUME NEW how, End(how), LocksHashed, Hashed(gen'.local)
  PROVE  TeamParts'
  BY NothingRecorded
  DEF End, TeamParts, LocksHashed, CreatedExist, Preflighted, Publishing, NoPlan

LEMMA TeamFail ==
  ASSUME NEW how, NEW point \in {"restore", "restoreLate", "restoreLost"}, FailAs(how, point),
         LocksHashed, Hashed(gen'.local)
  PROVE  TeamParts'
<1>1. CASE edit = "none"
  BY <1>1, TeamEnd DEF FailAs
<1>2. CASE edit # "none"
  BY <1>2 DEF FailAs, locals, TeamParts, LocksHashed, CreatedExist, Preflighted, Publishing
<1> QED
  BY <1>1, <1>2

LEMMA TeamWork ==
  ASSUME TeamInv, Work
  PROVE  TeamParts'
<1> USE DEF locals, disk, counters, Preflighted, Publishing, Fail, FailLate
<1>0. /\ TypeInv /\ LocksHashed /\ CreatedExist /\ (pc \in Preflighted => Apart)
      /\ gen \in Generations /\ gen.manifest \in SUBSET Molecules /\ gen.lock \in SUBSET Molecules
      /\ gen.overlay \in OverlayValues /\ gen.local \in Locks
      /\ start.local \in Locks /\ start.overlay \in OverlayValues
      /\ start.manifest \in SUBSET Molecules /\ Overlay(gen) \in SUBSET Molecules
      /\ plan \in Locks
  BY WorkOnWhole, TypeParts, GenFields, LocalOfType DEF TeamInv, DiskOK, LocalsOK
\* A step that goes on with the generation and the locals it has.
<1>1. ASSUME UNCHANGED <<gen, tracked, start, plan, backup>>,
             pc' \notin {"prepare", "plan"}, pc' \in Preflighted => Apart
      PROVE  TeamParts'
  BY <1>0, <1>1
  DEF TeamParts, LocksHashed, CreatedExist, Apart, ProjectOwned, LocalOf, Overlay
<1>2. CASE Prepare
  <2>1. pc = "prepare" /\ gen' = gen /\ tracked' = tracked /\ root' = root /\ created = {}
    BY <1>0, <1>2 DEF Prepare, CreatedExist
  <2>2. CASE Conflicts
    BY <1>0, <1>2, <2>1, <2>2, TeamFail DEF Prepare, LocksHashed
  <2>3. CASE ~Conflicts
    <3>1. Apart /\ Apart'
      BY <2>1, <2>3 DEF Conflicts, Apart, ProjectOwned, LocalOf, Overlay
    <3>2. UNCHANGED <<start, plan, backup, created>> /\ pc' \in {"hooks", "plan"}
      BY <1>2, <2>3 DEF Prepare
    <3> QED
      BY <1>0, <2>1, <3>1, <3>2 DEF TeamParts, LocksHashed, CreatedExist
  <2> QED
    BY <2>2, <2>3
<1>3. CASE RunHooks
  BY <1>0, <1>1, <1>3 DEF RunHooks
<1>4. CASE Guard
  <2>1. pc = "guard" /\ gen' = gen /\ tracked' = tracked
    BY <1>4 DEF Guard
  <2>2. CASE Changed # {}
    BY <1>0, <1>4, <2>1, <2>2, TeamFail DEF Guard, LocksHashed
  <2>3. CASE Changed = {}
    <3>1. /\ UNCHANGED <<root, start, plan, backup>> /\ pc' = "plan"
          /\ created' = {p \in Paths \ (tracked \cup excluded) :
                            root[p] # None /\ preimage[p] = None}
      BY <1>4, <2>3 DEF Guard
    <3>2. CreatedExist'
      BY <3>1 DEF CreatedExist
    <3>3. Apart'
      BY <1>0, <2>1 DEF Apart, ProjectOwned, LocalOf, Overlay
    <3> QED
      BY <1>0, <2>1, <3>1, <3>2, <3>3 DEF TeamParts, LocksHashed
  <2> QED
    BY <2>2, <2>3
<1>5. CASE Plan
  <2>1. /\ pc = "plan" /\ UNCHANGED <<gen, tracked, start>> /\ plan' = Records
        /\ backup' \in {gen, NoGen} /\ pc' \in {"compose", "localSwap", "project"}
    BY <1>5 DEF Plan
  <2>2. Hashed(Records)
    BY <1>0, <2>1, RecordsHashed DEF LocksHashed, CreatedExist
  <2>3. LocksHashed'
    BY <1>0, <2>1, <2>2 DEF LocksHashed
  <2>4. Apart'
    BY <1>0, <2>1 DEF Apart, ProjectOwned, LocalOf, Overlay
  <2> QED
    BY <2>1, <2>3, <2>4 DEF TeamParts, CreatedExist
<1>17. CASE PublishProjectFails
  <2>1. gen' = SetLock(gen, gen.manifest) /\ tracked' = tracked
    BY <1>17 DEF PublishProjectFails, ProjectPublished, SetLock
  <2>2. gen'.local = gen.local
    BY <1>0, <2>1, LockSet
  <2>3. CASE backup = NoGen
    BY <1>0, <1>17, <2>2, <2>3, TeamFail DEF PublishProjectFails, LocksHashed
  <2>4. CASE backup # NoGen
    BY <1>0, <1>17, <2>2, <2>4 DEF PublishProjectFails, TeamParts, LocksHashed, CreatedExist
  <2> QED
    BY <2>3, <2>4
<1>6. CASE PublishProject
  <2>1. /\ pc = "project" /\ UNCHANGED <<tracked, start, plan, backup>>
        /\ gen' = SetLock(gen, gen.manifest) /\ pc' \in {"compose", "localSwap"}
    BY <1>6 DEF PublishProject, ProjectPublished, SetLock
  <2>2. /\ gen'.manifest = gen.manifest /\ gen'.overlay = gen.overlay /\ gen'.local = gen.local
        /\ gen'.lock = gen.manifest
    BY <1>0, <2>1, LockSet
  <2>3. LocalOf(gen)' = LocalOf(gen)
    BY <2>2 DEF LocalOf, Overlay
  <2>4. Apart'
    BY <1>0, <2>1, <2>2, <2>3 DEF Apart, ProjectOwned
  <2> QED
    BY <1>0, <2>1, <2>2, <2>4 DEF TeamParts, LocksHashed, CreatedExist
<1>7. CASE LocalSwap
  <2>1. /\ pc = "localSwap" /\ UNCHANGED <<tracked, start, plan, backup>> /\ pc' = "localFiles"
        /\ gen' = IF Overlay(gen) = {} THEN SetBoth(gen, NoOverlay, NoLock) ELSE SetLocal(gen, plan)
    BY <1>7 DEF LocalSwap, SetBoth, SetLocal
  <2>2. /\ gen'.manifest = gen.manifest /\ gen'.lock = gen.lock
        /\ gen'.overlay = IF Overlay(gen) = {} THEN NoOverlay ELSE gen.overlay
        /\ gen'.local = IF Overlay(gen) = {} THEN NoLock ELSE plan
    BY <1>0, <2>1, BothSet, LocalSet DEF OverlayValues, Locks
  <2>3. LocalOf(gen)' = LocalOf(gen)
    BY <2>2 DEF LocalOf, Overlay
  <2>4. Apart'
    BY <1>0, <2>1, <2>2, <2>3 DEF Apart, ProjectOwned
  <2> QED
    BY <1>0, <2>1, <2>2, <2>4, NothingRecorded DEF TeamParts, LocksHashed, CreatedExist
<1>8. CASE LocalFiles \/ LocalOrphans \/ Exclude \/ LocalPublicationFails
  BY <1>0, <1>1, <1>8 DEF LocalFiles, LocalOrphans, Exclude, LocalPublicationFails
<1>9. CASE UndoSwap
  <2>1. /\ UNCHANGED <<start, plan, backup>> /\ pc' = "rollback"
        /\ gen' = SetBoth(gen, Swapped, start.local)
    BY <1>9 DEF UndoSwap, SetBoth, Previous
  <2>2. gen'.local = start.local
    BY <1>0, <2>1, SwappedType, BothSet
  <2> QED
    BY <1>0, <2>1, <2>2 DEF TeamParts, LocksHashed, CreatedExist
<1>10. CASE Compose \/ ComposeFails
  BY <1>1, <1>10 DEF Compose, ComposeFails
<1>11. CASE RollBack
  BY <1>0, <1>11, TeamFail DEF RollBack, LocksHashed
<1>12. CASE Defer
  BY <1>1, <1>12 DEF Defer
<1>16. CASE GiveBack
  <2>1. /\ gen' = backup /\ backup # NoGen /\ pc' = "reconcile"
        /\ UNCHANGED <<start, plan, backup>>
    BY <1>16, TypeParts DEF GiveBack, LocalsOK, TeamInv
  <2> QED
    BY <1>0, <2>1 DEF TeamParts, LocksHashed, CreatedExist
<1>13. CASE Reconcile
  BY <1>0, <1>13, TeamEnd DEF Reconcile, LocksHashed
<1>14. CASE ReconcileFails
  BY <1>0, <1>14, TeamFail DEF ReconcileFails, LocksHashed
<1>15. CASE Refuse
  <2>1. CASE pc = "project"
    BY <1>1, <1>15, <2>1 DEF Refuse
  <2>2. CASE pc # "project"
    BY <1>0, <1>15, <2>2, TeamFail DEF Refuse, LocksHashed
  <2> QED
    BY <2>1, <2>2
<1> QED
  BY <1>2, <1>3, <1>4, <1>5, <1>6, <1>7, <1>8, <1>9, <1>10, <1>11, <1>12, <1>13, <1>14, <1>15,
     <1>16, <1>17 DEF Work, Local

LEMMA TeamAftermath ==
  ASSUME TeamInv, Aftermath
  PROVE  TeamParts'
<1> USE DEF disk, counters
<1>0. /\ LocksHashed /\ gen \in Leftovers
      /\ start.overlay \in OverlayValues /\ start.manifest \in SUBSET Molecules
  BY TypeParts, GenFields DEF TeamInv, DiskOK, LocalsOK
<1>1. CASE RollBackFails
  <2>1. gen'.local \in {gen.local, NoLock}
    BY <1>0, <1>1, RemainsFields DEF RollBackFails
  <2>2. Hashed(gen'.local)
    BY <1>0, <2>1, NothingRecorded DEF LocksHashed
  <2> QED
    BY <1>0, <1>1, <2>2, TeamFail DEF RollBackFails
<1>2. CASE Restore
  <2>1. gen' = IF edit = "overlay" THEN SetOverlay(gen, start.overlay)
               ELSE SetManifest(gen, start.manifest)
    BY <1>2 DEF Restore, SetOverlay, SetManifest
  <2>2. gen'.local = gen.local
    BY <1>0, <2>1, LeftoverRestored
  <2> QED
    BY <1>0, <1>2, <2>2, TeamEnd DEF Restore, LocksHashed
<1>3. CASE RestoreFails
  BY <1>0, <1>3, TeamEnd DEF RestoreFails, LocksHashed
<1> QED
  BY <1>1, <1>2, <1>3 DEF Aftermath

LEMMA TeamNext == TeamInv /\ [Next]_vars => TeamInv'
<1> USE DEF Preflighted, Publishing
<1>1. ASSUME TeamInv, Command PROVE TeamParts'
  <2>1. PICK what \in {"none", "overlay", "manifest"}, g \in Generations :
           Move /\ Start(what, g) /\ g.local = gen.local /\ UndoWith(what, gen, g) = gen
    BY <1>1, CommandStarts DEF TeamInv
  <2>2. /\ pc = "idle" /\ pc' = "prepare" /\ gen' = g /\ start' = gen
        /\ UNCHANGED <<plan, backup, created>>
    BY <2>1 DEF Move, Start
  <2>3. created = {}
    BY <1>1, <2>2, TypeParts DEF TeamInv, IdleOK
  <2> QED
    BY <1>1, <2>1, <2>2, <2>3 DEF TeamInv, TeamParts, LocksHashed, CreatedExist
<1>2. ASSUME TeamInv, OperatorMove PROVE TeamParts'
  <2>1. pc = "idle" /\ pc' = "idle" /\ UNCHANGED <<start, plan, backup>> /\ gen'.local = gen.local
    BY <1>2, OperatorRests DEF TeamInv, Move, AtRest, locals
  <2> QED
    BY <1>2, <2>1 DEF TeamInv, TeamParts, LocksHashed, CreatedExist
<1>3. ASSUME TeamInv, Kill PROVE TeamParts'
  <2>1. gen'.local \in {gen.local, NoLock}
    BY <1>3, RemainsFields, TypeParts DEF Kill, TeamInv, DiskOK
  <2>2. LocksHashed /\ Hashed(gen'.local)
    BY <1>3, <2>1, NothingRecorded DEF TeamInv, LocksHashed
  <2> QED
    BY <1>3, <2>2, TeamEnd DEF Kill
<1>4. ASSUME TeamInv, UNCHANGED vars PROVE TeamParts'
  BY <1>4
  DEF TeamInv, TeamParts, LocksHashed, CreatedExist, Apart, ProjectOwned, LocalOf, Overlay,
      vars, disk, locals
<1> QED
  BY <1>1, <1>2, <1>3, <1>4, TeamWork, TeamAftermath, TypeNext, NextParts DEF TeamInv, TeamParts

LEMMA TeamInvariant == Spec => []TeamInv
  BY TeamInit, TeamNext, PTL DEF Spec

\* A step of the local scope leaves the team's files alone.
LEMMA LocalStepKeeps ==
  ASSUME TeamInv, Local, pc # "hooks", NEW p \in TeamFiles
  PROVE  root'[p] = IF pc = "guard" THEN preimage[p] ELSE root[p]
<1>0. /\ TypeInv /\ LocksHashed /\ (pc \in Preflighted => Apart)
      /\ root \in [Paths -> Contents] /\ preimage \in [Paths -> Contents]
      /\ gen.lock \in SUBSET Molecules /\ tracked \in SUBSET Paths
  BY TypeParts, LeftoverFields DEF TeamInv, DiskOK, LocalsOK
<1>1. p \in Paths /\ p \in TeamPaths /\ p \in tracked \cup ProjectOwned(gen)
  BY <1>0, FilesArePaths DEF TeamFiles, TeamPaths, ProjectOwned
<1>2. CASE Guard
  <2>1. CASE p \in Changed
    BY <1>1, <1>2, <2>1 DEF Guard
  <2>2. CASE p \notin Changed
    <3>1. root[p] = preimage[p]
      BY <1>1, <2>2 DEF Changed
    <3>2. root'[p] = root[p]
      BY <1>0, <1>1, <1>2, <2>2 DEF Guard
    <3> QED
      BY <1>2, <3>1, <3>2 DEF Guard
  <2> QED
    BY <2>1, <2>2
<1>3. CASE LocalSwap \/ Exclude \/ UndoSwap
  BY <1>3 DEF LocalSwap, Exclude, UndoSwap
<1>4. CASE LocalFiles \/ LocalPublicationFails
  <2>1. Apart /\ pc # "guard"
    BY <1>0, <1>4 DEF LocalFiles, LocalPublicationFails, Preflighted, Publishing
  <2>2. p \notin Files(LocalOf(gen))
    BY <1>1, <2>1 DEF Apart
  <2> QED
    BY <1>0, <1>1, <1>4, <2>1, <2>2 DEF LocalFiles, LocalPublicationFails
<1>5. CASE LocalOrphans
  <2>1. pc # "guard" /\ root' = [q \in Paths |-> IF q \in Orphans(Files(gen.lock)) THEN None ELSE root[q]]
    BY <1>5 DEF LocalOrphans
  <2>2. ASSUME p \in Orphans(Files(gen.lock)) PROVE root[p] = None
    <3>1. p \in Recorded(Previous) /\ p \notin Files(gen.lock) /\ Previous.hash[p] \in {None, root[p]}
      BY <2>2 DEF Orphans
    <3>2. Previous.hash[p] # None
      BY <1>0, <3>1 DEF LocksHashed, Hashed, Previous
    <3>3. Previous.hash[p] # root[p]
      BY <3>1 DEF TeamFiles
    <3> QED
      BY <3>1, <3>2, <3>3
  <2> QED
    BY <1>0, <1>1, <2>1, <2>2
<1> QED
  BY <1>2, <1>3, <1>4, <1>5 DEF Local, RunHooks

\* Local hooks, the publication of the local scope and its rollback never change a
\* file that the project owns or that git tracks and the local scope has not recorded
\* as it is (preflight, GuardedSideEffects, delete_orphaned_paths).
THEOREM TeamFilesKept == Spec => LocalStepsKeepTeamFiles
<1>1. TeamInv => [ Local /\ pc # "hooks"
        => \A p \in TeamFiles : root'[p] = IF pc = "guard" THEN preimage[p] ELSE root[p] ]_vars
  BY LocalStepKeeps
<1> QED
  BY <1>1, TeamInvariant, PTL DEF LocalStepsKeepTeamFiles

--------------------------------------------------------------------------------
(* What a success delivers *)

RecordsRight ==
    /\ IF Overlay(gen) = {} THEN ~IsActive(gen) ELSE gen.local.of = LocalOf(gen)
    /\ \A m \in LocalOf(gen) : gen.local # NoLock /\ FilesOf[m] \subseteq gen.local.paths[m]

FilesRight == \A m \in LocalOf(gen) : \A p \in FilesOf[m] : root[p] = m

OrphansGone ==
    \A p \in Recorded(Previous) :
        \/ p \in Recorded(gen.local) \cup Files(gen.lock)
        \/ root[p] = None \/ root[p] # Previous.hash[p]

Delivered == RecordsRight /\ FilesRight /\ OrphansGone

PlanRight ==
    /\ plan \in LockFiles /\ plan.of = LocalOf(gen)
    /\ \A m \in LocalOf(gen) : FilesOf[m] \subseteq plan.paths[m]

\* The local scope is delivered step by step; whoever composes has all of it in place.
DeliveredSoFar ==
    /\ pc \in Early \cup {"localSwap"} => gen.local = Previous
    /\ pc \in {"project", "localSwap"} => PlanRight
    /\ pc \in {"localFiles", "localOrphans", "exclude"} => RecordsRight
    /\ pc \in {"localOrphans", "exclude"} => FilesRight
    /\ pc = "exclude" => OrphansGone
    /\ pc = "compose" \/ (pc = "reconcile" /\ outcome = "none") \/ outcome = "done" => Delivered
    /\ outcome = "done" /\ IsActive(gen) => excluded = Recorded(gen.local)

SuccessInv == UndoInv /\ TeamInv /\ DeliveredSoFar

LEMMA SuccessInit == Init => SuccessInv
  BY UndoInit, TeamInit DEF Init, SuccessInv, DeliveredSoFar, Early

LEMMA OwnerUnique ==
  ASSUME NEW ms \in SUBSET Molecules, ~Collides(ms), NEW m \in ms, NEW p \in FilesOf[m]
  PROVE  p \in Files(ms) /\ OwnerIn(ms, p) = m
<1>1. p \in Files(ms)
  BY DEF Files
<1>2. OwnerIn(ms, p) \in ms /\ p \in FilesOf[OwnerIn(ms, p)]
  BY <1>1, OwnerOwns
<1> QED
  BY <1>1, <1>2 DEF Collides

\* Nothing has to be done: everything is there.
LEMMA NoOpDelivered ==
  ASSUME TypeInv, gen \in Generations, LocalIsNoOp, ~Collides(LocalOf(gen)), gen.local = Previous
  PROVE  Delivered
<1>0. LocalOf(gen) \in SUBSET Molecules
  BY TypeParts, LocalOfType DEF DiskOK
<1>1. OrphansGone
  BY DEF OrphansGone
<1>2. CASE ~IsActive(gen)
  BY <1>1, <1>2 DEF Delivered, RecordsRight, FilesRight, LocalOf, Overlay, IsActive
<1>3. CASE IsActive(gen)
  <2>1. /\ Overlay(gen) # {} /\ gen.local = Records
        /\ \A p \in Files(LocalOf(gen)) : root[p] = OwnerIn(LocalOf(gen), p)
    BY <1>3 DEF LocalIsNoOp
  <2>2. RecordsRight
    BY <2>1, RecordsType, LockFields DEF RecordsRight
  <2>3. FilesRight
    BY <1>0, <2>1, OwnerUnique DEF FilesRight
  <2> QED
    BY <1>1, <2>2, <2>3 DEF Delivered
<1> QED
  BY <1>2, <1>3

LEMMA DoneEnd ==
  ASSUME NEW how, End(how), how # "done"
  PROVE  DeliveredSoFar'
  BY DEF End, DeliveredSoFar, Early

LEMMA DoneFail ==
  ASSUME NEW how \in {"failed", "failedLate", "lost"},
         NEW point \in {"restore", "restoreLate", "restoreLost"}, FailAs(how, point),
         outcome # "done"
  PROVE  DeliveredSoFar'
<1>1. CASE edit = "none"
  BY <1>1, DoneEnd DEF FailAs
<1>2. CASE edit # "none"
  BY <1>2 DEF FailAs, locals, DeliveredSoFar, Early
<1> QED
  BY <1>1, <1>2

LEMMA SuccessWork ==
  ASSUME SuccessInv, Work
  PROVE  DeliveredSoFar'
<1> USE DEF locals, disk, counters, Early, Preflighted, Publishing, Fail, FailLate
<1>0. /\ TypeInv /\ OutcomeSoFar /\ DeliveredSoFar /\ (pc \in Preflighted => Apart)
      /\ gen \in Generations /\ gen.manifest \in SUBSET Molecules /\ gen.lock \in SUBSET Molecules
      /\ gen.overlay \in OverlayValues /\ gen.local \in Locks
      /\ start.local \in Locks /\ plan \in Locks
      /\ LocalOf(gen) \in SUBSET Molecules /\ root \in [Paths -> Contents]
  BY WorkOnWhole, TypeParts, GenFields, LocalOfType
     DEF SuccessInv, UndoInv, TeamInv, DiskOK, LocalsOK
\* Before anything is published.
<1>1. ASSUME pc \in Early, UNCHANGED <<gen, start>>, pc' \in {"hooks", "guard", "plan"},
             outcome' = outcome
      PROVE  DeliveredSoFar'
  BY <1>0, <1>1 DEF DeliveredSoFar, OutcomeSoFar, Previous
<1>2. CASE Prepare
  <2>1. pc = "prepare" /\ gen' = gen /\ outcome = "none"
    BY <1>0, <1>2 DEF Prepare, OutcomeSoFar
  <2>2. CASE Conflicts
    BY <1>2, <2>1, <2>2, DoneFail DEF Prepare
  <2>3. CASE ~Conflicts
    BY <1>1, <1>2, <2>1, <2>3 DEF Prepare
  <2> QED
    BY <2>2, <2>3
<1>3. CASE RunHooks
  BY <1>1, <1>3 DEF RunHooks
<1>4. CASE Guard
  <2>1. pc = "guard" /\ gen' = gen /\ outcome = "none"
    BY <1>0, <1>4 DEF Guard, OutcomeSoFar
  <2>2. CASE Changed # {}
    BY <1>4, <2>1, <2>2, DoneFail DEF Guard
  <2>3. CASE Changed = {}
    BY <1>1, <1>4, <2>1, <2>3 DEF Guard
  <2> QED
    BY <2>2, <2>3
<1>5. CASE Plan
  <2>1. /\ pc = "plan" /\ outcome' = "none" /\ UNCHANGED <<gen, root, start>> /\ plan' = Records
        /\ pc' \in {"compose", "localSwap", "project"}
        /\ pc' = "compose" => LocalIsNoOp
        /\ gen.local = Previous
    BY <1>0, <1>5 DEF Plan, OutcomeSoFar, DeliveredSoFar
  <2>2. PlanRight'
    BY <2>1, RecordsType, <1>0 DEF PlanRight, LocalOf, Overlay
  <2>3. CASE pc' = "compose"
    <3>1. Delivered
      BY <1>0, <2>1, <2>3, NoOpDelivered DEF Apart
    <3>2. Delivered'
      BY <2>1, <3>1
      DEF Delivered, RecordsRight, FilesRight, OrphansGone, LocalOf, Overlay, IsActive, Previous
    <3> QED
      BY <2>1, <2>3, <3>2 DEF DeliveredSoFar
  <2>4. CASE pc' # "compose"
    BY <2>1, <2>2, <2>4 DEF DeliveredSoFar, Previous
  <2> QED
    BY <2>3, <2>4
<1>6. CASE PublishProject
  <2>1. /\ pc = "project" /\ outcome' = "none" /\ UNCHANGED <<start, plan>>
        /\ gen' = SetLock(gen, gen.manifest)
        /\ pc' = IF LocalIsNoOp THEN "compose" ELSE "localSwap"
        /\ gen.local = Previous /\ PlanRight
    BY <1>0, <1>6 DEF PublishProject, ProjectPublished, SetLock, OutcomeSoFar, DeliveredSoFar
  <2>2. /\ gen'.manifest = gen.manifest /\ gen'.overlay = gen.overlay /\ gen'.local = gen.local
    BY <1>0, <2>1, LockSet
  <2>3. /\ LocalOf(gen)' = LocalOf(gen) /\ Overlay(gen)' = Overlay(gen)
        /\ IsActive(gen)' = IsActive(gen) /\ Previous' = Previous
    BY <2>1, <2>2 DEF LocalOf, Overlay, IsActive, Previous
  <2>4. \A p \in Files(LocalOf(gen)) : root'[p] = root[p]
    <3>1. ASSUME NEW p \in Files(LocalOf(gen))
          PROVE  p \in Paths /\ p \notin Files(gen.manifest) /\ p \notin Files(gen.lock)
      BY <1>0, <2>1, FilesArePaths DEF Apart, ProjectOwned
    <3> QED
      BY <1>6, <3>1 DEF PublishProject, ProjectPublished
  <2>5. CASE LocalIsNoOp
    <3>1. Delivered
      BY <1>0, <2>1, <2>5, NoOpDelivered DEF Apart
    <3>2. RecordsRight' /\ OrphansGone'
      BY <2>1, <2>2, <2>3, <3>1 DEF Delivered, RecordsRight, OrphansGone
    <3>3. FilesRight'
      BY <2>3, <2>4, <3>1 DEF Delivered, FilesRight, Files
    <3> QED
      BY <2>1, <2>5, <3>2, <3>3 DEF Delivered, DeliveredSoFar
  <2>6. CASE ~LocalIsNoOp
    BY <2>1, <2>2, <2>3, <2>6 DEF DeliveredSoFar, PlanRight
  <2> QED
    BY <2>5, <2>6
<1>7. CASE LocalSwap
  <2>1. /\ pc = "localSwap" /\ outcome' = "none" /\ pc' = "localFiles" /\ PlanRight
        /\ gen' = IF Overlay(gen) = {} THEN SetBoth(gen, NoOverlay, NoLock) ELSE SetLocal(gen, plan)
    BY <1>0, <1>7 DEF LocalSwap, SetBoth, SetLocal, OutcomeSoFar, DeliveredSoFar
  <2>2. /\ gen'.manifest = gen.manifest
        /\ gen'.overlay = IF Overlay(gen) = {} THEN NoOverlay ELSE gen.overlay
        /\ gen'.local = IF Overlay(gen) = {} THEN NoLock ELSE plan
    BY <1>0, <2>1, BothSet, LocalSet DEF OverlayValues, Locks
  <2>3. LocalOf(gen)' = LocalOf(gen) /\ Overlay(gen)' = Overlay(gen)
    BY <2>2 DEF LocalOf, Overlay
  <2>4. RecordsRight'
    <3>1. CASE Overlay(gen) = {}
      BY <2>2, <2>3, <3>1 DEF RecordsRight, IsActive, LocalOf
    <3>2. CASE Overlay(gen) # {}
      BY <2>1, <2>2, <2>3, <3>2, LockFields DEF RecordsRight, PlanRight
    <3> QED
      BY <3>1, <3>2
  <2> QED
    BY <2>1, <2>4 DEF DeliveredSoFar
<1>8. CASE LocalFiles
  <2>1. /\ pc = "localFiles" /\ pc' = "localOrphans" /\ outcome' = "none" /\ gen' = gen
        /\ RecordsRight /\ Apart
        /\ root' = [p \in Paths |-> IF p \in Files(LocalOf(gen)) THEN OwnerIn(LocalOf(gen), p)
                                    ELSE root[p]]
    BY <1>0, <1>8 DEF LocalFiles, OutcomeSoFar, DeliveredSoFar
  <2>2. FilesRight'
    <3>1. ASSUME NEW m \in LocalOf(gen), NEW p \in FilesOf[m] PROVE root'[p] = m
      BY <1>0, <2>1, OwnerUnique, FilesArePaths DEF Apart
    <3>2. LocalOf(gen)' = LocalOf(gen)
      BY <2>1 DEF LocalOf, Overlay
    <3> QED
      BY <3>1, <3>2 DEF FilesRight
  <2>3. RecordsRight'
    BY <2>1 DEF RecordsRight, LocalOf, Overlay, IsActive
  <2> QED
    BY <2>1, <2>2, <2>3 DEF DeliveredSoFar
<1>9. CASE LocalOrphans
  <2>1. /\ pc = "localOrphans" /\ pc' = "exclude" /\ outcome' = "none" /\ UNCHANGED <<gen, start>>
        /\ RecordsRight /\ FilesRight
        /\ root' = [p \in Paths |-> IF p \in Orphans(Files(gen.lock)) THEN None ELSE root[p]]
    BY <1>0, <1>9 DEF LocalOrphans, OutcomeSoFar, DeliveredSoFar
  <2>2. FilesRight'
    <3>1. ASSUME NEW m \in LocalOf(gen), NEW p \in FilesOf[m] PROVE root'[p] = m
      <4>1. Overlay(gen) # {} /\ gen.local # NoLock /\ m \in gen.local.of /\ p \in gen.local.paths[m]
        BY <2>1 DEF RecordsRight, LocalOf
      <4>2. p \in Recorded(gen.local)
        BY <4>1 DEF Recorded
      <4>3. p \notin Orphans(Files(gen.lock)) /\ p \in Paths
        BY <1>0, <4>2, RecordedPaths DEF Orphans
      <4> QED
        BY <2>1, <4>3 DEF FilesRight
    <3>2. LocalOf(gen)' = LocalOf(gen)
      BY <2>1 DEF LocalOf, Overlay
    <3> QED
      BY <3>1, <3>2 DEF FilesRight
  <2>3. OrphansGone'
    <3>1. ASSUME NEW p \in Recorded(Previous), p \notin Recorded(gen.local) \cup Files(gen.lock)
          PROVE  root'[p] = None \/ root'[p] # Previous.hash[p]
      <4>1. p \in Paths
        BY <1>0, RecordedPaths DEF Previous
      <4>2. CASE Previous.hash[p] \in {None, root[p]}
        BY <2>1, <3>1, <4>1, <4>2 DEF Orphans
      <4>3. CASE Previous.hash[p] \notin {None, root[p]}
        BY <2>1, <4>1, <4>3 DEF Orphans
      <4> QED
        BY <4>2, <4>3
    <3>2. Previous' = Previous
      BY <2>1 DEF Previous
    <3> QED
      BY <2>1, <3>1, <3>2 DEF OrphansGone
  <2>4. RecordsRight'
    BY <2>1 DEF RecordsRight, LocalOf, Overlay, IsActive
  <2> QED
    BY <2>1, <2>2, <2>3, <2>4 DEF DeliveredSoFar
<1>10. CASE Exclude \/ Compose
  <2>1. /\ pc' \in {"compose", "reconcile", "rollback"} /\ outcome' = "none" /\ UNCHANGED <<gen, root, start>>
        /\ Delivered
    BY <1>0, <1>10 DEF Exclude, Compose, OutcomeSoFar, DeliveredSoFar, Delivered
  <2>2. Delivered'
    BY <2>1
    DEF Delivered, RecordsRight, FilesRight, OrphansGone, LocalOf, Overlay, IsActive, Previous
  <2> QED
    BY <2>1, <2>2 DEF DeliveredSoFar
<1>11. CASE LocalPublicationFails \/ UndoSwap \/ ComposeFails
  <2>1. pc' \in {"undoSwap", "rollback"} /\ outcome' = "none"
    BY <1>0, <1>11 DEF LocalPublicationFails, UndoSwap, ComposeFails, OutcomeSoFar
  <2> QED
    BY <2>1 DEF DeliveredSoFar
<1>12. CASE RollBack
  BY <1>0, <1>12, DoneFail DEF RollBack, OutcomeSoFar
<1>13. CASE Defer \/ GiveBack
  BY <1>0, <1>13 DEF Defer, GiveBack, DeliveredSoFar, OutcomeSoFar
<1>17. CASE PublishProjectFails
  <2>1. outcome = "none"
    BY <1>0, <1>17 DEF PublishProjectFails, OutcomeSoFar
  <2>2. CASE backup = NoGen
    BY <1>17, <2>1, <2>2, DoneFail DEF PublishProjectFails
  <2>3. CASE backup # NoGen
    BY <1>17, <2>1, <2>3 DEF PublishProjectFails, DeliveredSoFar
  <2> QED
    BY <2>2, <2>3
<1>14. CASE Reconcile
  <2>1. CASE outcome = "deferred"
    BY <1>14, <2>1, DoneEnd DEF Reconcile
  <2>2. CASE outcome # "deferred"
    <3>1. /\ pc = "reconcile" /\ outcome = "none" /\ pc' = "idle" /\ UNCHANGED <<gen, root, start>>
          /\ excluded' = IF IsActive(gen) THEN Recorded(gen.local) ELSE excluded
      BY <1>0, <1>14, <2>2 DEF Reconcile, End, OutcomeSoFar
    <3>2. Delivered
      BY <1>0, <3>1 DEF DeliveredSoFar
    <3>3. Delivered'
      BY <3>1, <3>2
      DEF Delivered, RecordsRight, FilesRight, OrphansGone, LocalOf, Overlay, IsActive, Previous
    <3>4. IsActive(gen)' => excluded' = Recorded(gen.local)'
      BY <3>1 DEF IsActive, Recorded
    <3> QED
      BY <3>1, <3>3, <3>4 DEF DeliveredSoFar
  <2> QED
    BY <2>1, <2>2
<1>15. CASE ReconcileFails
  BY <1>0, <1>15, DoneFail DEF ReconcileFails, OutcomeSoFar
<1>16. CASE Refuse
  <2>1. pc \in {"prepare", "plan", "project"} /\ outcome = "none"
    BY <1>0, <1>16 DEF Refuse, OutcomeSoFar
  <2>2. CASE pc = "project"
    BY <1>16, <2>1, <2>2 DEF Refuse, DeliveredSoFar
  <2>3. CASE pc # "project"
    BY <1>16, <2>1, <2>3, DoneFail DEF Refuse
  <2> QED
    BY <2>2, <2>3
<1> QED
  BY <1>2, <1>3, <1>4, <1>5, <1>6, <1>7, <1>8, <1>9, <1>10, <1>11, <1>12, <1>13, <1>14, <1>15,
     <1>16, <1>17 DEF Work, Local

LEMMA SuccessAftermath ==
  ASSUME SuccessInv, Aftermath
  PROVE  DeliveredSoFar'
<1>1. CASE RollBackFails
  BY <1>1, DoneFail DEF RollBackFails, SuccessInv, UndoInv, OutcomeSoFar
<1>2. CASE Restore
  BY <1>2, DoneEnd DEF Restore
<1>3. CASE RestoreFails
  BY <1>3, DoneEnd DEF RestoreFails
<1> QED
  BY <1>1, <1>2, <1>3 DEF Aftermath

LEMMA SuccessNext == SuccessInv /\ [Next]_vars => SuccessInv'
<1>1. ASSUME SuccessInv, Command PROVE DeliveredSoFar'
  <2>1. PICK what \in {"none", "overlay", "manifest"}, g \in Generations :
           Move /\ Start(what, g) /\ g.local = gen.local /\ UndoWith(what, gen, g) = gen
    BY <1>1, CommandStarts DEF SuccessInv, UndoInv
  <2>2. pc' = "prepare" /\ gen' = g /\ start' = gen /\ outcome' = "none"
    BY <2>1 DEF Start
  <2> QED
    BY <2>1, <2>2 DEF DeliveredSoFar, Previous, Early
<1>2. ASSUME SuccessInv, OperatorMove PROVE DeliveredSoFar'
  <2>1. pc' = "idle" /\ outcome' = "none"
    BY <1>2, OperatorRests DEF SuccessInv, UndoInv, Move, AtRest
  <2> QED
    BY <2>1 DEF DeliveredSoFar, Early
<1>3. ASSUME SuccessInv, Kill PROVE DeliveredSoFar'
  BY <1>3, DoneEnd DEF Kill
<1>4. ASSUME SuccessInv, UNCHANGED vars PROVE DeliveredSoFar'
  BY <1>4
  DEF SuccessInv, DeliveredSoFar, Delivered, RecordsRight, FilesRight, OrphansGone, PlanRight,
      LocalOf, Overlay, IsActive, Previous, vars, disk, locals
<1> QED
  BY <1>1, <1>2, <1>3, <1>4, SuccessWork, SuccessAftermath, UndoNext, TeamNext, NextParts DEF SuccessInv

LEMMA SuccessInvariant == Spec => []SuccessInv
  BY SuccessInit, SuccessNext, PTL DEF Spec

\* An install that succeeds has delivered and recorded the local scope, hidden it from
\* git, and left no file of before unrecorded, after any sequence of commands, hooks,
\* pulls, failures and kills (publish_local, is_no_op, reconcile_exclusions).
THEOREM SuccessDelivers == Spec => []SuccessDeliversLocal
<1>1. SuccessInv => SuccessDeliversLocal
  BY DEF SuccessInv, DeliveredSoFar, Delivered, RecordsRight, FilesRight, OrphansGone,
         SuccessDeliversLocal
<1> QED
  BY <1>1, SuccessInvariant, PTL
================================================================================
