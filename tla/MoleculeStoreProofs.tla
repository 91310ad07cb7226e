-------------------------- MODULE MoleculeStoreProofs --------------------------
(***************************************************************************)
(* Theorems about MoleculeStore, for any number of commands and molecules     *)
(* and any nesting of their paths.                                           *)
(***************************************************************************)
EXTENDS MoleculeStore, TLAPS

Filling == {"archive", "makeTemp", "extract", "place"}
Holding == Filling \cup {"exists"}
Engaged == Holding \cup {"parent", "open", "lock", "read"}

\* A command between the choice of a molecule and the reading of its tree has one.
KeyIsKnown == \A p \in Procs : pc[p] \in Engaged => key[p] \in Keys

\* A command that fetches has a revision to fetch.
Fetching == {"cloneLock", "init", "placeClone", "haveObject", "fetch"}
RevisionIsKnown == \A p \in Procs : pc[p] \in Fetching => adding[p] \in Revisions

\* A command that looks for, or fills, a tree holds the tree's lock.
LockIsHeld == \A p \in Procs : pc[p] \in Holding => lock[key[p]] = p

\* Whoever waits for a lock or holds it has opened its file.
LockFileIsThere == \A p \in Procs : pc[p] \in Holding \cup {"lock"} => key[p] \in lockFiles

\* A lock file lies in directories that exist.
ParentsAreThere ==
    \A k \in Keys : (k \in lockFiles \/ \E p \in Procs : pc[p] = "open" /\ key[p] = k)
                    => \A a \in Above[k] : tree[a] # "absent"

\* Only what something is nested in is ever made as a bare directory.
LeafIsNotBare == \A k \in Keys : IsLeaf(k) => tree[k] # "bare"

\* Nobody fills a tree that is there.
LeafIsFilledOnce == \A p \in Procs : pc[p] \in Filling /\ IsLeaf(key[p]) => tree[key[p]] = "absent"

IInv ==
    /\ TypeOK
    /\ KeyIsKnown /\ RevisionIsKnown /\ LockIsHeld /\ LockFileIsThere
    /\ ParentsAreThere /\ LeafIsNotBare /\ LeafIsFilledOnce
    /\ ServedTreesAreWhole

Invariants == KeyIsKnown /\ RevisionIsKnown /\ LockIsHeld /\ LockFileIsThere /\ ParentsAreThere
              /\ LeafIsNotBare /\ LeafIsFilledOnce /\ ServedTreesAreWhole

Act(p) == Begin(p) \/ Step(p) \/ Refuse(p) \/ Kill(p)

--------------------------------------------------------------------------------
(* Types *)

LEMMA TypeInit == Init => TypeOK
<1> SUFFICES ASSUME Init PROVE TypeOK
  OBVIOUS
<1>1. /\ tree \in [Keys -> {"absent", "bare", "whole"}] /\ lock \in [Keys -> Procs \cup {None}]
      /\ pc \in [Procs -> Points] /\ adding \in [Procs -> Revisions \cup {None}]
      /\ key \in [Procs -> Keys \cup {None}] /\ temp \in [Procs -> {"none", "partial", "whole"}]
      /\ outcome \in [Procs -> Outcomes]
  BY DEF Init, Points, Outcomes
<1>2. want \in [Procs -> SUBSET Keys] /\ served \in [Procs -> SUBSET Keys]
  BY DEF Init
<1> QED
  BY <1>1, <1>2 DEF Init, TypeOK

LEMMA EndTypes ==
  ASSUME TypeOK, NEW p \in Procs, NEW how \in Outcomes, End(p, how),
         UNCHANGED <<cache, served, commands>>
  PROVE  TypeOK'
<1> USE DEF TypeOK, End, Go, cache
<1>1. clone' \in BOOLEAN /\ objects' \subseteq Revisions /\ lockFiles' \subseteq Keys
      /\ tree' \in [Keys -> {"absent", "bare", "whole"}]
      /\ served' \in [Procs -> SUBSET Keys] /\ commands' \in Nat
  OBVIOUS
<1>2. cloneLock' \in Procs \cup {None} /\ lock' \in [Keys -> Procs \cup {None}]
  OBVIOUS
<1>3. pc' \in [Procs -> Points] /\ outcome' \in [Procs -> Outcomes]
  BY DEF Points
<1>4. adding' \in [Procs -> Revisions \cup {None}] /\ want' \in [Procs -> SUBSET Keys]
      /\ key' \in [Procs -> Keys \cup {None}]
      /\ temp' \in [Procs -> {"none", "partial", "whole"}]
  OBVIOUS
<1> QED
  BY <1>1, <1>2, <1>3, <1>4

LEMMA TypeStep ==
  ASSUME TypeOK, KeyIsKnown, RevisionIsKnown, NEW p \in Procs, Act(p)
  PROVE  TypeOK'
<1> USE DEF TypeOK, cache, locks, locals, Go, Points, Outcomes
<1>1. CASE Begin(p)
  BY <1>1, CommandsAssumption DEF Begin
<1>2. CASE LockClone(p) \/ InitClone(p) \/ PlaceClone(p) \/ HaveObject(p)
  BY <1>2 DEF LockClone, InitClone, PlaceClone, HaveObject
<1>3. CASE Fetch(p)
  <2>1. adding[p] \in Revisions
    BY <1>3 DEF Fetch, RevisionIsKnown, Fetching
  <2> QED
    BY <1>3, <2>1 DEF Fetch
<1>4. CASE NextMolecule(p)
  <2>1. PICK k \in want[p] :
            IF clone /\ Rev[k] \in objects
              THEN /\ key' = [key EXCEPT ![p] = k]
                   /\ Go(p, "parent")
                   /\ UNCHANGED <<locks, adding, want, temp, outcome>>
              ELSE End(p, "refused")
    BY <1>4 DEF NextMolecule
  <2>2. UNCHANGED <<cache, served, commands>>
    BY <1>4 DEF NextMolecule
  <2>3. CASE End(p, "refused")
    BY <2>2, <2>3, EndTypes
  <2>4. CASE ~End(p, "refused")
    BY <2>1, <2>2, <2>4
  <2> QED
    BY <2>3, <2>4
<1>5. CASE MakeParent(p) \/ OpenLock(p)
  BY <1>5 DEF MakeParent, OpenLock, KeyIsKnown, Engaged
<1>6. CASE Acquire(p) \/ Archive(p) \/ MakeTemp(p) \/ Extract(p)
  BY <1>6 DEF Acquire, Archive, MakeTemp, Extract
<1>7. CASE Exists(p)
  BY <1>7 DEF Exists, Serve, KeyIsKnown, Engaged, Holding
<1>8. CASE Place(p)
  <2>1. CASE End(p, "refused") /\ UNCHANGED <<tree, served>>
    BY <1>8, <2>1, EndTypes DEF Place
  <2>2. CASE ~(End(p, "refused") /\ UNCHANGED <<tree, served>>)
    BY <1>8, <2>2 DEF Place, Serve, KeyIsKnown, Engaged, Holding, Filling
  <2> QED
    BY <2>1, <2>2
<1>9. CASE ReadTree(p)
  <2>1. CASE End(p, "refused")
    BY <1>9, <2>1, EndTypes DEF ReadTree
  <2>2. CASE ~End(p, "refused")
    BY <1>9, <2>2 DEF ReadTree
  <2> QED
    BY <2>1, <2>2
<1>10. CASE Resolved(p) \/ TimeOut(p) \/ Refuse(p) \/ Kill(p)
  <2>1. /\ \E how \in Outcomes : End(p, how)
        /\ UNCHANGED <<cache, served, commands>>
    BY <1>10 DEF Resolved, TimeOut, Refuse, Kill
  <2> QED
    BY <2>1, EndTypes
<1> QED
  BY <1>1, <1>2, <1>3, <1>4, <1>5, <1>6, <1>7, <1>8, <1>9, <1>10 DEF Act, Step

--------------------------------------------------------------------------------
(* The invariant *)

LEMMA InvInit == Init => IInv
<1> SUFFICES ASSUME Init PROVE IInv
  OBVIOUS
<1>1. TypeOK
  BY TypeInit
<1>2. \A p \in Procs : pc[p] = "idle" /\ served[p] = {}
  BY DEF Init
<1>3. lockFiles = {} /\ \A k \in Keys : tree[k] = "absent"
  BY DEF Init
<1> QED
  BY <1>1, <1>2, <1>3 DEF IInv, KeyIsKnown, RevisionIsKnown, LockIsHeld, LockFileIsThere,
     ParentsAreThere, LeafIsNotBare, LeafIsFilledOnce, ServedTreesAreWhole, Engaged, Holding,
     Filling, Fetching

\* The end of a command takes its own locks and nobody else's.
LEMMA EndInv ==
  ASSUME IInv, NEW p \in Procs, NEW how \in Outcomes, End(p, how),
         UNCHANGED <<cache, served, commands>>
  PROVE  Invariants'
<1> USE DEF IInv, cache
<1>1. pc' = [pc EXCEPT ![p] = "idle"] /\ key' = [key EXCEPT ![p] = None]
      /\ adding' = [adding EXCEPT ![p] = None]
      /\ lock' = [k \in Keys |-> IF lock[k] = p THEN None ELSE lock[k]]
  BY DEF End, Go
<1>2. \A q \in Procs : q # p => pc'[q] = pc[q] /\ key'[q] = key[q] /\ adding'[q] = adding[q]
  BY <1>1 DEF TypeOK
<1>3. pc'[p] = "idle"
  BY <1>1 DEF TypeOK
<1>4. \A q \in Procs : q # p /\ pc[q] \in Holding => lock'[key[q]] = q
  BY <1>1 DEF LockIsHeld, KeyIsKnown, Engaged
<1>5. KeyIsKnown' /\ RevisionIsKnown' /\ LockIsHeld' /\ LockFileIsThere'
  BY <1>2, <1>3, <1>4 DEF KeyIsKnown, RevisionIsKnown, LockIsHeld, LockFileIsThere, Engaged,
     Holding, Filling, Fetching
<1>6. ParentsAreThere' /\ LeafIsNotBare' /\ LeafIsFilledOnce' /\ ServedTreesAreWhole'
  BY <1>2, <1>3 DEF ParentsAreThere, LeafIsNotBare, LeafIsFilledOnce, ServedTreesAreWhole,
     Filling
<1> QED
  BY <1>5, <1>6 DEF Invariants

\* A command that moves on without touching the trees, to a point where it holds
\* no more than before.
LEMMA MoveInv ==
  ASSUME IInv, NEW p \in Procs, NEW from \in Points, NEW to \in Points,
         pc[p] = from, Go(p, to), key' = key, adding' = adding, lock' = lock,
         UNCHANGED <<tree, lockFiles, served>>,
         to \in Engaged => from \in Engaged,
         to \in Fetching => from \in Fetching,
         to \in Filling => from \in Filling,
         to \in Holding => from \in Holding,
         to \notin {"open", "lock"}
  PROVE  Invariants'
<1> USE DEF IInv
<1>1. \A q \in Procs : q # p => pc'[q] = pc[q]
  BY DEF Go, TypeOK
<1>2. pc'[p] = to
  BY DEF Go, TypeOK
<1>3. KeyIsKnown' /\ RevisionIsKnown' /\ LockIsHeld' /\ LockFileIsThere'
  BY <1>1, <1>2 DEF KeyIsKnown, RevisionIsKnown, LockIsHeld, LockFileIsThere
<1>4. ParentsAreThere' /\ LeafIsNotBare' /\ LeafIsFilledOnce' /\ ServedTreesAreWhole'
  BY <1>1, <1>2 DEF ParentsAreThere, LeafIsNotBare, LeafIsFilledOnce, ServedTreesAreWhole
<1> QED
  BY <1>3, <1>4 DEF Invariants

\* get_or_extract returns a tree that is whole when the molecule is a leaf.
LEMMA ServeInv ==
  ASSUME IInv, NEW p \in Procs, pc[p] \in Holding, Serve(p),
         key' = key, adding' = adding, lockFiles' = lockFiles,
         tree' \in [Keys -> {"absent", "bare", "whole"}],
         \A k \in Keys : tree[k] # "absent" => tree'[k] # "absent",
         \A k \in Keys : IsLeaf(k) /\ k # key[p] =>
            tree'[k] = tree[k] \/ (tree'[k] = "whole" /\ k \notin lockFiles),
         IsLeaf(key[p]) => tree'[key[p]] = "whole"
  PROVE  Invariants'
<1> USE DEF IInv, Serve, Go
<1>0. key[p] \in Keys
  BY DEF KeyIsKnown, Engaged
<1>1. pc'[p] = "read" /\ \A q \in Procs : q # p => pc'[q] = pc[q]
  BY DEF TypeOK
<1>2. /\ served'[p] = served[p] \cup {key[p]}
      /\ \A q \in Procs : q # p => served'[q] = served[q]
  BY DEF TypeOK
<1>3. \A q \in Procs : q # p /\ pc[q] \in Holding => key[q] # key[p] /\ lock'[key[q]] = q
  <2> SUFFICES ASSUME NEW q \in Procs, q # p, pc[q] \in Holding
               PROVE  key[q] # key[p] /\ lock'[key[q]] = q
    OBVIOUS
  <2>1. lock[key[p]] = p /\ lock[key[q]] = q /\ key[q] \in Keys
    BY DEF LockIsHeld, KeyIsKnown, Engaged
  <2> QED
    BY <2>1, <1>0 DEF TypeOK
<1>4. KeyIsKnown' /\ RevisionIsKnown' /\ LockIsHeld' /\ LockFileIsThere'
  BY <1>0, <1>1, <1>3 DEF KeyIsKnown, RevisionIsKnown, LockIsHeld, LockFileIsThere, Engaged,
     Holding, Filling, Fetching
<1>5. ParentsAreThere'
  BY <1>1, LayoutAssumption DEF ParentsAreThere
<1>6. LeafIsNotBare'
  BY <1>0 DEF LeafIsNotBare, IsLeaf
<1>7. LeafIsFilledOnce'
  <2> SUFFICES ASSUME NEW q \in Procs, pc'[q] \in Filling, IsLeaf(key[q])
               PROVE  tree'[key[q]] = "absent"
    BY DEF LeafIsFilledOnce, IsLeaf
  <2>1. q # p /\ pc[q] \in Filling
    BY <1>1 DEF Filling
  <2>2. key[q] \in Keys /\ key[q] \in lockFiles /\ key[q] # key[p] /\ tree[key[q]] = "absent"
    BY <2>1, <1>3 DEF LeafIsFilledOnce, LockFileIsThere, KeyIsKnown, Engaged, Holding
  <2> QED
    BY <2>2
<1>8. ServedTreesAreWhole'
  <2> SUFFICES ASSUME NEW q \in Procs, NEW k \in served'[q], IsLeaf(k)
               PROVE  tree'[k] = "whole"
    BY DEF ServedTreesAreWhole, IsLeaf
  <2>1. CASE k = key[p]
    BY <2>1
  <2>2. CASE k # key[p]
    BY <2>2, <1>2 DEF ServedTreesAreWhole, TypeOK
  <2> QED
    BY <2>1, <2>2
<1> QED
  BY <1>4, <1>5, <1>6, <1>7, <1>8 DEF Invariants

LEMMA InvStep ==
  ASSUME IInv, NEW p \in Procs, Act(p)
  PROVE  Invariants'
<1> USE DEF IInv, cache, locks, locals
<1>1. CASE Begin(p)
  <2>1. /\ \A q \in Procs : q # p => /\ pc'[q] = pc[q] /\ adding'[q] = adding[q]
                                     /\ served'[q] = served[q]
        /\ served'[p] = {}
        /\ pc'[p] = "next" \/ (pc'[p] = "cloneLock" /\ adding'[p] \in Revisions)
    BY <1>1 DEF Begin, Go, TypeOK
  <2>2. UNCHANGED <<tree, lockFiles, lock, key>>
    BY <1>1 DEF Begin
  <2> QED
    BY <2>1, <2>2 DEF Invariants, KeyIsKnown, RevisionIsKnown, LockIsHeld, LockFileIsThere,
       ParentsAreThere, LeafIsNotBare, LeafIsFilledOnce, ServedTreesAreWhole, Engaged, Holding,
       Filling, Fetching
<1>2. CASE \/ LockClone(p) \/ InitClone(p) \/ PlaceClone(p) \/ HaveObject(p) \/ Fetch(p)
           \/ Archive(p) \/ MakeTemp(p) \/ Extract(p)
  <2>1. \E from \in Points, to \in Points :
           /\ pc[p] = from /\ Go(p, to) /\ key' = key /\ adding' = adding /\ lock' = lock
           /\ UNCHANGED <<tree, lockFiles, served>>
           /\ to \in Engaged => from \in Engaged
           /\ to \in Fetching => from \in Fetching
           /\ to \in Filling => from \in Filling
           /\ to \in Holding => from \in Holding
           /\ to \notin {"open", "lock"}
    BY <1>2 DEF LockClone, InitClone, PlaceClone, HaveObject, Fetch, Archive, MakeTemp, Extract,
       Points, Engaged, Fetching, Filling, Holding
  <2> QED
    BY <2>1, MoveInv
<1>3. CASE NextMolecule(p)
  <2>1. PICK k \in want[p] :
            IF clone /\ Rev[k] \in objects
              THEN /\ key' = [key EXCEPT ![p] = k]
                   /\ Go(p, "parent")
                   /\ UNCHANGED <<locks, adding, want, temp, outcome>>
              ELSE End(p, "refused")
    BY <1>3 DEF NextMolecule
  <2>2. UNCHANGED <<cache, served, commands>>
    BY <1>3 DEF NextMolecule
  <2>3. CASE End(p, "refused")
    BY <2>2, <2>3, EndInv DEF Outcomes
  <2>4. CASE ~End(p, "refused")
    <3>1. /\ \A q \in Procs : q # p => pc'[q] = pc[q] /\ key'[q] = key[q]
          /\ pc'[p] = "parent" /\ key'[p] \in Keys /\ UNCHANGED <<lock, adding>>
      BY <2>1, <2>4 DEF Go, TypeOK
    <3>2. KeyIsKnown' /\ RevisionIsKnown' /\ LockIsHeld' /\ LockFileIsThere'
      BY <2>2, <3>1 DEF KeyIsKnown, RevisionIsKnown, LockIsHeld, LockFileIsThere, Engaged,
         Holding, Filling, Fetching
    <3>3. ParentsAreThere' /\ LeafIsNotBare' /\ LeafIsFilledOnce' /\ ServedTreesAreWhole'
      BY <2>2, <3>1 DEF ParentsAreThere, LeafIsNotBare, LeafIsFilledOnce, ServedTreesAreWhole,
         Filling
    <3> QED
      BY <3>2, <3>3 DEF Invariants
  <2> QED
    BY <2>3, <2>4
<1>4. CASE MakeParent(p)
  <2>0. key[p] \in Keys /\ UNCHANGED <<lock, lockFiles, key, adding, served>>
    BY <1>4 DEF MakeParent, KeyIsKnown, Engaged
  <2>1. pc'[p] = "open" /\ \A q \in Procs : q # p => pc'[q] = pc[q]
    BY <1>4 DEF MakeParent, Go, TypeOK
  <2>2. \A k \in Keys : tree'[k] = IF k \in Above[key[p]] /\ tree[k] = "absent"
                                   THEN "bare" ELSE tree[k]
    BY <1>4 DEF MakeParent
  <2>3. \A k \in Keys : IsLeaf(k) => tree'[k] = tree[k]
    BY <2>0, <2>2 DEF IsLeaf
  <2>4. KeyIsKnown' /\ RevisionIsKnown' /\ LockIsHeld' /\ LockFileIsThere'
    BY <1>4, <2>0, <2>1 DEF MakeParent, KeyIsKnown, RevisionIsKnown, LockIsHeld,
       LockFileIsThere, Engaged, Holding, Filling, Fetching
  <2>5. ParentsAreThere'
    <3> SUFFICES ASSUME NEW k \in Keys, NEW a \in Above[k],
                        k \in lockFiles' \/ \E q \in Procs : pc'[q] = "open" /\ key'[q] = k
                 PROVE  tree'[a] # "absent"
      BY DEF ParentsAreThere
    <3>1. a \in Keys
      BY LayoutAssumption
    <3>2. CASE k = key[p]
      BY <2>2, <3>1, <3>2
    <3>3. CASE k # key[p]
      <4>1. tree[a] # "absent"
        BY <2>0, <2>1, <3>3 DEF ParentsAreThere
      <4> QED
        BY <2>2, <3>1, <4>1
    <3> QED
      BY <3>2, <3>3
  <2>6. LeafIsNotBare' /\ LeafIsFilledOnce' /\ ServedTreesAreWhole'
    <3>1. \A q \in Procs : pc'[q] \in Filling => pc[q] \in Filling /\ key[q] \in Keys
      BY <2>1 DEF KeyIsKnown, Filling, Engaged, Holding
    <3>2. \A q \in Procs : \A k \in served[q] : k \in Keys
      BY DEF TypeOK
    <3> QED
      BY <2>0, <2>3, <3>1, <3>2 DEF LeafIsNotBare, LeafIsFilledOnce, ServedTreesAreWhole, IsLeaf
  <2> QED
    BY <2>4, <2>5, <2>6 DEF Invariants
<1>5. CASE OpenLock(p)
  <2>0. /\ key[p] \in Keys /\ pc[p] = "open" /\ lockFiles' = lockFiles \cup {key[p]}
        /\ UNCHANGED <<tree, lock, key, adding, served>>
    BY <1>5 DEF OpenLock, KeyIsKnown, Engaged
  <2>1. pc'[p] = "lock" /\ \A q \in Procs : q # p => pc'[q] = pc[q]
    BY <1>5 DEF OpenLock, Go, TypeOK
  <2>2. KeyIsKnown' /\ RevisionIsKnown' /\ LockIsHeld' /\ LockFileIsThere'
    BY <2>0, <2>1 DEF KeyIsKnown, RevisionIsKnown, LockIsHeld,
       LockFileIsThere, Engaged, Holding, Filling, Fetching
  <2>3. ParentsAreThere'
    BY <2>0, <2>1 DEF ParentsAreThere
  <2>4. LeafIsNotBare' /\ LeafIsFilledOnce' /\ ServedTreesAreWhole'
    BY <2>0, <2>1 DEF LeafIsNotBare, LeafIsFilledOnce, ServedTreesAreWhole, Filling
  <2> QED
    BY <2>2, <2>3, <2>4 DEF Invariants
<1>6. CASE Acquire(p)
  <2>0. /\ key[p] \in Keys /\ pc[p] = "lock" /\ lock[key[p]] = None
        /\ lock' = [lock EXCEPT ![key[p]] = p]
        /\ UNCHANGED <<tree, lockFiles, key, adding, served>>
    BY <1>6 DEF Acquire, KeyIsKnown, Engaged
  <2>1. pc'[p] = "exists" /\ \A q \in Procs : q # p => pc'[q] = pc[q]
    BY <1>6 DEF Acquire, Go, TypeOK
  <2>2. LockIsHeld'
    <3> SUFFICES ASSUME NEW q \in Procs, pc'[q] \in Holding PROVE lock'[key[q]] = q
      BY <2>0 DEF LockIsHeld
    <3>1. CASE q = p
      BY <2>0, <3>1 DEF TypeOK
    <3>2. CASE q # p
      <4>1. lock[key[q]] = q /\ q # None
        BY <2>1, <3>2, NoneAssumption DEF LockIsHeld
      <4> QED
        BY <2>0, <4>1 DEF TypeOK
    <3> QED
      BY <3>1, <3>2
  <2>3. KeyIsKnown' /\ RevisionIsKnown' /\ LockFileIsThere'
    BY <2>0, <2>1 DEF KeyIsKnown, RevisionIsKnown, LockFileIsThere, Engaged, Holding, Filling,
       Fetching
  <2>4. ParentsAreThere' /\ LeafIsNotBare' /\ LeafIsFilledOnce' /\ ServedTreesAreWhole'
    BY <2>0, <2>1 DEF ParentsAreThere, LeafIsNotBare, LeafIsFilledOnce, ServedTreesAreWhole,
       Filling
  <2> QED
    BY <2>2, <2>3, <2>4 DEF Invariants
<1>7. CASE Exists(p)
  <2>1. /\ pc[p] = "exists" /\ key' = key /\ adding' = adding
        /\ UNCHANGED <<tree, lockFiles>> /\ key[p] \in Keys
    BY <1>7 DEF Exists, KeyIsKnown, Engaged, Holding
  <2>2. CASE tree[key[p]] # "absent"
    <3>1. IsLeaf(key[p]) => tree[key[p]] = "whole"
      BY <2>1, <2>2 DEF LeafIsNotBare, TypeOK
    <3>2. Serve(p)
      BY <1>7, <2>2 DEF Exists
    <3> QED
      BY <2>1, <3>1, <3>2, ServeInv DEF TypeOK, Holding
  <2>3. CASE tree[key[p]] = "absent"
    <3>1. UNCHANGED <<lock, served>>
      BY <1>7, <2>3 DEF Exists
    <3>2. pc'[p] = "archive" /\ \A q \in Procs : q # p => pc'[q] = pc[q]
      BY <1>7, <2>3 DEF Exists, Go, TypeOK
    <3>3. KeyIsKnown' /\ RevisionIsKnown' /\ LockIsHeld' /\ LockFileIsThere'
      BY <2>1, <3>1, <3>2 DEF KeyIsKnown, RevisionIsKnown, LockIsHeld, LockFileIsThere, Engaged,
         Holding, Filling, Fetching
    <3>4. ParentsAreThere' /\ LeafIsNotBare' /\ LeafIsFilledOnce' /\ ServedTreesAreWhole'
      BY <2>1, <2>3, <3>1, <3>2 DEF ParentsAreThere, LeafIsNotBare, LeafIsFilledOnce,
         ServedTreesAreWhole, Filling
    <3> QED
      BY <3>3, <3>4 DEF Invariants
  <2> QED
    BY <2>2, <2>3
<1>8. CASE Place(p)
  <2>1. /\ pc[p] = "place" /\ UNCHANGED <<clone, objects, lockFiles, commands>>
        /\ key[p] \in Keys /\ key[p] \in lockFiles
    BY <1>8 DEF Place, KeyIsKnown, LockFileIsThere, Engaged, Holding, Filling
  <2>2. CASE tree[key[p]] = "absent" \/ (tree[key[p]] = "bare" /\ ~Occupied(key[p]))
    <3>1. /\ tree' = [j \in Keys |-> IF j = key[p] \/ key[p] \in Above[j] THEN "whole"
                                      ELSE tree[j]]
          /\ Serve(p) /\ key' = key /\ adding' = adding
      BY <1>8, <2>2 DEF Place
    \* What is nested in the tree has no lock file yet: nobody fills it.
    <3>2. \A j \in Keys : key[p] \in Above[j] => j \notin lockFiles
      BY <2>1, <2>2 DEF Occupied, ParentsAreThere
    <3>3. \A k \in Keys : IsLeaf(k) /\ k # key[p] =>
             tree'[k] = tree[k] \/ (tree'[k] = "whole" /\ k \notin lockFiles)
      BY <3>1, <3>2
    <3>4. /\ tree' \in [Keys -> {"absent", "bare", "whole"}]
          /\ \A k \in Keys : tree[k] # "absent" => tree'[k] # "absent"
          /\ tree'[key[p]] = "whole"
      BY <2>1, <3>1 DEF TypeOK
    <3> QED
      BY <2>1, <3>1, <3>3, <3>4, ServeInv DEF Holding, Filling
  <2>3. CASE ~(tree[key[p]] = "absent" \/ (tree[key[p]] = "bare" /\ ~Occupied(key[p])))
    <3>1. End(p, "refused") /\ UNCHANGED <<tree, served>>
      BY <1>8, <2>3 DEF Place
    <3> QED
      BY <2>1, <3>1, EndInv DEF Outcomes
  <2> QED
    BY <2>2, <2>3
<1>9. CASE ReadTree(p)
  <2>1. pc[p] = "read" /\ UNCHANGED <<cache, served, commands>>
    BY <1>9 DEF ReadTree
  <2>2. CASE End(p, "refused")
    BY <2>1, <2>2, EndInv DEF Outcomes
  <2>3. CASE ~End(p, "refused")
    <3>1. Go(p, "next") /\ key' = key /\ adding' = adding /\ lock' = lock
      BY <1>9, <2>3 DEF ReadTree
    <3> QED
      BY <2>1, <3>1, MoveInv DEF Points, Engaged, Fetching, Filling, Holding
  <2> QED
    BY <2>2, <2>3
<1>10. CASE Resolved(p) \/ TimeOut(p) \/ Refuse(p) \/ Kill(p)
  <2>1. /\ \E how \in Outcomes : End(p, how)
        /\ UNCHANGED <<cache, served, commands>>
    BY <1>10 DEF Resolved, TimeOut, Refuse, Kill, Outcomes
  <2> QED
    BY <2>1, EndInv
<1> QED
  BY <1>1, <1>2, <1>3, <1>4, <1>5, <1>6, <1>7, <1>8, <1>9, <1>10 DEF Act, Step

--------------------------------------------------------------------------------
(* Theorems *)

THEOREM Inductive == Spec => []IInv
<1>1. Init => IInv
  BY InvInit
<1>2. IInv /\ [Next]_vars => IInv'
  <2> SUFFICES ASSUME IInv, [Next]_vars PROVE IInv'
    OBVIOUS
  <2>1. CASE Next
    <3>1. PICK p \in Procs : Act(p)
      BY <2>1 DEF Next, Act
    <3> QED
      BY <3>1, TypeStep, InvStep DEF IInv, Invariants
  <2>2. CASE UNCHANGED vars
    BY <2>2 DEF vars, cache, locks, locals, IInv, TypeOK, KeyIsKnown, RevisionIsKnown,
       LockIsHeld, LockFileIsThere, ParentsAreThere, LeafIsNotBare, LeafIsFilledOnce,
       ServedTreesAreWhole, IsLeaf
  <2> QED
    BY <2>1, <2>2
<1> QED
  BY <1>1, <1>2, PTL DEF Spec

\* Every variable keeps its type.
THEOREM TypeCorrect == Spec => []TypeOK
<1>1. IInv => TypeOK
  BY DEF IInv
<1> QED
  BY <1>1, Inductive, PTL

\* A tree that a command was given is whole, for any number of commands, molecules
\* and kills: get_or_extract returns an existing path, or the one it has renamed
\* its finished extraction to.
THEOREM ServedAreWhole == Spec => []ServedTreesAreWhole
<1>1. IInv => ServedTreesAreWhole
  BY DEF IInv
<1> QED
  BY <1>1, Inductive, PTL

\* The final os.replace of get_or_extract never meets a tree that another command
\* has put there.
THEOREM NeverCollide == Spec => []ExtractionsNeverCollide
<1>1. IInv => ExtractionsNeverCollide
  BY DEF IInv, LeafIsFilledOnce, ExtractionsNeverCollide, Filling
<1> QED
  BY <1>1, Inductive, PTL
================================================================================
