----------------------------- MODULE MoleculeStore -----------------------------
(***************************************************************************)
(* The device-local caches that every checkout of a user shares: the clones  *)
(* of the publishers (ensure_object, src/spaex/git/publisher_fetch.py) and    *)
(* the molecule trees extracted from them (get_or_extract,                   *)
(* src/spaex/git/molecule_store.py), as commands in several checkouts fill    *)
(* and read them while they resolve their molecules                          *)
(* (_iterate_resolved_molecules, src/spaex/constitution/resolve.py).          *)
(*                                                                          *)
(* No command ever removes an entry, and nothing verifies one when it is     *)
(* read: that a tree exists has to mean that it is complete.  Entries are    *)
(* therefore built in a directory of a random name and renamed into place    *)
(* under a lock next to them.  The directory that the lock file of a tree    *)
(* lies in is made before the lock is taken; a publisher may nest one        *)
(* molecule in the directory of another, and then that directory is a tree.  *)
(***************************************************************************)
EXTENDS Naturals, FiniteSets

CONSTANTS
    Procs,        \* spaex commands of different checkouts
    Keys,         \* molecules, each at one path of one revision
    Revisions,    \* the revisions the publisher has
    Rev,          \* [Keys -> Revisions]
    Above,        \* [Keys -> SUBSET Keys]: the molecules it is nested in
    MaxCommands,  \* bound on the commands started
    None

ASSUME NoneAssumption == None \notin Procs
ASSUME LayoutAssumption ==
    /\ Rev \in [Keys -> Revisions]
    /\ Above \in [Keys -> SUBSET Keys]
    /\ \A k \in Keys : k \notin Above[k] /\ \A a \in Above[k] : Rev[a] = Rev[k]
ASSUME CommandsAssumption == MaxCommands \in Nat

VARIABLES
    clone,      \* whether the publisher's clone is in place
    objects,    \* the revisions fetched into it
    cloneLock,  \* the holder of the clone's lock file
    tree,       \* [Keys -> {"absent", "bare", "whole"}]: what is at the path
    lockFiles,  \* the trees whose lock file exists
    lock,       \* [Keys -> the holder of the tree's lock file]
    pc,         \* what each command does next
    adding,     \* the revision `spaex add` fetches
    want,       \* the molecules it has still to resolve
    key,        \* the one it resolves now
    temp,       \* what is in its temporary directory
    served,     \* the paths get_or_extract has returned to it
    outcome,    \* how it ended
    commands

cache == <<clone, objects, tree, lockFiles>>
locks == <<cloneLock, lock>>
locals == <<adding, want, key, temp, served, outcome>>
vars == <<cache, locks, pc, locals, commands>>

Points == {"idle", "cloneLock", "init", "placeClone", "haveObject", "fetch", "next",
           "parent", "open", "lock", "exists", "archive", "makeTemp", "extract", "place",
           "read"}
Outcomes == {"none", "done", "refused", "contended", "killed"}

Init ==
    /\ clone = FALSE /\ objects = {} /\ cloneLock = None
    /\ tree = [k \in Keys |-> "absent"] /\ lockFiles = {}
    /\ lock = [k \in Keys |-> None]
    /\ pc = [p \in Procs |-> "idle"]
    /\ adding = [p \in Procs |-> None]
    /\ want = [p \in Procs |-> {}]
    /\ key = [p \in Procs |-> None]
    /\ temp = [p \in Procs |-> "none"]
    /\ served = [p \in Procs |-> {}]
    /\ outcome = [p \in Procs |-> "none"]
    /\ commands = 0

Go(p, point) == pc' = [pc EXCEPT ![p] = point]

\* The command ends: its context managers, or the kernel, release its locks.  Its
\* temporary directory is removed, or stays under a name nobody uses again.
End(p, how) ==
    /\ Go(p, "idle")
    /\ outcome' = [outcome EXCEPT ![p] = how]
    /\ want' = [want EXCEPT ![p] = {}]
    /\ adding' = [adding EXCEPT ![p] = None]
    /\ key' = [key EXCEPT ![p] = None]
    /\ temp' = [temp EXCEPT ![p] = "none"]
    /\ cloneLock' = IF cloneLock = p THEN None ELSE cloneLock
    /\ lock' = [k \in Keys |-> IF lock[k] = p THEN None ELSE lock[k]]

\* `add` fetches the revision it pins, then resolves the edited manifest; an
\* install resolves the manifest from what was fetched before.
Begin(p) ==
    /\ pc[p] = "idle" /\ commands < MaxCommands
    /\ commands' = commands + 1
    /\ \E keys \in SUBSET Keys, r \in Revisions \cup {None} :
          /\ keys # {}
          /\ want' = [want EXCEPT ![p] = keys]
          /\ adding' = [adding EXCEPT ![p] = r]
          /\ Go(p, IF r = None THEN "next" ELSE "cloneLock")
    /\ served' = [served EXCEPT ![p] = {}]
    /\ outcome' = [outcome EXCEPT ![p] = "none"]
    /\ UNCHANGED <<cache, locks, key, temp>>

--------------------------------------------------------------------------------
(* ensure_object *)

LockClone(p) ==
    /\ pc[p] = "cloneLock" /\ cloneLock = None
    /\ cloneLock' = p
    /\ Go(p, IF clone THEN "haveObject" ELSE "init")
    /\ UNCHANGED <<cache, lock, locals, commands>>

\* git init and remote add, in a temporary directory, each checked.
InitClone(p) ==
    /\ pc[p] = "init"
    /\ temp' = [temp EXCEPT ![p] = "whole"]
    /\ Go(p, "placeClone")
    /\ UNCHANGED <<cache, locks, adding, want, key, served, outcome, commands>>

PlaceClone(p) ==
    /\ pc[p] = "placeClone"
    /\ clone' = TRUE
    /\ temp' = [temp EXCEPT ![p] = "none"]
    /\ Go(p, "haveObject")
    /\ UNCHANGED <<objects, tree, lockFiles, locks, adding, want, key, served, outcome,
                   commands>>

\* git cat-file -e: a revision that is there is not fetched again.
HaveObject(p) ==
    /\ pc[p] = "haveObject"
    /\ IF adding[p] \in objects
         THEN Go(p, "next") /\ cloneLock' = None
         ELSE Go(p, "fetch") /\ UNCHANGED cloneLock
    /\ UNCHANGED <<cache, lock, locals, commands>>

Fetch(p) ==
    /\ pc[p] = "fetch"
    /\ objects' = objects \cup {adding[p]}
    /\ cloneLock' = None
    /\ Go(p, "next")
    /\ UNCHANGED <<clone, tree, lockFiles, lock, locals, commands>>

--------------------------------------------------------------------------------
(* The molecules of the manifest, one after another. *)

\* Without the clone, or without the revision, the command is refused.
NextMolecule(p) ==
    /\ pc[p] = "next" /\ want[p] # {}
    /\ \E k \in want[p] :
          IF clone /\ Rev[k] \in objects
            THEN /\ key' = [key EXCEPT ![p] = k]
                 /\ Go(p, "parent")
                 /\ UNCHANGED <<locks, adding, want, temp, outcome>>
            ELSE End(p, "refused")
    /\ UNCHANGED <<cache, served, commands>>

Resolved(p) ==
    /\ pc[p] = "next" /\ want[p] = {}
    /\ End(p, "done")
    /\ UNCHANGED <<cache, served, commands>>

\* __enter__ of the lock: parent.mkdir(parents=True).
MakeParent(p) ==
    /\ pc[p] = "parent"
    /\ tree' = [k \in Keys |-> IF k \in Above[key[p]] /\ tree[k] = "absent"
                               THEN "bare" ELSE tree[k]]
    /\ Go(p, "open")
    /\ UNCHANGED <<clone, objects, lockFiles, locks, locals, commands>>

OpenLock(p) ==
    /\ pc[p] = "open"
    /\ lockFiles' = lockFiles \cup {key[p]}
    /\ Go(p, "lock")
    /\ UNCHANGED <<clone, objects, tree, locks, locals, commands>>

\* Seeded fault: a lock that somebody holds is taken over.
AcquireHeld(p) ==
    /\ pc[p] = "lock"
    /\ lock' = [lock EXCEPT ![key[p]] = p]
    /\ Go(p, "exists")
    /\ UNCHANGED <<cache, cloneLock, locals, commands>>

Acquire(p) ==
    /\ pc[p] = "lock" /\ lock[key[p]] = None
    /\ lock' = [lock EXCEPT ![key[p]] = p]
    /\ Go(p, "exists")
    /\ UNCHANGED <<cache, cloneLock, locals, commands>>

\* get_or_extract returns: the lock is released, the caller has the path.
Serve(p) ==
    /\ served' = [served EXCEPT ![p] = @ \cup {key[p]}]
    /\ lock' = [lock EXCEPT ![key[p]] = None]
    /\ temp' = [temp EXCEPT ![p] = "none"]
    /\ Go(p, "read")

Exists(p) ==
    /\ pc[p] = "exists"
    /\ IF tree[key[p]] # "absent"
         THEN Serve(p)
         ELSE Go(p, "archive") /\ UNCHANGED <<lock, temp, served>>
    /\ UNCHANGED <<cache, cloneLock, adding, want, key, outcome, commands>>

\* git archive into memory.
Archive(p) ==
    /\ pc[p] = "archive"
    /\ Go(p, "makeTemp")
    /\ UNCHANGED <<cache, locks, locals, commands>>

\* Seeded fault: the members are extracted where the tree will be.
MakeTempInPlace(p) ==
    /\ pc[p] = "makeTemp"
    /\ temp' = [temp EXCEPT ![p] = "partial"]
    /\ tree' = [tree EXCEPT ![key[p]] = "bare"]
    /\ Go(p, "extract")
    /\ UNCHANGED <<clone, objects, lockFiles, locks, adding, want, key, served, outcome, commands>>

MakeTemp(p) ==
    /\ pc[p] = "makeTemp"
    /\ temp' = [temp EXCEPT ![p] = "partial"]
    /\ Go(p, "extract")
    /\ UNCHANGED <<cache, locks, adding, want, key, served, outcome, commands>>

\* _validate_and_extract, member by member, and the check for a directory.
Extract(p) ==
    /\ pc[p] = "extract"
    /\ temp' = [temp EXCEPT ![p] = "whole"]
    /\ Go(p, "place")
    /\ UNCHANGED <<cache, locks, adding, want, key, served, outcome, commands>>

\* A lock file or a tree lies in the directory.
Occupied(k) == \E j \in Keys : k \in Above[j] /\ (j \in lockFiles \/ tree[j] # "absent")

\* os.replace: a rename onto a directory works while that is empty.  The tree
\* brings along what is nested in it.
Place(p) ==
    /\ pc[p] = "place"
    /\ LET k == key[p]
       IN  IF tree[k] = "absent" \/ (tree[k] = "bare" /\ ~Occupied(k))
             THEN /\ tree' = [j \in Keys |-> IF j = k \/ k \in Above[j] THEN "whole"
                                             ELSE tree[j]]
                  /\ Serve(p)
                  /\ UNCHANGED <<cloneLock, adding, want, key, outcome>>
             ELSE End(p, "refused") /\ UNCHANGED <<tree, served>>
    /\ UNCHANGED <<clone, objects, lockFiles, commands>>

\* The molecule's manifest is read from the path, without a lock.
ReadTree(p) ==
    /\ pc[p] = "read"
    /\ IF tree[key[p]] = "whole"
         THEN /\ want' = [want EXCEPT ![p] = @ \ {key[p]}]
              /\ Go(p, "next")
              /\ UNCHANGED <<locks, adding, key, temp, outcome>>
         ELSE End(p, "refused")
    /\ UNCHANGED <<cache, served, commands>>

--------------------------------------------------------------------------------
(* Failures.  An exception leaves through the context managers. *)

\* The deadline of a lock passes while another command holds it.
TimeOut(p) ==
    /\ \/ pc[p] = "cloneLock" /\ cloneLock # None
       \/ pc[p] = "lock" /\ lock[key[p]] # None
    /\ End(p, "contended")
    /\ UNCHANGED <<cache, served, commands>>

\* git or the file system fails or times out, an archive is malformed or has an
\* unsafe member, the publisher has no such revision, path, or manifest.
Refuse(p) ==
    /\ pc[p] \in {"init", "placeClone", "haveObject", "fetch", "next", "archive", "makeTemp",
                  "extract", "place", "read"}
    /\ End(p, "refused")
    /\ UNCHANGED <<cache, served, commands>>

Kill(p) ==
    /\ pc[p] # "idle"
    /\ End(p, "killed")
    /\ UNCHANGED <<cache, served, commands>>

Step(p) ==
    \/ LockClone(p) \/ InitClone(p) \/ PlaceClone(p) \/ HaveObject(p) \/ Fetch(p)
    \/ NextMolecule(p) \/ Resolved(p)
    \/ MakeParent(p) \/ OpenLock(p) \/ Acquire(p) \/ Exists(p)
    \/ Archive(p) \/ MakeTemp(p) \/ Extract(p) \/ Place(p) \/ ReadTree(p)
    \/ TimeOut(p)

Next == \E p \in Procs : Begin(p) \/ Step(p) \/ Refuse(p) \/ Kill(p)

Spec == Init /\ [][Next]_vars

--------------------------------------------------------------------------------
(* Properties *)

\* The type of every variable.
TypeOK ==
    /\ clone \in BOOLEAN /\ objects \subseteq Revisions
    /\ cloneLock \in Procs \cup {None}
    /\ tree \in [Keys -> {"absent", "bare", "whole"}]
    /\ lockFiles \subseteq Keys
    /\ lock \in [Keys -> Procs \cup {None}]
    /\ pc \in [Procs -> Points]
    /\ adding \in [Procs -> Revisions \cup {None}]
    /\ want \in [Procs -> SUBSET Keys]
    /\ key \in [Procs -> Keys \cup {None}]
    /\ temp \in [Procs -> {"none", "partial", "whole"}]
    /\ served \in [Procs -> SUBSET Keys]
    /\ outcome \in [Procs -> Outcomes]
    /\ commands \in Nat

\* No molecule is nested in this one.
IsLeaf(k) == \A j \in Keys : k \notin Above[j]

\* A path that get_or_extract has returned has the whole tree of the molecule, then
\* and for as long as the command uses it, whatever the other commands do and
\* wherever one of them was killed.  For molecules with nothing nested in them.
ServedTreesAreWhole ==
    \A p \in Procs : \A k \in served[p] : IsLeaf(k) => tree[k] = "whole"

\* The same for every molecule, as the contract of get_or_extract has it.
EveryServedTreeIsWhole ==
    \A p \in Procs : \A k \in served[p] : tree[k] = "whole"

\* The rename of a finished extraction meets nothing that a concurrent command has
\* put there: of two commands that want one tree, one extracts it and the other
\* finds it, and neither is refused for the other's sake.
ExtractionsNeverCollide ==
    \A p \in Procs : pc[p] = "place" /\ IsLeaf(key[p]) => tree[key[p]] = "absent"
================================================================================
