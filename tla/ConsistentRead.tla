---------------------------- MODULE ConsistentRead -----------------------------
(***************************************************************************)
(* The reports of `spaex status` and `spaex trace` take no lock: they read   *)
(* `.spaex/` file by file while an install may swap it, and rely on the      *)
(* generation id read before and after (read_with_consistent_generation,     *)
(* src/spaex/model/install_lock.py).  This module adds one such reader to    *)
(* the publication of GenerationSwap.                                        *)
(*                                                                          *)
(* A generation is known by the ids in its two install locks: the project's  *)
(* (0 when there is no install.lock, as after `spaex init`) and that of the  *)
(* local scope (0 when there is none).                                       *)
(***************************************************************************)
EXTENDS GenerationSwap

CONSTANTS
    Reads,      \* how many files a report reads between the two id reads
    MayRefuse   \* whether the verification of a publication may fail

ASSUME GenerationIdsAssumption ==
    \A g \in Generations : g \in [project : Nat, local : Nat]
ASSUME ReadsAssumption == Reads \in Nat \ {0} /\ MayRefuse \in BOOLEAN

VARIABLES
    rpc,         \* what the reader does next
    confirming,  \* whether it reads the second id
    attempt,     \* 1, or 2 for the retry
    lock,        \* the project id in the install.lock it read, 0 if there was none
    firstId,     \* the id before the reads
    reads,       \* reads left
    seen,        \* the directories the builder read its files from
    outcome,     \* how the last report ended
    rewound      \* history, read by properties only: see Rewinds

reader == <<rpc, confirming, attempt, lock, firstId, reads, seen, outcome, rewound>>
allVars == <<vars, reader>>

NoId == [project |-> 0, local |-> 0]

ReadInit ==
    /\ Init
    /\ rpc = "idle" /\ confirming = FALSE /\ attempt = 1
    /\ lock = 0 /\ firstId = NoId /\ reads = 0 /\ seen = {}
    /\ outcome = "none" /\ rewound = FALSE

--------------------------------------------------------------------------------
(* The installs, with the ids they allocate. *)

\* Seeded fault: the id is derived from the contents alone and may come again.
AllocatedAnyId(m, g) == g \in Generations

IdsOf(tree) == IF tree = Absent THEN NoId ELSE tree

\* allocate_generation_id: greater than the id in the lock that is live, or any
\* when there is none.  A publication of one scope carries the lock of the other
\* along.  That of the local scope leaves no local lock when nothing is adopted any
\* more (plan.overlay_bytes is None), so that the next adoption starts anew.
Allocated(m, g) ==
    LET existing == IdsOf(live)
    IN  IF m = "local"
          THEN /\ g.project = existing.project
               /\ \/ g.local > existing.local
                  \/ g.local = 0 /\ existing.local # 0
          ELSE g.project > existing.project /\ g.local = existing.local

\* The step takes a publication or a rename A back (an undo, a rollback, the recovery
\* of a killed install), or it adopts the first molecule of the local scope.
Rewinds ==
    /\ live' # live
    /\ \/ pc \notin {"renameA", "renameB"}
       \/ pc = "renameB" /\ mode = "local" /\ base.local = 0

InstallStep ==
    /\ Next
    /\ pc = "choose" /\ pc' = "reset" => Allocated(mode', target')
    /\ raised' = "callback" => MayRefuse
    /\ rewound' = (rewound \/ Rewinds)
    /\ UNCHANGED <<rpc, confirming, attempt, lock, firstId, reads, seen, outcome>>

--------------------------------------------------------------------------------
(* The reader. *)

Finish(how) ==
    /\ outcome' = how
    /\ rpc' = "idle" /\ confirming' = FALSE /\ attempt' = 1 /\ reads' = 0

BeginReport ==
    /\ rpc = "idle"
    /\ rpc' = "exists"
    /\ lock' = 0 /\ firstId' = NoId /\ seen' = {}
    /\ outcome' = "none" /\ rewound' = FALSE
    /\ UNCHANGED <<confirming, attempt, reads>>

HasLock == live # Absent /\ live.project # 0

\* _read_lock: without the file, an empty lock.
LockExists ==
    /\ rpc = "exists"
    /\ IF HasLock
         THEN rpc' = "bytes" /\ UNCHANGED lock
         ELSE rpc' = "local" /\ lock' = 0
    /\ UNCHANGED <<confirming, attempt, firstId, reads, seen, outcome, rewound>>

\* The tree may be renamed away after exists(): an unhandled FileNotFoundError.
LockBytes ==
    /\ rpc = "bytes"
    /\ IF HasLock
         THEN /\ rpc' = "local" /\ lock' = live.project
              /\ UNCHANGED <<confirming, attempt, reads, outcome>>
         ELSE Finish("error") /\ UNCHANGED lock
    /\ UNCHANGED <<firstId, seen, rewound>>

\* _generation: the project id just read and the local id found now.
Id == [project |-> lock,
       local |-> IF live = Absent THEN 0 ELSE live.local]

FirstId ==
    /\ rpc = "local" /\ ~confirming
    /\ firstId' = Id
    /\ rpc' = "build" /\ reads' = Reads /\ seen' = {}
    /\ UNCHANGED <<confirming, attempt, lock, outcome, rewound>>

\* The report's builder: the manifest first, whose absence refuses the report;
\* of the other files an absent one counts as empty.
BuildRead ==
    /\ rpc = "build" /\ reads > 0
    /\ IF reads = Reads /\ live = Absent
         THEN Finish("refused") /\ UNCHANGED seen
         ELSE /\ seen' = seen \cup {live}
              /\ reads' = reads - 1
              /\ UNCHANGED <<rpc, confirming, attempt, outcome>>
    /\ UNCHANGED <<lock, firstId, rewound>>

ReadAgain ==
    /\ rpc = "build" /\ reads = 0
    /\ rpc' = "exists" /\ confirming' = TRUE
    /\ UNCHANGED <<attempt, lock, firstId, reads, seen, outcome, rewound>>

\* Equal ids: the report stands.  Otherwise one retry, then the refusal.
Compare ==
    /\ rpc = "local" /\ confirming
    /\ IF Id = firstId
         THEN Finish("report") /\ UNCHANGED <<lock, firstId, seen, rewound>>
       ELSE IF attempt = 2
         THEN Finish("inconsistent") /\ UNCHANGED <<lock, firstId, seen, rewound>>
       ELSE /\ rpc' = "exists" /\ confirming' = FALSE /\ attempt' = 2
            /\ lock' = 0 /\ firstId' = NoId /\ seen' = {} /\ rewound' = FALSE
            /\ UNCHANGED <<reads, outcome>>

ReaderStep ==
    /\ \/ BeginReport \/ LockExists \/ LockBytes \/ FirstId
       \/ BuildRead \/ ReadAgain \/ Compare
    /\ UNCHANGED vars

ReadNext == InstallStep \/ ReaderStep
ReadSpec == ReadInit /\ [][ReadNext]_allVars

--------------------------------------------------------------------------------
(* Properties *)

\* The report's lock and all the files it read come from one directory.
Untorn == \E g \in Generations : seen = {g} /\ g.project = lock

\* A returned report reflects one generation and never a mix of two
\* (specs/028 data-model, FR-015).
ReportIsUntorn == outcome = "report" => Untorn

\* A returned report whose first id was read from locks on disk reflects one
\* generation, whatever installs ran, were refused, failed or were killed between its
\* reads, as long as none of their steps since the attempt began took a swap back or
\* adopted a local scope (Rewinds): ids then never come again, and a directory that
\* was missing comes back with another id.  The id of a missing lock is the same
\* before and after, so it proves nothing.
LocalScopeInUse == \E g \in Generations : g.local # 0
SealedReportIsUntorn ==
    /\ outcome = "report"
    /\ firstId.project # 0
    /\ LocalScopeInUse => firstId.local # 0
    /\ ~rewound
    => Untorn
================================================================================
