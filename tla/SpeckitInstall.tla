----------------------------- MODULE SpeckitInstall -----------------------------
(***************************************************************************)
(* The Spec Kit step of an install (prepare_install,                         *)
(* src/spaex/integrations/speckit.py).  A molecule may declare integrations   *)
(* for agents such as Claude or Codex; the operator selects some of them once, *)
(* and the official `specify` CLI installs their files.  spaex records the     *)
(* selection in install.lock, and asks the CLI at every later install what     *)
(* has become of the files, since clones and clean-ups lose them.            *)
(*                                                                          *)
(* The CLI's own state is outside of the generation: nothing takes it back    *)
(* when an install fails or is killed.  What the CLI does is modelled as       *)
(* tests/integration/test_speckit_drift_repair.py describes it: a key that is   *)
(* registered is not installed again, and the first key installed becomes     *)
(* the default.  Keys are numbered in the order of their names, molecules in    *)
(* that of the resolver.                                                       *)
(***************************************************************************)
EXTENDS Naturals, FiniteSets

CONSTANTS
    Keys,         \* integrations
    Molecules,    \* molecules that may declare a policy
    Contributor,  \* the one that contributes a classic constitution, or None
    Pins,         \* revisions of a molecule
    Policies,
    PolicyOf,     \* [Pins -> Policies]: the declaration at that revision
    Declared,     \* [Policies -> SUBSET Keys]
    CliVersions,
    Requires,     \* [Policies -> CliVersions]: the lower bound it declares
    Supports,     \* [CliVersions -> SUBSET Keys]
    MaxMoves,     \* bound on commands and what happens between them
    MaxFaults,    \* bound on failing calls and kills
    None

ASSUME OrderAssumption == Keys \subseteq Nat /\ Molecules \subseteq Nat
ASSUME PolicyAssumption ==
    /\ PolicyOf \in [Pins -> Policies]
    /\ Declared \in [Policies -> SUBSET Keys]
    /\ CliVersions \subseteq Nat
    /\ Requires \in [Policies -> CliVersions]
    /\ Supports \in [CliVersions -> SUBSET Keys]
ASSUME BoundsAssumption == MaxMoves \in Nat /\ MaxFaults \in Nat
ASSUME NoneAssumption == None \notin Pins \cup Keys \cup Molecules \cup CliVersions

VARIABLES
    pins,         \* the project manifest: [Molecules -> Pins \cup {None}]
    lock,         \* install.lock: [Molecules -> Records \cup {NoRecord}]
    cli,          \* the version of the `specify` on the PATH
    initialised,  \* .specify/ exists
    registered, default,  \* .specify/integration.json
    readable,     \* the keys whose official manifest is there
    whole,        \* the keys none of whose managed files is missing
    pc,
    start,        \* what the command found: [pins, lock, default]
    selected, asked,      \* the selection, and whether the operator made it now
    statusRead,   \* `integration status` gave an answer
    reinstall, toRefresh, toInstall, first, installed,
    outcome,
    choice,       \* [Policies -> the last selection made and published for it]
    settled,      \* the last install succeeded, and nothing has changed since
    moves, faults

manifest == <<pins, lock>>
agents == <<initialised, registered, default, readable, whole>>
work == <<reinstall, toRefresh, toInstall, first, installed>>
locals == <<start, selected, asked, statusRead, work>>
ghosts == <<choice, settled>>
counters == <<moves, faults>>
vars == <<manifest, cli, agents, pc, locals, outcome, ghosts, counters>>

Least(S) == CHOOSE k \in S : \A j \in S : k <= j

\* SpeckitLockRecord.  `installed` are the selected keys with outcome "installed";
\* the others are "already_satisfied".
Records == [fingerprint : Pins, selected : SUBSET Keys, cli : CliVersions \cup {None},
            installed : SUBSET Keys]
NoRecord == [fingerprint |-> None, selected |-> {}, cli |-> None, installed |-> {}]

Skipped(pin) == [fingerprint |-> pin, selected |-> {}, cli |-> None, installed |-> {}]

Declaring == {m \in Molecules : pins[m] # None}
\* declarations[0]: molecules are numbered in the resolver's order, priority, then id.
First == Least(Declaring)
Policy == PolicyOf[pins[First]]

\* The record was made for this very declaration and revision.
Matches(m) == lock[m].fingerprint = pins[m]

NoStart == [pins |-> [m \in Molecules |-> None], lock |-> [m \in Molecules |-> NoRecord],
            default |-> None]

Points == {"idle", "select", "verify", "init", "list", "status", "clear", "repair",
           "publish", "skip", "disable"}
Outcomes == {"none", "done", "skipped", "optedOut", "empty", "refused", "unsupported",
             "killed"}

Init ==
    /\ pins = [m \in Molecules |-> None]
    /\ lock = [m \in Molecules |-> NoRecord]
    /\ cli \in CliVersions
    /\ initialised = FALSE /\ registered = {} /\ default = None
    /\ readable = {} /\ whole = {}
    /\ pc = "idle"
    /\ start = NoStart
    /\ selected = {} /\ asked = FALSE /\ statusRead = FALSE
    /\ reinstall = {} /\ toRefresh = {} /\ toInstall = {} /\ first = None /\ installed = {}
    /\ outcome = "none"
    /\ choice = [y \in Policies |-> {}]
    /\ settled = FALSE
    /\ moves = 0 /\ faults = 0

Go(point) == pc' = point /\ UNCHANGED outcome

\* The command ends, its locals are gone.
End(how) ==
    /\ pc' = "idle" /\ outcome' = how
    /\ selected' = {} /\ asked' = FALSE /\ statusRead' = FALSE
    /\ reinstall' = {} /\ toRefresh' = {} /\ toInstall' = {} /\ first' = None
    /\ installed' = {}
    /\ UNCHANGED start

\* A refusal: `spaex add` and `spaex remove` put the manifest back.
Fail(how) ==
    /\ End(how)
    /\ pins' = start.pins
    /\ settled' = FALSE
    /\ UNCHANGED <<lock, choice>>

Move == pc = "idle" /\ moves < MaxMoves /\ moves' = moves + 1
Fault == faults < MaxFaults /\ faults' = faults + 1

\* `spaex install`, or an edit with the install inside it.
Begin ==
    /\ Move
    /\ \/ UNCHANGED <<pins, settled>>
       \/ /\ \E m \in Molecules, p \in Pins \cup {None} :
                p # pins[m] /\ pins' = [pins EXCEPT ![m] = p]
          /\ settled' = FALSE
    /\ start' = [pins |-> pins, lock |-> lock, default |-> default]
    /\ pc' = "select" /\ outcome' = "none"
    /\ UNCHANGED <<lock, cli, agents, selected, asked, statusRead, work, choice, faults>>

--------------------------------------------------------------------------------
(* Which agents *)

Conflict == \E m \in Declaring : PolicyOf[pins[m]] # Policy

\* No molecule declares Spec Kit: nothing to do and nothing to record.
NothingDeclared ==
    /\ pc = "select" /\ Declaring = {}
    /\ End("empty")
    /\ lock' = [m \in Molecules |-> NoRecord]
    /\ settled' = FALSE
    /\ UNCHANGED <<pins, cli, agents, choice, counters>>

CanSelect == pc = "select" /\ Declaring # {} /\ ~Conflict

\* --no-speckit-integrations
Disable ==
    /\ CanSelect
    /\ Go("disable")
    /\ settled' = FALSE
    /\ UNCHANGED <<manifest, cli, agents, locals, choice, counters>>

\* --speckit-agents with keys, or an answer at the prompt.
Choose ==
    /\ CanSelect
    /\ selected' \in SUBSET Declared[Policy]
    /\ asked' = TRUE
    /\ Go(IF selected' = {} THEN "skip" ELSE "verify")
    /\ settled' = (settled /\ selected' = lock[First].selected)
    /\ UNCHANGED <<manifest, cli, agents, start, statusRead, work, choice, counters>>

\* The first record of a declaring molecule with the same fingerprint and a
\* selection that is not empty.
Persisted ==
    LET matching == {m \in Declaring : Matches(m) /\ lock[m].selected # {}}
    IN  IF matching = {} THEN {} ELSE lock[Least(matching)].selected

\* Seeded fault: any record will do whose keys are declared.
ReuseUnmatched ==
    /\ CanSelect
    /\ \E m \in Declaring :
          /\ lock[m] # NoRecord /\ lock[m].selected # {}
          /\ lock[m].selected \subseteq Declared[Policy]
          /\ selected' = lock[m].selected
    /\ Go("verify")
    /\ UNCHANGED <<manifest, cli, agents, start, asked, statusRead, work, ghosts, counters>>

Reuse ==
    /\ CanSelect /\ Persisted # {}
    /\ selected' = Persisted
    /\ Go("verify")
    /\ UNCHANGED <<manifest, cli, agents, start, asked, statusRead, work, ghosts, counters>>

--------------------------------------------------------------------------------
(* The CLI: its version, the project, the keys it supports *)

Verify ==
    /\ pc = "verify" /\ cli >= Requires[Policy]
    /\ Go(IF initialised THEN "list" ELSE "init")
    /\ UNCHANGED <<manifest, cli, agents, locals, ghosts, counters>>

\* specify init --integration, with the first selected key.
InitProject ==
    /\ pc = "init"
    /\ LET k == Least(selected)
       IN  /\ k \in Supports[cli]
           /\ registered' = registered \cup {k} /\ default' = k
           /\ readable' = readable \cup {k} /\ whole' = whole \cup {k}
    /\ initialised' = TRUE
    /\ Go("list")
    /\ UNCHANGED <<manifest, cli, locals, ghosts, counters>>

\* The keys can be listed in an initialised project only.
ListSupported ==
    /\ pc = "list"
    /\ IF selected \subseteq Supports[cli]
         THEN Go("status") /\ UNCHANGED <<manifest, locals, ghosts>>
         ELSE Fail("unsupported")
    /\ UNCHANGED <<cli, agents, counters>>

--------------------------------------------------------------------------------
(* What has become of the files *)

\* The CLI counts its default as installed.
Installed == registered \cup ({default} \ {None})

AlreadySelected == lock[First] # NoRecord /\ Matches(First) /\ lock[First].cli = cli

NewKeys(lost, missing) ==
    {k \in selected \ missing :
        ~AlreadySelected \/ k \notin lock[First].selected \/ k \in lost}

\* Seeded fault: a failing exit code counts as a failed check.
DetectDriftByExitCode ==
    /\ pc = "status"
    /\ LET failing == Installed \ whole # {}
           lost == IF failing THEN {} ELSE selected \ (Installed \cap readable)
       IN  /\ reinstall' = lost /\ toRefresh' = {}
           /\ toInstall' = NewKeys(lost, {})
           /\ Go(IF lost = {} THEN "repair" ELSE "clear")
    /\ statusRead' = TRUE
    /\ UNCHANGED <<manifest, cli, agents, start, selected, asked, first, installed, ghosts,
                   counters>>

\* _detect_drift: a key without a readable manifest is installed again, one that
\* misses files only is refreshed.
DetectDrift ==
    /\ pc = "status"
    /\ LET lost == selected \ (Installed \cap readable)
           missing == selected \ (lost \cup whole)
       IN  /\ reinstall' = lost /\ toRefresh' = missing
           /\ toInstall' = NewKeys(lost, missing)
           /\ Go(IF lost = {} THEN "repair" ELSE "clear")
    /\ statusRead' = TRUE
    /\ UNCHANGED <<manifest, cli, agents, start, selected, asked, first, installed, ghosts,
                   counters>>

\* Output that is no status payload: no drift.
StatusUnread ==
    /\ pc = "status" /\ Fault
    /\ toInstall' = NewKeys({}, {})
    /\ Go("repair")
    /\ UNCHANGED <<manifest, cli, agents, start, selected, asked, statusRead, reinstall,
                   toRefresh, first, installed, ghosts, moves>>

\* _clear_stale_registrations: the drifted keys, and the default if it is one.  One
\* write: a registry cut off half-way by a kill is left out.
Clear ==
    /\ pc = "clear"
    /\ registered' = registered \ reinstall
    /\ IF default \in reinstall
         THEN default' = None /\ first' = default
         ELSE UNCHANGED <<default, first>>
    /\ Go("repair")
    /\ UNCHANGED <<manifest, cli, initialised, readable, whole, start, selected, asked,
                   statusRead, reinstall, toRefresh, toInstall, installed, ghosts, counters>>

--------------------------------------------------------------------------------
(* The repair, key by key, then the records *)

\* integration upgrade, which restores what is missing.
Refresh ==
    /\ pc = "repair" /\ toRefresh # {}
    /\ LET k == Least(toRefresh)
       IN  /\ whole' = whole \cup {k}
           /\ toRefresh' = toRefresh \ {k} /\ installed' = installed \cup {k}
    /\ UNCHANGED <<manifest, cli, initialised, registered, default, readable, pc, start,
                   selected, asked, statusRead, reinstall, toInstall, first, outcome, ghosts,
                   counters>>

NextKey == IF first \in toInstall THEN first ELSE Least(toInstall)

\* integration install: no change for a key that counts as installed.
InstallKey ==
    /\ pc = "repair" /\ toRefresh = {} /\ toInstall # {}
    /\ LET k == NextKey
       IN  /\ IF k \in Installed
                THEN UNCHANGED <<registered, default, readable, whole>>
                ELSE /\ registered' = registered \cup {k}
                     /\ default' = IF default = None THEN k ELSE default
                     /\ readable' = readable \cup {k} /\ whole' = whole \cup {k}
           /\ toInstall' = toInstall \ {k} /\ installed' = installed \cup {k}
    /\ UNCHANGED <<manifest, cli, initialised, pc, start, selected, asked, statusRead,
                   reinstall, toRefresh, first, outcome, ghosts, counters>>

\* Seeded fault: the outcomes of before are forgotten.
RecordOfThisRun(m) ==
    [fingerprint |-> pins[m], selected |-> selected, cli |-> cli,
     installed |-> selected \cap installed]

\* The record of every declaring molecule: the outcomes of before are carried over.
Record(m) ==
    [fingerprint |-> pins[m], selected |-> selected, cli |-> cli,
     installed |-> selected \cap
        (installed \cup IF AlreadySelected THEN lock[First].installed ELSE {})]

NewLock == [m \in Molecules |-> IF m \in Declaring THEN Record(m) ELSE NoRecord]

Repaired ==
    /\ pc = "repair" /\ toRefresh = {} /\ toInstall = {}
    /\ Go("publish")
    /\ UNCHANGED <<manifest, cli, agents, locals, ghosts, counters>>

\* Unless the records are those of the lock, a new generation is published.  A deferred
\* `add`, which gives the generation back and succeeds, is left out.
Publish ==
    /\ pc = "publish"
    /\ lock' = NewLock
    /\ choice' = IF asked THEN [choice EXCEPT ![Policy] = selected] ELSE choice
    /\ settled' = (selected \subseteq Installed \cap readable \cap whole)
    /\ End("done")
    /\ UNCHANGED <<pins, cli, agents, counters>>

\* An empty selection is recorded as skipped.
PublishSkipped ==
    /\ pc = "skip"
    /\ lock' = [m \in Molecules |-> IF m \in Declaring THEN Skipped(pins[m]) ELSE NoRecord]
    /\ choice' = [choice EXCEPT ![Policy] = {}]
    /\ End("skipped")
    /\ UNCHANGED <<pins, cli, agents, settled, counters>>

\* publish_constitution takes the record to publish for the molecule that
\* contributes the constitution; those of the others are made from the results.
PublishDisabled ==
    /\ pc = "disable"
    /\ lock' = [m \in Molecules |->
                  IF m \notin Declaring THEN NoRecord
                  ELSE IF m = Contributor /\ lock[m] # NoRecord /\ Matches(m) THEN lock[m]
                  ELSE Skipped(pins[m])]
    /\ End("optedOut")
    /\ UNCHANGED <<pins, cli, agents, ghosts, counters>>

--------------------------------------------------------------------------------
(* Failures *)

\* Declarations conflict, there is no selection and no terminal, an unknown key,
\* no CLI or a version that does not satisfy the declaration, a key that the CLI
\* cannot initialise the project with.
Refuse ==
    /\ \/ pc = "select" /\ Declaring # {} /\ (Conflict \/ Persisted = {})
       \/ pc = "verify" /\ cli < Requires[Policy]
       \/ pc = "init" /\ Least(selected) \notin Supports[cli]
    /\ Fail("refused")
    /\ UNCHANGED <<cli, agents, counters>>

EndKilled ==
    /\ End("killed")
    /\ settled' = FALSE
    /\ UNCHANGED <<manifest, choice>>

\* Any other call fails and does nothing, or a later part of the install fails.
CallFails ==
    /\ pc \in {"verify", "init", "list", "clear", "repair", "publish", "skip", "disable"}
    /\ Fault
    /\ Fail("refused")
    /\ UNCHANGED <<cli, agents, moves>>

\* The CLI fails, or is killed with spaex, after some of its work.
CliStopsHalfway ==
    /\ Fault
    /\ \E k \in Keys :
          /\ \/ pc = "init" /\ k = Least(selected)
             \/ pc = "repair" /\ toRefresh = {} /\ toInstall # {}
                /\ k = NextKey /\ k \notin Installed
          /\ registered' \in {registered, registered \cup {k}}
          /\ readable' \in {readable, readable \cup {k}}
          /\ whole' \in {whole, whole \cup {k}}
          /\ default' \in {default} \cup
                 (IF default = None /\ k \in registered' THEN {k} ELSE {})
    /\ initialised' = TRUE
    /\ Fail("refused") \/ EndKilled
    /\ UNCHANGED <<cli, moves>>

Kill ==
    /\ pc # "idle" /\ Fault
    /\ EndKilled
    /\ UNCHANGED <<cli, agents, moves>>

--------------------------------------------------------------------------------
(* Between commands *)

AtRest ==
    /\ Move
    /\ outcome' = "none" /\ settled' = FALSE
    /\ start' = NoStart
    /\ UNCHANGED <<pc, selected, asked, statusRead, work, choice, faults>>

\* git pull of another manifest.
PullPin(m, p) ==
    /\ AtRest
    /\ p # pins[m] /\ pins' = [pins EXCEPT ![m] = p]
    /\ UNCHANGED <<lock, cli, agents>>

DeleteOutput(k) ==
    /\ AtRest
    /\ k \in whole /\ whole' = whole \ {k}
    /\ UNCHANGED <<manifest, cli, initialised, registered, default, readable>>

LoseManifest(k) ==
    /\ AtRest
    /\ k \in readable /\ readable' = readable \ {k}
    /\ UNCHANGED <<manifest, cli, initialised, registered, default, whole>>

\* A fresh clone: outputs and official manifests are ignored by git; the lock and
\* the CLI's registry are committed, or not.
Clone ==
    /\ AtRest
    /\ whole' = {} /\ readable' = {}
    /\ lock' \in {lock, [m \in Molecules |-> NoRecord]}
    /\ \/ UNCHANGED <<initialised, registered, default>>
       \/ initialised' \in {FALSE, initialised} /\ registered' = {} /\ default' = None
    /\ UNCHANGED <<pins, cli>>

\* The operator uses the CLI directly, or changes its version.
InstallByHand(k) ==
    /\ AtRest
    /\ initialised /\ k \in Supports[cli] /\ k \notin Installed
    /\ registered' = registered \cup {k}
    /\ default' = IF default = None THEN k ELSE default
    /\ readable' = readable \cup {k} /\ whole' = whole \cup {k}
    /\ UNCHANGED <<manifest, cli, initialised>>

ChangeCli ==
    /\ AtRest
    /\ cli' \in CliVersions \ {cli}
    /\ UNCHANGED <<manifest, agents>>

Selecting == NothingDeclared \/ Disable \/ Choose \/ Reuse
Installing == Verify \/ InitProject \/ ListSupported \/ DetectDrift \/ StatusUnread \/ Clear
              \/ Refresh \/ InstallKey \/ Repaired
Publishing == Publish \/ PublishSkipped \/ PublishDisabled
Failing == Refuse \/ CallFails \/ CliStopsHalfway \/ Kill
Changing ==
    \/ \E m \in Molecules, p \in Pins \cup {None} : PullPin(m, p)
    \/ \E k \in Keys : DeleteOutput(k) \/ LoseManifest(k) \/ InstallByHand(k)
    \/ Clone \/ ChangeCli

Next == Begin \/ Selecting \/ Installing \/ Publishing \/ Failing \/ Changing

Spec == Init /\ [][Next]_vars

--------------------------------------------------------------------------------
(* Properties *)

\* The type of every variable.
TypeOK ==
    /\ pins \in [Molecules -> Pins \cup {None}]
    /\ lock \in [Molecules -> Records \cup {NoRecord}]
    /\ cli \in CliVersions
    /\ initialised \in BOOLEAN /\ registered \subseteq Keys /\ default \in Keys \cup {None}
    /\ readable \subseteq Keys /\ whole \subseteq Keys
    /\ pc \in Points
    /\ start.pins \in [Molecules -> Pins \cup {None}]
    /\ start.lock \in [Molecules -> Records \cup {NoRecord}]
    /\ start.default \in Keys \cup {None}
    /\ selected \subseteq Keys /\ asked \in BOOLEAN /\ statusRead \in BOOLEAN
    /\ reinstall \subseteq Keys /\ toRefresh \subseteq Keys /\ toInstall \subseteq Keys
    /\ first \in Keys \cup {None} /\ installed \subseteq Keys
    /\ outcome \in Outcomes
    /\ choice \in [Policies -> SUBSET Keys]
    /\ settled \in BOOLEAN
    /\ moves \in 0..MaxMoves /\ faults \in 0..MaxFaults

\* When the records are about to be published, every selected integration is really
\* there, whatever clones, deletions, failed and killed installs have left of it:
\* registered, with a readable manifest, and no file missing; and the default, which
\* a repair takes out of the registry, is the one that the command found.  This needs
\* an answer to the status check, without which spaex trusts its record.
RepairIsComplete ==
    pc = "publish" /\ statusRead =>
        /\ selected \subseteq Installed \cap readable \cap whole
        /\ start.default # None => default = start.default

\* Every selection in the lock is the last one that the operator made for that very
\* declaration: none is guessed, and none survives a change of what is declared.
ChoiceStands ==
    \A m \in Molecules :
        lock[m].selected # {} => choice[PolicyOf[lock[m].fingerprint]] = lock[m].selected

\* An install that follows a successful one with nothing changed in between calls
\* the CLI for no key and publishes nothing (SC-003).
SettledIsQuiet ==
    /\ settled /\ pc \in {"clear", "repair", "publish"} => toRefresh \cup toInstall = {}
    /\ settled /\ pc = "publish" => NewLock = lock

\* --no-speckit-integrations leaves the recorded selection alone.
OptOutKeepsSelection ==
    outcome = "optedOut" =>
        \A m \in Declaring : start.lock[m].fingerprint = pins[m]
                               => lock[m].selected = start.lock[m].selected
================================================================================
