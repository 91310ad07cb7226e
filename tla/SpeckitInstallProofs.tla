-------------------------- MODULE SpeckitInstallProofs --------------------------
(***************************************************************************)
(* Proofs about SpeckitInstall, for any number of integrations, molecules and   *)
(* revisions, and any sequence of commands, failing calls and kills: the         *)
(* variables keep their types, and every selection in install.lock is the last   *)
(* one that the operator made for that declaration.                           *)
(*                                                                          *)
(* The second needs two facts about an install on its way: past the selection    *)
(* all declarations are the same, and a selection that was not made by the       *)
(* operator now is the one made before.                                        *)
(***************************************************************************)
EXTENDS SpeckitInstall, WellFoundedInduction, TLAPS

Working == {"verify", "init", "list", "status", "clear", "repair", "publish"}

Resolved == pc \in Working \cup {"skip", "disable"} => Declaring # {} /\ ~Conflict
Chosen == pc \in Working /\ ~asked => selected = choice[Policy]

IInv == TypeOK /\ ChoiceStands /\ Resolved /\ Chosen

USE OrderAssumption, PolicyAssumption, BoundsAssumption, NoneAssumption

--------------------------------------------------------------------------------
(* Least elements and records *)

\* The least element of a set of numbers is one of its elements.
LEMMA LeastMember ==
    ASSUME NEW S, S \subseteq Nat, S # {}
    PROVE  Least(S) \in S
<1>1. \E x \in S : \A y \in S : ~(<<y, x>> \in OpToRel(<, Nat))
  BY NatLessThanWellFounded, WFMin
<1>2. PICK x \in S : \A y \in S : ~(<<y, x>> \in OpToRel(<, Nat))
  BY <1>1
<1>3. \A y \in S : x <= y
  <2>1. SUFFICES ASSUME NEW y \in S PROVE ~(y < x)
    OBVIOUS
  <2>2. <<y, x>> \notin OpToRel(<, Nat)
    BY <1>2
  <2>3. QED
    BY <2>2 DEF OpToRel
<1>4. QED
  BY <1>3 DEF Least

\* The first molecule that declares anything has a policy.
LEMMA FirstDeclares ==
    ASSUME TypeOK, Declaring # {}
    PROVE  /\ First \in Molecules /\ pins[First] \in Pins /\ Policy \in Policies
           /\ \A m \in Declaring : m \in Molecules /\ pins[m] \in Pins
<1>1. Declaring \subseteq Nat
  BY DEF Declaring
<1>2. First \in Declaring
  BY <1>1, LeastMember DEF First
<1>3. QED
  BY <1>2 DEF Declaring, TypeOK, Policy

\* What a publication writes are records.
LEMMA RecordsWritten ==
    ASSUME TypeOK, NEW m \in Molecules, pins[m] \in Pins
    PROVE  Skipped(pins[m]) \in Records /\ Record(m) \in Records
  BY DEF Skipped, Record, Records, TypeOK

--------------------------------------------------------------------------------
(* Steps that leave the invariant's other parts alone *)

Beyond == ChoiceStands /\ Resolved /\ Chosen

\* A step that writes no record and goes no further into an install than it was.
LEMMA Onwards ==
    ASSUME Beyond, UNCHANGED <<manifest, choice, selected, asked>>,
           pc' \in Working => pc \in Working,
           pc' \in Working \cup {"skip", "disable"} => pc \in Working \cup {"skip", "disable"}
    PROVE  Beyond'
<1>1. ChoiceStands'
  BY DEF Beyond, ChoiceStands, manifest
<1>2. Declaring' = Declaring /\ Policy' = Policy /\ Conflict' = Conflict
  BY DEF manifest, Declaring, Policy, First, Conflict
<1>3. QED
  BY <1>1, <1>2 DEF Beyond, Resolved, Chosen

\* A step that writes no record and ends at the beginning of a command or after it.
LEMMA AtAnEnd ==
    ASSUME Beyond, UNCHANGED choice, pc' \in {"idle", "select"},
           \A m \in Molecules : lock'[m] = lock[m] \/ lock'[m].selected = {}
    PROVE  Beyond'
  BY DEF Beyond, ChoiceStands, Resolved, Chosen, Working

--------------------------------------------------------------------------------
(* The invariant *)

LEMMA InitInvariant == Init => IInv
<1>1. SUFFICES ASSUME Init PROVE IInv
  OBVIOUS
<1>2. TypeOK
  <2>1. start.pins = [m \in Molecules |-> None] /\ start.default = None
        /\ start.lock = [m \in Molecules |-> NoRecord]
    BY <1>1 DEF Init, NoStart
  <2>2. moves \in 0..MaxMoves /\ faults \in 0..MaxFaults
    BY <1>1 DEF Init
  <2>3. QED
    BY <1>1, <2>1, <2>2 DEF Init, TypeOK, Points, Outcomes
<1>3. ChoiceStands
  BY <1>1 DEF Init, ChoiceStands, NoRecord
<1>4. QED
  BY <1>1, <1>2, <1>3 DEF IInv, Resolved, Chosen, Init, Working

\* Which agents.
LEMMA SelectingStep == IInv /\ Selecting => IInv'
<1>1. SUFFICES ASSUME TypeOK, Beyond, Selecting PROVE TypeOK' /\ Beyond'
  BY DEF IInv, Beyond
<1>2. CASE NothingDeclared
  <2>1. TypeOK'
    BY <1>1, <1>2 DEF NothingDeclared, End, TypeOK, agents, counters, Points, Outcomes
  <2>2. Beyond'
    BY <1>1, <1>2, AtAnEnd DEF NothingDeclared, End, NoRecord
  <2>3. QED
    BY <2>1, <2>2
<1>3. CASE Disable
  <2>1. TypeOK'
    BY <1>1, <1>3 DEF Disable, Go, TypeOK, manifest, agents, locals, work, counters, Points
  <2>2. Declaring' = Declaring /\ Policy' = Policy /\ Conflict' = Conflict
    BY <1>3 DEF Disable, manifest, Declaring, Policy, First, Conflict
  <2>3. Beyond'
    BY <1>1, <1>3, <2>2 DEF Disable, Go, CanSelect, manifest, Beyond, ChoiceStands,
                            Resolved, Chosen, Working
  <2>4. QED
    BY <2>1, <2>3
<1>4. CASE Choose
  <2>1. Policy \in Policies
    BY <1>1, <1>4, FirstDeclares DEF Choose, CanSelect
  <2>2. TypeOK'
    BY <1>1, <1>4, <2>1 DEF Choose, Go, TypeOK, manifest, agents, work, counters, Points
  <2>3. Declaring' = Declaring /\ Policy' = Policy /\ Conflict' = Conflict
    BY <1>4 DEF Choose, manifest, Declaring, Policy, First, Conflict
  <2>4. Beyond'
    BY <1>1, <1>4, <2>3 DEF Choose, CanSelect, manifest, Beyond, ChoiceStands,
                            Resolved, Chosen
  <2>5. QED
    BY <2>2, <2>4
<1>5. CASE Reuse
  <2> DEFINE matching == {m \in Declaring : Matches(m) /\ lock[m].selected # {}}
  <2>1. matching \subseteq Nat /\ matching # {} /\ Persisted = lock[Least(matching)].selected
    BY <1>5 DEF Reuse, Persisted, Declaring
  <2>2. PICK m \in Declaring : Matches(m) /\ lock[m].selected # {}
                                 /\ Persisted = lock[m].selected
    BY <2>1, LeastMember
  <2>3. m \in Molecules /\ PolicyOf[pins[m]] = Policy
    BY <1>5, <2>2 DEF Reuse, CanSelect, Conflict, Declaring
  <2>4. selected' = choice[Policy]
    BY <1>1, <1>5, <2>2, <2>3 DEF Reuse, Beyond, ChoiceStands, Matches
  <2>5. selected' \subseteq Keys
    BY <1>1, <1>5, <2>2, <2>3 DEF Reuse, TypeOK, Records, NoRecord
  <2>6. TypeOK'
    BY <1>1, <1>5, <2>5 DEF Reuse, Go, TypeOK, manifest, agents, work, ghosts, counters, Points
  <2>7. Declaring' = Declaring /\ Policy' = Policy /\ Conflict' = Conflict
    BY <1>5 DEF Reuse, manifest, Declaring, Policy, First, Conflict
  <2>8. Beyond'
    BY <1>1, <1>5, <2>4, <2>7 DEF Reuse, Go, CanSelect, manifest, ghosts, Beyond,
                                  ChoiceStands, Resolved, Chosen, Working
  <2>9. QED
    BY <2>6, <2>8
<1>6. QED
  BY <1>1, <1>2, <1>3, <1>4, <1>5 DEF Selecting

\* The CLI's steps: no record is written, the manifest stays or is put back.
LEMMA InstallingStep == IInv /\ Installing => IInv'
<1>1. SUFFICES ASSUME TypeOK, Beyond, Installing PROVE TypeOK' /\ Beyond'
  BY DEF IInv, Beyond
<1>2. CASE Verify
  <2>1. TypeOK'
    BY <1>1, <1>2 DEF Verify, Go, TypeOK, manifest, agents, locals, work, ghosts, counters, Points
  <2>2. Beyond'
    BY <1>1, <1>2, Onwards DEF Verify, Go, locals, ghosts, Working
  <2>3. QED
    BY <2>1, <2>2
<1>3. CASE InitProject
  <2>1. Least(selected) \in Keys
    BY <1>1, <1>3 DEF InitProject, TypeOK
  <2>2. TypeOK'
    BY <1>1, <1>3, <2>1 DEF InitProject, Go, TypeOK, manifest, locals, work, ghosts, counters, Points
  <2>3. Beyond'
    BY <1>1, <1>3, Onwards DEF InitProject, Go, locals, ghosts, Working
  <2>4. QED
    BY <2>2, <2>3
<1>4. CASE ListSupported
  <2>1. CASE selected \subseteq Supports[cli]
    <3>1. TypeOK'
      BY <1>1, <1>4, <2>1 DEF ListSupported, Go, TypeOK, manifest, agents, locals, work, ghosts,
                              counters, Points
    <3>2. Beyond'
      BY <1>1, <1>4, <2>1, Onwards DEF ListSupported, Go, locals, ghosts, Working
    <3>3. QED
      BY <3>1, <3>2
  <2>2. CASE ~(selected \subseteq Supports[cli])
    <3>1. TypeOK'
      BY <1>1, <1>4, <2>2 DEF ListSupported, Fail, End, TypeOK, agents, counters, Points, Outcomes
    <3>2. Beyond'
      BY <1>1, <1>4, <2>2, AtAnEnd DEF ListSupported, Fail, End
    <3>3. QED
      BY <3>1, <3>2
  <2>3. QED
    BY <2>1, <2>2
<1>5. CASE DetectDrift
  <2>1. TypeOK'
    BY <1>1, <1>5 DEF DetectDrift, NewKeys, Go, TypeOK, manifest, agents, ghosts, counters, Points
  <2>2. Beyond'
    BY <1>1, <1>5, Onwards DEF DetectDrift, Go, ghosts, Working
  <2>3. QED
    BY <2>1, <2>2
<1>6. CASE StatusUnread
  <2>1. faults' \in 0..MaxFaults
    BY <1>1, <1>6 DEF StatusUnread, Fault, TypeOK
  <2>2. TypeOK'
    BY <1>1, <1>6, <2>1 DEF StatusUnread, NewKeys, Go, TypeOK, manifest, agents, ghosts, Points
  <2>3. Beyond'
    BY <1>1, <1>6, Onwards DEF StatusUnread, Go, ghosts, Working
  <2>4. QED
    BY <2>2, <2>3
<1>7. CASE Clear
  <2>1. TypeOK'
    BY <1>1, <1>7 DEF Clear, Go, TypeOK, manifest, ghosts, counters, Points
  <2>2. Beyond'
    BY <1>1, <1>7, Onwards DEF Clear, Go, ghosts, Working
  <2>3. QED
    BY <2>1, <2>2
<1>8. CASE Refresh
  <2>1. Least(toRefresh) \in Keys
    BY <1>1, <1>8, LeastMember DEF Refresh, TypeOK
  <2>2. TypeOK'
    BY <1>1, <1>8, <2>1 DEF Refresh, TypeOK, manifest, ghosts, counters
  <2>3. Beyond'
    BY <1>1, <1>8, Onwards DEF Refresh, ghosts
  <2>4. QED
    BY <2>2, <2>3
<1>9. CASE InstallKey
  <2>1. Least(toInstall) \in toInstall /\ toInstall \subseteq Keys
    BY <1>1, <1>9, LeastMember DEF InstallKey, TypeOK
  <2>2. NextKey \in Keys
    BY <2>1 DEF NextKey
  <2>3. TypeOK'
    BY <1>1, <1>9, <2>2 DEF InstallKey, TypeOK, manifest, ghosts, counters
  <2>4. Beyond'
    BY <1>1, <1>9, Onwards DEF InstallKey, ghosts
  <2>5. QED
    BY <2>3, <2>4
<1>10. CASE Repaired
  <2>1. TypeOK'
    BY <1>1, <1>10 DEF Repaired, Go, TypeOK, manifest, agents, locals, work, ghosts, counters, Points
  <2>2. Beyond'
    BY <1>1, <1>10, Onwards DEF Repaired, Go, locals, ghosts, Working
  <2>3. QED
    BY <2>1, <2>2
<1>11. QED
  BY <1>1, <1>2, <1>3, <1>4, <1>5, <1>6, <1>7, <1>8, <1>9, <1>10 DEF Installing

\* The records are written.
LEMMA PublishingStep == IInv /\ Publishing => IInv'
<1>1. SUFFICES ASSUME TypeOK, Beyond, Publishing PROVE TypeOK' /\ Beyond'
  BY DEF IInv, Beyond
<1>2. Declaring # {} /\ ~Conflict
  BY <1>1 DEF Publishing, Publish, PublishSkipped, PublishDisabled, Beyond, Resolved, Working
<1>3. /\ Policy \in Policies
      /\ \A m \in Declaring : m \in Molecules /\ pins[m] \in Pins
  BY <1>1, <1>2, FirstDeclares
<1>4. \A m \in Declaring : Skipped(pins[m]) \in Records /\ Record(m) \in Records
  BY <1>1, <1>3, RecordsWritten
<1>5. CASE Publish
  <2>1. lock' \in [Molecules -> Records \cup {NoRecord}]
    BY <1>4, <1>5 DEF Publish, NewLock
  <2>2. choice' \in [Policies -> SUBSET Keys] /\ choice'[Policy] = selected
    BY <1>1, <1>3, <1>5 DEF Publish, TypeOK, Beyond, Chosen, Working
  <2>3. TypeOK'
    BY <1>1, <1>5, <2>1, <2>2 DEF Publish, End, TypeOK, agents, counters, Points, Outcomes
  <2>4. ChoiceStands'
    <3>1. SUFFICES ASSUME NEW m \in Molecules, lock'[m].selected # {}
                   PROVE  choice'[PolicyOf[lock'[m].fingerprint]] = lock'[m].selected
      BY DEF ChoiceStands
    <3>2. m \in Declaring /\ lock'[m] = Record(m)
      BY <1>5, <3>1 DEF Publish, NewLock, NoRecord
    <3>3. lock'[m].fingerprint = pins[m] /\ lock'[m].selected = selected
      BY <3>2 DEF Record
    <3>4. PolicyOf[pins[m]] = Policy
      BY <1>2, <3>2 DEF Conflict
    <3>5. QED
      BY <2>2, <3>3, <3>4
  <2>5. pc' = "idle"
    BY <1>5 DEF Publish, End
  <2>6. QED
    BY <2>3, <2>4, <2>5 DEF Beyond, Resolved, Chosen, Working
<1>6. CASE PublishSkipped
  <2>1. lock' \in [Molecules -> Records \cup {NoRecord}]
    BY <1>4, <1>6 DEF PublishSkipped
  <2>2. choice' \in [Policies -> SUBSET Keys]
    BY <1>1, <1>6 DEF PublishSkipped, TypeOK
  <2>3. TypeOK'
    BY <1>1, <1>6, <2>1, <2>2 DEF PublishSkipped, End, TypeOK, agents, counters, Points, Outcomes
  <2>4. \A m \in Molecules : lock'[m].selected = {}
    BY <1>6 DEF PublishSkipped, Skipped, NoRecord
  <2>5. QED
    BY <1>6, <2>3, <2>4 DEF PublishSkipped, End, Beyond, ChoiceStands, Resolved, Chosen, Working
<1>7. CASE PublishDisabled
  <2>1. lock' \in [Molecules -> Records \cup {NoRecord}]
    BY <1>1, <1>4, <1>7 DEF PublishDisabled, TypeOK
  <2>2. TypeOK'
    BY <1>1, <1>7, <2>1 DEF PublishDisabled, End, TypeOK, agents, ghosts, counters, Points, Outcomes
  <2>3. \A m \in Molecules : lock'[m] = lock[m] \/ lock'[m].selected = {}
    BY <1>7 DEF PublishDisabled, Skipped, NoRecord
  <2>4. Beyond'
    BY <1>1, <1>7, <2>3, AtAnEnd DEF PublishDisabled, End, ghosts
  <2>5. QED
    BY <2>2, <2>4
<1>8. QED
  BY <1>1, <1>5, <1>6, <1>7 DEF Publishing

\* Failures and kills: no record is written, and the command ends.
LEMMA FailingStep == IInv /\ Failing => IInv'
<1>1. SUFFICES ASSUME TypeOK, Beyond, Failing PROVE TypeOK' /\ Beyond'
  BY DEF IInv, Beyond
<1>2. CASE Refuse
  <2>1. TypeOK'
    BY <1>1, <1>2 DEF Refuse, Fail, End, TypeOK, agents, counters, Points, Outcomes
  <2>2. Beyond'
    BY <1>1, <1>2, AtAnEnd DEF Refuse, Fail, End
  <2>3. QED
    BY <2>1, <2>2
<1>3. CASE CallFails
  <2>1. faults' \in 0..MaxFaults
    BY <1>1, <1>3 DEF CallFails, Fault, TypeOK
  <2>2. TypeOK'
    BY <1>1, <1>3, <2>1 DEF CallFails, Fail, End, TypeOK, agents, Points, Outcomes
  <2>3. Beyond'
    BY <1>1, <1>3, AtAnEnd DEF CallFails, Fail, End
  <2>4. QED
    BY <2>2, <2>3
<1>4. CASE CliStopsHalfway
  <2>1. faults' \in 0..MaxFaults
    BY <1>1, <1>4 DEF CliStopsHalfway, Fault, TypeOK
  <2>2. /\ registered' \subseteq Keys /\ readable' \subseteq Keys /\ whole' \subseteq Keys
        /\ default' \in Keys \cup {None} /\ initialised' \in BOOLEAN
    BY <1>1, <1>4 DEF CliStopsHalfway, TypeOK
  <2>3. /\ UNCHANGED <<lock, choice, cli, moves, start>>
        /\ \E how \in Outcomes : End(how)
        /\ pins' \in {pins, start.pins} /\ settled' = FALSE
    BY <1>4 DEF CliStopsHalfway, Fail, EndKilled, End, manifest, Outcomes
  <2>4. TypeOK'
    BY <1>1, <2>1, <2>2, <2>3 DEF End, TypeOK, Points
  <2>5. Beyond'
    BY <1>1, <2>3, AtAnEnd DEF End
  <2>6. QED
    BY <2>4, <2>5
<1>5. CASE Kill
  <2>1. faults' \in 0..MaxFaults
    BY <1>1, <1>5 DEF Kill, Fault, TypeOK
  <2>2. TypeOK'
    BY <1>1, <1>5, <2>1 DEF Kill, EndKilled, End, TypeOK, manifest, agents, Points, Outcomes
  <2>3. Beyond'
    BY <1>1, <1>5, AtAnEnd DEF Kill, EndKilled, End, manifest
  <2>4. QED
    BY <2>2, <2>3
<1>6. QED
  BY <1>1, <1>2, <1>3, <1>4, <1>5 DEF Failing

\* What happens between commands, and the beginning of the next.
LEMMA MoveStep == IInv /\ (Begin \/ Changing) => IInv'
<1>1. SUFFICES ASSUME TypeOK, Beyond, Begin \/ Changing PROVE TypeOK' /\ Beyond'
  BY DEF IInv, Beyond
<1>2. Move
  BY <1>1 DEF Begin, Changing, AtRest, PullPin, DeleteOutput, LoseManifest, Clone,
              InstallByHand, ChangeCli
<1>3. moves' \in 0..MaxMoves
  BY <1>1, <1>2 DEF Move, TypeOK
<1>4. CASE Begin
  <2>1. start'.pins = pins /\ start'.lock = lock /\ start'.default = default
    BY <1>4 DEF Begin
  <2>2. pins' \in [Molecules -> Pins \cup {None}]
    BY <1>1, <1>4 DEF Begin, TypeOK
  <2>3. settled' \in BOOLEAN
    BY <1>1, <1>4 DEF Begin, TypeOK
  <2>4. TypeOK'
    BY <1>1, <1>3, <1>4, <2>1, <2>2, <2>3 DEF Begin, TypeOK, agents, work, Points, Outcomes
  <2>5. Beyond'
    BY <1>1, <1>4, AtAnEnd DEF Begin
  <2>6. QED
    BY <2>4, <2>5
<1>5. CASE Changing
  <2>1. AtRest
    BY <1>5 DEF Changing, PullPin, DeleteOutput, LoseManifest, Clone, InstallByHand, ChangeCli
  <2>2. pc' = "idle" /\ UNCHANGED choice
    BY <1>2, <2>1 DEF AtRest, Move
  <2>3. lock' \in {lock, [m \in Molecules |-> NoRecord]}
    BY <1>5 DEF Changing, PullPin, DeleteOutput, LoseManifest, Clone, InstallByHand, ChangeCli,
                manifest
  <2>4. \A m \in Molecules : lock'[m] = lock[m] \/ lock'[m].selected = {}
    BY <2>3 DEF NoRecord
  <2>5. Beyond'
    BY <1>1, <2>2, <2>4, AtAnEnd
  <2>6. /\ start'.pins = [m \in Molecules |-> None] /\ start'.default = None
        /\ start'.lock = [m \in Molecules |-> NoRecord]
    BY <2>1 DEF AtRest, NoStart
  <2> DEFINE Typed == /\ pins' \in [Molecules -> Pins \cup {None}] /\ cli' \in CliVersions
                      /\ initialised' \in BOOLEAN /\ registered' \subseteq Keys
                      /\ default' \in Keys \cup {None}
                      /\ readable' \subseteq Keys /\ whole' \subseteq Keys
  <2>7. Typed
    <3>1. ASSUME NEW m \in Molecules, NEW p \in Pins \cup {None}, PullPin(m, p) PROVE Typed
      BY <1>1, <3>1 DEF PullPin, agents, TypeOK
    <3>2. ASSUME NEW k \in Keys, DeleteOutput(k) \/ LoseManifest(k) PROVE Typed
      BY <1>1, <3>2 DEF DeleteOutput, LoseManifest, manifest, TypeOK
    <3>3. ASSUME NEW k \in Keys, InstallByHand(k) PROVE Typed
      BY <1>1, <3>3 DEF InstallByHand, manifest, TypeOK
    <3>4. CASE Clone
      BY <1>1, <3>4 DEF Clone, TypeOK
    <3>5. CASE ChangeCli
      BY <1>1, <3>5 DEF ChangeCli, manifest, agents, TypeOK
    <3>6. QED
      BY <1>5, <3>1, <3>2, <3>3, <3>4, <3>5 DEF Changing
  <2>8. lock' \in [Molecules -> Records \cup {NoRecord}]
    BY <1>1, <2>3 DEF TypeOK
  <2>9. /\ outcome' \in Outcomes /\ settled' \in BOOLEAN /\ pc' \in Points
        /\ UNCHANGED <<selected, asked, statusRead, reinstall, toRefresh, toInstall, first,
                       installed, choice, faults>>
    BY <2>1, <2>2 DEF AtRest, work, Points, Outcomes
  <2>10. TypeOK'
    BY <1>1, <1>3, <2>6, <2>7, <2>8, <2>9 DEF TypeOK
  <2>11. QED
    BY <2>5, <2>10
<1>6. QED
  BY <1>1, <1>4, <1>5

LEMMA StepInvariant == IInv /\ [Next]_vars => IInv'
<1>1. SUFFICES ASSUME IInv, [Next]_vars PROVE IInv'
  OBVIOUS
<1>2. CASE UNCHANGED vars
  <2>1. TypeOK'
    BY <1>1, <1>2 DEF IInv, TypeOK, vars, manifest, agents, locals, work, ghosts, counters
  <2>2. Beyond'
    BY <1>1, <1>2, Onwards DEF IInv, Beyond, vars, locals, ghosts
  <2>3. QED
    BY <2>1, <2>2 DEF IInv, Beyond
<1>3. QED
  BY <1>1, <1>2, MoveStep, SelectingStep, InstallingStep, PublishingStep, FailingStep DEF Next

--------------------------------------------------------------------------------
(* The repair.  Between the status check and the records a selected key is whole,  *)
(* or still in line; a default that was taken out of the registry is the next in   *)
(* line, so that the CLI makes it the default again.                            *)

Sound(k) == k \in Installed \cap readable \cap whole

DriftFound ==
    pc = "clear" =>
        /\ statusRead
        /\ reinstall = selected \ (Installed \cap readable)
        /\ toRefresh = selected \ (reinstall \cup whole)
        /\ toInstall \subseteq selected \ toRefresh
        /\ reinstall \subseteq toInstall

StatusIsFresh == statusRead => pc \in {"clear", "repair", "publish"}

DefaultFound ==
    /\ ~initialised => default = None
    /\ pc = "init" => ~initialised
    /\ pc \in {"list", "status", "clear", "repair", "publish"} => initialised
    /\ pc \in {"select", "verify", "init"} => default = start.default
    /\ pc \in {"list", "status", "clear"} => start.default \in {None, default}

InLine ==
    pc \in {"repair", "publish"} /\ statusRead =>
        /\ \A k \in selected : k \in toInstall \/ k \in toRefresh \/ Sound(k)
        /\ \A k \in toRefresh : k \in Installed \cap readable
        /\ \A k \in toInstall : k \in Installed => Sound(k)

DefaultInLine ==
    pc \in {"repair", "publish"} /\ statusRead /\ start.default # None =>
        \/ default = start.default
        \/ default = None /\ first = start.default /\ first \in toInstall \ registered

LineIsEmpty == pc = "publish" => toInstall = {} /\ toRefresh = {}

RInv == DriftFound /\ StatusIsFresh /\ DefaultFound /\ InLine /\ DefaultInLine /\ LineIsEmpty

\* The end of a command leaves nothing to say but of the registry.
LEMMA RepairEnds ==
    ASSUME pc' = "idle", statusRead' = FALSE, ~initialised' => default' = None
    PROVE  RInv'
  BY DEF RInv, DriftFound, StatusIsFresh, DefaultFound, InLine, DefaultInLine, LineIsEmpty

LEMMA InstallKeyInLine ==
    ASSUME TypeOK, RInv, InstallKey
    PROVE  RInv'
<1>1. NextKey \in toInstall /\ NextKey \in Keys
  <2>1. Least(toInstall) \in toInstall /\ toInstall \subseteq Keys
    BY LeastMember DEF InstallKey, TypeOK
  <2>2. QED
    BY <2>1 DEF NextKey
<1>2. NextKey # None
  BY <1>1
<1>3. /\ pc = "repair" /\ pc' = "repair" /\ toRefresh = {} /\ toRefresh' = {}
      /\ toInstall' = toInstall \ {NextKey}
      /\ UNCHANGED <<selected, start, statusRead, first, initialised>>
  BY DEF InstallKey
<1>4. CASE NextKey \in Installed
  <2>1. UNCHANGED <<registered, default, readable, whole>>
    BY <1>4 DEF InstallKey
  <2>2. Installed' = Installed
    BY <2>1 DEF Installed
  <2>3. InLine'
    BY <1>3, <1>4, <2>1, <2>2 DEF RInv, InLine, Sound
  <2>4. default = None => NextKey \in registered
    BY <1>4 DEF Installed
  <2>5. DefaultInLine'
    <3>1. SUFFICES ASSUME statusRead, start.default # None, default # start.default
                   PROVE  FALSE
      BY <1>3, <2>1 DEF DefaultInLine
    <3>2. default = None /\ first \in toInstall \ registered
      BY <1>3, <3>1 DEF RInv, DefaultInLine
    <3>3. NextKey = first
      BY <3>2 DEF NextKey
    <3>4. QED
      BY <2>4, <3>2, <3>3
  <2>6. QED
    BY <1>3, <2>1, <2>3, <2>5 DEF RInv, DriftFound, StatusIsFresh, DefaultFound, LineIsEmpty
<1>5. CASE NextKey \notin Installed
  <2>1. /\ registered' = registered \cup {NextKey}
        /\ default' = IF default = None THEN NextKey ELSE default
        /\ readable' = readable \cup {NextKey} /\ whole' = whole \cup {NextKey}
    BY <1>5 DEF InstallKey
  <2>2. Installed' = Installed \cup {NextKey}
    BY <1>2, <2>1 DEF Installed
  <2>3. InLine'
    BY <1>3, <2>1, <2>2 DEF RInv, InLine, Sound
  <2>4. DefaultInLine'
    <3>1. SUFFICES ASSUME statusRead, start.default # None PROVE default' = start.default
      BY <1>3 DEF DefaultInLine
    <3>2. CASE default = start.default
      BY <2>1, <3>1, <3>2
    <3>3. CASE default = None /\ first = start.default /\ first \in toInstall
      BY <2>1, <3>3 DEF NextKey
    <3>4. QED
      BY <1>3, <3>1, <3>2, <3>3 DEF RInv, DefaultInLine
  <2>5. QED
    BY <1>3, <2>3, <2>4 DEF RInv, DriftFound, StatusIsFresh, DefaultFound, LineIsEmpty
<1>6. QED
  BY <1>4, <1>5

LEMMA RepairingStep ==
    ASSUME TypeOK, RInv, Installing
    PROVE  RInv'
<1>1. CASE Verify
  BY <1>1 DEF Verify, Go, agents, locals, work, RInv, DriftFound, StatusIsFresh, DefaultFound,
              InLine, DefaultInLine, LineIsEmpty
<1>2. CASE InitProject
  BY <1>2 DEF InitProject, Go, locals, work, RInv, DriftFound, StatusIsFresh, DefaultFound,
              InLine, DefaultInLine, LineIsEmpty
<1>3. CASE ListSupported
  <2>1. CASE selected \subseteq Supports[cli]
    BY <1>3, <2>1 DEF ListSupported, Go, agents, locals, work, RInv, DriftFound, StatusIsFresh,
                      DefaultFound, InLine, DefaultInLine, LineIsEmpty
  <2>2. CASE ~(selected \subseteq Supports[cli])
    BY <1>3, <2>2, RepairEnds DEF ListSupported, Fail, End, agents, RInv, DefaultFound
  <2>3. QED
    BY <2>1, <2>2
<1>4. CASE DetectDrift
  <2> DEFINE lost == selected \ (Installed \cap readable)
             missing == selected \ (lost \cup whole)
  <2>1. /\ pc = "status" /\ statusRead' = TRUE
        /\ reinstall' = lost /\ toRefresh' = missing /\ toInstall' = NewKeys(lost, missing)
        /\ pc' = IF lost = {} THEN "repair" ELSE "clear"
        /\ UNCHANGED <<agents, start, selected>>
    BY <1>4 DEF DetectDrift, Go
  <2>2. Installed' = Installed /\ UNCHANGED <<initialised, default, registered, readable, whole>>
    BY <2>1 DEF agents, Installed
  <2>3. NewKeys(lost, missing) \subseteq selected \ missing /\ lost \subseteq NewKeys(lost, missing)
    BY DEF NewKeys
  <2>4. DriftFound'
    BY <2>1, <2>2, <2>3 DEF DriftFound
  <2>5. InLine'
    BY <2>1, <2>2, <2>3 DEF InLine, Sound
  <2>6. DefaultFound' /\ DefaultInLine'
    BY <2>1, <2>2 DEF RInv, DefaultFound, DefaultInLine
  <2>7. QED
    BY <2>1, <2>4, <2>5, <2>6 DEF RInv, StatusIsFresh, LineIsEmpty
<1>5. CASE StatusUnread
  <2>1. ~statusRead /\ ~statusRead'
    BY <1>5 DEF StatusUnread, RInv, StatusIsFresh
  <2>2. QED
    BY <1>5, <2>1 DEF StatusUnread, Go, agents, RInv, DriftFound, StatusIsFresh, DefaultFound,
                      InLine, DefaultInLine, LineIsEmpty
<1>6. CASE Clear
  <2>1. /\ pc = "clear" /\ pc' = "repair" /\ statusRead /\ registered' = registered \ reinstall
        /\ IF default \in reinstall THEN default' = None /\ first' = default
                                    ELSE UNCHANGED <<default, first>>
        /\ UNCHANGED <<initialised, readable, whole, start, selected, statusRead, reinstall,
                       toRefresh, toInstall>>
    BY <1>6 DEF Clear, Go, RInv, DriftFound
  <2>2. Installed' = Installed \ reinstall
    BY <2>1 DEF Installed
  <2>3. InLine'
    BY <2>1, <2>2 DEF RInv, DriftFound, InLine, Sound
  <2>4. DefaultInLine'
    BY <2>1 DEF RInv, DriftFound, DefaultFound, DefaultInLine
  <2>5. DefaultFound'
    BY <2>1 DEF RInv, DefaultFound
  <2>6. QED
    BY <2>1, <2>3, <2>4, <2>5 DEF RInv, DriftFound, StatusIsFresh, LineIsEmpty
<1>7. CASE Refresh
  <2>1. Least(toRefresh) \in toRefresh
    BY <1>7, LeastMember DEF Refresh, TypeOK
  <2>2. /\ pc = "repair" /\ pc' = "repair" /\ whole' = whole \cup {Least(toRefresh)}
        /\ toRefresh' = toRefresh \ {Least(toRefresh)}
        /\ UNCHANGED <<initialised, registered, default, readable, start, selected, statusRead,
                       toInstall, first>>
    BY <1>7 DEF Refresh
  <2>3. Installed' = Installed
    BY <2>2 DEF Installed
  <2>4. InLine'
    BY <2>1, <2>2, <2>3 DEF RInv, InLine, Sound
  <2>5. QED
    BY <2>2, <2>4 DEF RInv, DriftFound, StatusIsFresh, DefaultFound, DefaultInLine, LineIsEmpty
<1>8. CASE InstallKey
  BY <1>8, InstallKeyInLine
<1>9. CASE Repaired
  <2>1. Installed' = Installed
    BY <1>9 DEF Repaired, agents, Installed
  <2>2. InLine'
    BY <1>9, <2>1 DEF Repaired, Go, agents, locals, work, RInv, InLine, Sound
  <2>3. QED
    BY <1>9, <2>2 DEF Repaired, Go, agents, locals, work, RInv, DriftFound, StatusIsFresh,
                      DefaultFound, DefaultInLine, LineIsEmpty
<1>10. QED
  BY <1>1, <1>2, <1>3, <1>4, <1>5, <1>6, <1>7, <1>8, <1>9 DEF Installing

LEMMA RepairInitially == Init => RInv
  BY DEF Init, RInv, DriftFound, StatusIsFresh, DefaultFound, InLine, DefaultInLine, LineIsEmpty

LEMMA RepairInvariant == TypeOK /\ RInv /\ [Next]_vars => RInv'
<1>1. SUFFICES ASSUME TypeOK, RInv, [Next]_vars PROVE RInv'
  OBVIOUS
<1>2. ~initialised => default = None
  BY <1>1 DEF RInv, DefaultFound
<1>3. CASE Begin
  <2>1. start'.default = default' /\ pc' = "select" /\ statusRead' = statusRead /\ pc = "idle"
        /\ UNCHANGED <<initialised, default>>
    BY <1>3 DEF Begin, Move, agents
  <2>2. QED
    BY <1>1, <2>1 DEF RInv, DriftFound, StatusIsFresh, DefaultFound, InLine, DefaultInLine,
                      LineIsEmpty
<1>4. CASE Selecting
  <2>1. CASE NothingDeclared
    BY <1>2, <2>1, RepairEnds DEF NothingDeclared, End, agents
  <2>2. CASE Disable \/ Choose \/ Reuse
    <3>1. pc = "select" /\ pc' \in {"verify", "skip", "disable"}
          /\ UNCHANGED <<initialised, default, start, statusRead>>
      BY <2>2 DEF Disable, Choose, Reuse, CanSelect, Go, agents, locals
    <3>2. QED
      BY <1>1, <3>1 DEF RInv, DriftFound, StatusIsFresh, DefaultFound, InLine, DefaultInLine,
                        LineIsEmpty
  <2>3. QED
    BY <1>4, <2>1, <2>2 DEF Selecting
<1>5. CASE Installing
  BY <1>1, <1>5, RepairingStep
<1>6. CASE Publishing
  BY <1>2, <1>6, RepairEnds DEF Publishing, Publish, PublishSkipped, PublishDisabled, End, agents
<1>7. CASE Failing
  <2>1. pc' = "idle" /\ statusRead' = FALSE
    BY <1>7 DEF Failing, Refuse, CallFails, CliStopsHalfway, Kill, EndKilled, Fail, End
  <2>2. ~initialised' => default' = None
    BY <1>2, <1>7 DEF Failing, Refuse, CallFails, CliStopsHalfway, Kill, agents
  <2>3. QED
    BY <2>1, <2>2, RepairEnds
<1>8. CASE Changing
  <2>1. AtRest
    BY <1>8 DEF Changing, PullPin, DeleteOutput, LoseManifest, Clone, InstallByHand, ChangeCli
  <2>2. pc' = "idle" /\ statusRead' = FALSE
    <3>1. pc = "idle" /\ pc' = "idle" /\ statusRead' = statusRead
      BY <2>1 DEF AtRest, Move
    <3>2. ~statusRead /\ statusRead \in BOOLEAN
      BY <1>1, <3>1 DEF TypeOK, RInv, StatusIsFresh
    <3>3. QED
      BY <3>1, <3>2
  <2>3. ~initialised' => default' = None
    <3>1. CASE Clone
      <4>1. default' = None \/ UNCHANGED <<initialised, default>>
        BY <3>1 DEF Clone
      <4>2. QED
        BY <1>2, <4>1
    <3>2. CASE \E k \in Keys : InstallByHand(k)
      BY <3>2 DEF InstallByHand
    <3>3. CASE UNCHANGED <<initialised, default>>
      BY <1>2, <3>3
    <3>4. QED
      BY <1>8, <3>1, <3>2, <3>3 DEF Changing, PullPin, DeleteOutput, LoseManifest, ChangeCli,
                                    agents
  <2>4. QED
    BY <2>2, <2>3, RepairEnds
<1>9. CASE UNCHANGED vars
  <2>1. UNCHANGED <<agents, pc, start, selected, statusRead, work>>
    BY <1>9 DEF vars, locals
  <2>2. Installed' = Installed
    BY <2>1 DEF agents, Installed
  <2>3. InLine'
    BY <1>1, <2>1, <2>2 DEF agents, work, RInv, InLine, Sound
  <2>4. DriftFound'
    BY <1>1, <2>1, <2>2 DEF agents, work, RInv, DriftFound
  <2>5. QED
    BY <1>1, <2>1, <2>3, <2>4 DEF agents, work, RInv, StatusIsFresh, DefaultFound, DefaultInLine,
                                  LineIsEmpty
<1>10. QED
  BY <1>1, <1>3, <1>4, <1>5, <1>6, <1>7, <1>8, <1>9 DEF Next

--------------------------------------------------------------------------------
(* An unchanged install.  As long as nothing has changed since an install that      *)
(* succeeded, the records are those that it would write again, and every recorded   *)
(* key is where they say.                                                       *)

Recorded == lock[First].selected

RecordsAgree ==
    /\ Declaring # {} /\ ~Conflict /\ Recorded # {}
    /\ \A m \in Declaring : lock[m] = [fingerprint |-> pins[m], selected |-> Recorded, cli |-> cli,
                                      installed |-> lock[First].installed]
    /\ \A m \in Molecules \ Declaring : lock[m] = NoRecord
    /\ lock[First].installed \subseteq Recorded

KeysInPlace == initialised /\ Recorded \subseteq Installed \cap readable \cap whole

\* What an install does while all is settled: the same selection, and no key in line.
NothingInLine ==
    /\ pc \notin {"skip", "disable", "init", "clear"}
    /\ pc \in Working => selected = Recorded
    /\ pc \in {"repair", "publish"} => toRefresh = {} /\ toInstall = {}

LineNotBegun ==
    /\ pc \in Working => selected # {}
    /\ pc \notin {"clear", "repair", "publish"} => toRefresh = {} /\ installed = {}
    /\ settled /\ pc \in {"repair", "publish"} => installed = {}

QInv == LineNotBegun /\ (settled => RecordsAgree /\ KeysInPlace /\ NothingInLine)

QSteps == IInv /\ RInv /\ QInv

\* The end of a command that failed, refused or had to do something.
LEMMA QuietEnds ==
    ASSUME pc' = "idle", toRefresh' = {}, installed' = {}, settled' = FALSE
    PROVE  QInv'
  BY DEF QInv, LineNotBegun, Working

LEMMA AgreedFields ==
    ASSUME RecordsAgree, NEW m \in Declaring
    PROVE  lock[m].fingerprint = pins[m] /\ lock[m].selected = Recorded /\ lock[m].cli = cli
<1>1. lock[m] = [fingerprint |-> pins[m], selected |-> Recorded, cli |-> cli,
                 installed |-> lock[First].installed]
  BY Zenon DEF RecordsAgree
<1>2. QED
  BY <1>1

\* What is settled stays so while manifest, records and keys do.
LEMMA RecordsStay ==
    ASSUME RecordsAgree, KeysInPlace, UNCHANGED <<manifest, cli, agents>>
    PROVE  RecordsAgree' /\ KeysInPlace' /\ Recorded' = Recorded
<1>1. /\ Declaring' = Declaring /\ First' = First /\ (Conflict' <=> Conflict)
      /\ Installed' = Installed
  BY DEF manifest, agents, Declaring, First, Policy, Conflict, Installed
<1>2. QED
  BY <1>1 DEF manifest, agents, RecordsAgree, KeysInPlace, Recorded

LEMMA QuietSelecting ==
    ASSUME QSteps, Selecting
    PROVE  QInv'
<1> USE DEF QSteps, QInv
<1>1. CASE NothingDeclared
  BY <1>1, QuietEnds DEF NothingDeclared, End
<1>2. CASE Disable
  BY <1>2 DEF Disable, CanSelect, Go, locals, work, LineNotBegun, Working
<1>3. CASE Choose
  <2>1. /\ pc = "select" /\ pc' = IF selected' = {} THEN "skip" ELSE "verify"
        /\ settled' = (settled /\ selected' = Recorded) /\ UNCHANGED <<manifest, cli, agents>>
        /\ toRefresh' = toRefresh /\ installed' = installed
    BY <1>3 DEF Choose, CanSelect, Go, work, Recorded
  <2>2. LineNotBegun'
    BY <2>1 DEF LineNotBegun, Working
  <2>3. settled' => RecordsAgree' /\ KeysInPlace' /\ NothingInLine'
    <3>1. SUFFICES ASSUME settled' PROVE RecordsAgree' /\ KeysInPlace' /\ NothingInLine'
      OBVIOUS
    <3>2. settled /\ selected' = Recorded /\ Recorded # {}
      BY <2>1, <3>1 DEF RecordsAgree
    <3>3. RecordsAgree' /\ KeysInPlace' /\ Recorded' = Recorded
      BY <2>1, <3>2, RecordsStay
    <3>4. QED
      BY <2>1, <3>2, <3>3 DEF NothingInLine
  <2>4. QED
    BY <2>2, <2>3
<1>4. CASE Reuse
  <2> DEFINE matching == {m \in Declaring : Matches(m) /\ lock[m].selected # {}}
  <2>1. /\ pc = "select" /\ pc' = "verify" /\ settled' = settled /\ UNCHANGED <<manifest, cli, agents>>
        /\ selected' = Persisted /\ Persisted # {} /\ toRefresh' = toRefresh
        /\ installed' = installed
    BY <1>4 DEF Reuse, CanSelect, Go, work, ghosts
  <2>2. matching \subseteq Nat /\ matching # {} /\ Persisted = lock[Least(matching)].selected
    BY <2>1 DEF Persisted, Declaring
  <2>3. PICK m \in Declaring : Persisted = lock[m].selected
    BY <2>2, LeastMember
  <2>4. RecordsAgree => Persisted = Recorded
    BY <2>3, AgreedFields
  <2>5. LineNotBegun'
    BY <2>1 DEF LineNotBegun, Working
  <2>6. settled => RecordsAgree' /\ KeysInPlace' /\ Recorded' = Recorded
    BY <2>1, RecordsStay
  <2>7. QED
    BY <2>1, <2>4, <2>5, <2>6 DEF NothingInLine
<1>5. QED
  BY <1>1, <1>2, <1>3, <1>4 DEF Selecting

\* The record of the first declaring molecule is that of this revision and this CLI.
LEMMA SettledIsSelected ==
    ASSUME TypeOK, RecordsAgree
    PROVE  /\ AlreadySelected /\ First \in Declaring
           /\ NewKeys({}, {}) = selected \ Recorded
<1>1. First \in Declaring /\ pins[First] # None
  <2>1. Declaring \subseteq Nat /\ Declaring # {}
    BY DEF RecordsAgree, Declaring
  <2>2. QED
    BY <2>1, LeastMember DEF First, Declaring
<1>2. lock[First].fingerprint = pins[First] /\ lock[First].cli = cli
  BY <1>1, AgreedFields
<1>3. AlreadySelected
  BY <1>1, <1>2 DEF AlreadySelected, Matches, NoRecord
<1>4. QED
  BY <1>1, <1>3 DEF NewKeys, Recorded

LEMMA QuietInstalling ==
    ASSUME QSteps, Installing
    PROVE  QInv'
<1> USE DEF QSteps, QInv
<1>0. TypeOK
  BY DEF IInv
<1>1. CASE Verify \/ Repaired
  <2>1. /\ UNCHANGED <<manifest, cli, agents, settled, selected, toRefresh, toInstall, installed>>
        /\ \/ pc = "verify" /\ pc' = (IF initialised THEN "list" ELSE "init")
           \/ pc = "repair" /\ toRefresh = {} /\ toInstall = {} /\ pc' = "publish"
    <3>1. CASE Verify
      BY <3>1 DEF Verify, Go, locals, work, ghosts
    <3>2. CASE Repaired
      BY <3>2 DEF Repaired, Go, locals, work, ghosts
    <3>3. QED
      BY <1>1, <3>1, <3>2
  <2>2. LineNotBegun'
    BY <2>1 DEF LineNotBegun, Working
  <2>3. settled => RecordsAgree' /\ KeysInPlace' /\ Recorded' = Recorded
    BY <2>1, RecordsStay
  <2>4. settled => NothingInLine'
    BY <2>1, <2>3 DEF NothingInLine, KeysInPlace, Working
  <2>5. QED
    BY <2>1, <2>2, <2>3, <2>4
<1>2. CASE InitProject
  <2>1. ~settled /\ ~settled' /\ pc = "init" /\ pc' = "list"
        /\ UNCHANGED <<selected, toRefresh, installed>>
    BY <1>0, <1>2 DEF InitProject, Go, locals, work, ghosts, NothingInLine, TypeOK
  <2>2. QED
    BY <2>1 DEF LineNotBegun, Working
<1>3. CASE ListSupported
  <2>1. CASE selected \subseteq Supports[cli]
    <3>1. /\ UNCHANGED <<manifest, cli, agents, settled, selected, toRefresh, installed>>
          /\ pc = "list" /\ pc' = "status"
      BY <1>3, <2>1 DEF ListSupported, Go, locals, work, ghosts
    <3>2. settled => RecordsAgree' /\ KeysInPlace' /\ Recorded' = Recorded
      BY <3>1, RecordsStay
    <3>3. QED
      BY <3>1, <3>2 DEF LineNotBegun, NothingInLine, Working
  <2>2. CASE ~(selected \subseteq Supports[cli])
    BY <1>3, <2>2, QuietEnds DEF ListSupported, Fail, End
  <2>3. QED
    BY <2>1, <2>2
<1>4. CASE DetectDrift \/ StatusUnread
  <2>1. PICK lost, missing \in SUBSET selected :
          /\ lost \subseteq selected \ (Installed \cap readable) /\ missing \subseteq selected \ whole
          /\ pc = "status" /\ UNCHANGED <<manifest, cli, agents, settled, selected, installed>>
          /\ toRefresh' = missing /\ toInstall' = NewKeys(lost, missing)
          /\ pc' = IF lost = {} THEN "repair" ELSE "clear"
    <3>1. CASE DetectDrift
      <4> DEFINE gone == selected \ (Installed \cap readable)
                 cut == selected \ (gone \cup whole)
      <4>1. /\ pc = "status" /\ toRefresh' = cut /\ toInstall' = NewKeys(gone, cut)
            /\ pc' = IF gone = {} THEN "repair" ELSE "clear"
            /\ UNCHANGED <<manifest, cli, agents, settled, selected, installed>>
        BY <3>1 DEF DetectDrift, Go, ghosts
      <4>2. gone \in SUBSET selected /\ cut \in SUBSET selected /\ cut \subseteq selected \ whole
        OBVIOUS
      <4>3. QED
        BY <4>1, <4>2
    <3>2. CASE StatusUnread
      <4>1. /\ pc = "status" /\ toRefresh' = {} /\ toInstall' = NewKeys({}, {}) /\ pc' = "repair"
            /\ UNCHANGED <<manifest, cli, agents, settled, selected, installed>>
        BY <3>2 DEF StatusUnread, Go, ghosts, LineNotBegun
      <4>2. {} \in SUBSET selected
        OBVIOUS
      <4>3. QED
        BY <4>1, <4>2
    <3>3. QED
      BY <1>4, <3>1, <3>2
  <2>2. LineNotBegun'
    BY <2>1 DEF LineNotBegun, Working
  <2>3. settled => RecordsAgree' /\ KeysInPlace' /\ Recorded' = Recorded
    BY <2>1, RecordsStay
  <2>4. settled => NothingInLine'
    <3>1. SUFFICES ASSUME settled PROVE NothingInLine'
      OBVIOUS
    <3>2. selected = Recorded /\ lost = {} /\ missing = {}
      BY <2>1, <3>1 DEF NothingInLine, KeysInPlace, Working
    <3>3. NewKeys({}, {}) = {}
      BY <1>0, <3>1, <3>2, SettledIsSelected
    <3>4. QED
      BY <2>1, <2>3, <3>1, <3>2, <3>3 DEF NothingInLine
  <2>5. QED
    BY <2>1, <2>2, <2>3, <2>4
<1>5. CASE Clear
  BY <1>0, <1>5 DEF Clear, Go, ghosts, LineNotBegun, NothingInLine, Working, TypeOK
<1>6. CASE Refresh
  BY <1>0, <1>6 DEF Refresh, ghosts, LineNotBegun, NothingInLine, Working, TypeOK
<1>7. CASE InstallKey
  BY <1>0, <1>7 DEF InstallKey, ghosts, LineNotBegun, NothingInLine, Working, TypeOK
<1>8. QED
  BY <1>1, <1>2, <1>3, <1>4, <1>5, <1>6, <1>7 DEF Installing

LEMMA SettledPublishes ==
    ASSUME QSteps, settled, pc = "publish"
    PROVE  NewLock = lock
<1> USE DEF QSteps, QInv
<1>1. TypeOK /\ RecordsAgree /\ selected = Recorded /\ installed = {}
  BY DEF IInv, LineNotBegun, NothingInLine, Working
<1>2. AlreadySelected
  BY <1>1, SettledIsSelected
<1>3. \A m \in Declaring : Record(m) = lock[m]
  <2>1. selected \cap (installed \cup lock[First].installed) = lock[First].installed
    BY <1>1 DEF RecordsAgree
  <2>2. QED
    BY <1>1, <1>2, <2>1 DEF Record, RecordsAgree
<1>4. \A m \in Molecules : lock[m] = IF m \in Declaring THEN Record(m) ELSE NoRecord
  BY <1>1, <1>3 DEF RecordsAgree
<1>5. DOMAIN lock = Molecules /\ lock = [m \in Molecules |-> lock[m]]
  BY <1>1 DEF TypeOK
<1>6. QED
  BY <1>4, <1>5 DEF NewLock

LEMMA QuietPublishing ==
    ASSUME QSteps, Publishing
    PROVE  QInv'
<1> USE DEF QSteps, QInv
<1>0. TypeOK /\ pc' = "idle" /\ toRefresh' = {} /\ installed' = {}
  BY DEF IInv, Publishing, Publish, PublishSkipped, PublishDisabled, End
<1>1. CASE Publish
  <2>1. /\ pc = "publish" /\ lock' = NewLock /\ UNCHANGED <<pins, cli, agents>>
        /\ settled' = (selected \subseteq Installed \cap readable \cap whole)
    BY <1>1 DEF Publish
  <2>2. Declaring # {} /\ ~Conflict /\ selected # {} /\ initialised
    BY <2>1 DEF IInv, Resolved, LineNotBegun, Working, RInv, DefaultFound
  <2>3. /\ First \in Declaring /\ \A m \in Declaring : m \in Molecules
    <3>1. Declaring \subseteq Nat
      BY DEF Declaring
    <3>2. QED
      BY <2>2, <3>1, LeastMember DEF First, Declaring
  <2>4. /\ Declaring' = Declaring /\ First' = First /\ (Conflict' <=> Conflict)
        /\ Installed' = Installed
    BY <2>1 DEF agents, Declaring, First, Policy, Conflict, Installed
  <2>5. \A m \in Molecules : lock'[m] = IF m \in Declaring THEN Record(m) ELSE NoRecord
    BY <2>1 DEF NewLock
  <2>6. /\ \A m \in Declaring : /\ lock'[m].fingerprint = pins[m] /\ lock'[m].selected = selected
                                /\ lock'[m].cli = cli
                                /\ lock'[m].installed = Record(First).installed
                                /\ lock'[m] = [fingerprint |-> pins[m], selected |-> selected,
                                              cli |-> cli, installed |-> Record(First).installed]
        /\ Record(First).installed \subseteq selected
    BY <2>3, <2>5 DEF Record
  <2>7. Recorded' = selected /\ lock'[First].installed = Record(First).installed
    BY <2>3, <2>4, <2>6 DEF Recorded
  <2>8. RecordsAgree'
    BY <2>1, <2>2, <2>4, <2>5, <2>6, <2>7 DEF RecordsAgree
  <2>9. settled' => KeysInPlace'
    BY <2>1, <2>2, <2>4, <2>7 DEF KeysInPlace, agents
  <2>10. QED
    BY <1>0, <2>8, <2>9 DEF LineNotBegun, NothingInLine, Working
<1>2. CASE PublishSkipped \/ PublishDisabled
  <2>1. ~settled /\ ~settled'
    BY <1>0, <1>2 DEF PublishSkipped, PublishDisabled, ghosts, NothingInLine, TypeOK
  <2>2. QED
    BY <1>0, <2>1 DEF LineNotBegun, Working
<1>3. QED
  BY <1>1, <1>2 DEF Publishing

LEMMA QuietStep == QSteps /\ [Next]_vars => QInv'
<1>1. SUFFICES ASSUME QSteps, [Next]_vars PROVE QInv'
  OBVIOUS
<1> USE DEF QSteps
<1>2. CASE Begin
  <2>1. /\ pc = "idle" /\ pc' = "select" /\ UNCHANGED <<lock, cli, agents, selected, toRefresh, installed>>
        /\ settled' = FALSE \/ UNCHANGED <<pins, settled>>
    BY <1>2 DEF Begin, Move, work
  <2>2. LineNotBegun'
    BY <1>1, <2>1 DEF QInv, LineNotBegun, Working
  <2>3. settled' => RecordsAgree' /\ KeysInPlace'
    BY <1>1, <2>1, RecordsStay DEF QInv, manifest
  <2>4. QED
    BY <2>1, <2>2, <2>3 DEF QInv, NothingInLine, Working
<1>3. CASE Selecting
  BY <1>1, <1>3, QuietSelecting
<1>4. CASE Installing
  BY <1>1, <1>4, QuietInstalling
<1>5. CASE Publishing
  BY <1>1, <1>5, QuietPublishing
<1>6. CASE Failing
  BY <1>6, QuietEnds DEF Failing, Refuse, CallFails, CliStopsHalfway, Kill, EndKilled, Fail, End
<1>7. CASE Changing
  <2>1. AtRest
    BY <1>7 DEF Changing, PullPin, DeleteOutput, LoseManifest, Clone, InstallByHand, ChangeCli
  <2>2. pc' = "idle" /\ toRefresh' = {} /\ installed' = {} /\ settled' = FALSE
    BY <1>1, <2>1 DEF AtRest, Move, work, QInv, LineNotBegun
  <2>3. QED
    BY <2>2, QuietEnds
<1>8. CASE UNCHANGED vars
  <2>1. UNCHANGED <<manifest, cli, agents, settled, pc, selected, toRefresh, toInstall, installed>>
    BY <1>8 DEF vars, locals, work, ghosts
  <2>2. settled => RecordsAgree' /\ KeysInPlace' /\ Recorded' = Recorded
    BY <1>1, <2>1, RecordsStay DEF QInv
  <2>3. QED
    BY <1>1, <2>1, <2>2 DEF QInv, LineNotBegun, NothingInLine
<1>9. QED
  BY <1>1, <1>2, <1>3, <1>4, <1>5, <1>6, <1>7, <1>8 DEF Next

--------------------------------------------------------------------------------
(* Theorems *)

\* The invariant holds in every behavior.
THEOREM Invariance == Spec => []IInv
BY InitInvariant, StepInvariant, PTL DEF Spec

\* Selections, the CLI's registry and the records keep their types in every install.
THEOREM TypeCorrect == Spec => []TypeOK
<1>1. IInv => TypeOK
  BY DEF IInv
<1>2. QED
  BY <1>1, Invariance, PTL

\* A selection in the lock is the operator's last one for that declaration (choices
\* persisted by prepare_install, src/spaex/integrations/speckit.py).
THEOREM ChoiceHolds == Spec => []ChoiceStands
<1>1. IInv => ChoiceStands
  BY DEF IInv
<1>2. QED
  BY <1>1, Invariance, PTL

\* Whatever clones, deletions, failed and killed installs have left of the files, an
\* install that read the status and is about to publish has every selected key in
\* place and the default that it found (_detect_drift, _clear_stale_registrations
\* and _repair_order, src/spaex/integrations/speckit.py).
THEOREM RepairCompletes == Spec => []RepairIsComplete
<1>1. RInv => RepairIsComplete
  BY DEF RInv, InLine, DefaultInLine, LineIsEmpty, Sound, RepairIsComplete
<1>2. QED
  BY <1>1, RepairInitially, RepairInvariant, TypeCorrect, PTL DEF Spec

\* An install that follows a successful one, with nothing changed in between, has no
\* key to install or refresh, and would write the records that are in the lock
\* (prepare_install and _is_no_op, SC-003).
THEOREM SettledStaysQuiet == Spec => []SettledIsQuiet
<1>1. Init => QInv
  BY DEF Init, QInv, LineNotBegun, Working
<1>2. QSteps /\ [Next]_vars => QSteps'
  <2>1. IInv => TypeOK
    BY DEF IInv
  <2>2. QED
    BY <2>1, StepInvariant, RepairInvariant, QuietStep DEF QSteps
<1>3. QSteps => SettledIsQuiet
  <2>1. SUFFICES ASSUME QSteps, settled PROVE SettledIsQuiet
    BY DEF SettledIsQuiet
  <2>2. pc \in {"clear", "repair", "publish"} => toRefresh \cup toInstall = {}
    BY <2>1 DEF QSteps, QInv, NothingInLine
  <2>3. pc = "publish" => NewLock = lock
    BY <2>1, SettledPublishes
  <2>4. QED
    BY <2>2, <2>3 DEF SettledIsQuiet
<1>4. QED
  BY <1>1, <1>2, <1>3, InitInvariant, RepairInitially, PTL DEF Spec, QSteps
================================================================================
