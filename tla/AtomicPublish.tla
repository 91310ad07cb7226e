----------------------------- MODULE AtomicPublish -----------------------------
(***************************************************************************)
(* What publication promises, with the directories left out: one           *)
(* generation is current at every moment.  An attempt to replace it may     *)
(* switch to the new generation and back, any number of times, and ends     *)
(* either committed (the new generation is current), refused (the old one   *)
(* is current again) or broken off (a crash or an I/O error), in which case *)
(* one of the two is current.  GenerationSwap implements it with two        *)
(* renames.                                                                 *)
(***************************************************************************)
CONSTANTS Generations, Absent

VARIABLES
    current,   \* the generation a reader or a recovery would find
    attempt,   \* the replacement under way, or NoAttempt
    verdict    \* how the last attempt ended

vars == <<current, attempt, verdict>>

NoAttempt == [from |-> Absent, to |-> Absent]

Init ==
    /\ current \in Generations \cup {Absent}
    /\ attempt = NoAttempt
    /\ verdict = "none"

Open(g) ==
    /\ attempt = NoAttempt
    /\ attempt' = [from |-> current, to |-> g]
    /\ UNCHANGED <<current, verdict>>

Switch ==
    /\ attempt # NoAttempt
    /\ current = attempt.from
    /\ current' = attempt.to
    /\ UNCHANGED <<attempt, verdict>>

SwitchBack ==
    /\ attempt # NoAttempt
    /\ current = attempt.to
    /\ current' = attempt.from
    /\ UNCHANGED <<attempt, verdict>>

Commit ==
    /\ attempt # NoAttempt
    /\ current = attempt.to
    /\ attempt' = NoAttempt
    /\ verdict' = "ok"
    /\ UNCHANGED current

Refuse ==
    /\ attempt # NoAttempt
    /\ current = attempt.from
    /\ attempt' = NoAttempt
    /\ verdict' = "refused"
    /\ UNCHANGED current

BreakOff ==
    /\ attempt # NoAttempt
    /\ attempt' = NoAttempt
    /\ verdict' = "broken"
    /\ UNCHANGED current

Next ==
    \/ \E g \in Generations : Open(g)
    \/ Switch
    \/ SwitchBack
    \/ Commit
    \/ Refuse
    \/ BreakOff

Spec == Init /\ [][Next]_vars
================================================================================
