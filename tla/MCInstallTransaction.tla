-------------------------- MODULE MCInstallTransaction -------------------------
(* Small instances of InstallTransaction: c has the constitution, d delivers a   *)
(* file in its first version and none in its second.                            *)
EXTENDS InstallTransaction

CONSTANTS c, d, f, g

MCMolecules == {c, d}
MCPaths == {f, g}

\* d alone delivers files.
PlainDelivers ==
    [mv \in MCMolecules \X (1..2) |->
        IF mv[1] = d THEN IF mv[2] = 1 THEN {f, g} ELSE {g} ELSE {}]

\* The contributor delivers too, and takes over a file that d gave up.
SharedDelivers ==
    [mv \in MCMolecules \X (1..2) |->
        IF mv[1] = d THEN IF mv[2] = 1 THEN {f} ELSE {g}
                     ELSE IF mv[2] = 1 THEN {} ELSE {f}]
\* A file changes hands; refusals, but neither hooks nor kills.
Plain == [delivers |-> SharedDelivers, hooked |-> {}, behaving |-> {}, mayRefuse |-> TRUE,
          mayInterrupt |-> FALSE, maxCommands |-> 5, maxCrashes |-> 0]

\* A contributor with a hook, behavior, and every failure.
Hooks == [delivers |-> PlainDelivers, hooked |-> {c}, behaving |-> {d}, mayRefuse |-> TRUE,
          mayInterrupt |-> TRUE, maxCommands |-> 3, maxCrashes |-> 1]

\* A contributor with a hook and a file of its own.
Owner == [Plain EXCEPT !.hooked = {c}, !.mayRefuse = FALSE, !.maxCommands = 3]

Crashed == [Plain EXCEPT !.delivers = PlainDelivers, !.mayRefuse = FALSE, !.maxCommands = 3,
                         !.maxCrashes = 1]

MCScenarios == {Plain, Hooks, Owner}
MCCrashed == {Crashed}
================================================================================
