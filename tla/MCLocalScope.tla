----------------------------- MODULE MCLocalScope -----------------------------
(* A small instance of LocalScope: molecule m delivers p, and its hook creates   *)
(* h; molecule n delivers q and that same h, and declares behavior.             *)
EXTENDS LocalScope

CONSTANTS m, n, p, q, h

MCMolecules == {m, n}
MCPaths == {p, q, h}
MCFilesOf == [x \in MCMolecules |-> IF x = m THEN {p} ELSE {q, h}]
MCHookFile == [x \in MCMolecules |-> IF x = m THEN h ELSE None]
================================================================================
