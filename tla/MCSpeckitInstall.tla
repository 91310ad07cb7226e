---------------------------- MODULE MCSpeckitInstall ----------------------------
(* Two molecules in three revisions, two policies, two agents.  The older CLI does
   not know the second agent. *)
EXTENDS SpeckitInstall, TLC

CONSTANTS p1, p2, q1, P, Q

MCPolicyOf == (p1 :> P) @@ (p2 :> P) @@ (q1 :> Q)
MCDeclared == (P :> {1, 2}) @@ (Q :> {1})
MCRequires == (P :> 1) @@ (Q :> 2)
MCSupports == <<{1}, {1, 2}>>
================================================================================
