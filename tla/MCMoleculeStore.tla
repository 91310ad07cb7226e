---------------------------- MODULE MCMoleculeStore ----------------------------
(* A small instance of MoleculeStore: two molecules of one revision, the second  *)
(* nested in the directory of the first, and one of another revision.           *)
EXTENDS MoleculeStore, TLC

CONSTANTS a, b, c, r1, r2

MCKeys == {a, b, c}
MCRev == [k \in MCKeys |-> IF k = c THEN r2 ELSE r1]
MCSymmetry == Permutations(Procs)
MCAbove == [k \in MCKeys |-> IF k = b THEN {a} ELSE {}]
================================================================================
