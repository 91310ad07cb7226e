--------------------------- MODULE MCBehaviorPipeline --------------------------
(* Small instances of BehaviorPipeline: two fragments, and questions about one   *)
(* of them or about both.                                                       *)
EXTENDS BehaviorPipeline

CONSTANTS a, b

MCFragments == {a, b}
MCCitable == {{a}, {a, b}}
================================================================================
