--------------------------- MODULE MCConsistentRead ----------------------------
(* Small instances of ConsistentRead: a checkout with any generation of up to  *)
(* three project ids, with or without a local scope, or with none at all.      *)
EXTENDS ConsistentRead

CONSTANTS MaxProject, MaxLocal

MCGenerations == [project : 0..MaxProject, local : 0..MaxLocal]
================================================================================
