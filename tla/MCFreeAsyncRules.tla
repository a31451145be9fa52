-------------------------- MODULE MCFreeAsyncRules --------------------------
(* A small instance of FreeAsyncRules for TLC: two interfaces, each with   *)
(* an exact and a wildcard rule, and memory for two entries, so that a     *)
(* walk meets entries that are unlinked, freed and used again.             *)
EXTENDS FreeAsyncRules

CONSTANTS rpcA, rpcB, h, e1, e2, r1

\* Both interface tokens fall into one bucket.
Collide == [x \in Rpc |-> h]
=============================================================================
