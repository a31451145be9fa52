----------------------------- MODULE MCBootGuard -----------------------------
(* Two module files, two CPUs and two network namespaces: a call can be    *)
(* under way on one CPU while another starts, registering can fail         *)
(* half-way through, and a second file can be tried after a failure.       *)
EXTENDS BootGuard

CONSTANTS c1, c2, n1, n2
=============================================================================
