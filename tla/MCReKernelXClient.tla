------------------------- MODULE MCReKernelXClient -------------------------
(* Instances of ReKernelXClient for TLC: two application threads beside    *)
(* the one in pollEvent.                                                   *)
EXTENDS ReKernelXClient

CONSTANTS t1, t2, p, c1
=============================================================================
