----------------------------- MODULE MCBinderKp -----------------------------
(* Small instances of BinderKp for TLC. *)
EXTENDS BinderKp, TLC

CONSTANTS t1, t2, t3, t4, n1, s1, s2

Async(node, code, data) ==
  [node |-> node, oneway |-> TRUE, code |-> code, flags |-> 1, pid |-> 1,
   offsets |-> FALSE, data |-> data]

\* Equivalent oneway calls, each of which makes the older ones obsolete.
Alike == [t \in {t1, t2, t3} |-> Async(n1, 1, 0)]

(* Two equivalent calls, one that waits for its reply and carries objects, *)
(* and one that differs from the first ones in the data.                   *)
Mixed ==
  t1 :> Async(n1, 1, 0) @@ t2 :> Async(n1, 1, 0)
  @@ t3 :> [Async(n1, 1, 0) EXCEPT !.oneway = FALSE, !.flags = 0, !.offsets = TRUE]
  @@ t4 :> Async(n1, 1, 1)

Symmetry == Permutations({t1, t2}) \cup Permutations({s1, s2})
=============================================================================
