--------------------------- MODULE MCCommandPath ---------------------------
(* An instance of CommandPath for TLC. *)
EXTENDS CommandPath, TLC

CONSTANTS t1, t2

Add(name, code, strategy) ==
  [cmd |-> "ADD_FREE_ASYNC", name |-> name, code |-> code, strategy |-> strategy]
Del(name, code) == [cmd |-> "DEL_FREE_ASYNC", name |-> name, code |-> code]

\* Names at the limits: none, empty, the longest the kernel takes, the longest
\* the buffer takes, the longest before the rounded length wraps, two whose own
\* length wraps; codes and strategies beside and beyond the valid ones.
AllCommands ==
  {Add(n, -1, 1) : n \in {NULL, 0, 139, 140, 215, 216, 65527, 65535, 65674}}
    \cup {Add(139, -1, 2), Add(139, 5, 257), Add(139, 5, 0), Add(139, -2, 1),
          Add(1, -1, 3), Del(139, -1), Del(139, 5), Del(140, -1), Del(216, 5),
          [cmd |-> "ADD_MONITOR_NET", uid |-> 10000], [cmd |-> "DEL_MONITOR_NET", uid |-> 10000]}

Symmetry == Permutations(Thread)
=============================================================================
