---------------------------- MODULE MCEventPath ----------------------------
(* Small instances of EventPath for TLC. *)
EXTENDS EventPath, TLC

CONSTANTS a, b, d

\* An application that calls, a system process and another application.
Uids == a :> 10050 @@ b :> 1000 @@ d :> 10100
FreezersOf == a :> {} @@ b :> {"cgroup"} @@ d :> {"cgroup", "pm"}

Trans(oneway, token, bytes) ==
  [hook |-> "trans", from |-> a, to |-> d, oneway |-> oneway, code |-> 7,
   token |-> token, data_size |-> bytes]

\* A sync call, oneway calls with a short, a long and no interface token, a
\* reply, the buffer space of b running out, a signal and a packet.
AllCalls ==
  {Trans(0, 20, 80), Trans(1, 20, 80), Trans(1, 70, 160), Trans(1, 0, 16),
   [hook |-> "reply", from |-> a, to |-> b],
   [hook |-> "alloc_buf", from |-> a, to |-> b, oneway |-> 1, size |-> 50000, space |-> 131072],
   [hook |-> "signal", from |-> a, to |-> d, sig |-> 9],
   [hook |-> "network", proto |-> 4, target_uid |-> 10100, data_len |-> 3]}

\* A oneway call whose token is longer than the hook reads.
LongToken == {Trans(1, 70, 160)}

Symmetry == Permutations(Pid)
=============================================================================
