---------------------------- MODULE MCNetMonitor ----------------------------
(* Small instances of NetMonitor for TLC: the uid of an application and    *)
(* one below, memory for two entries, which are used again, and two CPUs   *)
(* in the hook at once.                                                    *)
EXTENDS NetMonitor

CONSTANTS h, e1, e2, c1, c2

\* All uids fall into one bucket.
Collide == [u \in Uid |-> h]

Tcp(u, v, off, bytes, fl) ==
  [uid |-> u, version |-> v, headers |-> TRUE, tcp |-> TRUE, thoff |-> off, doff |-> 8,
   flags |-> fl, length |-> bytes + 32 + off - (IF v = 6 THEN 40 ELSE 0),
   payload |-> bytes]

(* Data, a bare ACK, a SYN, IPv6 with an extension header, data for a uid  *)
(* below the applications', a UDP datagram and a TCP header cut short.     *)
AllPackets ==
  {Tcp(10000, 4, 20, 1, FALSE), Tcp(10000, 4, 24, 0, FALSE), Tcp(10000, 6, 40, 0, TRUE),
   Tcp(10000, 6, 48, 7, FALSE), Tcp(1000, 4, 20, 5, FALSE),
   [uid |-> 10000, version |-> 6, headers |-> TRUE, tcp |-> FALSE, thoff |-> 40, doff |-> 0,
    flags |-> FALSE, length |-> 12, payload |-> 4],
   [uid |-> 10000, version |-> 4, headers |-> FALSE, tcp |-> TRUE, thoff |-> 20, doff |-> 0,
    flags |-> TRUE, length |-> 32, payload |-> 0]}
=============================================================================
