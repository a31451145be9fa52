----------------------------- MODULE NetMonitor -----------------------------
(***************************************************************************)
(* The network monitor: the table of monitored uids (rkx_netuid.c), the    *)
(* commands that change it (rkx_genl.c) and the netfilter hook that reads  *)
(* it on every CPU for every incoming packet (rkx_netfilter.c).            *)
(*                                                                         *)
(* A bucket is a singly linked list that the hook walks under RCU, one     *)
(* entry or one pointer per step; a command is one step, for its mutex     *)
(* shuts the other commands out and it publishes one pointer.  A packet is *)
(* what the hook reads of it, with the payload it really carries.          *)
(***************************************************************************)
EXTENDS Integers

CONSTANTS
  Uid,           \* the uids that commands and packets name
  Bucket, Hash,  \* hash_for_each_possible: Uid -> Bucket
  Entry,         \* memory for entries
  Packet,        \* the packets that come in, see PacketAssumption
  Cpu,
  NONE, LOST     \* no event, and one for which there was no memory

RKX_MIN_APP_UID == 10000

IPv6Header == 40

(* thoff is where the TCP header starts (the IPv4 header length, or what   *)
(* ipv6_find_hdr finds); length is tot_len or payload_len; uid is 0        *)
(* without a full socket; flags is SYN, FIN or RST; headers is whether the *)
(* packet is as long as its IP and TCP headers, or cut short.              *)
ASSUME PacketAssumption ==
  \A p \in Packet :
    /\ p.version \in {4, 6} /\ {p.tcp, p.flags, p.headers} \subseteq BOOLEAN
    /\ {p.uid, p.thoff, p.doff, p.length, p.payload} \subseteq Nat
    /\ p.tcp /\ p.headers =>
         p.length = p.payload + 4 * p.doff + p.thoff - (IF p.version = 6 THEN IPv6Header ELSE 0)
    /\ p.uid >= RKX_MIN_APP_UID => p.uid \in Uid
ASSUME TableAssumption == Hash \in [Uid -> Bucket] /\ Entry \cap Bucket = {} /\ NONE \notin Entry

Event == [proto : {4, 6}, target_uid : Nat, data_len : Int]

ASSUME EventAssumption == NONE \notin Event /\ NONE # LOST

VARIABLES
  next,            \* hlist pointers, of buckets and entries
  mem,             \* per entry: free, linked, or a zombie of kfree_rcu
  uid,             \* per entry: entry->uid
  grace,           \* per zombie: the CPUs kfree_rcu waits for
  mod,             \* which parts of the module are registered
  at, skb, pos,    \* per CPU: its place in the hook, the packet, the walk
  event,           \* per CPU: what the hook has sent: NONE, LOST or an event
  seen             \* history, per CPU: was the uid monitored since it came in

tableVars == <<next, mem, uid, grace>>
hookVars  == <<at, skb, pos, event>>
vars == <<tableVars, mod, hookVars, seen>>

Node == Entry \cup Bucket

Linked(u) == {e \in Entry : mem[e] = "linked" /\ uid[e] = u}
Monitored(u) == Linked(u) # {}
InRcu == {c \in Cpu : at[c] \in {"visit", "advance"}}

\* Every change of the table shows itself to the hooks that are running.
Witness == seen' = [c \in Cpu |-> IF at[c] \in {"idle", "return"} THEN seen[c]
                                  ELSE seen[c] \cup {Monitored(skb[c].uid)'}]

-----------------------------------------------------------------------------
(* Commands, as long as the family is registered. *)

rkx_netlink_ready == mod \in {"family", "hooked", "unhooking"}

\* kmalloc may fail; then, and for a uid that is there, nothing changes.
rkx_add_net_uid(u) ==
  /\ ~Monitored(u)
  /\ \E e \in Entry :
       /\ mem[e] = "free"
       /\ mem' = [mem EXCEPT ![e] = "linked"]
       /\ uid' = [uid EXCEPT ![e] = u]
       /\ next' = [next EXCEPT ![e] = next[Hash[u]], ![Hash[u]] = e]
  /\ UNCHANGED <<grace, mod, hookVars>>
  /\ Witness

\* Faulty: no grace period; the bucket's first pointer is taken for the link.
NoGrace == {}
CutBucket(e) == [next EXCEPT ![Hash[uid[e]]] = next[e]]

kfree_rcu_waits_for == InRcu
hash_del_rcu(e) == [next EXCEPT ![CHOOSE p \in Node :
                      next[p] = e /\ (p \in Bucket \/ mem[p] = "linked")] = next[e]]

rkx_del_net_uid(u) ==
  /\ \E e \in Linked(u) : /\ next' = hash_del_rcu(e)
                          /\ mem' = [mem EXCEPT ![e] = "zombie"]
                          /\ grace' = [grace EXCEPT ![e] = kfree_rcu_waits_for]
  /\ UNCHANGED <<uid, mod, hookVars>>
  /\ Witness

rkx_genl_monitor_net(u)     == rkx_netlink_ready /\ rkx_add_net_uid(u)
rkx_genl_del_monitor_net(u) == rkx_netlink_ready /\ rkx_del_net_uid(u)

RcuReclaim(e) ==
  /\ mem[e] = "zombie" /\ grace[e] = {}
  /\ mem' = [mem EXCEPT ![e] = "free"]
  /\ uid' = [uid EXCEPT ![e] = NONE] /\ next' = [next EXCEPT ![e] = NONE]
  /\ UNCHANGED <<grace, mod, hookVars, seen>>

-----------------------------------------------------------------------------
(* rkx_nf_local_in *)

Goto(c, l) == at' = [at EXCEPT ![c] = l]

\* A packet for a uid below the applications' is not looked at.
NfEnter(c, p) ==
  /\ mod = "hooked" /\ at[c] = "idle"
  /\ skb' = [skb EXCEPT ![c] = p]
  /\ IF p.uid < RKX_MIN_APP_UID
     THEN Goto(c, "return") /\ UNCHANGED pos
     ELSE Goto(c, "advance") /\ pos' = [pos EXCEPT ![c] = Hash[p.uid]]
  /\ seen' = [seen EXCEPT ![c] = {Monitored(p.uid)}]
  /\ UNCHANGED <<tableVars, mod, event>>

\* Faulty: rcu_read_unlock is forgotten.
StayInRcu(c) == UNCHANGED grace

rcu_read_unlock(c) == grace' = [e \in Entry |-> grace[e] \ {c}]

Leave(c, l) == Goto(c, l) /\ rcu_read_unlock(c) /\ pos' = [pos EXCEPT ![c] = NONE]

\* Follow one pointer; at the end of the bucket the uid is not monitored.
WalkAdvance(c) ==
  /\ at[c] = "advance"
  /\ IF next[pos[c]] = NONE
     THEN Leave(c, "return")
     ELSE Goto(c, "visit") /\ pos' = [pos EXCEPT ![c] = next[@]] /\ UNCHANGED grace
  /\ UNCHANGED <<next, mem, uid, mod, skb, event, seen>>

\* Faulty: whatever hashes alike is taken for the uid.
SameBucket(e, u) == Hash[uid[e]] = Hash[u]

SameUid(e, u) == uid[e] = u

WalkVisit(c) ==
  /\ at[c] = "visit"
  /\ IF SameUid(pos[c], skb[c].uid)
     THEN Leave(c, "parse")
     ELSE Goto(c, "advance") /\ UNCHANGED <<pos, grace>>
  /\ UNCHANGED <<next, mem, uid, mod, skb, event, seen>>

\* Faulty: the IPv6 header, which payload_len does not count, is taken off.
DataLenBothHeaders(p) == p.length - 4 * p.doff - p.thoff

data_len(p) ==
  p.length - 4 * p.doff - (IF p.version = 4 THEN p.thoff ELSE p.thoff - IPv6Header)

(* rkx_parse_tcp_ipv4 and rkx_parse_tcp_ipv6: TCP with data or a state     *)
(* change, and not cut short (pskb_may_pull fails on what is not there).   *)
Parsed(p) == p.headers /\ p.tcp /\ (data_len(p) > 0 \/ p.flags)

\* The message that rkx_send_message multicasts.
NfParse(c) ==
  /\ at[c] = "parse"
  /\ event' = [event EXCEPT ![c] = IF Parsed(skb[c]) /\ rkx_netlink_ready
        THEN [proto |-> skb[c].version, target_uid |-> skb[c].uid, data_len |-> data_len(skb[c])]
        ELSE NONE]
  /\ Goto(c, "return")
  /\ UNCHANGED <<tableVars, mod, skb, pos, seen>>

\* There is no memory to pull the headers together, or for the message.
NfParseLost(c) ==
  /\ at[c] = "parse"
  /\ event' = [event EXCEPT ![c] = LOST]
  /\ Goto(c, "return")
  /\ UNCHANGED <<tableVars, mod, skb, pos, seen>>

\* NF_ACCEPT, always.
NfAccept(c) ==
  /\ at[c] = "return"
  /\ Goto(c, "idle")
  /\ skb' = [skb EXCEPT ![c] = NONE] /\ event' = [event EXCEPT ![c] = NONE]
  /\ seen' = [seen EXCEPT ![c] = {}]
  /\ UNCHANGED <<tableVars, mod, pos>>

-----------------------------------------------------------------------------
(* rkx_init and rkx_exit, as far as they concern the monitor. *)

ModStep(from, to) == mod = from /\ mod' = to /\ UNCHANGED <<hookVars, seen>>

rkx_init_net_uid ==
  /\ ModStep("absent", "family")
  /\ next' = [p \in DOMAIN next |-> IF p \in Bucket THEN NONE ELSE next[p]]
  /\ UNCHANGED <<mem, uid, grace>>

rkx_register_netfilter   == ModStep("family", "hooked") /\ UNCHANGED tableVars
rkx_unregister_netfilter == ModStep("hooked", "unhooking") /\ UNCHANGED tableVars

synchronize_rcu == \A c \in Cpu : at[c] = "idle"

rkx_unregister_genl ==
  synchronize_rcu /\ ModStep("unhooking", "destroy") /\ UNCHANGED tableVars

\* Every entry is unlinked and left to kfree_rcu.
rkx_destroy_net_uid ==
  /\ mod = "destroy" /\ mod' = "absent"
  /\ next' = [p \in DOMAIN next |-> IF p \in Bucket THEN NONE ELSE next[p]]
  /\ mem' = [e \in Entry |-> IF mem[e] = "linked" THEN "zombie" ELSE mem[e]]
  /\ grace' = [e \in Entry |-> IF mem[e] = "linked" THEN kfree_rcu_waits_for ELSE grace[e]]
  /\ UNCHANGED <<uid, hookVars>>
  /\ Witness

-----------------------------------------------------------------------------

Init ==
  /\ next = [p \in Node |-> NONE]
  /\ mem = [e \in Entry |-> "free"] /\ uid = [e \in Entry |-> NONE]
  /\ grace = [e \in Entry |-> {}]
  /\ mod = "absent"
  /\ at = [c \in Cpu |-> "idle"] /\ skb = [c \in Cpu |-> NONE]
  /\ pos = [c \in Cpu |-> NONE] /\ event = [c \in Cpu |-> NONE]
  /\ seen = [c \in Cpu |-> {}]

Hook(c) == WalkAdvance(c) \/ WalkVisit(c) \/ NfParse(c) \/ NfParseLost(c) \/ NfAccept(c)

Unload == rkx_unregister_genl \/ rkx_destroy_net_uid

Next == \/ \E u \in Uid : rkx_genl_monitor_net(u) \/ rkx_genl_del_monitor_net(u)
        \/ \E e \in Entry : RcuReclaim(e)
        \/ \E c \in Cpu : Hook(c) \/ \E p \in Packet : NfEnter(c, p)
        \/ rkx_init_net_uid \/ rkx_register_netfilter \/ rkx_unregister_netfilter
        \/ Unload

Spec == Init /\ [][Next]_vars

\* A hook that runs, a started unloading and a due RCU callback go on.
FairSpec == /\ Spec
            /\ \A c \in Cpu : WF_vars(Hook(c))
            /\ WF_vars(Unload)
            /\ \A e \in Entry : WF_vars(RcuReclaim(e))

-----------------------------------------------------------------------------
(* Properties *)

(* A hook never stands on freed memory, whatever commands and unloading do *)
(* meanwhile (hash_del_rcu, kfree_rcu; the hooks are waited for before     *)
(* the family goes and rkx_destroy_net_uid empties the table).             *)
WalkSafe ==
  /\ \A c \in InRcu : pos[c] \in Bucket \/ mem[pos[c]] # "free"
  /\ mod \in {"absent", "destroy"} => \A c \in Cpu : at[c] = "idle"

\* What the pointers lead to from p: whatever is in every closed set with p.
Reach(p) ==
  {x \in Node : \A S \in SUBSET Node :
     p \in S /\ (\A y \in S : next[y] # NONE => next[y] \in S) => x \in S}

(* The lists are the table: what a bucket reaches is exactly what is       *)
(* linked and hashes to it, and no uid is there twice.                     *)
TableIntact ==
  /\ \A u \in Uid : \A e, f \in Linked(u) : e = f
  /\ \A b \in Bucket :
       Reach(b) = {b} \cup {e \in Entry : mem[e] = "linked" /\ Hash[uid[e]] = b}

(* An event is about a uid that was monitored at some moment while its     *)
(* packet was in the hook (so: none for packets that come after            *)
(* delMonitorNet), and reports the length that the packet carries.         *)
EventsJustified ==
  \A c \in Cpu : event[c] \notin {NONE, LOST} =>
    /\ TRUE \in seen[c] /\ event[c].target_uid >= RKX_MIN_APP_UID
    /\ event[c].data_len = skb[c].payload
    /\ skb[c].payload > 0 \/ skb[c].flags

(* No packet slips through: a TCP segment with data or a change of state,  *)
(* for an application's uid that was monitored all the while, is reported, *)
(* whichever other uids come and go in its bucket, unless it is cut short  *)
(* or there is no memory to report it.                                     *)
NothingMissed ==
  \A c \in Cpu :
    /\ at[c] = "return" /\ seen[c] = {TRUE}
    /\ skb[c].uid >= RKX_MIN_APP_UID /\ skb[c].tcp /\ skb[c].headers
    /\ skb[c].payload > 0 \/ skb[c].flags
    => event[c] # NONE

(* What the README promises: a packet that comes in for a monitored uid    *)
(* is an event (unless it could not be sent).                              *)
MonitoredReported ==
  \A c \in Cpu : at[c] = "return" /\ seen[c] = {TRUE} => event[c] # NONE

\* A removed uid's memory is given back: every walk that may stand on it ends.
EntriesReclaimed == \A e \in Entry : mem[e] = "zombie" ~> mem[e] = "free"
=============================================================================
