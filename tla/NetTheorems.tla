----------------------------- MODULE NetTheorems -----------------------------
(***************************************************************************)
(* The safety invariants of NetMonitor for any uids, buckets, memory and   *)
(* CPUs.  Three things carry the proof: a pointer leads from what a walk   *)
(* may stand on only to what is kept for that walk; a linked entry is      *)
(* reached from its bucket; and a walk for a uid that stayed monitored     *)
(* still has the entry of that uid ahead of it.                            *)
(***************************************************************************)
EXTENDS NetMonitor, TLAPS

Types ==
  /\ next \in [Node -> Entry \cup {NONE}]
  /\ mem \in [Entry -> {"free", "linked", "zombie"}]
  /\ uid \in [Entry -> Uid \cup {NONE}]
  /\ grace \in [Entry -> SUBSET Cpu]
  /\ mod \in {"absent", "family", "hooked", "unhooking", "destroy"}
  /\ at \in [Cpu -> {"idle", "advance", "visit", "parse", "return"}]
  /\ skb \in [Cpu -> Packet \cup {NONE}]
  /\ pos \in [Cpu -> Node \cup {NONE}]
  /\ event \in [Cpu -> Event \cup {NONE, LOST}]
  /\ seen \in [Cpu -> SUBSET BOOLEAN]

Live(p) == p \in Bucket \/ mem[p] = "linked"

\* The bucket whose list a node belongs to.
Home(p) == IF p \in Bucket THEN p ELSE Hash[uid[p]]

\* Pointers of the lists stay in their bucket and lead to every linked entry
\* just once; no uid is linked twice.
Lists ==
  /\ \A p \in Node : Live(p) /\ next[p] # NONE => mem[next[p]] = "linked" /\ Home(next[p]) = Home(p)
  /\ \A p, q \in Node : Live(p) /\ Live(q) /\ next[p] # NONE /\ next[p] = next[q] => p = q
  /\ \A e \in Entry : mem[e] = "linked" => \E p \in Node : Live(p) /\ next[p] = e
  /\ \A e \in Entry : mem[e] = "linked" => uid[e] \in Uid
  /\ \A e, f \in Entry : mem[e] = "linked" /\ mem[f] = "linked" /\ uid[e] = uid[f] => e = f

Reached == \A e \in Entry : mem[e] = "linked" => e \in Reach(Home(e))

\* Hooks run only while they are registered, or until they are waited for.
Phases ==
  /\ \A c \in Cpu : at[c] # "idle" => mod \in {"hooked", "unhooking"}
  /\ mod = "absent" => \A e \in Entry : mem[e] # "linked"

\* Entry e is not freed before the walk of c has ended.
Kept(c, e) == mem[e] = "linked" \/ (mem[e] = "zombie" /\ c \in grace[e])

Walks ==
  /\ \A e \in Entry : mem[e] = "zombie" => grace[e] \subseteq InRcu
  /\ \A c \in InRcu :
       /\ pos[c] \in Bucket \/ (pos[c] \in Entry /\ Kept(c, pos[c]))
       /\ at[c] = "visit" => pos[c] \in Entry
       /\ \A e \in Entry : Kept(c, e) /\ next[e] # NONE => Kept(c, next[e])

\* A packet's uid was monitored if a walk can meet an entry for it.
Seen ==
  \A c \in Cpu : at[c] \in {"advance", "visit", "parse"} =>
    /\ skb[c] \in Packet /\ skb[c].uid >= RKX_MIN_APP_UID /\ event[c] = NONE
    /\ ~Monitored(skb[c].uid) => FALSE \in seen[c]
    /\ \A e \in Entry : c \in InRcu /\ Kept(c, e) /\ uid[e] = skb[c].uid => TRUE \in seen[c]
    /\ at[c] = "parse" => TRUE \in seen[c]

\* While the uid stays monitored its entry is ahead of the walk.
Ahead ==
  \A c \in InRcu, e \in Entry :
    mem[e] = "linked" /\ uid[e] = skb[c].uid /\ FALSE \notin seen[c] =>
      e \in Reach(pos[c]) /\ (at[c] = "advance" => e # pos[c])

\* What a hook that returns has done.
Returned ==
  \A c \in Cpu :
    /\ event[c] # NONE => at[c] = "return"
    /\ at[c] = "return" =>
         /\ skb[c] \in Packet
         /\ event[c] \notin {NONE, LOST} =>
              /\ TRUE \in seen[c] /\ skb[c].uid >= RKX_MIN_APP_UID /\ Parsed(skb[c])
              /\ event[c].target_uid = skb[c].uid /\ event[c].data_len = data_len(skb[c])
         /\ event[c] = NONE =>
              FALSE \in seen[c] \/ skb[c].uid < RKX_MIN_APP_UID \/ ~Parsed(skb[c])

\* The inductive invariant.
NInv == Types /\ Lists /\ Reached /\ Phases /\ Walks /\ Seen /\ Ahead /\ Returned

-----------------------------------------------------------------------------
(* Reach: how a change of one pointer shows in what the pointers lead to. *)

(* A walk that follows one pointer (hlist_for_each_entry_rcu) still has    *)
(* ahead what was ahead of it, and there is a pointer to follow.           *)
LEMMA ReachStep ==
  ASSUME Types, NEW p \in Node, NEW e \in Reach(p), e # p
  PROVE  next[p] # NONE /\ e \in Reach(next[p])
<1>1. next[p] # NONE
  <2>1. SUFFICES ASSUME next[p] = NONE  PROVE FALSE
    BY Zenon
  <2>2. {p} \in SUBSET Node /\ p \in {p} /\ \A y \in {p} : next[y] # NONE => next[y] \in {p}
    BY Zenon, <2>1
  <2> QED  BY Zenon, <2>2 DEF Reach
<1>2. ASSUME NEW S \in SUBSET Node, next[p] \in S, \A y \in S : next[y] # NONE => next[y] \in S
      PROVE  e \in S
  <2>1. /\ S \cup {p} \in SUBSET Node /\ p \in S \cup {p}
        /\ \A y \in S \cup {p} : next[y] # NONE => next[y] \in S \cup {p}
    BY Zenon, <1>2
  <2> QED  BY Zenon, <2>1 DEF Reach
<1> QED  BY Zenon, <1>1, <1>2 DEF Reach

(* The end of a list: a bucket whose first pointer leads somewhere reaches *)
(* that entry.                                                             *)
LEMMA ReachNext ==
  ASSUME Types, NEW p \in Node, next[p] # NONE
  PROVE  next[p] \in Reach(p)
BY Zenon DEF Reach, Types, Node

(* Pointers that change outside of a set a walk cannot leave change        *)
(* nothing for that walk: RcuReclaim.                                      *)
LEMMA ReachFrame ==
  ASSUME NEW K \in SUBSET Node, \A x \in K : next[x] # NONE => next[x] \in K,
         \A x \in K : next'[x] = next[x], NEW p \in K, NEW e \in Reach(p)
  PROVE  e \in Reach(p)'
<1>1. ASSUME NEW S \in SUBSET Node, p \in S, \A y \in S : next'[y] # NONE => next'[y] \in S
      PROVE  e \in S
  <2>1. /\ S \cap K \in SUBSET Node /\ p \in S \cap K
        /\ \A y \in S \cap K : next[y] # NONE => next[y] \in S \cap K
    BY Zenon, <1>1
  <2>2. e \in S \cap K
    BY Zenon, <2>1 DEF Reach
  <2> QED  BY Zenon, <2>2
<1> QED  BY Zenon, <1>1 DEF Reach

(* hash_add_rcu puts d behind b: what was reached is reached, as long as   *)
(* the walk could not come to d's memory before.                           *)
LEMMA ReachAdd ==
  ASSUME NEW K \in SUBSET Node, \A x \in K : next[x] # NONE => next[x] \in K,
         NEW d \in Entry, d \notin K, NEW b \in Node, NONE \notin Entry,
         \A q \in Node : next'[q] = IF q = b THEN d ELSE IF q = d THEN next[b] ELSE next[q],
         NEW p \in K, NEW e \in Reach(p), b # d
  PROVE  e \in Reach(p)'
<1>1. ASSUME NEW S \in SUBSET Node, p \in S, \A y \in S : next'[y] # NONE => next'[y] \in S
      PROVE  e \in S
  <2>1. \A y \in S \cap K : next[y] # NONE => next[y] \in S
    BY Zenon, <1>1 DEF Node
  <2>2. /\ S \cap K \in SUBSET Node /\ p \in S \cap K
        /\ \A y \in S \cap K : next[y] # NONE => next[y] \in S \cap K
    BY Zenon, <1>1, <2>1
  <2>3. e \in S \cap K
    BY Zenon, <2>2 DEF Reach
  <2> QED  BY Zenon, <2>3
<1> QED  BY Zenon, <1>1 DEF Reach

(* hash_del_rcu lets the pointer to d skip it: everything else stays       *)
(* reached, from d as well.                                                *)
LEMMA ReachDel ==
  ASSUME NEW d \in Entry, NEW k \in Node, next[k] = d,
         \A q \in Node : next'[q] = IF q = k THEN next[d] ELSE next[q],
         NEW p \in Node, NEW e \in Reach(p), e # d
  PROVE  e \in Reach(p)'
<1>1. ASSUME NEW S \in SUBSET Node, p \in S, \A y \in S : next'[y] # NONE => next'[y] \in S
      PROVE  e \in S
  <2> DEFINE T == IF k \in S THEN S \cup {d} ELSE S
  <2>1. T \in SUBSET Node /\ p \in T
    BY Zenon, <1>1 DEF Node
  <2>2. \A y \in T : next[y] # NONE => next[y] \in T
    BY Zenon, <1>1 DEF Node
  <2>3. e \in T
    <3> HIDE DEF T
    <3> QED  BY Zenon, <2>1, <2>2 DEF Reach
  <2> QED  BY Zenon, <2>3
<1> QED  BY Zenon, <1>1 DEF Reach

(* Every change of the table shows itself to the running hooks, and to no  *)
(* hook that has done its work.                                            *)
LEMMA Witnessed ==
  ASSUME Types, Witness, skb' = skb
  PROVE  /\ seen' \in [Cpu -> SUBSET BOOLEAN]
         /\ \A c \in Cpu : seen[c] \subseteq seen'[c]
         /\ \A c \in Cpu : at[c] \in {"idle", "return"} => seen'[c] = seen[c]
         /\ \A c \in Cpu : at[c] \in {"advance", "visit", "parse"} =>
              /\ Monitored(skb[c].uid)' => TRUE \in seen'[c]
              /\ ~Monitored(skb[c].uid)' => FALSE \in seen'[c]
<1>1. \A c \in Cpu : Monitored(skb[c].uid)' \in BOOLEAN
  BY Zenon DEF Monitored
<1>2. ASSUME NEW c \in Cpu
      PROVE  /\ at[c] \in {"idle", "return"} => seen'[c] = seen[c]
             /\ at[c] \notin {"idle", "return"} => seen'[c] = seen[c] \cup {Monitored(skb[c].uid)'}
  BY Zenon, <1>2 DEF Witness
<1>3. \A c \in Cpu : at[c] \in {"advance", "visit", "parse"} => at[c] \notin {"idle", "return"}
  BY Zenon
<1>4. ASSUME NEW c \in Cpu, at[c] \in {"advance", "visit", "parse"}
      PROVE  /\ Monitored(skb[c].uid)' => TRUE \in seen'[c]
             /\ ~Monitored(skb[c].uid)' => FALSE \in seen'[c]
  <2>1. seen'[c] = seen[c] \cup {Monitored(skb[c].uid)'}
    BY Zenon, <1>2, <1>3, <1>4
  <2> HIDE DEF Monitored
  <2>2. Monitored(skb[c].uid)' = TRUE \/ Monitored(skb[c].uid)' = FALSE
    BY Zenon, <1>1
  <2> QED  BY Zenon, <2>1, <2>2
<1>5. seen' \in [Cpu -> SUBSET BOOLEAN]
  <2>1. \A c \in Cpu : seen[c] \in SUBSET BOOLEAN
    BY Zenon DEF Types
  <2> QED  BY Zenon, <1>1, <2>1 DEF Witness
<1> QED  BY Zenon, <1>2, <1>4, <1>5

(* What may still be met by the walk of c, and by a walk that begins.      *)
KeptBy(c) == Bucket \cup {x \in Entry : Kept(c, x)}
LiveNodes == Bucket \cup {x \in Entry : mem[x] = "linked"}

(* No pointer leads out of what is kept for a walk, or out of the lists.   *)
LEMMA KeptClosed ==
  ASSUME Types, Lists, Walks
  PROVE  /\ \A c \in InRcu : /\ pos[c] \in KeptBy(c) /\ KeptBy(c) \in SUBSET Node
                             /\ \A x \in KeptBy(c) : next[x] # NONE => next[x] \in KeptBy(c)
         /\ LiveNodes \in SUBSET Node
         /\ \A x \in LiveNodes : next[x] # NONE => next[x] \in LiveNodes
<1>1. \A x \in Node : next[x] # NONE => next[x] \in Entry
  BY Zenon DEF Types
<1>2. \A x \in Node : Live(x) /\ next[x] # NONE => mem[next[x]] = "linked"
  BY Zenon DEF Lists
<1>3. ASSUME NEW c \in InRcu, NEW x \in KeptBy(c), next[x] # NONE  PROVE next[x] \in KeptBy(c)
  BY Zenon, <1>1, <1>2, <1>3 DEF KeptBy, Kept, Walks, Live, Node
<1>4. \A c \in InRcu : pos[c] \in KeptBy(c) /\ KeptBy(c) \in SUBSET Node
  BY Zenon DEF KeptBy, Walks, Node
<1>5. LiveNodes \in SUBSET Node /\ \A x \in LiveNodes : next[x] # NONE => next[x] \in LiveNodes
  BY Zenon, <1>1, <1>2 DEF LiveNodes, Live, Node
<1> QED  BY Zenon, <1>3, <1>4, <1>5

-----------------------------------------------------------------------------
(* The commands *)

(* rkx_add_net_uid links a free entry at the head of its bucket. No walk   *)
(* could come to that memory; a hook for the uid, which was not monitored, *)
(* need not find it.                                                       *)
LEMMA AddNInv ==
  ASSUME NInv, NEW u \in Uid, rkx_genl_monitor_net(u)
  PROVE  NInv'
<1> DEFINE b == Hash[u]
<1> USE DEF NInv
<1>1. b \in Bucket /\ NONE \notin Entry /\ Entry \cap Bucket = {}
  BY Zenon, TableAssumption
<1>2. PICK d \in Entry : /\ mem[d] = "free"
                        /\ mem' = [mem EXCEPT ![d] = "linked"]
                        /\ uid' = [uid EXCEPT ![d] = u]
                        /\ next' = [next EXCEPT ![d] = next[b], ![b] = d]
  BY Zenon DEF rkx_genl_monitor_net, rkx_add_net_uid
<1>3. /\ ~Monitored(u) /\ mod \in {"family", "hooked", "unhooking"} /\ Witness
      /\ UNCHANGED <<grace, mod, at, skb, pos, event>>
  BY Zenon DEF rkx_genl_monitor_net, rkx_add_net_uid, rkx_netlink_ready, hookVars
<1>4. d \in Node /\ b \in Node /\ d # b /\ ~Live(d) /\ Live(b) /\ Home(b) = b
  BY Zenon, <1>1, <1>2 DEF Node, Live, Home
<1>5. \A q \in Node : next'[q] = IF q = b THEN d ELSE IF q = d THEN next[b] ELSE next[q]
  BY Zenon, <1>2, <1>4 DEF Types
<1>6. \A x \in Entry : /\ mem'[x] = IF x = d THEN "linked" ELSE mem[x]
                       /\ uid'[x] = IF x = d THEN u ELSE uid[x]
  BY Zenon, <1>2 DEF Types
<1>7. b = Hash[u]
  BY Zenon
<1> HIDE DEF b
<1>8. /\ seen' \in [Cpu -> SUBSET BOOLEAN]
      /\ \A c \in Cpu : seen[c] \subseteq seen'[c]
      /\ \A c \in Cpu : at[c] \in {"idle", "return"} => seen'[c] = seen[c]
      /\ \A c \in Cpu : at[c] \in {"advance", "visit", "parse"} =>
           /\ Monitored(skb[c].uid)' => TRUE \in seen'[c]
           /\ ~Monitored(skb[c].uid)' => FALSE \in seen'[c]
  BY Zenon, <1>3, Witnessed
<1>9. Types'
  BY Zenon, <1>2, <1>3, <1>4, <1>8 DEF Types
<1>10. /\ \A q \in Node : Live(q)' <=> Live(q) \/ q = d
       /\ \A q \in Node : Home(q)' = IF q = d THEN b ELSE Home(q)
  BY Zenon, <1>1, <1>4, <1>6, <1>7 DEF Live, Home, Node
<1>11. \A q \in Node : next[q] \in Entry \cup {NONE} /\ next'[q] \in Entry \cup {NONE}
  BY Zenon, <1>9 DEF Types
<1>12. \A q \in Node : Live(q) => next[q] # d
  BY Zenon, <1>1, <1>2 DEF Lists
<1>13. \A x \in Entry : mem[x] = "linked" => uid[x] # u
  BY Zenon, <1>3 DEF Monitored, Linked
<1>14. Lists'
  <2>1. ASSUME NEW q \in Node, Live(q)', next'[q] # NONE
        PROVE  mem'[next'[q]] = "linked" /\ Home(next[q])' = Home(q)'
    <3>1. CASE q = b
      BY Zenon, <1>4, <1>5, <1>6, <1>10, <3>1
    <3>2. CASE q = d
      <4>1. next'[q] = next[b] /\ next[b] # NONE /\ next[b] \in Entry
        BY Zenon, <1>4, <1>5, <1>11, <2>1, <3>2
      <4>2. mem[next[b]] = "linked" /\ Home(next[b]) = b
        BY Zenon, <1>4, <4>1 DEF Lists
      <4>3. next[b] # d /\ next[b] \in Node
        BY Zenon, <1>4, <1>12, <4>1 DEF Node
      <4> QED  BY Zenon, <1>6, <1>10, <3>2, <4>1, <4>2, <4>3
    <3>3. CASE q # b /\ q # d
      <4>1. next'[q] = next[q] /\ next[q] \in Entry /\ Live(q)
        BY Zenon, <1>5, <1>10, <1>11, <2>1, <3>3
      <4>2. mem[next[q]] = "linked" /\ Home(next[q]) = Home(q) /\ next[q] # d /\ next[q] \in Node
        BY Zenon, <1>12, <2>1, <4>1 DEF Lists, Node
      <4> QED  BY Zenon, <1>6, <1>10, <3>3, <4>1, <4>2
    <3> QED  BY Zenon, <3>1, <3>2, <3>3
  <2>2. ASSUME NEW q \in Node, NEW t \in Node, Live(q)', Live(t)', next'[q] # NONE,
               next'[q] = next'[t]
        PROVE  q = t
    BY <1>4, <1>5, <1>10, <1>12, <2>2 DEF Lists
  <2>3. ASSUME NEW x \in Entry, mem'[x] = "linked"
        PROVE  \E q \in Node : Live(q)' /\ next'[q] = x
    <3>1. CASE x = d
      BY Zenon, <1>4, <1>5, <1>10, <3>1
    <3>2. CASE x # d
      <4>1. PICK q \in Node : Live(q) /\ next[q] = x
        BY Zenon, <1>6, <2>3, <3>2 DEF Lists
      <4>2. q # d
        BY Zenon, <1>4, <4>1
      <4> QED  BY Zenon, <1>4, <1>5, <1>10, <4>1, <4>2
    <3> QED  BY Zenon, <3>1, <3>2
  <2>4. \A x \in Entry : mem'[x] = "linked" => uid'[x] \in Uid
    BY Zenon, <1>6 DEF Lists
  <2>5. \A x, y \in Entry : mem'[x] = "linked" /\ mem'[y] = "linked" /\ uid'[x] = uid'[y] => x = y
    BY <1>6, <1>13 DEF Lists
  <2> QED  BY Zenon, <2>1, <2>2, <2>3, <2>4, <2>5 DEF Lists
<1>15. Reached'
  <2>1. ASSUME NEW x \in Entry, mem'[x] = "linked"  PROVE x \in Reach(Home(x))'
    <3>1. CASE x = d
      <4>1. Home(x)' = b /\ next'[b] = x
        BY Zenon, <1>4, <1>5, <1>10, <3>1
      <4>2. \A S \in SUBSET Node : b \in S /\ (\A y \in S : next'[y] # NONE => next'[y] \in S) => x \in S
        BY Zenon, <1>1, <4>1
      <4> QED  BY Zenon, <1>4, <3>1, <4>1, <4>2 DEF Reach
    <3>2. CASE x # d
      <4>1. mem[x] = "linked" /\ Home(x)' = Home(x) /\ x \in Reach(Home(x)) /\ uid[x] \in Uid
        BY Zenon, <1>6, <1>10, <2>1, <3>2 DEF Reached, Node, Lists
      <4>2. Home(x) \in LiveNodes /\ d \notin LiveNodes
        BY Zenon, <1>1, <1>2, <4>1, TableAssumption DEF LiveNodes, Home
      <4>3. x \in Reach(Home(x)) => \A p : p = Home(x) => x \in Reach(p)'
        BY <1>1, <1>4, <1>5, <4>2, KeptClosed, ReachAdd
      <4> QED  BY Zenon, <4>1, <4>3
    <3> QED  BY Zenon, <3>1, <3>2
  <2> QED  BY Zenon, <2>1 DEF Reached
<1>16. Phases'
  BY Zenon, <1>3 DEF Phases
<1>17. InRcu' = InRcu /\ InRcu \subseteq Cpu
  BY Zenon, <1>3 DEF InRcu
<1>18. \A c \in InRcu, x \in Entry : Kept(c, x)' <=> Kept(c, x) \/ x = d
  BY Zenon, <1>2, <1>3, <1>6 DEF Kept
<1>19. Walks'
  <2>1. \A x \in Entry : mem'[x] = "zombie" => (grace[x] \subseteq InRcu)'
    BY Zenon, <1>3, <1>6, <1>17 DEF Walks
  <2>2. ASSUME NEW c \in InRcu, NEW x \in Entry, Kept(c, x)', next'[x] # NONE
        PROVE  Kept(c, next[x])'
    <3>1. x \in Node /\ x # b /\ next'[x] \in Entry
      BY Zenon, <1>1, <1>4, <1>11, <2>2 DEF Node
    <3>2. CASE x = d
      <4>1. mem[next[b]] = "linked" /\ next'[x] = next[b]
        BY Zenon, <1>4, <1>5, <2>2, <3>1, <3>2 DEF Lists
      <4> QED  BY Zenon, <1>18, <3>1, <4>1 DEF Kept
    <3>3. CASE x # d
      BY Zenon, <1>5, <1>18, <2>2, <3>1, <3>3 DEF Walks
    <3> QED  BY Zenon, <3>2, <3>3
  <2>3. ASSUME NEW c \in InRcu
        PROVE  (/\ pos[c] \in Bucket \/ (pos[c] \in Entry /\ Kept(c, pos[c]))
                /\ at[c] = "visit" => pos[c] \in Entry)'
    BY Zenon, <1>3, <1>18, <2>3 DEF Walks
  <2> QED  BY Zenon, <1>17, <2>1, <2>2, <2>3 DEF Walks
<1>20. Seen'
  <2> SUFFICES ASSUME NEW c \in Cpu, at[c] \in {"advance", "visit", "parse"}
               PROVE  (/\ skb[c] \in Packet /\ skb[c].uid >= RKX_MIN_APP_UID /\ event[c] = NONE
                       /\ ~Monitored(skb[c].uid) => FALSE \in seen[c]
                       /\ \A e \in Entry : c \in InRcu /\ Kept(c, e) /\ uid[e] = skb[c].uid => TRUE \in seen[c]
                       /\ at[c] = "parse" => TRUE \in seen[c])'
    BY Zenon, <1>3 DEF Seen
  <2>1. (skb[c] \in Packet /\ skb[c].uid >= RKX_MIN_APP_UID /\ event[c] = NONE)'
    BY Zenon, <1>3 DEF Seen
  <2>2. at[c] = "parse" => TRUE \in seen'[c]
    BY Zenon, <1>8 DEF Seen
  <2>3. ASSUME NEW e \in Entry, c \in InRcu, Kept(c, e)', uid'[e] = skb[c].uid
        PROVE  TRUE \in seen'[c]
    <3>1. CASE e = d
      <4>1. Monitored(skb[c].uid)'
        BY Zenon, <1>3, <1>6, <2>3, <3>1 DEF Monitored, Linked
      <4> QED  BY Zenon, <1>8, <4>1
    <3>2. CASE e # d
      BY Zenon, <1>6, <1>8, <1>18, <2>3, <3>2 DEF Seen
    <3> QED  BY Zenon, <3>1, <3>2
  <2> QED  BY Zenon, <1>3, <1>8, <1>17, <2>1, <2>2, <2>3
<1>21. Ahead'
  <2> SUFFICES ASSUME NEW c \in InRcu, NEW e \in Entry, mem'[e] = "linked", uid'[e] = skb[c].uid,
                      FALSE \notin seen'[c]
               PROVE  (e \in Reach(pos[c]))' /\ (at[c] = "advance" => e # pos[c])
    BY Zenon, <1>3, <1>17 DEF Ahead
  <2>1. c \in Cpu /\ at[c] \in {"advance", "visit", "parse"} /\ FALSE \notin seen[c]
    BY Zenon, <1>8 DEF InRcu
  <2>2. Monitored(skb[c].uid)
    BY Zenon, <2>1 DEF Seen
  <2>3. e # d
    BY Zenon, <1>3, <1>6, <2>2
  <2>4. e \in Reach(pos[c]) /\ (at[c] = "advance" => e # pos[c])
    BY Zenon, <1>6, <2>1, <2>3 DEF Ahead
  <2>5. d \notin KeptBy(c)
    BY Zenon, <1>1, <1>2 DEF KeptBy, Kept
  <2>6. \A p : p = pos[c] => e \in Reach(p)'
    BY <1>1, <1>4, <1>5, <2>4, <2>5, KeptClosed, ReachAdd
  <2> QED  BY Zenon, <1>3, <2>4, <2>6
<1>22. Returned'
  BY Zenon, <1>3, <1>8 DEF Returned
<1> QED  BY Zenon, <1>9, <1>14, <1>15, <1>16, <1>19, <1>20, <1>21, <1>22

(* rkx_del_net_uid takes the entry out of its list and leaves it to        *)
(* kfree_rcu, which waits for the walks that may stand on it. Every other  *)
(* linked entry stays ahead of the walks that have it ahead.               *)
LEMMA DelNInv ==
  ASSUME NInv, NEW u \in Uid, rkx_genl_del_monitor_net(u)
  PROVE  NInv'
<1> USE DEF NInv
<1>1. PICK d \in Linked(u) : /\ next' = hash_del_rcu(d)
                            /\ mem' = [mem EXCEPT ![d] = "zombie"]
                            /\ grace' = [grace EXCEPT ![d] = InRcu]
  BY Zenon DEF rkx_genl_del_monitor_net, rkx_del_net_uid, kfree_rcu_waits_for
<1>2. /\ mod \in {"family", "hooked", "unhooking"} /\ Witness
      /\ UNCHANGED <<uid, mod, at, skb, pos, event>>
  BY Zenon DEF rkx_genl_del_monitor_net, rkx_del_net_uid, rkx_netlink_ready, hookVars
<1>3. d \in Entry /\ d \in Node /\ mem[d] = "linked" /\ uid[d] = u
  BY Zenon DEF Linked, Node
<1>4. NONE \notin Entry /\ Entry \cap Bucket = {}
  BY Zenon, TableAssumption
<1> DEFINE k == CHOOSE p \in Node : next[p] = d /\ (p \in Bucket \/ mem[p] = "linked")
<1>5. k \in Node /\ next[k] = d /\ Live(k)
  <2>1. \E q \in Node : next[q] = d /\ (q \in Bucket \/ mem[q] = "linked")
    BY Zenon, <1>3 DEF Lists, Live
  <2> QED  BY Zenon, <2>1 DEF Live
<1>6. next' = [next EXCEPT ![k] = next[d]]
  BY Zenon, <1>1 DEF hash_del_rcu
<1> HIDE DEF k
<1>7. \A q \in Node : next'[q] = IF q = k THEN next[d] ELSE next[q]
  BY Zenon, <1>5, <1>6 DEF Types
<1>8. \A x \in Entry : /\ mem'[x] = IF x = d THEN "zombie" ELSE mem[x]
                       /\ grace'[x] = IF x = d THEN InRcu ELSE grace[x]
  BY Zenon, <1>1, <1>3 DEF Types
<1>9. /\ seen' \in [Cpu -> SUBSET BOOLEAN]
      /\ \A c \in Cpu : seen[c] \subseteq seen'[c]
      /\ \A c \in Cpu : at[c] \in {"idle", "return"} => seen'[c] = seen[c]
      /\ \A c \in Cpu : at[c] \in {"advance", "visit", "parse"} =>
           /\ Monitored(skb[c].uid)' => TRUE \in seen'[c]
           /\ ~Monitored(skb[c].uid)' => FALSE \in seen'[c]
  BY Zenon, <1>2, Witnessed
<1>10. InRcu' = InRcu /\ InRcu \subseteq Cpu
  BY Zenon, <1>2 DEF InRcu
<1>11. Types'
  BY <1>1, <1>2, <1>3, <1>5, <1>6, <1>9, <1>10 DEF Types
<1>12. /\ \A q \in Node : Live(q)' <=> Live(q) /\ q # d
       /\ \A q \in Node : Home(q)' = Home(q)
  BY Zenon, <1>2, <1>3, <1>4, <1>8 DEF Live, Home, Node
<1>13. \A q \in Node : next[q] \in Entry \cup {NONE} /\ next'[q] \in Entry \cup {NONE}
  BY Zenon, <1>11 DEF Types
<1>14. \A q \in Node : Live(q) /\ next[q] = d => q = k
  BY Zenon, <1>3, <1>4, <1>5 DEF Lists
<1>15. next[d] # NONE => mem[next[d]] = "linked" /\ Home(next[d]) = Home(d)
  BY Zenon, <1>3 DEF Lists, Live
<1>16. Home(d) = Home(k)
  BY Zenon, <1>3, <1>4, <1>5 DEF Lists
<1>17. Lists'
  <2>1. ASSUME NEW q \in Node, Live(q)', next'[q] # NONE
        PROVE  mem'[next'[q]] = "linked" /\ Home(next[q])' = Home(q)'
    <3>1. next'[q] \in Entry /\ next'[q] \in Node
      BY Zenon, <1>13, <2>1 DEF Node
    <3>2. CASE q = k
      <4>1. next'[q] = next[d] /\ next[d] # NONE
        BY Zenon, <1>7, <2>1, <3>2
      <4>2. next[d] # d
        BY Zenon, <1>3, <1>12, <1>14, <2>1, <3>2 DEF Live
      <4> QED  BY Zenon, <1>8, <1>12, <1>15, <1>16, <3>1, <3>2, <4>1, <4>2
    <3>3. CASE q # k
      <4>1. next'[q] = next[q] /\ Live(q) /\ next[q] # d
        BY Zenon, <1>7, <1>12, <1>14, <2>1, <3>3
      <4> QED  BY <1>8, <1>12, <2>1, <3>1, <4>1 DEF Lists
    <3> QED  BY Zenon, <3>2, <3>3
  <2>2. ASSUME NEW q \in Node, NEW t \in Node, Live(q)', Live(t)', next'[q] # NONE,
               next'[q] = next'[t]
        PROVE  q = t
    BY <1>3, <1>7, <1>12, <2>2 DEF Lists, Live
  <2>3. ASSUME NEW x \in Entry, mem'[x] = "linked"
        PROVE  \E q \in Node : Live(q)' /\ next'[q] = x
    <3>1. x # d /\ mem[x] = "linked"
      BY Zenon, <1>8, <2>3
    <3>2. PICK q \in Node : Live(q) /\ next[q] = x
      BY Zenon, <3>1 DEF Lists
    <3>3. CASE q = d
      BY Zenon, <1>5, <1>7, <1>12, <3>1, <3>2, <3>3
    <3>4. CASE q # d
      BY Zenon, <1>5, <1>7, <1>12, <3>1, <3>2, <3>4
    <3> QED  BY Zenon, <3>3, <3>4
  <2>4. \A x \in Entry : mem'[x] = "linked" => uid'[x] \in Uid
    BY Zenon, <1>2, <1>8 DEF Lists
  <2>5. \A x, y \in Entry : mem'[x] = "linked" /\ mem'[y] = "linked" /\ uid'[x] = uid'[y] => x = y
    BY <1>2, <1>8 DEF Lists
  <2> QED  BY Zenon, <2>1, <2>2, <2>3, <2>4, <2>5 DEF Lists
<1>18. ASSUME NEW p \in Node, NEW e \in Reach(p), e # d  PROVE e \in Reach(p)'
  BY Zenon, <1>3, <1>5, <1>7, <1>18, ReachDel
<1>19. Reached'
  <2>1. ASSUME NEW x \in Entry, mem'[x] = "linked"  PROVE x \in Reach(Home(x))'
    <3>1. x # d /\ mem[x] = "linked" /\ x \in Reach(Home(x)) /\ Home(x)' = Home(x)
      BY Zenon, <1>8, <1>12, <2>1 DEF Reached, Node
    <3>2. Home(x) \in Node
      BY Zenon, <3>1, TableAssumption DEF Lists, Home, Node
    <3>3. \A p \in Node : p = Home(x) => x \in Reach(p)'
      BY Zenon, <1>18, <3>1
    <3> QED  BY Zenon, <3>1, <3>2, <3>3
  <2> QED  BY Zenon, <2>1 DEF Reached
<1>20. Phases'
  BY Zenon, <1>2 DEF Phases
<1>21. \A c \in InRcu, x \in Entry : Kept(c, x)' <=> Kept(c, x)
  BY Zenon, <1>3, <1>8 DEF Kept
<1>22. Walks'
  <2>1. \A x \in Entry : mem'[x] = "zombie" => (grace[x] \subseteq InRcu)'
    BY Zenon, <1>8, <1>10 DEF Walks
  <2>2. ASSUME NEW c \in InRcu, NEW x \in Entry, Kept(c, x)', next'[x] # NONE
        PROVE  Kept(c, next[x])'
    <3>1. x \in Node /\ next'[x] \in Entry /\ Kept(c, x) /\ Kept(c, d)
      BY Zenon, <1>3, <1>13, <1>21, <2>2 DEF Node, Kept
    <3>2. next'[x] = next[x] \/ next'[x] = next[d]
      BY Zenon, <1>7, <3>1
    <3>3. Kept(c, next'[x])
      BY Zenon, <1>3, <2>2, <3>1, <3>2 DEF Walks
    <3> QED  BY Zenon, <1>21, <3>1, <3>3
  <2>3. ASSUME NEW c \in InRcu
        PROVE  (/\ pos[c] \in Bucket \/ (pos[c] \in Entry /\ Kept(c, pos[c]))
                /\ at[c] = "visit" => pos[c] \in Entry)'
    BY Zenon, <1>2, <1>21, <2>3 DEF Walks
  <2> QED  BY Zenon, <1>10, <2>1, <2>2, <2>3 DEF Walks
<1>23. Seen'
  <2> SUFFICES ASSUME NEW c \in Cpu, at[c] \in {"advance", "visit", "parse"}
               PROVE  (/\ skb[c] \in Packet /\ skb[c].uid >= RKX_MIN_APP_UID /\ event[c] = NONE
                       /\ ~Monitored(skb[c].uid) => FALSE \in seen[c]
                       /\ \A e \in Entry : c \in InRcu /\ Kept(c, e) /\ uid[e] = skb[c].uid => TRUE \in seen[c]
                       /\ at[c] = "parse" => TRUE \in seen[c])'
    BY Zenon, <1>2 DEF Seen
  <2>1. (skb[c] \in Packet /\ skb[c].uid >= RKX_MIN_APP_UID /\ event[c] = NONE)'
    BY Zenon, <1>2 DEF Seen
  <2>2. at[c] = "parse" => TRUE \in seen'[c]
    BY Zenon, <1>9 DEF Seen
  <2>3. ASSUME NEW e \in Entry, c \in InRcu, Kept(c, e)', uid'[e] = skb[c].uid
        PROVE  TRUE \in seen'[c]
    BY Zenon, <1>2, <1>9, <1>21, <2>3 DEF Seen
  <2> QED  BY Zenon, <1>2, <1>9, <1>10, <2>1, <2>2, <2>3
<1>24. Ahead'
  <2> SUFFICES ASSUME NEW c \in InRcu, NEW e \in Entry, mem'[e] = "linked", uid'[e] = skb[c].uid,
                      FALSE \notin seen'[c]
               PROVE  (e \in Reach(pos[c]))' /\ (at[c] = "advance" => e # pos[c])
    BY Zenon, <1>2, <1>10 DEF Ahead
  <2>1. e # d /\ e \in Reach(pos[c]) /\ (at[c] = "advance" => e # pos[c])
    BY Zenon, <1>2, <1>8, <1>9, <1>10 DEF Ahead
  <2>2. pos[c] \in Node
    BY Zenon DEF Walks, Node
  <2>3. \A p \in Node : p = pos[c] => e \in Reach(p)'
    BY Zenon, <1>18, <2>1
  <2> QED  BY Zenon, <1>2, <2>1, <2>2, <2>3
<1>25. Returned'
  BY Zenon, <1>2, <1>9 DEF Returned
<1> QED  BY Zenon, <1>11, <1>17, <1>19, <1>20, <1>22, <1>23, <1>24, <1>25

(* RcuReclaim frees an entry that is kept for no walk, so no walk and no   *)
(* list leads to it.                                                       *)
LEMMA ReclaimNInv ==
  ASSUME NInv, NEW d \in Entry, RcuReclaim(d)
  PROVE  NInv'
<1> USE DEF NInv
<1>1. mem[d] = "zombie" /\ grace[d] = {}
  BY Zenon DEF RcuReclaim
<1>2. /\ mem' = [mem EXCEPT ![d] = "free"] /\ uid' = [uid EXCEPT ![d] = NONE]
      /\ next' = [next EXCEPT ![d] = NONE] /\ UNCHANGED <<grace, mod, at, skb, pos, event, seen>>
  BY Zenon DEF RcuReclaim, hookVars
<1>3. d \in Node /\ NONE \notin Entry /\ Entry \cap Bucket = {}
  BY Zenon, TableAssumption DEF Node
<1>4. \A q \in Node : /\ next'[q] = IF q = d THEN NONE ELSE next[q]
                      /\ next[q] \in Entry \cup {NONE}
  BY Zenon, <1>2, <1>3 DEF Types
<1>5. \A x \in Entry : /\ mem'[x] = IF x = d THEN "free" ELSE mem[x]
                       /\ uid'[x] = IF x = d THEN NONE ELSE uid[x]
  BY Zenon, <1>2 DEF Types
<1>6. Types'
  BY Zenon, <1>2, <1>3 DEF Types
<1>7. /\ \A q \in Node : Live(q)' <=> Live(q)
      /\ ~Live(d) /\ \A q \in Node : q # d => Home(q)' = Home(q)
  BY Zenon, <1>1, <1>3, <1>5 DEF Live, Home, Node
<1>8. \A x \in Entry : mem'[x] = "linked" <=> mem[x] = "linked" /\ x # d
  BY Zenon, <1>1, <1>5
<1>9. Lists'
  <2>1. ASSUME NEW q \in Node, Live(q)', next'[q] # NONE
        PROVE  mem'[next'[q]] = "linked" /\ Home(next[q])' = Home(q)'
    <3>1. Live(q) /\ q # d /\ next'[q] = next[q] /\ next[q] \in Entry /\ next[q] \in Node
      BY Zenon, <1>4, <1>7, <2>1 DEF Node
    <3>2. mem[next[q]] = "linked" /\ Home(next[q]) = Home(q)
      BY Zenon, <2>1, <3>1 DEF Lists
    <3>3. next[q] # d
      BY Zenon, <1>1, <3>2
    <3> QED  BY Zenon, <1>7, <1>8, <3>1, <3>2, <3>3
  <2>2. \A q \in Node : Live(q)' => next'[q] = next[q]
    BY Zenon, <1>4, <1>7
  <2>3. \A x \in Entry : mem'[x] = "linked" => uid'[x] = uid[x]
    BY Zenon, <1>5, <1>8
  <2>4. \A q, t \in Node : Live(q)' /\ Live(t)' /\ next'[q] # NONE /\ next'[q] = next'[t] => q = t
    BY <1>7, <2>2 DEF Lists
  <2>5. \A x \in Entry : mem'[x] = "linked" => \E q \in Node : Live(q)' /\ next'[q] = x
    BY Zenon, <1>7, <1>8, <2>2 DEF Lists
  <2>6. \A x \in Entry : mem'[x] = "linked" => uid'[x] \in Uid
    BY Zenon, <1>8, <2>3 DEF Lists
  <2>7. \A x, y \in Entry : mem'[x] = "linked" /\ mem'[y] = "linked" /\ uid'[x] = uid'[y] => x = y
    BY Zenon, <1>8, <2>3 DEF Lists
  <2> QED  BY Zenon, <2>1, <2>4, <2>5, <2>6, <2>7 DEF Lists
<1>10. Reached'
  <2>1. ASSUME NEW x \in Entry, mem'[x] = "linked"  PROVE x \in Reach(Home(x))'
    <3>1. mem[x] = "linked" /\ x # d /\ x \in Reach(Home(x)) /\ Home(x)' = Home(x)
      BY Zenon, <1>7, <1>8, <2>1 DEF Reached, Node
    <3>2. Home(x) \in LiveNodes
      BY Zenon, <3>1, TableAssumption DEF Lists, Home, LiveNodes
    <3>3. \A y \in LiveNodes : next'[y] = next[y]
      BY Zenon, <1>1, <1>3, <1>4 DEF LiveNodes, Node
    <3>4. \A p \in LiveNodes : p = Home(x) => x \in Reach(p)'
      BY Zenon, <3>1, <3>3, KeptClosed, ReachFrame
    <3> QED  BY Zenon, <3>1, <3>2, <3>4
  <2> QED  BY Zenon, <2>1 DEF Reached
<1>11. Phases'
  BY Zenon, <1>2, <1>8 DEF Phases
<1>12. InRcu' = InRcu /\ InRcu \subseteq Cpu /\ \A c \in InRcu : ~Kept(c, d)
  BY Zenon, <1>1, <1>2 DEF InRcu, Kept
<1>13. \A c \in InRcu, x \in Entry : Kept(c, x)' <=> Kept(c, x)
  BY <1>1, <1>2, <1>5 DEF Kept
<1>14. Walks'
  <2>1. \A x \in Entry : mem'[x] = "zombie" => (grace[x] \subseteq InRcu)'
    BY <1>2, <1>5, <1>12 DEF Walks
  <2>2. ASSUME NEW c \in InRcu, NEW x \in Entry, Kept(c, x)', next'[x] # NONE
        PROVE  Kept(c, next[x])'
    <3>1. x # d /\ Kept(c, x) /\ next'[x] = next[x] /\ next[x] \in Entry
      BY Zenon, <1>4, <1>12, <1>13, <2>2 DEF Node
    <3> QED  BY Zenon, <1>13, <2>2, <3>1 DEF Walks
  <2>3. ASSUME NEW c \in InRcu
        PROVE  (/\ pos[c] \in Bucket \/ (pos[c] \in Entry /\ Kept(c, pos[c]))
                /\ at[c] = "visit" => pos[c] \in Entry)'
    BY Zenon, <1>2, <1>13, <2>3 DEF Walks
  <2> QED  BY Zenon, <1>12, <2>1, <2>2, <2>3 DEF Walks
<1>15. \A v : Monitored(v)' <=> Monitored(v)
  <2>1. ASSUME NEW v  PROVE Linked(v)' = Linked(v)
    <3>1. \A x \in Entry : mem'[x] = "linked" /\ uid'[x] = v <=> mem[x] = "linked" /\ uid[x] = v
      BY Zenon, <1>1, <1>5, <1>8
    <3> QED  BY Zenon, <3>1 DEF Linked
  <2> QED  BY Zenon, <2>1 DEF Monitored
<1>16. Seen'
  <2> SUFFICES ASSUME NEW c \in Cpu, at[c] \in {"advance", "visit", "parse"}
               PROVE  (/\ skb[c] \in Packet /\ skb[c].uid >= RKX_MIN_APP_UID /\ event[c] = NONE
                       /\ ~Monitored(skb[c].uid) => FALSE \in seen[c]
                       /\ \A e \in Entry : c \in InRcu /\ Kept(c, e) /\ uid[e] = skb[c].uid => TRUE \in seen[c]
                       /\ at[c] = "parse" => TRUE \in seen[c])'
    BY Zenon, <1>2 DEF Seen
  <2>1. ~Monitored(skb[c].uid)' => FALSE \in seen[c]
    BY Zenon, <1>2, <1>15 DEF Seen
  <2>2. ASSUME NEW e \in Entry, c \in InRcu, Kept(c, e)', uid'[e] = skb[c].uid
        PROVE  TRUE \in seen[c]
    BY Zenon, <1>5, <1>12, <1>13, <2>2 DEF Seen
  <2> QED  BY Zenon, <1>2, <1>12, <2>1, <2>2 DEF Seen
<1>17. Ahead'
  <2> SUFFICES ASSUME NEW c \in InRcu, NEW e \in Entry, mem'[e] = "linked", uid'[e] = skb[c].uid,
                      FALSE \notin seen[c]
               PROVE  (e \in Reach(pos[c]))' /\ (at[c] = "advance" => e # pos[c])
    BY Zenon, <1>2, <1>12 DEF Ahead
  <2>1. e \in Reach(pos[c]) /\ (at[c] = "advance" => e # pos[c])
    BY Zenon, <1>5, <1>8 DEF Ahead
  <2>2. \A y \in KeptBy(c) : next'[y] = next[y]
    BY Zenon, <1>3, <1>4, <1>12 DEF KeptBy, Node
  <2>3. \A p \in KeptBy(c) : p = pos[c] => e \in Reach(p)'
    BY Zenon, <2>1, <2>2, KeptClosed, ReachFrame
  <2> QED  BY Zenon, <1>2, <2>1, <2>3, KeptClosed
<1>18. Returned'
  BY Zenon, <1>2 DEF Returned
<1> QED  BY Zenon, <1>6, <1>9, <1>10, <1>11, <1>14, <1>16, <1>17, <1>18

-----------------------------------------------------------------------------
(* Loading and unloading *)

(* Steps that only move mod: the hooks come after the table and go before  *)
(* it, and synchronize_rcu waits for those that run.                       *)
LEMMA ModNInv ==
  ASSUME NInv, rkx_register_netfilter \/ rkx_unregister_netfilter \/ rkx_unregister_genl
  PROVE  NInv'
<1>1. /\ UNCHANGED <<next, mem, uid, grace, at, skb, pos, event, seen>>
      /\ mod' \in {"hooked", "unhooking", "destroy"}
      /\ mod' = "destroy" => \A c \in Cpu : at[c] = "idle"
  BY Zenon DEF rkx_register_netfilter, rkx_unregister_netfilter, rkx_unregister_genl, ModStep,
         synchronize_rcu, tableVars, hookVars
<1>2. Types' /\ Lists' /\ Reached'
  BY <1>1 DEF NInv, Types, Lists, Reached, Live, Home, Reach
<1>3. InRcu' = InRcu /\ Walks'
  BY Zenon, <1>1 DEF NInv, Walks, Kept, InRcu
<1>4. Returned'
  BY Zenon, <1>1 DEF NInv, Returned
<1>5. Seen'
  BY Zenon, <1>1, <1>3 DEF NInv, Seen, Monitored, Linked, Kept
<1>6. Ahead'
  BY Zenon, <1>1, <1>3 DEF NInv, Ahead, Reach
<1>7. Phases'
  BY Zenon, <1>1 DEF Phases
<1> QED  BY Zenon, <1>2, <1>3, <1>4, <1>5, <1>6, <1>7 DEF NInv

(* rkx_destroy_net_uid and rkx_init_net_uid empty the buckets when no hook *)
(* runs; nothing stays linked.                                             *)
LEMMA EmptyNInv ==
  ASSUME NInv, rkx_destroy_net_uid \/ rkx_init_net_uid
  PROVE  NInv'
<1> USE DEF NInv
<1>1. /\ \A c \in Cpu : at[c] = "idle"
      /\ mod \in {"destroy", "absent"} /\ mod' \in {"absent", "family"}
      /\ next' = [p \in DOMAIN next |-> IF p \in Bucket THEN NONE ELSE next[p]]
      /\ UNCHANGED <<uid, at, skb, pos, event>>
  BY Zenon DEF rkx_destroy_net_uid, rkx_init_net_uid, ModStep, hookVars, Phases
<1>2. InRcu = {} /\ InRcu' = {}
  BY Zenon, <1>1 DEF InRcu
<1>3. /\ mem' \in [Entry -> {"free", "linked", "zombie"}] /\ grace' \in [Entry -> SUBSET Cpu]
      /\ \A e \in Entry : mem'[e] # "linked"
      /\ \A e \in Entry : mem'[e] = "zombie" => grace'[e] \subseteq {}
  <2>1. CASE rkx_destroy_net_uid
    BY Zenon, <1>2, <2>1 DEF rkx_destroy_net_uid, kfree_rcu_waits_for, Types, Walks
  <2>2. CASE rkx_init_net_uid
    BY Zenon, <1>2, <2>2 DEF rkx_init_net_uid, ModStep, Types, Walks, Phases
  <2> QED  BY Zenon, <2>1, <2>2
<1>4. seen' \in [Cpu -> SUBSET BOOLEAN]
  <2>1. CASE rkx_destroy_net_uid
    BY Zenon, <1>1, <2>1, Witnessed DEF rkx_destroy_net_uid
  <2>2. CASE rkx_init_net_uid
    BY Zenon, <2>2 DEF rkx_init_net_uid, ModStep, Types
  <2> QED  BY Zenon, <2>1, <2>2
<1>5. next' \in [Node -> Entry \cup {NONE}] /\ \A b \in Bucket : next'[b] = NONE
  BY Zenon, <1>1 DEF Types, Node
<1>6. Types'
  BY Zenon, <1>1, <1>3, <1>4, <1>5 DEF Types
<1>7. Lists' /\ Reached'
  BY Zenon, <1>3, <1>5 DEF Lists, Reached, Live, Node
<1>8. Phases' /\ Walks'
  BY Zenon, <1>1, <1>2, <1>3 DEF Phases, Walks
<1>9. Seen' /\ Ahead'
  BY Zenon, <1>1, <1>2 DEF Seen, Ahead
<1>10. Returned'
  BY Zenon, <1>1 DEF Returned
<1> QED  BY Zenon, <1>6, <1>7, <1>8, <1>9, <1>10

-----------------------------------------------------------------------------
(* rkx_nf_local_in *)

(* The hook leaves the table alone.                                        *)
LEMMA TableKept ==
  ASSUME NInv, UNCHANGED <<next, mem, uid>>
  PROVE  /\ Lists' /\ Reached'
         /\ \A p : Reach(p)' = Reach(p)
         /\ \A v : Monitored(v)' <=> Monitored(v)
<1>1. \A p : Reach(p)' = Reach(p)
  BY Zenon DEF Reach
<1>2. \A v : Monitored(v)' <=> Monitored(v)
  BY Zenon DEF Monitored, Linked
<1>3. Lists'
  BY Zenon DEF NInv, Lists, Live, Home
<1>4. Reached'
  BY Zenon DEF NInv, Reached, Home, Reach
<1> QED  BY Zenon, <1>1, <1>2, <1>3, <1>4

(* A hook that begins. It is not waited for by any grace period, so it can *)
(* meet linked entries only; the entry of its uid, if there is one, is     *)
(* reached from its bucket.                                                *)
LEMMA EnterNInv ==
  ASSUME NInv, NEW c \in Cpu, NEW p \in Packet, NfEnter(c, p)
  PROVE  NInv'
<1> USE DEF NInv
<1>1. /\ mod = "hooked" /\ at[c] = "idle" /\ skb' = [skb EXCEPT ![c] = p]
      /\ seen' = [seen EXCEPT ![c] = {Monitored(p.uid)}]
      /\ UNCHANGED <<next, mem, uid, grace, mod, event>>
  BY Zenon DEF NfEnter, tableVars
<1>2. p.uid \in Nat /\ (p.uid >= RKX_MIN_APP_UID => p.uid \in Uid /\ Hash[p.uid] \in Bucket)
  BY PacketAssumption, TableAssumption
<1>3. \/ /\ p.uid < RKX_MIN_APP_UID /\ at' = [at EXCEPT ![c] = "return"] /\ pos' = pos
      \/ /\ p.uid >= RKX_MIN_APP_UID /\ at' = [at EXCEPT ![c] = "advance"]
         /\ pos' = [pos EXCEPT ![c] = Hash[p.uid]]
  BY <1>2 DEF NfEnter, Goto, RKX_MIN_APP_UID
<1>4. Monitored(p.uid) \in BOOLEAN
  BY Zenon DEF Monitored
<1>5. /\ seen' \in [Cpu -> SUBSET BOOLEAN]
      /\ seen'[c] = {Monitored(p.uid)} /\ \A o \in Cpu : o # c => seen'[o] = seen[o]
  BY Zenon, <1>1, <1>4 DEF Types
<1>6. Types'
  BY Zenon, <1>1, <1>2, <1>3, <1>5 DEF Types, Node
<1>7. \A o \in Cpu : o # c => at'[o] = at[o] /\ skb'[o] = skb[o] /\ pos'[o] = pos[o]
  BY Zenon, <1>1, <1>3 DEF Types
<1>8. skb'[c] = p /\ event[c] = NONE /\ c \notin InRcu
  BY Zenon, <1>1 DEF Types, Returned, InRcu
<1>9. /\ Lists' /\ Reached'
      /\ \A x : Reach(x)' = Reach(x)
      /\ \A v : Monitored(v)' <=> Monitored(v)
  BY Zenon, <1>1, TableKept
<1>10. Phases'
  BY Zenon, <1>1, <1>6, <1>7 DEF Phases
<1>11. \A o \in Cpu, e \in Entry : Kept(o, e)' <=> Kept(o, e)
  BY Zenon, <1>1 DEF Kept
<1>12. /\ \A o \in InRcu' : o \in Cpu /\ (o \in InRcu \/ (o = c /\ p.uid >= RKX_MIN_APP_UID))
       /\ InRcu \subseteq InRcu'
  BY Zenon, <1>1, <1>3, <1>7, <1>8 DEF InRcu, Types
<1>13. \A e \in Entry : Kept(c, e) => mem[e] = "linked"
  BY Zenon, <1>8 DEF Kept, Walks
<1>14. c \in InRcu' => p.uid >= RKX_MIN_APP_UID /\ at'[c] = "advance" /\ pos'[c] = Hash[p.uid]
  BY Zenon, <1>3 DEF Types, InRcu
<1>15. Walks'
  <2>1. \A e \in Entry : mem'[e] = "zombie" => (grace[e] \subseteq InRcu)'
    BY Zenon, <1>1, <1>12 DEF Walks
  <2>2. ASSUME NEW o \in InRcu'
        PROVE  (/\ pos[o] \in Bucket \/ (pos[o] \in Entry /\ Kept(o, pos[o]))
                /\ at[o] = "visit" => pos[o] \in Entry
                /\ \A e \in Entry : Kept(o, e) /\ next[e] # NONE => Kept(o, next[e]))'
    <3>1. \A e \in Entry : e \in Node /\ next[e] \in Entry \cup {NONE}
      BY Zenon DEF Types, Node
    <3>2. CASE o = c
      <4>1. pos'[c] \in Bucket /\ at'[c] # "visit"
        BY Zenon, <1>2, <1>14, <3>2
      <4>2. \A e \in Entry : Kept(c, e) /\ next[e] # NONE => Kept(c, next[e])
        BY Zenon, <1>13, <3>1 DEF Lists, Live, Kept
      <4> QED  BY Zenon, <1>1, <1>11, <3>1, <3>2, <4>1, <4>2
    <3>3. CASE o # c
      <4>1. o \in InRcu /\ o \in Cpu /\ at'[o] = at[o] /\ pos'[o] = pos[o]
        BY Zenon, <1>7, <1>12, <3>3
      <4> QED  BY Zenon, <1>1, <1>11, <3>1, <4>1 DEF Walks
    <3> QED  BY Zenon, <3>2, <3>3
  <2> QED  BY Zenon, <2>1, <2>2 DEF Walks
<1>16. Seen'
  <2> SUFFICES ASSUME NEW o \in Cpu, at'[o] \in {"advance", "visit", "parse"}
               PROVE  (/\ skb[o] \in Packet /\ skb[o].uid >= RKX_MIN_APP_UID /\ event[o] = NONE
                       /\ ~Monitored(skb[o].uid) => FALSE \in seen[o]
                       /\ \A e \in Entry : o \in InRcu /\ Kept(o, e) /\ uid[e] = skb[o].uid => TRUE \in seen[o]
                       /\ at[o] = "parse" => TRUE \in seen[o])'
    BY Zenon DEF Seen
  <2>1. CASE o = c
    <3>1. p.uid >= RKX_MIN_APP_UID /\ at'[c] = "advance"
      BY Zenon, <1>3, <2>1 DEF Types
    <3>2. ~Monitored(p.uid) => FALSE \in seen'[c]
      BY Zenon, <1>5, <1>4
    <3>3. Monitored(p.uid) => TRUE \in seen'[c]
      BY Zenon, <1>5, <1>4
    <3>4. \A e \in Entry : Kept(c, e) /\ uid[e] = p.uid => Monitored(p.uid)
      BY Zenon, <1>13 DEF Monitored, Linked
    <3>5. ~Monitored(skb[o].uid)' => FALSE \in seen'[o]
      BY Zenon, <1>8, <1>9, <2>1, <3>2
    <3>6. \A e \in Entry : Kept(o, e)' /\ uid'[e] = skb'[o].uid => TRUE \in seen'[o]
      BY Zenon, <1>1, <1>8, <1>11, <2>1, <3>3, <3>4
    <3> QED  BY Zenon, <1>1, <1>8, <2>1, <3>1, <3>5, <3>6
  <2>2. CASE o # c
    <3>1. /\ at'[o] = at[o] /\ skb'[o] = skb[o] /\ seen'[o] = seen[o] /\ event'[o] = event[o]
          /\ o \in InRcu' => o \in InRcu
      BY Zenon, <1>1, <1>5, <1>7, <1>12, <2>2
    <3>2. ~Monitored(skb[o].uid)' => FALSE \in seen'[o]
      BY Zenon, <1>9, <3>1 DEF Seen
    <3>3. \A e \in Entry : o \in InRcu' /\ Kept(o, e)' /\ uid'[e] = skb'[o].uid => TRUE \in seen'[o]
      BY Zenon, <1>1, <1>11, <3>1 DEF Seen
    <3> QED  BY Zenon, <3>1, <3>2, <3>3 DEF Seen
  <2> QED  BY Zenon, <2>1, <2>2
<1>17. Ahead'
  <2> SUFFICES ASSUME NEW o \in InRcu', NEW e \in Entry, mem[e] = "linked", uid[e] = skb'[o].uid,
                      FALSE \notin seen'[o]
               PROVE  (e \in Reach(pos[o]))' /\ (at'[o] = "advance" => e # pos'[o])
    BY Zenon, <1>1 DEF Ahead
  <2>1. CASE o = c
    <3>1. pos'[o] = Hash[uid[e]] /\ Hash[uid[e]] \in Bucket /\ Home(e) = Hash[uid[e]]
      BY Zenon, <1>2, <1>8, <1>14, <2>1, TableAssumption DEF Home
    <3>2. e \in Reach(pos'[o]) /\ e # pos'[o]
      BY Zenon, <3>1, TableAssumption DEF Reached
    <3> QED  BY Zenon, <1>9, <3>2
  <2>2. CASE o # c
    <3>1. o \in InRcu /\ pos'[o] = pos[o] /\ at'[o] = at[o] /\ seen'[o] = seen[o] /\ skb'[o] = skb[o]
      BY Zenon, <1>5, <1>7, <1>12, <2>2
    <3>2. e \in Reach(pos'[o])
      BY Zenon, <3>1 DEF Ahead
    <3> QED  BY Zenon, <1>9, <3>1, <3>2 DEF Ahead
  <2> QED  BY Zenon, <2>1, <2>2
<1>18. Returned'
  <2> SUFFICES ASSUME NEW o \in Cpu
               PROVE  (/\ event[o] # NONE => at[o] = "return"
                       /\ at[o] = "return" =>
                            /\ skb[o] \in Packet
                            /\ event[o] \notin {NONE, LOST} =>
                                 /\ TRUE \in seen[o] /\ skb[o].uid >= RKX_MIN_APP_UID /\ Parsed(skb[o])
                                 /\ event[o].target_uid = skb[o].uid /\ event[o].data_len = data_len(skb[o])
                            /\ event[o] = NONE =>
                                 FALSE \in seen[o] \/ skb[o].uid < RKX_MIN_APP_UID \/ ~Parsed(skb[o]))'
    BY Zenon DEF Returned
  <2>1. CASE o = c
    <3>1. at'[c] = "return" => p.uid < RKX_MIN_APP_UID
      BY Zenon, <1>3 DEF Types
    <3> QED  BY Zenon, <1>1, <1>8, <2>1, <3>1
  <2>2. CASE o # c
    <3>1. at'[o] = at[o] /\ skb'[o] = skb[o] /\ seen'[o] = seen[o] /\ event'[o] = event[o]
      BY Zenon, <1>1, <1>5, <1>7, <2>2
    <3> QED  BY Zenon, <3>1 DEF Returned
  <2> QED  BY Zenon, <2>1, <2>2
<1> QED  BY Zenon, <1>6, <1>9, <1>10, <1>15, <1>16, <1>17, <1>18

(* A walk that ends (rcu_read_unlock) is no longer waited for, and what is *)
(* kept for the others stays.                                              *)
LEMMA LeaveNInv ==
  ASSUME NInv, NEW c \in InRcu, NEW l \in {"return", "parse"}, Leave(c, l),
         UNCHANGED <<next, mem, uid, mod, skb, event, seen>>,
         l = "return" => FALSE \in seen[c],
         l = "parse" => TRUE \in seen[c]
  PROVE  NInv'
<1> USE DEF NInv
<1>1. /\ at' = [at EXCEPT ![c] = l] /\ pos' = [pos EXCEPT ![c] = NONE]
      /\ grace' = [e \in Entry |-> grace[e] \ {c}] /\ c \in Cpu
  BY Zenon DEF Leave, Goto, rcu_read_unlock, InRcu
<1>2. Types'
  BY Zenon, <1>1 DEF Types
<1>3. \A o \in Cpu : o # c => at'[o] = at[o] /\ pos'[o] = pos[o]
  BY Zenon, <1>1 DEF Types
<1>4. at'[c] = l /\ InRcu' = InRcu \ {c} /\ InRcu \subseteq Cpu
  BY Zenon, <1>1 DEF Types, InRcu
<1>5. /\ Lists' /\ Reached'
      /\ \A x : Reach(x)' = Reach(x)
      /\ \A v : Monitored(v)' <=> Monitored(v)
  BY Zenon, TableKept
<1>6. Phases'
  BY Zenon, <1>3 DEF Phases, InRcu
<1>7. \A o \in InRcu', e \in Entry : Kept(o, e)' <=> Kept(o, e)
  BY Zenon, <1>1, <1>4 DEF Kept
<1>8. \A e \in Entry : next[e] \in Entry \cup {NONE}
  BY Zenon DEF Types, Node
<1>9. Walks'
  <2>1. \A e \in Entry : mem'[e] = "zombie" => (grace[e] \subseteq InRcu)'
    BY Zenon, <1>1, <1>4 DEF Walks
  <2>2. ASSUME NEW o \in InRcu'
        PROVE  (/\ pos[o] \in Bucket \/ (pos[o] \in Entry /\ Kept(o, pos[o]))
                /\ at[o] = "visit" => pos[o] \in Entry
                /\ \A e \in Entry : Kept(o, e) /\ next[e] # NONE => Kept(o, next[e]))'
    <3>1. o \in InRcu /\ at'[o] = at[o] /\ pos'[o] = pos[o]
      BY Zenon, <1>3, <1>4
    <3> QED  BY Zenon, <1>7, <1>8, <3>1 DEF Walks
  <2> QED  BY Zenon, <2>1, <2>2 DEF Walks
<1>10. Seen'
  <2> SUFFICES ASSUME NEW o \in Cpu, at'[o] \in {"advance", "visit", "parse"}
               PROVE  (/\ skb[o] \in Packet /\ skb[o].uid >= RKX_MIN_APP_UID /\ event[o] = NONE
                       /\ ~Monitored(skb[o].uid) => FALSE \in seen[o]
                       /\ \A e \in Entry : o \in InRcu /\ Kept(o, e) /\ uid[e] = skb[o].uid => TRUE \in seen[o]
                       /\ at[o] = "parse" => TRUE \in seen[o])'
    BY Zenon DEF Seen
  <2>1. at[o] \in {"advance", "visit", "parse"} /\ (o = c => at'[o] = "parse" /\ TRUE \in seen[o])
    BY Zenon, <1>3, <1>4 DEF InRcu
  <2>2. ~Monitored(skb[o].uid)' => FALSE \in seen[o]
    BY Zenon, <1>5, <2>1 DEF Seen
  <2>3. \A e \in Entry : o \in InRcu' /\ Kept(o, e)' /\ uid[e] = skb[o].uid => TRUE \in seen[o]
    BY Zenon, <1>4, <1>7, <2>1 DEF Seen
  <2>4. at'[o] = "parse" => TRUE \in seen[o]
    BY Zenon, <1>3, <2>1 DEF Seen
  <2> QED  BY Zenon, <2>1, <2>2, <2>3, <2>4 DEF Seen
<1>11. Ahead'
  <2> SUFFICES ASSUME NEW o \in InRcu', NEW e \in Entry, mem[e] = "linked", uid[e] = skb[o].uid,
                      FALSE \notin seen[o]
               PROVE  (e \in Reach(pos[o]))' /\ (at'[o] = "advance" => e # pos'[o])
    BY Zenon DEF Ahead
  <2>1. o \in InRcu /\ at'[o] = at[o] /\ pos'[o] = pos[o]
    BY Zenon, <1>3, <1>4
  <2>2. e \in Reach(pos'[o])
    BY Zenon, <2>1 DEF Ahead
  <2> QED  BY Zenon, <1>5, <2>1, <2>2 DEF Ahead
<1>12. event[c] = NONE /\ skb[c] \in Packet
  BY Zenon DEF Seen, InRcu
<1>13. Returned'
  BY Zenon, <1>3, <1>4, <1>12 DEF Returned
<1> QED  BY Zenon, <1>2, <1>5, <1>6, <1>9, <1>10, <1>11, <1>13

(* A walk that goes on: to the next entry, or past one of another uid.     *)
LEMMA WalkNInv ==
  ASSUME NInv, NEW c \in Cpu, WalkAdvance(c) \/ WalkVisit(c)
  PROVE  NInv'
<1> USE DEF NInv
<1>1. c \in InRcu /\ pos[c] \in Node /\ UNCHANGED <<next, mem, uid, mod, skb, event, seen>>
  BY Zenon DEF WalkAdvance, WalkVisit, InRcu, Walks, Node
<1>2. skb[c] \in Packet /\ (Monitored(skb[c].uid) \/ FALSE \in seen[c])
  BY Zenon, <1>1 DEF Seen, InRcu
<1>3. ASSUME NEW e \in Linked(skb[c].uid), FALSE \notin seen[c]
      PROVE  e \in Reach(pos[c]) /\ (at[c] = "advance" => e # pos[c])
  BY Zenon, <1>1, <1>3 DEF Ahead, Linked
<1>4. CASE WalkAdvance(c) /\ next[pos[c]] = NONE
  <2>1. at[c] = "advance" /\ Leave(c, "return")
    BY Zenon, <1>4 DEF WalkAdvance
  <2>2. FALSE \in seen[c]
    <3> SUFFICES ASSUME FALSE \notin seen[c]  PROVE FALSE
      BY Zenon
    <3>1. PICK e : e \in Linked(skb[c].uid)
      BY Zenon, <1>2 DEF Monitored
    <3>2. e \in Reach(pos[c]) /\ e # pos[c]
      BY Zenon, <1>3, <2>1, <3>1
    <3> QED  BY Zenon, <1>1, <1>4, <3>2, ReachStep
  <2> QED  BY Zenon, <1>1, <2>1, <2>2, LeaveNInv
<1>5. CASE WalkVisit(c) /\ SameUid(pos[c], skb[c].uid)
  <2>1. at[c] = "visit" /\ Leave(c, "parse")
    BY Zenon, <1>5 DEF WalkVisit
  <2>2. pos[c] \in Entry /\ Kept(c, pos[c]) /\ uid[pos[c]] = skb[c].uid
    BY Zenon, <1>1, <1>5, <2>1, TableAssumption DEF Walks, SameUid
  <2>3. TRUE \in seen[c]
    BY Zenon, <1>1, <2>1, <2>2 DEF Seen
  <2> QED  BY Zenon, <1>1, <2>1, <2>3, LeaveNInv
<1>6. ASSUME NEW l \in {"visit", "advance"}, NEW x \in Node, grace' = grace,
             at' = [at EXCEPT ![c] = l], pos' = [pos EXCEPT ![c] = x],
             x \in Bucket \/ (x \in Entry /\ Kept(c, x)),
             l = "visit" => x \in Entry,
             \A e \in Linked(skb[c].uid) : FALSE \notin seen[c] =>
                e \in Reach(x) /\ (l = "advance" => e # x)
      PROVE  NInv'
  <2>1. Types'
    BY Zenon, <1>1, <1>6 DEF Types
  <2>2. \A o \in Cpu : o # c => at'[o] = at[o] /\ pos'[o] = pos[o]
    BY Zenon, <1>6 DEF Types
  <2>3. at'[c] = l /\ pos'[c] = x /\ InRcu' = InRcu /\ InRcu \subseteq Cpu
    BY Zenon, <1>1, <1>6 DEF Types, InRcu
  <2>4. /\ Lists' /\ Reached'
        /\ \A y : Reach(y)' = Reach(y)
        /\ \A v : Monitored(v)' <=> Monitored(v)
    BY Zenon, <1>1, TableKept
  <2>5. \A o \in Cpu : at[o] # "idle" <=> at'[o] # "idle"
    BY Zenon, <1>1, <2>2, <2>3 DEF InRcu
  <2>6. Phases'
    BY Zenon, <1>1, <2>5 DEF Phases
  <2>7. \A o \in Cpu, e \in Entry : Kept(o, e)' <=> Kept(o, e)
    BY Zenon, <1>1, <1>6 DEF Kept
  <2>8. \A e \in Entry : next[e] \in Entry \cup {NONE}
    BY Zenon DEF Types, Node
  <2>9. Walks'
    <3>1. \A e \in Entry : mem'[e] = "zombie" => (grace[e] \subseteq InRcu)'
      BY Zenon, <1>1, <1>6, <2>3 DEF Walks
    <3>2. ASSUME NEW o \in InRcu
          PROVE  (/\ pos[o] \in Bucket \/ (pos[o] \in Entry /\ Kept(o, pos[o]))
                  /\ at[o] = "visit" => pos[o] \in Entry)'
      <4>1. CASE o = c
        BY Zenon, <1>1, <1>6, <2>3, <2>7, <4>1
      <4>2. CASE o # c
        BY Zenon, <2>2, <2>3, <2>7, <4>2 DEF Walks
      <4> QED  BY Zenon, <4>1, <4>2
    <3>3. \A o \in InRcu, e \in Entry : Kept(o, e)' /\ next'[e] # NONE => Kept(o, next[e])'
      BY Zenon, <1>1, <2>3, <2>7, <2>8 DEF Walks
    <3> QED  BY Zenon, <2>3, <3>1, <3>2, <3>3 DEF Walks
  <2>10. Seen'
    <3> SUFFICES ASSUME NEW o \in Cpu, at'[o] \in {"advance", "visit", "parse"}
                 PROVE  (/\ skb[o] \in Packet /\ skb[o].uid >= RKX_MIN_APP_UID /\ event[o] = NONE
                         /\ ~Monitored(skb[o].uid) => FALSE \in seen[o]
                         /\ \A e \in Entry : o \in InRcu /\ Kept(o, e) /\ uid[e] = skb[o].uid => TRUE \in seen[o]
                         /\ at[o] = "parse" => TRUE \in seen[o])'
      BY Zenon DEF Seen
    <3>1. at[o] \in {"advance", "visit", "parse"} /\ (at'[o] = "parse" => at[o] = "parse")
      BY Zenon, <1>1, <2>2, <2>3 DEF InRcu
    <3>2. ~Monitored(skb[o].uid)' => FALSE \in seen[o]
      BY Zenon, <1>1, <2>4, <3>1 DEF Seen
    <3>3. \A e \in Entry : o \in InRcu' /\ Kept(o, e)' /\ uid[e] = skb[o].uid => TRUE \in seen[o]
      BY Zenon, <2>3, <2>7, <3>1 DEF Seen
    <3> QED  BY Zenon, <1>1, <3>1, <3>2, <3>3 DEF Seen
  <2>11. Ahead'
    <3> SUFFICES ASSUME NEW o \in InRcu, NEW e \in Entry, mem[e] = "linked", uid[e] = skb[o].uid,
                        FALSE \notin seen[o]
                 PROVE  (e \in Reach(pos[o]))' /\ (at'[o] = "advance" => e # pos'[o])
      BY Zenon, <1>1, <2>3 DEF Ahead
    <3>1. CASE o = c
      <4>1. e \in Linked(skb[c].uid)
        BY Zenon, <3>1 DEF Linked
      <4>2. e \in Reach(pos'[o]) /\ (at'[o] = "advance" => e # pos'[o])
        BY Zenon, <1>6, <2>3, <3>1, <4>1
      <4> QED  BY Zenon, <2>4, <4>2
    <3>2. CASE o # c
      <4>1. pos'[o] = pos[o] /\ at'[o] = at[o]
        BY Zenon, <2>2, <2>3, <3>2
      <4>2. e \in Reach(pos'[o]) /\ (at'[o] = "advance" => e # pos'[o])
        BY Zenon, <4>1 DEF Ahead
      <4> QED  BY Zenon, <2>4, <4>2
    <3> QED  BY Zenon, <3>1, <3>2
  <2>12. Returned'
    BY Zenon, <1>1, <2>2, <2>3 DEF Returned, Seen, InRcu
  <2> QED  BY Zenon, <2>1, <2>4, <2>6, <2>9, <2>10, <2>11, <2>12
<1>7. CASE WalkAdvance(c) /\ next[pos[c]] # NONE
  <2>1. /\ at[c] = "advance" /\ at' = [at EXCEPT ![c] = "visit"] /\ grace' = grace
        /\ pos' = [pos EXCEPT ![c] = next[pos[c]]]
    BY Zenon, <1>7 DEF WalkAdvance, Goto
  <2>2. next[pos[c]] \in Entry /\ next[pos[c]] \in Node
    BY Zenon, <1>1, <1>7 DEF Types, Node
  <2>3. Kept(c, next[pos[c]])
    <3>1. pos[c] \in KeptBy(c) /\ \A y \in KeptBy(c) : next[y] # NONE => next[y] \in KeptBy(c)
      BY Zenon, <1>1, KeptClosed
    <3> QED  BY Zenon, <1>7, <2>2, <3>1, TableAssumption DEF KeptBy
  <2>4. \A e \in Linked(skb[c].uid) : FALSE \notin seen[c] => e \in Reach(next[pos[c]])
    BY Zenon, <1>1, <1>3, <2>1, ReachStep
  <2> QED  BY Zenon, <1>6, <2>1, <2>2, <2>3, <2>4
<1>8. CASE WalkVisit(c) /\ ~SameUid(pos[c], skb[c].uid)
  <2>1. /\ at[c] = "visit" /\ at' = [at EXCEPT ![c] = "advance"] /\ grace' = grace /\ pos' = pos
    BY Zenon, <1>8 DEF WalkVisit, Goto
  <2>2. pos' = [pos EXCEPT ![c] = pos[c]]
    BY Zenon, <2>1 DEF Types
  <2>3. \A e \in Linked(skb[c].uid) : e # pos[c]
    BY Zenon, <1>8 DEF Linked, SameUid
  <2>4. pos[c] \in Bucket \/ (pos[c] \in Entry /\ Kept(c, pos[c]))
    BY Zenon, <1>1 DEF Walks
  <2> QED  BY Zenon, <1>1, <1>3, <1>6, <2>1, <2>2, <2>3, <2>4
<1> QED  BY Zenon, <1>4, <1>5, <1>7, <1>8

(* The tail of the hook: the event is built from the packet and sent, or   *)
(* lost, while the family is still registered; NF_ACCEPT forgets it.       *)
LEMMA TailNInv ==
  ASSUME NInv, NEW c \in Cpu, NfParse(c) \/ NfParseLost(c) \/ NfAccept(c)
  PROVE  NInv'
<1> USE DEF NInv
<1>1. /\ UNCHANGED <<next, mem, uid, grace, mod, pos>> /\ at[c] \in {"parse", "return"}
      /\ at' = [at EXCEPT ![c] = IF at[c] = "parse" THEN "return" ELSE "idle"]
      /\ \A o \in Cpu : o # c => event'[o] = event[o] /\ seen'[o] = seen[o] /\ skb'[o] = skb[o]
  BY DEF NfParse, NfParseLost, NfAccept, Goto, tableVars, Types
<1>2. \A o \in Cpu : o # c => at'[o] = at[o]
  BY Zenon, <1>1 DEF Types
<1>3. at'[c] = IF at[c] = "parse" THEN "return" ELSE "idle"
  BY Zenon, <1>1 DEF Types
<1>4. InRcu' = InRcu /\ c \notin InRcu
  <2>1. at'[c] \notin {"visit", "advance"} /\ at[c] \notin {"visit", "advance"}
    BY SMT, <1>1, <1>3
  <2>2. \A o \in Cpu : o \in InRcu' <=> o \in InRcu
    BY Zenon, <1>2, <2>1 DEF InRcu
  <2>3. InRcu \subseteq Cpu /\ InRcu' \subseteq Cpu
    BY Zenon DEF InRcu
  <2>4. InRcu' = InRcu
    BY Zenon, <2>2, <2>3
  <2> QED  BY Zenon, <2>1, <2>4 DEF InRcu
<1>5. /\ Lists' /\ Reached'
      /\ \A x : Reach(x)' = Reach(x)
      /\ \A v : Monitored(v)' <=> Monitored(v)
  BY Zenon, <1>1, TableKept
<1>6. Walks'
  <2>1. \A o \in InRcu : o # c /\ o \in Cpu
    BY Zenon, <1>4 DEF InRcu
  <2>2. \A o \in InRcu : at'[o] = at[o] /\ pos'[o] = pos[o]
    BY Zenon, <1>1, <1>2, <2>1
  <2>3. \A o \in Cpu, e \in Entry : Kept(o, e)' <=> Kept(o, e)
    BY Zenon, <1>1 DEF Kept
  <2>4. \A e \in Entry : mem'[e] = "zombie" => grace'[e] \subseteq InRcu'
    BY Zenon, <1>1, <1>4 DEF Walks
  <2>5. ASSUME NEW o \in InRcu
        PROVE  /\ pos'[o] \in Bucket \/ (pos'[o] \in Entry /\ Kept(o, pos[o])')
               /\ at'[o] = "visit" => pos'[o] \in Entry
               /\ \A e \in Entry : Kept(o, e)' /\ next'[e] # NONE => Kept(o, next[e])'
    <3>1. /\ pos[o] \in Bucket \/ (pos[o] \in Entry /\ Kept(o, pos[o]))
          /\ at[o] = "visit" => pos[o] \in Entry
          /\ \A e \in Entry : Kept(o, e) /\ next[e] # NONE => Kept(o, next[e])
      BY Zenon DEF Walks
    <3> QED  BY Zenon, <1>1, <2>2, <3>1 DEF Kept
  <2> QED  BY Zenon, <1>4, <2>4, <2>5 DEF Walks
<1>7. Phases'
  BY Zenon, <1>1, <1>2, <1>3 DEF Phases
<1>8. Seen'
  <2> SUFFICES ASSUME NEW o \in Cpu, at'[o] \in {"advance", "visit", "parse"}
               PROVE  (/\ skb[o] \in Packet /\ skb[o].uid >= RKX_MIN_APP_UID /\ event[o] = NONE
                       /\ ~Monitored(skb[o].uid) => FALSE \in seen[o]
                       /\ \A e \in Entry : o \in InRcu /\ Kept(o, e) /\ uid[e] = skb[o].uid => TRUE \in seen[o]
                       /\ at[o] = "parse" => TRUE \in seen[o])'
    BY Zenon DEF Seen
  <2>1. /\ at'[o] = at[o] /\ skb'[o] = skb[o] /\ seen'[o] = seen[o] /\ event'[o] = event[o]
    <3>1. o # c
      BY Zenon, <1>3
    <3> QED  BY Zenon, <1>1, <1>2, <3>1
  <2>2. ~Monitored(skb[o].uid)' => FALSE \in seen'[o]
    BY Zenon, <1>5, <2>1 DEF Seen
  <2>3. \A e \in Entry : Kept(o, e)' <=> Kept(o, e)
    BY Zenon, <1>1 DEF Kept
  <2> QED  BY Zenon, <1>1, <1>4, <2>1, <2>2, <2>3 DEF Seen
<1>9. Ahead'
  <2> SUFFICES ASSUME NEW o \in InRcu, NEW e \in Entry, mem[e] = "linked", uid[e] = skb'[o].uid,
                      FALSE \notin seen'[o]
               PROVE  (e \in Reach(pos[o]))' /\ (at'[o] = "advance" => e # pos'[o])
    BY Zenon, <1>1, <1>4 DEF Ahead
  <2>1. at'[o] = at[o] /\ skb'[o] = skb[o] /\ seen'[o] = seen[o]
    BY Zenon, <1>1, <1>2, <1>4 DEF InRcu
  <2>2. e \in Reach(pos'[o])
    BY Zenon, <1>1, <2>1 DEF Ahead
  <2> QED  BY Zenon, <1>1, <1>5, <2>1, <2>2 DEF Ahead
<1>10. ASSUME at[c] = "parse"
       PROVE  /\ skb[c] \in Packet /\ skb[c].uid >= RKX_MIN_APP_UID /\ TRUE \in seen[c]
              /\ rkx_netlink_ready
  BY Zenon, <1>10 DEF Seen, Phases, rkx_netlink_ready
<1>11. \A p \in Packet : data_len(p) \in Int /\ p.version \in {4, 6} /\ p.uid \in Nat
  BY PacketAssumption DEF data_len, IPv6Header
<1> DEFINE Msg == [proto |-> skb[c].version, target_uid |-> skb[c].uid, data_len |-> data_len(skb[c])]
<1>12. at[c] = "parse" => /\ Msg \in Event
                          /\ Msg.target_uid = skb[c].uid /\ Msg.data_len = data_len(skb[c])
  BY Zenon, <1>10, <1>11 DEF Event
<1>13. CASE NfParse(c)
  <2>1. /\ at[c] = "parse" /\ UNCHANGED <<skb, seen>>
        /\ event' = [event EXCEPT ![c] = IF Parsed(skb[c]) THEN Msg ELSE NONE]
    BY Zenon, <1>10, <1>13 DEF NfParse
  <2> HIDE DEF Msg
  <2>2. Types'
    BY Zenon, <1>1, <1>12, <2>1 DEF Types
  <2>3. event'[c] = IF Parsed(skb[c]) THEN Msg ELSE NONE
    BY Zenon, <2>1 DEF Types
  <2>4. Msg # NONE
    BY Zenon, <1>12, <2>1, EventAssumption
  <2>5. Returned'
    <3> SUFFICES ASSUME NEW o \in Cpu
                 PROVE  (/\ event[o] # NONE => at[o] = "return"
                         /\ at[o] = "return" =>
                              /\ skb[o] \in Packet
                              /\ event[o] \notin {NONE, LOST} =>
                                   /\ TRUE \in seen[o] /\ skb[o].uid >= RKX_MIN_APP_UID /\ Parsed(skb[o])
                                   /\ event[o].target_uid = skb[o].uid /\ event[o].data_len = data_len(skb[o])
                              /\ event[o] = NONE =>
                                   FALSE \in seen[o] \/ skb[o].uid < RKX_MIN_APP_UID \/ ~Parsed(skb[o]))'
      BY Zenon DEF Returned
    <3>1. CASE o = c
      <4>1. at'[o] = "return" /\ skb'[o] = skb[c] /\ seen'[o] = seen[c]
        BY Zenon, <1>3, <2>1, <3>1
      <4>2. CASE Parsed(skb[c])
        BY Zenon, <1>10, <1>12, <2>1, <2>3, <2>4, <3>1, <4>1, <4>2
      <4>3. CASE ~Parsed(skb[c])
        BY Zenon, <1>10, <2>1, <2>3, <3>1, <4>1, <4>3
      <4> QED  BY Zenon, <4>2, <4>3
    <3>2. CASE o # c
      <4>1. at'[o] = at[o] /\ skb'[o] = skb[o] /\ seen'[o] = seen[o] /\ event'[o] = event[o]
        BY Zenon, <1>1, <1>2, <3>2
      <4> QED  BY Zenon, <4>1 DEF Returned
    <3> QED  BY Zenon, <3>1, <3>2
  <2> QED  BY Zenon, <1>5, <1>6, <1>7, <1>8, <1>9, <2>2, <2>5
<1>14. CASE NfParseLost(c)
  <2>1. at[c] = "parse" /\ UNCHANGED <<skb, seen>> /\ event' = [event EXCEPT ![c] = LOST]
    BY Zenon, <1>14 DEF NfParseLost
  <2>2. Types'
    BY Zenon, <1>1, <2>1 DEF Types
  <2>3. event'[c] = LOST /\ skb[c] \in Packet
    BY Zenon, <1>10, <2>1 DEF Types
  <2>4. Returned'
    BY Zenon, <1>1, <1>2, <1>3, <2>1, <2>3, EventAssumption DEF Returned
  <2> QED  BY Zenon, <1>5, <1>6, <1>7, <1>8, <1>9, <2>2, <2>4
<1>15. CASE NfAccept(c)
  <2>1. /\ at[c] = "return" /\ skb' = [skb EXCEPT ![c] = NONE]
        /\ event' = [event EXCEPT ![c] = NONE] /\ seen' = [seen EXCEPT ![c] = {}]
    BY Zenon, <1>15 DEF NfAccept
  <2>2. Types'
    BY Zenon, <1>1, <2>1 DEF Types
  <2>3. event'[c] = NONE /\ at'[c] = "idle"
    BY Zenon, <1>3, <2>1 DEF Types
  <2>4. Returned'
    BY Zenon, <1>1, <1>2, <2>3 DEF Returned
  <2> QED  BY Zenon, <1>5, <1>6, <1>7, <1>8, <1>9, <2>2, <2>4
<1> QED  BY Zenon, <1>13, <1>14, <1>15

-----------------------------------------------------------------------------
(* The theorems *)

(* Every step of commands, hooks, grace periods and the module's loading   *)
(* and unloading keeps the invariant.                                      *)
THEOREM NetInvariant == Spec => []NInv
<1>1. Init => NInv
  <2> SUFFICES ASSUME Init  PROVE NInv
    BY Zenon
  <2>1. InRcu = {} /\ \A c \in Cpu : at[c] = "idle" /\ event[c] = NONE
    BY Zenon DEF Init, InRcu
  <2>2. Types /\ Lists /\ Reached
    BY Zenon, TableAssumption DEF Init, Types, Lists, Reached, Live, Node
  <2>3. Phases /\ Walks /\ Seen /\ Ahead /\ Returned
    BY Zenon, <2>1 DEF Init, Phases, Walks, Seen, Ahead, Returned
  <2> QED  BY Zenon, <2>2, <2>3 DEF NInv
<1>2. NInv /\ [Next]_vars => NInv'
  <2> SUFFICES ASSUME NInv, [Next]_vars  PROVE NInv'
    BY Zenon
  <2>1. CASE UNCHANGED vars
    <3>1. UNCHANGED <<next, mem, uid, grace, mod, at, skb, pos, event, seen>>
      BY Zenon, <2>1 DEF vars, tableVars, hookVars
    <3>2. /\ Lists' /\ Reached'
          /\ \A v : Monitored(v)' <=> Monitored(v)
      BY Zenon, <3>1, TableKept
    <3>3. Types' /\ Phases' /\ Walks'
      BY <3>1 DEF NInv, Types, Phases, Walks, Kept, InRcu
    <3>6. Returned'
      BY Zenon, <3>1 DEF NInv, Returned
    <3>4. Seen'
      BY Zenon, <3>1 DEF NInv, Seen, Monitored, Linked, Kept, InRcu
    <3>5. Ahead'
      BY Zenon, <3>1 DEF NInv, Ahead, Reach, InRcu
    <3> QED  BY Zenon, <3>2, <3>3, <3>4, <3>5, <3>6 DEF NInv
  <2>2. CASE Next
    BY Zenon, <2>2, AddNInv, DelNInv, ReclaimNInv, ModNInv, EmptyNInv, EnterNInv, WalkNInv, TailNInv
    DEF Next, Hook, Unload
  <2> QED  BY Zenon, <2>1, <2>2
<1> QED  BY <1>1, <1>2, PTL DEF Spec

(* For any number of CPUs and entries a hook never stands on freed memory, *)
(* and none runs when rkx_exit destroys the table.                         *)
THEOREM NetWalksSafe == Spec => []WalkSafe
<1>1. NInv => WalkSafe
  BY Zenon DEF NInv, WalkSafe, Walks, Kept, Phases
<1> QED  BY <1>1, NetInvariant, PTL

(* For any uids, buckets and hash the lists hold exactly what is linked,   *)
(* each entry in the bucket of its uid, and no uid twice.                  *)
THEOREM NetTableIntact == Spec => []TableIntact
<1>1. NInv => TableIntact
  <2> SUFFICES ASSUME NInv  PROVE TableIntact
    BY Zenon
  <2>1. ASSUME NEW u \in Uid  PROVE \A e, f \in Linked(u) : e = f
    BY Zenon DEF NInv, Lists, Linked
  <2>2. ASSUME NEW b \in Bucket
        PROVE  Reach(b) = {b} \cup {e \in Entry : mem[e] = "linked" /\ Hash[uid[e]] = b}
    <3> DEFINE T == {b} \cup {e \in Entry : mem[e] = "linked" /\ Hash[uid[e]] = b}
    <3>1. T \in SUBSET Node /\ b \in T /\ b \in Node
      BY Zenon DEF Node
    <3>2. ASSUME NEW y \in T, next[y] # NONE  PROVE next[y] \in T
      <4>1. y \in Node /\ Live(y) /\ Home(y) = b /\ next[y] \in Entry
        BY Zenon, <3>2, TableAssumption DEF NInv, Types, Live, Home, Node
      <4>2. mem[next[y]] = "linked" /\ Home(next[y]) = b
        BY Zenon, <3>2, <4>1 DEF NInv, Lists
      <4> QED  BY Zenon, <4>1, <4>2, TableAssumption DEF Home
    <3>3. ASSUME NEW x \in T  PROVE x \in Reach(b)
      <4>1. CASE x = b
        BY Zenon, <3>1, <4>1 DEF Reach
      <4>2. CASE x # b
        <5>1. x \in Entry /\ mem[x] = "linked" /\ Home(x) = b
          BY Zenon, <4>2, TableAssumption DEF Home
        <5> QED  BY Zenon, <5>1 DEF NInv, Reached
      <4> QED  BY Zenon, <4>1, <4>2
    <3>4. ASSUME NEW x \in Reach(b)  PROVE x \in T
      <4> HIDE DEF T
      <4> QED  BY Zenon, <3>1, <3>2 DEF Reach
    <3> QED  BY Zenon, <3>3, <3>4
  <2> QED  BY Zenon, <2>1, <2>2 DEF TableIntact
<1> QED  BY <1>1, NetInvariant, PTL

(* Whatever commands and packets there are, an event is about a uid that   *)
(* was monitored while its packet was in the hook, and the length that     *)
(* rkx_parse_tcp_ipv4 or _ipv6 computes is what the packet carries.        *)
THEOREM NetEventsJustified == Spec => []EventsJustified
<1>1. \A p \in Packet : Parsed(p) => data_len(p) = p.payload /\ (p.payload > 0 \/ p.flags)
  BY PacketAssumption DEF Parsed, data_len, IPv6Header
<1>2. NInv => EventsJustified
  BY Zenon, <1>1 DEF NInv, Returned, EventsJustified
<1> QED  BY <1>2, NetInvariant, PTL

(* For any hash, and any uids that come and go in a bucket while it is     *)
(* walked, no packet of a uid that stayed monitored slips through.         *)
THEOREM NetNothingMissed == Spec => []NothingMissed
<1>1. \A p \in Packet : p.headers /\ p.tcp /\ (p.payload > 0 \/ p.flags) => Parsed(p)
  BY PacketAssumption DEF Parsed, data_len, IPv6Header
<1>2. NInv => NothingMissed
  <2> SUFFICES ASSUME NInv, NEW c \in Cpu, at[c] = "return", seen[c] = {TRUE},
                      skb[c].uid >= RKX_MIN_APP_UID, skb[c].tcp, skb[c].headers,
                      skb[c].payload > 0 \/ skb[c].flags
               PROVE  event[c] # NONE
    BY Zenon DEF NothingMissed
  <2>1. skb[c] \in Packet /\ skb[c].uid \in Nat
    BY Zenon, PacketAssumption DEF NInv, Returned
  <2>2. Parsed(skb[c]) /\ FALSE \notin seen[c] /\ ~(skb[c].uid < RKX_MIN_APP_UID)
    BY <1>1, <2>1 DEF RKX_MIN_APP_UID
  <2> QED  BY Zenon, <2>2 DEF NInv, Returned
<1> QED  BY <1>2, NetInvariant, PTL

=============================================================================
