-------------------------- MODULE BinderKpTheorems --------------------------
(***************************************************************************)
(* Proofs about BinderKp, for any transactions, senders and nodes.  Every  *)
(* transaction has one owner: a sender, a list, the workqueue or nobody    *)
(* any more.  tmp_ref counts exactly the references that are held, and     *)
(* what is owned or referenced is allocated.  Inv, the conjunction, is the *)
(* inductive invariant of the component.  The last parts prove what it     *)
(* implies: memory safety, the outstanding count and the bounded backlog.  *)
(***************************************************************************)
EXTENDS BinderKp, FiniteSetTheorems, TLAPS

-----------------------------------------------------------------------------
(* What list_add_tail, list_del_init and taking the first entry do to the  *)
(* set of entries of a list without duplicates.                            *)

NoDuplicates(q) == \A i, j \in 1 .. Len(q) : q[i] = q[j] => i = j

(* The entries of a list are the values at its positions. *)
LEMMA EntryProperties ==
  ASSUME NEW S, NEW q \in Seq(S)
  PROVE  /\ \A x : x \in Range(q) <=> \E i \in 1 .. Len(q) : q[i] = x
         /\ Range(q) \subseteq S
         /\ q = <<>> <=> Range(q) = {}
         /\ Len(q) \in Nat /\ (Len(q) = 0 <=> q = <<>>)
<1>1. DOMAIN q = 1 .. Len(q) /\ Len(q) \in Nat
  OBVIOUS
<1>2. \A x : x \in Range(q) <=> \E i \in 1 .. Len(q) : q[i] = x
  BY Zenon, <1>1 DEF Range
<1>3. \A i \in 1 .. Len(q) : q[i] \in S
  OBVIOUS
<1>4. Len(q) = 0 <=> q = <<>>
  OBVIOUS
<1>5. q = <<>> <=> Range(q) = {}
  <2>1. CASE q = <<>>
    BY <2>1, <1>1, <1>2, <1>4
  <2>2. CASE q # <<>>
    <3>1. 1 \in 1 .. Len(q)
      BY <2>2, <1>1, <1>4
    <3> QED
      BY Zenon, <3>1, <2>2, <1>2
  <2> QED
    BY Zenon, <2>1, <2>2
<1> QED
  BY Zenon, <1>1, <1>2, <1>3, <1>4, <1>5

(* The first entry of a list and the entries after it. *)
LEMMA FirstEntry ==
  ASSUME NEW S, NEW q \in Seq(S), q # <<>>
  PROVE  /\ Head(q) \in S /\ Head(q) = q[1]
         /\ Tail(q) \in Seq(S) /\ Len(Tail(q)) = Len(q) - 1
         /\ \A i \in 1 .. Len(Tail(q)) : Tail(q)[i] = q[i + 1]
  BY SMT

(* The entries before a place and those after it, put together. *)
LEMMA Together ==
  ASSUME NEW S, NEW a \in Seq(S), NEW b \in Seq(S)
  PROVE  /\ a \o b \in Seq(S) /\ Len(a \o b) = Len(a) + Len(b)
         /\ \A j \in 1 .. Len(a) + Len(b) :
              (a \o b)[j] = IF j <= Len(a) THEN a[j] ELSE b[j - Len(a)]
  BY SMT

(* list_add_tail: one new entry, at the end. *)
LEMMA AppendEntry ==
  ASSUME NEW S, NEW q \in Seq(S), NEW x \in S
  PROVE  /\ Append(q, x) \in Seq(S) /\ Append(q, x) # <<>>
         /\ Len(Append(q, x)) = Len(q) + 1
         /\ Range(Append(q, x)) = Range(q) \cup {x}
         /\ NoDuplicates(q) /\ x \notin Range(q) => NoDuplicates(Append(q, x))
         /\ Head(Append(q, x)) = IF q = <<>> THEN x ELSE Head(q)
<1> DEFINE r == Append(q, x)
<1>1. /\ r \in Seq(S) /\ r # <<>> /\ Len(r) = Len(q) + 1
      /\ \A i \in 1 .. Len(q) : r[i] = q[i]
      /\ r[Len(q) + 1] = x
  BY SMT
<1>2. Head(r) = IF q = <<>> THEN x ELSE Head(q)
  BY SMT
<1> HIDE DEF r
<1>3. Len(q) \in Nat
  OBVIOUS
<1>4. Range(r) = Range(q) \cup {x}
  <2>1. ASSUME NEW y PROVE y \in Range(r) <=> y \in Range(q) \/ y = x
    <3>1. y \in Range(r) <=> \E i \in 1 .. Len(r) : r[i] = y
      BY Zenon, <1>1, EntryProperties
    <3>2. y \in Range(q) <=> \E i \in 1 .. Len(q) : q[i] = y
      BY Zenon, EntryProperties
    <3> QED
      BY <3>1, <3>2, <1>1, <1>3
  <2> QED
    BY Zenon, <2>1
<1>5. ASSUME NoDuplicates(q), x \notin Range(q) PROVE NoDuplicates(r)
  <2>1. \A i \in 1 .. Len(q) : q[i] # x
    BY Zenon, <1>5, EntryProperties
  <2> QED
    BY <2>1, <1>1, <1>3, <1>5 DEF NoDuplicates
<1> QED
  BY Zenon, <1>1, <1>2, <1>4, <1>5 DEF r

(* The part of it that the lists' owners need. *)
LEMMA AppendSet ==
  ASSUME NEW S, NEW q \in Seq(S), NEW x \in S
  PROVE  /\ Range(Append(q, x)) = Range(q) \cup {x}
         /\ NoDuplicates(q) /\ x \notin Range(q) => NoDuplicates(Append(q, x))
  BY AppendEntry

(* Taking the first entry. *)
LEMMA TakeFirst ==
  ASSUME NEW S, NEW q \in Seq(S), q # <<>>, NoDuplicates(q)
  PROVE  /\ Head(q) \in Range(q) /\ Head(q) \in S /\ Head(q) = q[1]
         /\ Tail(q) \in Seq(S) /\ Len(Tail(q)) = Len(q) - 1
         /\ Range(Tail(q)) = Range(q) \ {Head(q)}
         /\ NoDuplicates(Tail(q))
<1> DEFINE r == Tail(q)
<1>1. /\ r \in Seq(S) /\ Len(r) = Len(q) - 1
      /\ \A i \in 1 .. Len(r) : r[i] = q[i + 1]
      /\ Head(q) \in S
  BY Zenon, FirstEntry
<1>2. Len(q) \in Nat /\ 1 \in 1 .. Len(q) /\ Head(q) = q[1]
  OBVIOUS
<1> HIDE DEF r
<1>3. Range(r) = Range(q) \ {Head(q)}
  <2>1. ASSUME NEW y PROVE y \in Range(r) <=> y \in Range(q) /\ y # q[1]
    <3>1. y \in Range(r) <=> \E i \in 1 .. Len(r) : r[i] = y
      BY Zenon, <1>1, EntryProperties
    <3>2. y \in Range(q) <=> \E i \in 1 .. Len(q) : q[i] = y
      BY Zenon, EntryProperties
    <3>3. ASSUME NEW i \in 1 .. Len(r), r[i] = y PROVE y \in Range(q) /\ y # q[1]
      <4>1. i + 1 \in 1 .. Len(q) /\ i + 1 # 1 /\ q[i + 1] = y
        BY <3>3, <1>1, <1>2
      <4> QED
        BY Zenon, <4>1, <3>2, <1>2, NoDuplicates(q) DEF NoDuplicates
    <3>4. ASSUME NEW i \in 1 .. Len(q), q[i] = y, y # q[1] PROVE y \in Range(r)
      <4>1. i - 1 \in 1 .. Len(r) /\ r[i - 1] = y
        BY <3>4, <1>1, <1>2
      <4> QED
        BY Zenon, <4>1, <3>1
    <3> QED
      BY Zenon, <3>1, <3>2, <3>3, <3>4
  <2> QED
    BY Zenon, <2>1, <1>2
<1>4. NoDuplicates(r)
  BY <1>1, <1>2, NoDuplicates(q) DEF NoDuplicates
<1>5. Head(q) \in Range(q)
  BY Zenon, <1>2, EntryProperties
<1> QED
  BY Zenon, <1>1, <1>2, <1>3, <1>4, <1>5 DEF r

(* Taking an entry out of any list leaves a list. *)
LEMMA ListDelType ==
  ASSUME NEW S, NEW q \in Seq(S), NEW i \in 1 .. Len(q)
  PROVE  list_del_init(q, i) \in Seq(S)
<1> DEFINE a == SubSeq(q, 1, i - 1)
           b == SubSeq(q, i + 1, Len(q))
<1>1. a \in Seq(S) /\ b \in Seq(S)
  OBVIOUS
<1>2. list_del_init(q, i) = a \o b
  BY Zenon DEF list_del_init
<1> HIDE DEF a, b
<1> QED
  BY Zenon, <1>1, <1>2, Together

(* list_del_init: the entry at position i leaves the list. *)
LEMMA TakeAt ==
  ASSUME NEW S, NEW q \in Seq(S), NEW i \in 1 .. Len(q), NoDuplicates(q)
  PROVE  /\ q[i] \in Range(q) /\ q[i] \in S
         /\ list_del_init(q, i) \in Seq(S) /\ Len(list_del_init(q, i)) = Len(q) - 1
         /\ Range(list_del_init(q, i)) = Range(q) \ {q[i]}
         /\ NoDuplicates(list_del_init(q, i))
<1> DEFINE a == SubSeq(q, 1, i - 1)
           b == SubSeq(q, i + 1, Len(q))
           r == a \o b
<1>1. a \in Seq(S) /\ Len(a) = i - 1 /\ \A j \in 1 .. (i - 1) : a[j] = q[j]
  OBVIOUS
<1>2. b \in Seq(S) /\ Len(b) = Len(q) - i /\ \A j \in 1 .. (Len(q) - i) : b[j] = q[i + j]
  OBVIOUS
<1>3. list_del_init(q, i) = r
  BY Zenon DEF list_del_init
<1>4. Len(q) \in Nat /\ q[i] \in S
  OBVIOUS
<1> HIDE DEF a, b
<1>5. /\ r \in Seq(S) /\ Len(r) = Len(a) + Len(b)
      /\ \A j \in 1 .. Len(a) + Len(b) : r[j] = IF j <= Len(a) THEN a[j] ELSE b[j - Len(a)]
  BY Zenon, <1>1, <1>2, Together
<1> HIDE DEF r
<1>6. Len(r) = Len(q) - 1 /\ \A j \in 1 .. Len(r) : r[j] = IF j < i THEN q[j] ELSE q[j + 1]
  BY <1>1, <1>2, <1>4, <1>5
<1>7. Range(r) = Range(q) \ {q[i]}
  <2>1. ASSUME NEW y PROVE y \in Range(r) <=> y \in Range(q) /\ y # q[i]
    <3>1. y \in Range(r) <=> \E j \in 1 .. Len(r) : r[j] = y
      BY Zenon, <1>5, EntryProperties
    <3>2. y \in Range(q) <=> \E j \in 1 .. Len(q) : q[j] = y
      BY Zenon, EntryProperties
    <3>3. ASSUME NEW j \in 1 .. Len(r), r[j] = y PROVE y \in Range(q) /\ y # q[i]
      <4>1. PICK k \in 1 .. Len(q) : k # i /\ q[k] = y
        BY <3>3, <1>4, <1>6
      <4> QED
        BY Zenon, <4>1, <3>2, NoDuplicates(q) DEF NoDuplicates
    <3>4. ASSUME NEW k \in 1 .. Len(q), q[k] = y, y # q[i] PROVE y \in Range(r)
      <4>1. PICK j \in 1 .. Len(r) : r[j] = y
        <5>1. CASE k < i
          BY <5>1, <3>4, <1>4, <1>6
        <5>2. CASE k > i
          <6>1. k - 1 \in 1 .. Len(r) /\ r[k - 1] = y
            BY <5>2, <3>4, <1>4, <1>6
          <6> QED
            BY Zenon, <6>1
        <5> QED
          BY <5>1, <5>2, <3>4
      <4> QED
        BY Zenon, <4>1, <3>1
    <3> QED
      BY Zenon, <3>1, <3>2, <3>3, <3>4
  <2> QED
    BY Zenon, <2>1
<1>8. NoDuplicates(r)
  BY <1>4, <1>6, NoDuplicates(q) DEF NoDuplicates
<1>9. q[i] \in Range(q)
  BY Zenon, EntryProperties
<1> QED
  BY Zenon, <1>3, <1>4, <1>5, <1>6, <1>7, <1>8, <1>9

-----------------------------------------------------------------------------
(* Types and control *)

(* TypeOK with integer counters. *)
Types ==
  /\ pc \in [Sender -> {"idle", "probe", "lock", "find", "detached", "call", "put"}]
  /\ cur \in [Sender -> Txn \cup {NULL}]
  /\ strategy \in [Sender -> {SKIP, BY_CODE, BY_DATA}]
  /\ t_outdated \in [Sender -> Txn \cup {NULL}]
  /\ node_lock \in [Node -> Sender \cup {NULL}]
  /\ has_async_transaction \in [Node -> BOOLEAN]
  /\ async_todo \in [Node -> Seq(Txn)] /\ todo \in Seq(Txn)
  /\ taken \subseteq Txn /\ outstanding_txns \in Int /\ tmp_ref \in Int
  /\ procMem \in TxnMem /\ is_frozen \in BOOLEAN
  /\ task \in {"running", "freezing", "frozen"}
  /\ release \in {"none", "marked", "draining", "done"}
  /\ txnMem \in [Txn -> TxnMem] /\ bufMem \in [Txn -> BufMem]
  /\ wq \in Seq(Txn) /\ worker \in {"release", "kfree", "dec"}
  /\ mod \in {"absent", "resolving", "armed", "disarming", "flushing"}
  /\ dropped \subseteq Txn /\ read \subseteq Txn /\ swept \subseteq Txn

(* A sender has a transaction from binder_transaction() until the call is   *)
(* made, an unlinked one right after the inner_lock section; the probe runs *)
(* only while it is registered; a live process has read what it has taken   *)
(* off its list, and a released one has nothing left.                       *)
Control ==
  /\ \A s \in Sender : cur[s] # NULL <=> pc[s] \notin {"idle", "put"}
  /\ \A s \in Sender : t_outdated[s] # NULL <=> pc[s] = "detached"
  /\ \A s \in Sender : InProbe(s) => mod \in {"armed", "disarming"}
  /\ wq # <<>> => mod # "absent"
  /\ release = "none" => taken \subseteq read
  /\ release = "done" => todo = <<>> /\ taken = {} /\ \A n \in Node : async_todo[n] = <<>>

Inv0 == Types /\ Control

(* What the driver's lists and the workqueue hold. *)
LEMMA SeqTypes ==
  ASSUME Types
  PROVE  todo \in Seq(Txn) /\ wq \in Seq(Txn) /\ \A n \in Node : async_todo[n] \in Seq(Txn)
  BY Zenon DEF Types

(* A freshly loaded module and an idle process satisfy types and control.  *)
LEMMA Inv0Init == Init => Inv0
<1> SUFFICES ASSUME Init PROVE Inv0
  BY Zenon
<1>1. Types
  <2>1. /\ has_async_transaction \in [Node -> BOOLEAN]
        /\ node_lock \in [Node -> Sender \cup {NULL}]
    BY Zenon DEF Init
  <2>2. async_todo \in [Node -> Seq(Txn)] /\ todo \in Seq(Txn) /\ wq \in Seq(Txn)
    BY DEF Init
  <2>3. /\ pc \in [Sender -> {"idle", "probe", "lock", "find", "detached", "call", "put"}]
        /\ strategy \in [Sender -> {SKIP, BY_CODE, BY_DATA}]
        /\ cur \in [Sender -> Txn \cup {NULL}] /\ t_outdated \in [Sender -> Txn \cup {NULL}]
    BY Zenon DEF Init
  <2>4. txnMem \in [Txn -> TxnMem] /\ bufMem \in [Txn -> BufMem] /\ procMem \in TxnMem
    BY Zenon DEF Init, TxnMem, BufMem
  <2>5. /\ outstanding_txns \in Int /\ tmp_ref \in Int
        /\ task \in {"running", "freezing", "frozen"}
        /\ release \in {"none", "marked", "draining", "done"}
        /\ worker \in {"release", "kfree", "dec"}
        /\ mod \in {"absent", "resolving", "armed", "disarming", "flushing"}
    BY DEF Init
  <2>6. taken \subseteq Txn /\ dropped \subseteq Txn /\ read \subseteq Txn /\ swept \subseteq Txn
    BY Zenon DEF Init
  <2>7. is_frozen \in BOOLEAN
    BY Zenon DEF Init
  <2> QED
    BY Zenon, <2>1, <2>2, <2>3, <2>4, <2>5, <2>6, <2>7 DEF Types
<1>2. Control
  BY Zenon, NullAssumption DEF Init, Control, InProbe
<1> QED
  BY Zenon, <1>1, <1>2 DEF Inv0

(* Taking node->lock, or giving it back at once, keeps types and control.  *)
LEMMA Inv0Lock ==
  ASSUME Inv0, NEW s \in Sender, PreLockNode(s) PROVE Inv0'
<1> DEFINE n == Attr[cur[s]].node
<1> USE DEF Inv0
<1>1. cur[s] \in Txn /\ n \in Node
  BY ZenonT(30), AttrAssumption DEF Types, Control, PreLockNode
<1>2. Types'
  BY ZenonT(40), <1>1 DEF Types, PreLockNode, Goto, Swept, listVars, refVars, stateVars,
     memVars, kpVars
<1>3. Control'
  BY ZenonT(30), <1>1 DEF Types, Control, InProbe, PreLockNode, Goto, listVars, refVars,
     stateVars, memVars, kpVars
<1> QED
  BY Zenon, <1>2, <1>3

(* binder_transaction() keeps them: the sender has a transaction from here *)
(* on.                                                                     *)
LEMMA Inv0Send ==
  ASSUME Inv0, NEW s \in Sender, NEW t \in Txn, binder_transaction(s, t) PROVE Inv0'
<1> USE DEF Inv0
<1>1. Types'
  BY DEF Types, binder_transaction, Goto, TxnMem, BufMem,
     listVars, refVars, stateVars, memVars, kpVars, histVars
<1>2. Control'
  BY Zenon, NullAssumption DEF Types, Control, InProbe, binder_transaction, Goto,
     listVars, refVars, stateVars, memVars, kpVars, histVars
<1> QED
  BY Zenon, <1>1, <1>2

(* The early returns of the probe and the choice of a strategy keep them.  *)
LEMMA Inv0Choose ==
  ASSUME Inv0, NEW s \in Sender, PreChooseStrategy(s) PROVE Inv0'
<1> USE DEF Inv0
<1>1. Types'
  BY ZenonT(30), StrategyAssumption DEF Types, PreChooseStrategy, Goto,
     listVars, refVars, stateVars, memVars, kpVars, histVars
<1>2. Control'
  BY ZenonT(30) DEF Types, Control, InProbe, PreChooseStrategy, Goto,
     listVars, refVars, stateVars, memVars, kpVars, histVars
<1> QED
  BY Zenon, <1>1, <1>2

(* Queueing the work keeps them: the sender has nothing unlinked any more. *)
LEMMA Inv0Queue ==
  ASSUME Inv0, NEW s \in Sender, PreQueueFree(s) PROVE Inv0'
<1> USE DEF Inv0
<1>1. t_outdated[s] \in Txn
  BY Zenon DEF Types, Control, PreQueueFree
<1>2. wq' \in Seq(Txn) /\ wq' # <<>>
  BY <1>1, AppendEntry DEF Types, PreQueueFree
<1>3. Types'
  BY <1>1, <1>2 DEF Types, PreQueueFree, CutBuffer, Cut, BufMem, Goto,
     listVars, refVars, stateVars, histVars
<1>4. Control'
  BY Zenon, <1>2 DEF Types, Control, InProbe, PreQueueFree, Goto,
     listVars, refVars, stateVars, histVars
<1> QED
  BY Zenon, <1>3, <1>4

(* What the probed function does to the lists and to the memory of t. *)
CallRefused(t) ==
  /\ UNCHANGED <<todo, async_todo, outstanding_txns>>
  /\ txnMem' = [txnMem EXCEPT ![t] = kfree(@)]
  /\ bufMem' = [bufMem EXCEPT ![t] = binder_alloc_free_buf(Cut(@))]
CallToProcess(t) ==
  /\ ~is_dead /\ todo' = Append(todo, t) /\ outstanding_txns' = outstanding_txns + 1
  /\ UNCHANGED <<async_todo, txnMem, bufMem>>
CallToNode(t, n) ==
  /\ ~is_dead /\ async_todo' = [async_todo EXCEPT ![n] = Append(@, t)]
  /\ outstanding_txns' = outstanding_txns + 1
  /\ UNCHANGED <<todo, txnMem, bufMem>>

(* binder_proc_transaction() refuses the call, hands it to the process, or *)
(* lets it wait at the node.                                               *)
LEMMA CallCases ==
  ASSUME NEW s \in Sender, binder_proc_transaction(s)
  PROVE  \/ CallRefused(cur[s]) \/ CallToProcess(cur[s])
         \/ CallToNode(cur[s], Attr[cur[s]].node)
  BY Zenon DEF binder_proc_transaction, CallRefused, CallToProcess, CallToNode, memVars

(* The probed function keeps them: the sender has no transaction           *)
(* afterwards.                                                             *)
LEMMA Inv0Call ==
  ASSUME Inv0, NEW s \in Sender, binder_proc_transaction(s) PROVE Inv0'
<1> DEFINE t == cur[s]
           n == Attr[t].node
<1> USE DEF Inv0
<1>1. t \in Txn /\ n \in Node
  BY ZenonT(30), AttrAssumption DEF Types, Control, binder_proc_transaction
<1>2. Append(todo, t) \in Seq(Txn) /\ Append(async_todo[n], t) \in Seq(Txn)
  BY <1>1, AppendEntry DEF Types
<1>3. Types'
  <2>1. has_async_transaction' \in [Node -> BOOLEAN]
    BY Zenon, <1>1 DEF Types, binder_proc_transaction
  <2>2. txnMem' \in [Txn -> TxnMem] /\ bufMem' \in [Txn -> BufMem]
    BY ZenonT(30), <1>1 DEF Types, binder_proc_transaction, kfree, Cut, binder_alloc_free_buf,
       TxnMem, BufMem, memVars
  <2>3. /\ todo' \in Seq(Txn) /\ async_todo' \in [Node -> Seq(Txn)]
        /\ outstanding_txns' \in Int
    <3>1. CASE CallRefused(t)
      BY Zenon, <3>1 DEF Types, CallRefused
    <3>2. CASE CallToProcess(t)
      BY <3>2, <1>2 DEF Types, CallToProcess
    <3>3. CASE CallToNode(t, n)
      BY <3>3, <1>1, <1>2 DEF Types, CallToNode
    <3> QED
      BY Zenon, <3>1, <3>2, <3>3, CallCases
  <2>4. cur' \in [Sender -> Txn \cup {NULL}]
    BY Zenon DEF Types, binder_proc_transaction
  <2> QED
    BY Zenon, <2>1, <2>2, <2>3, <2>4 DEF Types, binder_proc_transaction, Goto, refVars,
       stateVars,
       kpVars, histVars
<1>4. Control'
  BY Zenon, <1>1, <1>2 DEF Types, Control, InProbe, binder_proc_transaction, is_dead, Goto,
     refVars, stateVars, kpVars, histVars
<1> QED
  BY Zenon, <1>3, <1>4

(* rk_binder_proc_dec_tmpref() keeps the types of what it writes.          *)
LEMMA Inv0DecTmpref ==
  ASSUME Types, rk_binder_proc_dec_tmpref
  PROVE  tmp_ref' \in Int /\ procMem' \in TxnMem /\ bufMem' \in [Txn -> BufMem]
<1>1. tmp_ref \in Int /\ procMem \in TxnMem /\ bufMem \in [Txn -> BufMem]
  BY Zenon DEF Types
<1>2. tmp_ref' \in Int
  BY <1>1 DEF rk_binder_proc_dec_tmpref
<1>3. procMem' \in TxnMem /\ bufMem' \in [Txn -> BufMem]
  BY Zenon, <1>1 DEF rk_binder_proc_dec_tmpref, kfree, binder_alloc_free_buf, TxnMem, BufMem
<1> QED
  BY Zenon, <1>2, <1>3

(* The sender giving its reference back keeps types and control.           *)
LEMMA Inv0Put ==
  ASSUME Inv0, NEW s \in Sender, binder_proc_dec_tmpref(s) PROVE Inv0'
<1> USE DEF Inv0
<1>1. tmp_ref' \in Int /\ procMem' \in TxnMem /\ bufMem' \in [Txn -> BufMem]
  BY Zenon, Inv0DecTmpref DEF binder_proc_dec_tmpref
<1>2. Types'
  BY <1>1 DEF Types, binder_proc_dec_tmpref, Goto, listVars, stateVars, kpVars, histVars
<1>3. Control'
  BY Zenon DEF Types, Control, InProbe, binder_proc_dec_tmpref, Goto, listVars, stateVars,
     kpVars, histVars
<1> QED
  BY Zenon, <1>2, <1>3

(* The three steps of rkx_free_txn_func keep them.                         *)
LEMMA Inv0FreeTxn ==
  ASSUME Inv0, FreeTxn PROVE Inv0'
<1> USE DEF Inv0
<1>1. wq # <<>> /\ Head(wq) \in Txn /\ Tail(wq) \in Seq(Txn)
  BY Zenon, FirstEntry DEF Types, FreeTxn, FreeTxnReleaseBuffer, FreeTxnKfree, FreeTxnDecTmpref
<1>2. CASE FreeTxnReleaseBuffer
  BY Zenon, <1>1, <1>2 DEF Types, Control, InProbe, FreeTxnReleaseBuffer,
     binder_alloc_free_buf, BufMem,
     sendVars, listVars, refVars, stateVars, histVars
<1>3. CASE FreeTxnKfree
  BY <1>1, <1>3 DEF Types, Control, InProbe, FreeTxnKfree, KfreeTxn, kfree, TxnMem,
     sendVars, listVars, refVars, stateVars, histVars
<1>4. CASE FreeTxnDecTmpref
  <2>1. tmp_ref' \in Int /\ procMem' \in TxnMem /\ bufMem' \in [Txn -> BufMem]
    BY Zenon, <1>4, Inv0DecTmpref DEF FreeTxnDecTmpref
  <2> QED
    BY <1>1, <1>4, <2>1 DEF Types, Control, InProbe, FreeTxnDecTmpref,
       sendVars, listVars, stateVars, histVars
<1> QED
  BY Zenon, <1>2, <1>3, <1>4 DEF FreeTxn

(* Registration and unregistration keep them: the kprobe is gone before    *)
(* the flush, and the queue is empty when it is destroyed.                 *)
LEMMA Inv0Module ==
  ASSUME Inv0, Register \/ Unregister PROVE Inv0'
<1> USE DEF Inv0
<1>1. Types'
  BY DEF Types, Register, Unregister, RegisterAllocWq, RegisterArm, RegisterFail,
     UnregisterDisarm, UnregisterSynchronize, UnregisterDestroyWq, ModStep,
     sendVars, listVars, refVars, stateVars, memVars, histVars
<1>2. Control'
  BY Zenon DEF Types, Control, InProbe, Register, Unregister, RegisterAllocWq, RegisterArm,
     RegisterFail, UnregisterDisarm, UnregisterSynchronize, UnregisterDestroyWq, ModStep,
     flush_workqueue, sendVars, listVars, refVars, stateVars, memVars, histVars
<1> QED
  BY Zenon, <1>1, <1>2

(* The inner_lock section unlinks nothing or, from a live process, one entry. *)
LEMMA FindCases ==
  ASSUME NEW s \in Sender, PreFindOutdated(s)
  PROVE  \/ Empty(s)
         \/ /\ ~is_dead
            /\ \E i \in 1 .. Len(async_todo[Attr[cur[s]].node]) : Detach(s, Attr[cur[s]].node, i)
  BY ZenonT(30) DEF PreFindOutdated

(* The inner_lock section of the probe keeps them.                         *)
LEMMA Inv0Find ==
  ASSUME Inv0, NEW s \in Sender, PreFindOutdated(s) PROVE Inv0'
<1> DEFINE n == Attr[cur[s]].node
<1> USE DEF Inv0
<1>1. cur[s] \in Txn /\ n \in Node
  BY ZenonT(30), AttrAssumption DEF Types, Control, PreFindOutdated
<1>2. node_lock' \in [Node -> Sender \cup {NULL}]
  BY Zenon, <1>1 DEF Types, PreFindOutdated, rk_binder_node_unlock
<1>3. swept' \subseteq Txn
  <2>1. UNCHANGED swept \/ Swept(s)
    BY ZenonT(30) DEF PreFindOutdated, Detach
  <2> QED
    BY Zenon, <1>1, <2>1 DEF Types, Swept
<1>4. CASE Empty(s)
  <2>1. Types'
    BY Zenon, <1>2, <1>3, <1>4 DEF Types, PreFindOutdated, Empty, Goto, stateVars, memVars,
       kpVars
  <2>2. Control'
    BY Zenon, <1>4 DEF Types, Control, InProbe, PreFindOutdated, Empty, Goto, stateVars,
       memVars, kpVars
  <2> QED
    BY Zenon, <2>1, <2>2
<1>5. ASSUME ~is_dead, NEW i \in 1 .. Len(async_todo[n]), Detach(s, n, i)
      PROVE  Inv0'
  <2>1. async_todo[n] \in Seq(Txn) /\ async_todo[n][i] \in Txn
    BY SMT, <1>1 DEF Types
  <2>2. list_del_init(async_todo[n], i) \in Seq(Txn)
    BY Zenon, <2>1, ListDelType
  <2>3. Types'
    <3>1. async_todo' \in [Node -> Seq(Txn)] /\ dropped' \subseteq Txn
      BY Zenon, <1>1, <1>5, <2>1, <2>2 DEF Types, Detach
    <3>2. /\ t_outdated' \in [Sender -> Txn \cup {NULL}]
          /\ pc' \in [Sender -> {"idle", "probe", "lock", "find", "detached", "call", "put"}]
      BY Zenon, <1>5, <2>1 DEF Types, Detach, Goto
    <3>3. tmp_ref' \in Int /\ outstanding_txns' \in Int
      BY <1>5 DEF Types, Detach, PinProc, CountUnlinked
    <3> QED
      BY <1>2, <1>3, <3>1, <3>2, <3>3 DEF Types, PreFindOutdated, stateVars, memVars, kpVars
  <2>4. Control'
    BY ZenonT(30), <1>1, <1>5, <2>1, NullAssumption DEF Types, Control, InProbe,
       PreFindOutdated, Detach,
       is_dead, Goto, stateVars, memVars, kpVars
  <2> QED
    BY Zenon, <2>3, <2>4
<1> QED
  BY Zenon, <1>4, <1>5, FindCases

(* Freeing what was taken off a list keeps them, by whomever it is freed.  *)
LEMMA Inv0FreeTaken ==
  ASSUME Inv0, NEW t \in Txn, FreeTaken(t) PROVE Inv0'
<1> USE DEF Inv0
<1>1. outstanding_txns' \in Int
  BY DEF Types, FreeTaken
<1>2. /\ taken' \subseteq taken
      /\ txnMem' \in [Txn -> TxnMem] /\ bufMem' \in [Txn -> BufMem]
  BY Zenon DEF Types, FreeTaken, kfree, Cut, TxnMem, BufMem
<1>3. Types'
  BY Zenon, <1>1, <1>2 DEF Types, FreeTaken, sendVars, refVars, stateVars, kpVars, histVars
<1>4. Control'
  BY Zenon, <1>2 DEF Types, Control, InProbe, FreeTaken, sendVars, refVars, stateVars, kpVars,
     histVars
<1> QED
  BY Zenon, <1>3, <1>4

(* binder_deferred_release() keeps them: it ends with empty lists.         *)
LEMMA Inv0Release ==
  ASSUME Inv0, Release PROVE Inv0'
<1> USE DEF Inv0
<1>1. CASE ReleaseThreads
  BY Zenon, <1>1 DEF Types, Control, InProbe, ReleaseThreads,
     sendVars, listVars, refVars, memVars, kpVars, histVars
<1>2. ASSUME NEW t \in Txn, ReleaseTake(t), todo' \in Seq(Txn), async_todo' \in [Node -> Seq(Txn)]
      PROVE  Inv0'
  <2>1. Types'
    BY Zenon, <1>2 DEF Types, ReleaseTake, sendVars, refVars, stateVars, memVars, kpVars,
       histVars
  <2>2. Control'
    BY Zenon, <1>2 DEF Types, Control, InProbe, ReleaseTake,
       sendVars, refVars, stateVars, kpVars, histVars
  <2> QED
    BY Zenon, <2>1, <2>2
<1>3. CASE ReleaseTodo
  BY Zenon, <1>2, <1>3, FirstEntry DEF Types, ReleaseTodo
<1>4. ASSUME NEW n \in Node, ReleaseAsync(n) PROVE Inv0'
  <2>1. Head(async_todo[n]) \in Txn /\ Tail(async_todo[n]) \in Seq(Txn)
    BY Zenon, <1>4, FirstEntry DEF Types, ReleaseAsync
  <2> QED
    BY Zenon, <1>2, <1>4, <2>1 DEF Types, ReleaseAsync
<1>5. CASE ReleaseDone
  <2>1. tmp_ref' \in Int /\ procMem' \in TxnMem /\ bufMem' \in [Txn -> BufMem]
    BY Zenon, <1>5, Inv0DecTmpref DEF ReleaseDone
  <2> QED
    BY Zenon, <1>5, <2>1 DEF Types, Control, InProbe, ReleaseDone,
       sendVars, listVars, memVars, kpVars, histVars
<1> QED
  BY Zenon, <1>1, <1>3, <1>4, <1>5, Inv0FreeTaken DEF Release, ReleaseTaken

(* Reading, BC_FREE_BUFFER, freezing and dying keep them; a dead process   *)
(* reads nothing.                                                          *)
LEMMA Inv0Target ==
  ASSUME Inv0, Target PROVE Inv0'
<1> USE DEF Inv0
<1>1. CASE binder_thread_read
  <2>1. Head(todo) \in Txn /\ Tail(todo) \in Seq(Txn)
    BY Zenon, <1>1, FirstEntry DEF Types, binder_thread_read
  <2>2. Types'
    BY Zenon, <1>1, <2>1 DEF Types, binder_thread_read, sendVars, refVars, stateVars, memVars,
       kpVars
  <2>3. Control'
    BY Zenon, <1>1, <2>1 DEF Types, Control, InProbe, binder_thread_read, is_dead,
       sendVars, refVars, stateVars, kpVars
  <2> QED
    BY Zenon, <2>2, <2>3
<1>2. CASE binder_ioctl_freeze
  BY <1>2 DEF Types, Control, InProbe, binder_ioctl_freeze,
     sendVars, listVars, refVars, memVars, kpVars, histVars
<1>3. CASE ReleaseMarkDead
  <2>1. is_frozen' \in BOOLEAN
    BY ZenonT(30), <1>3 DEF ReleaseMarkDead
  <2>2. Types'
    BY <1>3, <2>1 DEF Types, ReleaseMarkDead, sendVars, listVars, memVars, kpVars, histVars
  <2>3. Control'
    BY Zenon, <1>3 DEF Types, Control, InProbe, ReleaseMarkDead, is_dead,
       sendVars, listVars, memVars, kpVars, histVars
  <2> QED
    BY Zenon, <2>2, <2>3
<1>4. ASSUME NEW t \in Txn, binder_free_buf(t) PROVE Inv0'
  <2> DEFINE n == Attr[t].node
  <2>1. n \in Node
    BY Zenon, AttrAssumption
  <2>2. async_todo[n] # <<>> => /\ Head(async_todo[n]) \in Txn
                                /\ Tail(async_todo[n]) \in Seq(Txn)
                                /\ Append(todo, Head(async_todo[n])) \in Seq(Txn)
    BY <2>1, FirstEntry, AppendEntry DEF Types
  <2>3. /\ todo' \in Seq(Txn) /\ async_todo' \in [Node -> Seq(Txn)]
    BY Zenon, <1>4, <2>1, <2>2 DEF Types, binder_free_buf
  <2>4. has_async_transaction' \in [Node -> BOOLEAN]
    BY ZenonT(30), <1>4, <2>1 DEF Types, binder_free_buf
  <2>5. bufMem' \in [Txn -> BufMem]
    BY Zenon, <1>4 DEF Types, binder_free_buf, BufMem
  <2>6. Types'
    BY Zenon, <1>4, <2>3, <2>4, <2>5 DEF Types, binder_free_buf,
       sendVars, refVars, stateVars, kpVars, histVars
  <2>7. Control'
    BY Zenon, <1>4 DEF Types, Control, InProbe, binder_free_buf, is_dead,
       sendVars, refVars, stateVars, kpVars, histVars
  <2> QED
    BY Zenon, <2>6, <2>7
<1>5. ASSUME NEW f \in {"running", "freezing", "frozen"}, SetTaskState(f) PROVE Inv0'
  BY <1>5 DEF Types, Control, InProbe, SetTaskState,
     sendVars, listVars, refVars, memVars, kpVars, histVars
<1> QED
  BY Zenon, <1>1, <1>2, <1>3, <1>4, <1>5, Inv0FreeTaken DEF Target, binder_free_transaction

(* Types and control are inductive.                                        *)
LEMMA Inv0Step == Inv0 /\ [Next]_vars => Inv0'
<1> SUFFICES ASSUME Inv0, [Next]_vars PROVE Inv0'
  BY Zenon
<1>1. CASE UNCHANGED vars
  BY <1>1 DEF Inv0, Types, Control, InProbe, vars, sendVars, listVars, refVars, stateVars,
     memVars, kpVars, histVars
<1>2. ASSUME NEW s \in Sender, InDriver(s) PROVE Inv0'
  BY Zenon, <1>2, Inv0Choose, Inv0Lock, Inv0Find, Inv0Queue, Inv0Call, Inv0Put DEF InDriver
<1> QED
  BY Zenon, <1>1, <1>2, Inv0Send, Inv0FreeTxn, Inv0Module, Inv0Release, Inv0Target DEF Next

(* Every reachable state is well typed, and the locals of every sender     *)
(* agree with its place in the driver or in the probe.                     *)
THEOREM ControlCorrect == Spec => []Inv0
  BY Inv0Init, Inv0Step, PTL DEF Spec

(* rkx_free_wq outlives the probes and the queued work. *)
THEOREM WqOutlives == Spec => []WqOutlivesWork
<1>1. Inv0 => WqOutlivesWork
  BY Zenon DEF Inv0, Control, WqOutlivesWork
<1> QED
  BY <1>1, ControlCorrect, PTL

-----------------------------------------------------------------------------
(* Ownership *)

As(n) == Range(async_todo[n])
Td == Range(todo)
Wq == Range(wq)

(* No list has an entry twice, and an async_todo has only its node's. *)
Lists ==
  /\ NoDuplicates(todo) /\ NoDuplicates(wq)
  /\ \A n \in Node : NoDuplicates(async_todo[n])
  /\ \A n \in Node : \A t \in As(n) : Attr[t].node = n

(* A transaction is with one sender, in one list, unlinked by one probe,   *)
(* in the workqueue, or read.                                              *)
Owned ==
  /\ \A s, u \in Sender : cur[s] # NULL /\ cur[s] = cur[u] => s = u
  /\ \A s, u \in Sender : t_outdated[s] # NULL /\ t_outdated[s] = t_outdated[u] => s = u
  /\ \A s \in Sender : cur[s] \notin Td /\ cur[s] \notin dropped /\ cur[s] \notin read
  /\ \A s \in Sender, n \in Node : cur[s] \notin As(n)
  /\ \A t \in Td : t \notin dropped /\ t \notin read
  /\ \A n \in Node : \A t \in As(n) : t \notin dropped /\ t \notin read /\ t \notin Td
  /\ \A s \in Sender : t_outdated[s] # NULL => t_outdated[s] \in dropped \ Wq
  /\ \A t \in Wq : t \in dropped
  /\ \A t \in dropped : t \notin read

(* What is owned was allocated. *)
Allocated ==
  /\ \A s \in Sender : cur[s] # NULL => txnMem[cur[s]] # "none"
  /\ \A t \in Td : txnMem[t] # "none"
  /\ \A n \in Node : \A t \in As(n) : txnMem[t] # "none"
  /\ \A t \in dropped : txnMem[t] # "none"
  /\ \A t \in read : txnMem[t] # "none"

Own == Lists /\ Owned /\ Allocated

ownVars == <<cur, t_outdated, async_todo, todo, wq, dropped, read, txnMem>>

(* Ownership depends on the lists, the senders, the workqueue and the      *)
(* history only.                                                           *)
LEMMA OwnUnchanged == Own /\ UNCHANGED ownVars => Own'
  BY Zenon DEF Own, Lists, Owned, Allocated, As, Td, Wq, ownVars

(* All lists have transactions as entries.                                 *)
LEMMA OwnSets ==
  ASSUME Types
  PROVE  /\ Td \subseteq Txn /\ Wq \subseteq Txn
         /\ \A n \in Node : async_todo[n] \in Seq(Txn) /\ As(n) \subseteq Txn
  BY Zenon, EntryProperties DEF Types, As, Td, Wq

(* Nothing is owned at first.                                              *)
LEMMA OwnInit == Init => Own
<1> SUFFICES ASSUME Init PROVE Own
  BY Zenon
<1>1. Types
  BY Zenon, Inv0Init DEF Inv0
<1>2. Td = {} /\ Wq = {} /\ \A n \in Node : As(n) = {}
  BY ZenonT(30), <1>1, EntryProperties DEF Init, Td, Wq, As, Types
<1>3. Lists
  BY <1>2 DEF Init, Lists, NoDuplicates
<1>4. Owned /\ Allocated
  BY Zenon, <1>2 DEF Init, Owned, Allocated
<1> QED
  BY Zenon, <1>3, <1>4 DEF Own

(* binder_transaction() gives a transaction that nobody owned to its       *)
(* sender.                                                                 *)
LEMMA OwnSend ==
  ASSUME Inv0, Own, NEW s \in Sender, NEW t \in Txn, binder_transaction(s, t) PROVE Own'
<1> USE DEF Inv0, Own
<1>1. /\ cur' = [cur EXCEPT ![s] = t] /\ txnMem' = [txnMem EXCEPT ![t] = "live"]
      /\ txnMem[t] = "none" /\ UNCHANGED <<t_outdated, async_todo, todo, wq, dropped, read>>
  BY Zenon DEF binder_transaction, listVars, kpVars, histVars
<1>2. t \notin Td /\ t \notin dropped /\ t \notin read /\ \A n \in Node : t \notin As(n)
  BY Zenon, <1>1 DEF Allocated
<1>3. Td' = Td /\ Wq' = Wq /\ \A n \in Node : As(n)' = As(n)
  BY Zenon, <1>1 DEF Td, Wq, As
<1>4. Lists'
  BY Zenon, <1>1 DEF Lists, As
<1>5. Owned'
  BY <1>1, <1>2, <1>3 DEF Types, Owned, Allocated
<1>6. Allocated'
  BY Zenon, <1>1, <1>3, OwnSets DEF Types, Allocated
<1> QED
  BY Zenon, <1>4, <1>5, <1>6

(* The unlinked transaction moves from the probe to the workqueue.         *)
LEMMA OwnQueue ==
  ASSUME Inv0, Own, NEW s \in Sender, PreQueueFree(s) PROVE Own'
<1> USE DEF Inv0, Own
<1> DEFINE t == t_outdated[s]
<1>1. /\ wq' = Append(wq, t) /\ t_outdated' = [t_outdated EXCEPT ![s] = NULL]
      /\ UNCHANGED <<cur, async_todo, todo, dropped, read, txnMem>>
  BY Zenon DEF PreQueueFree, listVars, histVars
<1>2. t \in Txn /\ t \in dropped /\ t \notin Wq
  BY Zenon DEF Types, Control, PreQueueFree, Owned
<1>3. Wq' = Wq \cup {t} /\ NoDuplicates(wq)'
  <2>1. wq \in Seq(Txn) /\ NoDuplicates(wq)
    BY Zenon, SeqTypes DEF Lists
  <2> QED
    BY <1>1, <1>2, <2>1, AppendSet DEF Wq
<1>4. Td' = Td /\ \A n \in Node : As(n)' = As(n)
  BY Zenon, <1>1 DEF Td, As
<1>5. Lists'
  BY Zenon, <1>1, <1>3 DEF Lists, As
<1>6. Owned'
  BY <1>1, <1>2, <1>3, <1>4 DEF Types, Owned
<1>7. Allocated'
  BY Zenon, <1>1, <1>4 DEF Allocated
<1> QED
  BY Zenon, <1>5, <1>6, <1>7

(* An outdated transaction moves from its async_todo to the probe.         *)
LEMMA OwnFind ==
  ASSUME Inv0, Own, NEW s \in Sender, PreFindOutdated(s) PROVE Own'
<1> USE DEF Inv0, Own
<1> DEFINE n == Attr[cur[s]].node
<1>1. n \in Node /\ UNCHANGED <<cur, todo, wq, read, txnMem>>
  BY ZenonT(30), AttrAssumption DEF Types, Control, PreFindOutdated, memVars, kpVars
<1>2. CASE Empty(s)
  BY Zenon, <1>1, <1>2, OwnUnchanged DEF Empty, ownVars
<1>3. ASSUME NEW i \in 1 .. Len(async_todo[n]), Detach(s, n, i) PROVE Own'
  <2> DEFINE t == async_todo[n][i]
  <2>1. /\ async_todo' = [async_todo EXCEPT ![n] = list_del_init(@, i)]
        /\ t_outdated' = [t_outdated EXCEPT ![s] = t] /\ dropped' = dropped \cup {t}
    BY Zenon, <1>3 DEF Detach
  <2>2. /\ t \in As(n) /\ t \in Txn
        /\ Range(list_del_init(async_todo[n], i)) = As(n) \ {t}
        /\ NoDuplicates(list_del_init(async_todo[n], i))
    <3>1. async_todo[n] \in Seq(Txn) /\ NoDuplicates(async_todo[n])
      BY Zenon, <1>1, SeqTypes DEF Lists
    <3> QED
      BY Zenon, <3>1, TakeAt DEF As
  <2>3. /\ Td' = Td /\ Wq' = Wq
        /\ \A m \in Node : As(m)' = IF m = n THEN As(n) \ {t} ELSE As(m)
    BY ZenonT(30), <1>1, <2>1, <2>2 DEF Td, Wq, As, Types
  <2>4. t \notin dropped /\ t \notin read /\ t \notin Td /\ t \notin Wq
    <3>1. /\ \A m \in Node : \A x \in As(m) : x \notin dropped /\ x \notin read /\ x \notin Td
          /\ \A x \in Wq : x \in dropped
      BY ZenonT(40) DEF Owned
    <3> HIDE DEF t
    <3> QED
      BY Zenon, <1>1, <2>2, <3>1
  <2>5. \A m \in Node : t \in As(m) => m = n
    BY <1>1, <2>2 DEF Lists
  <2> HIDE DEF t
  <2>6. Lists'
    <3>1. \A m \in Node : NoDuplicates(async_todo'[m])
      BY Zenon, <1>1, <2>1, <2>2 DEF Types, Lists
    <3>2. \A m \in Node : As(m)' \subseteq As(m)
      BY Zenon, <2>3
    <3>3. \A m \in Node : \A x \in As(m)' : Attr[x].node = m
      BY Zenon, <3>2 DEF Lists
    <3> QED
      BY Zenon, <1>1, <3>1, <3>3 DEF Lists
  <2>7. Owned'
    <3>1. /\ \A u \in Sender : cur[u] # t
      BY <1>1, <2>2 DEF Owned
    <3>2. \A u \in Sender : t_outdated[u] # t
      <4>1. \A u \in Sender : t_outdated[u] # NULL => t_outdated[u] \in dropped
        BY Zenon DEF Owned
      <4> QED
        BY Zenon, <2>2, <2>4, <4>1, NullAssumption
    <3>3. /\ \A u, v \in Sender : t_outdated'[u] # NULL /\ t_outdated'[u] = t_outdated'[v] => u = v
          /\ \A u \in Sender : t_outdated'[u] # NULL => t_outdated'[u] \in dropped' \ Wq'
      BY <2>1, <2>3, <2>4, <3>2 DEF Types, Owned
    <3>4. /\ \A u, v \in Sender : cur'[u] # NULL /\ cur'[u] = cur'[v] => u = v
          /\ \A u \in Sender : cur'[u] \notin Td' /\ cur'[u] \notin dropped' /\ cur'[u] \notin read'
          /\ \A u \in Sender, m \in Node : cur'[u] \notin As(m)'
      BY <1>1, <2>1, <2>3, <3>1 DEF Owned
    <3>5. /\ \A x \in Td' : x \notin dropped' /\ x \notin read'
          /\ \A x \in Wq' : x \in dropped'
          /\ \A x \in dropped' : x \notin read'
      BY Zenon, <1>1, <2>1, <2>3, <2>4 DEF Owned
    <3>6. ASSUME NEW m \in Node, NEW x \in As(m)'
          PROVE  x \notin dropped' /\ x \notin read' /\ x \notin Td'
      <4>1. x \in As(m) /\ x # t
        BY Zenon, <2>3, <2>5
      <4> QED
        BY Zenon, <1>1, <2>1, <2>3, <4>1 DEF Owned
    <3> QED
      BY Zenon, <3>3, <3>4, <3>5, <3>6 DEF Owned
  <2>8. Allocated'
    BY ZenonT(40), <1>1, <2>1, <2>2, <2>3 DEF Allocated
  <2> QED
    BY Zenon, <2>6, <2>7, <2>8
<1> QED
  BY Zenon, <1>2, <1>3, FindCases

(* The new transaction moves from its sender to one list, or is freed.     *)
LEMMA OwnCall ==
  ASSUME Inv0, Own, NEW s \in Sender, binder_proc_transaction(s) PROVE Own'
<1> USE DEF Inv0, Own
<1> DEFINE t == cur[s]
           n == Attr[t].node
<1>1. /\ t \in Txn /\ n \in Node /\ cur' = [cur EXCEPT ![s] = NULL]
      /\ UNCHANGED <<t_outdated, wq, dropped, read>>
  BY ZenonT(30), AttrAssumption DEF Types, Control, binder_proc_transaction, kpVars, histVars
<1>2. /\ t \notin Td /\ t \notin dropped /\ t \notin read /\ \A m \in Node : t \notin As(m)
      /\ \A u \in Sender : cur'[u] # t
      /\ txnMem[t] # "none"
  BY <1>1, NullAssumption DEF Types, Owned, Allocated
<1>3. Wq' = Wq /\ NULL \notin Td /\ NULL \notin dropped /\ NULL \notin read /\ NULL \notin Txn
      /\ \A m \in Node : NULL \notin As(m)
  BY Zenon, <1>1, OwnSets, NullAssumption DEF Types, Wq
<1> HIDE DEF t
<1>4. CASE CallRefused(t)
  <2>1. Td' = Td /\ \A m \in Node : As(m)' = As(m)
    BY Zenon, <1>4 DEF CallRefused, Td, As
  <2>2. txnMem' = [txnMem EXCEPT ![t] = kfree(@)] /\ txnMem'[t] # "none"
    BY Zenon, <1>1, <1>4 DEF CallRefused, kfree, Types
  <2>3. Lists'
    BY ZenonT(40), <1>1, <1>4, <2>1 DEF CallRefused, Lists
  <2>4. Owned'
    <3>1. \A u \in Sender : cur'[u] = cur[u] \/ cur'[u] = NULL
      BY Zenon, <1>1 DEF Types
    <3>2. /\ \A u, v \in Sender : cur'[u] # NULL /\ cur'[u] = cur'[v] => u = v
          /\ \A u \in Sender : cur'[u] \notin Td' /\ cur'[u] \notin dropped' /\ cur'[u] \notin read'
          /\ \A u \in Sender, m \in Node : cur'[u] \notin As(m)'
      <4>1. \A u, v \in Sender : cur'[u] # NULL /\ cur'[u] = cur'[v] => u = v
        BY Zenon, <3>1, <1>1 DEF Types, Owned
      <4>2. \A u \in Sender : cur'[u] \notin Td /\ cur'[u] \notin dropped /\ cur'[u] \notin read
        BY Zenon, <1>3, <3>1 DEF Owned
      <4>3. \A u \in Sender, m \in Node : cur'[u] \notin As(m)
        BY <1>3, <3>1 DEF Owned
      <4> QED
        BY Zenon, <1>1, <2>1, <4>1, <4>2, <4>3
    <3> QED
      BY <1>1, <1>3, <2>1, <3>2 DEF Owned
  <2>5. Allocated'
    BY SMTT(30), <1>1, <2>1, <2>2 DEF Types, Allocated
  <2> QED
    BY Zenon, <2>3, <2>4, <2>5
<1>5. CASE CallToProcess(t)
  <2>1. todo' = Append(todo, t) /\ UNCHANGED <<async_todo, txnMem>>
    BY Zenon, <1>5 DEF CallToProcess
  <2>2. Td' = Td \cup {t} /\ NoDuplicates(todo)' /\ \A m \in Node : As(m)' = As(m)
    BY <1>1, <1>2, <2>1, AppendSet, SeqTypes DEF Lists, Td, As
  <2>3. Lists'
    BY Zenon, <1>1, <2>1, <2>2 DEF Lists
  <2>4. Owned'
    <3>1. \A u \in Sender : cur'[u] = cur[u] \/ cur'[u] = NULL
      BY Zenon, <1>1 DEF Types
    <3>2. \A u, v \in Sender : cur'[u] # NULL /\ cur'[u] = cur'[v] => u = v
      BY <1>1 DEF Types, Owned
    <3>3. \A u \in Sender : cur'[u] \notin Td /\ cur'[u] \notin dropped /\ cur'[u] \notin read
      BY Zenon, <1>3, <3>1 DEF Owned
    <3>4. \A u \in Sender, m \in Node : cur'[u] \notin As(m)
      BY <1>3, <3>1 DEF Owned
    <3>5. \A u \in Sender : cur'[u] \notin Td'
      BY Zenon, <1>2, <2>2, <3>3
    <3>6. \A x \in Td' : x \notin dropped /\ x \notin read
      BY Zenon, <1>2, <2>2 DEF Owned
    <3>7. \A m \in Node : \A x \in As(m) : x \notin dropped /\ x \notin read /\ x \notin Td'
      BY <1>2, <2>2 DEF Owned
    <3> QED
      BY <1>1, <1>3, <2>2, <3>2, <3>3, <3>4, <3>5, <3>6, <3>7 DEF Owned
  <2>5. Allocated'
    BY <1>1, <1>2, <2>1, <2>2 DEF Types, Allocated
  <2> QED
    BY Zenon, <2>3, <2>4, <2>5
<1>6. CASE CallToNode(t, n)
  <2>1. async_todo' = [async_todo EXCEPT ![n] = Append(@, t)] /\ UNCHANGED <<todo, txnMem>>
    BY Zenon, <1>6 DEF CallToNode
  <2>2. Range(Append(async_todo[n], t)) = As(n) \cup {t} /\ NoDuplicates(Append(async_todo[n], t))
    BY <1>1, <1>2, AppendSet, SeqTypes DEF Lists, As
  <2>3. /\ Td' = Td
        /\ \A m \in Node : As(m)' = IF m = n THEN As(n) \cup {t} ELSE As(m)
    BY Zenon, <1>1, <2>1, <2>2 DEF Types, Td, As
  <2>4. Lists'
    BY ZenonT(30), <1>1, <2>1, <2>2, <2>3 DEF Types, Lists
  <2>5. Owned'
    <3>1. /\ \A u, v \in Sender : cur'[u] # NULL /\ cur'[u] = cur'[v] => u = v
          /\ \A u \in Sender : cur'[u] \notin Td' /\ cur'[u] \notin dropped' /\ cur'[u] \notin read'
      BY <1>1, <1>3, <2>3 DEF Types, Owned
    <3>2. ASSUME NEW u \in Sender, NEW m \in Node PROVE cur'[u] \notin As(m)'
      <4>1. cur'[u] \notin As(m)
        BY Zenon, <1>1, <1>3 DEF Types, Owned
      <4> QED
        BY Zenon, <1>2, <2>3, <4>1
    <3>3. ASSUME NEW m \in Node, NEW x \in As(m)'
          PROVE  x \notin dropped' /\ x \notin read' /\ x \notin Td'
      <4>1. x \in As(m) \/ x = t
        BY Zenon, <2>3
      <4> QED
        BY Zenon, <1>1, <1>2, <2>3, <4>1 DEF Owned
    <3> QED
      BY ZenonT(40), <1>1, <1>3, <2>3, <3>1, <3>2, <3>3 DEF Owned
  <2>6. Allocated'
    BY ZenonT(60), <1>1, <1>2, <2>1, <2>3 DEF Types, Allocated
  <2> QED
    BY Zenon, <2>4, <2>5, <2>6
<1> QED
  BY Zenon, <1>4, <1>5, <1>6, CallCases DEF t

(* Freeing a transaction does not change its owner.                        *)
LEMMA OwnKfree ==
  ASSUME Inv0, Own, NEW t \in Txn, txnMem' = [txnMem EXCEPT ![t] = kfree(@)],
         UNCHANGED <<cur, t_outdated, async_todo, todo, wq, dropped, read>>
  PROVE  Own'
<1> USE DEF Inv0, Own
<1>1. \A u \in Txn : txnMem[u] # "none" => txnMem'[u] # "none"
  BY Zenon DEF Types, kfree
<1>2. Lists' /\ Owned' /\ Td' = Td /\ \A n \in Node : As(n)' = As(n)
  BY Zenon DEF Lists, Owned, As, Td, Wq
<1>3. Allocated'
  BY Zenon, <1>1, <1>2, OwnSets DEF Types, Allocated
<1> QED
  BY Zenon, <1>2, <1>3

(* Nor has a transaction that is taken off its list another owner then.    *)
LEMMA OwnTake ==
  ASSUME Inv0, Own, NEW t \in Txn, txnMem[t] # "none", UNCHANGED txnMem,
         UNCHANGED <<cur, t_outdated, dropped>>, read' \subseteq read \cup {t},
         t \notin dropped, \A s \in Sender : cur[s] # t,
         NoDuplicates(todo'), \A n \in Node : NoDuplicates(async_todo'[n]), UNCHANGED wq,
         Td' \subseteq Td \ {t}, \A n \in Node : As(n)' \subseteq As(n) \ {t}
  PROVE  Own'
<1> USE DEF Own
<1>1. Wq' = Wq
  BY Zenon DEF Wq
<1>2. Lists'
  BY Zenon DEF Lists
<1>3. Owned'
  BY Zenon, <1>1 DEF Owned
<1>4. Allocated'
  BY Zenon DEF Allocated
<1> QED
  BY Zenon, <1>2, <1>3, <1>4

(* rkx_free_txn_func takes its item out of the workqueue.                  *)
LEMMA OwnFreeTxn ==
  ASSUME Inv0, Own, FreeTxn PROVE Own'
<1> USE DEF Inv0, Own
<1>1. CASE FreeTxnReleaseBuffer
  BY Zenon, <1>1, OwnUnchanged DEF FreeTxnReleaseBuffer, ownVars, sendVars, listVars, histVars
<1>2. CASE FreeTxnKfree
  <2>1. Head(wq) \in Txn
    BY Zenon, <1>2, FirstEntry DEF FreeTxnKfree, Types
  <2> QED
    BY Zenon, <1>2, <2>1, OwnKfree DEF FreeTxnKfree, KfreeTxn, sendVars, listVars, histVars
<1>3. CASE FreeTxnDecTmpref
  <2>1. wq # <<>> /\ wq' = Tail(wq) /\ UNCHANGED <<cur, t_outdated, async_todo, todo, dropped, read, txnMem>>
    BY Zenon, <1>3 DEF FreeTxnDecTmpref, sendVars, listVars, histVars
  <2>2. NoDuplicates(wq)' /\ Wq' \subseteq Wq
    BY Zenon, <2>1, TakeFirst, SeqTypes DEF Lists, Wq
  <2>3. Lists' /\ Allocated'
    BY Zenon, <2>1, <2>2 DEF Lists, Allocated, As, Td
  <2>4. Td' = Td /\ \A n \in Node : As(n)' = As(n)
    BY Zenon, <2>1 DEF Td, As
  <2>5. Owned'
    BY <2>1, <2>2, <2>4 DEF Owned
  <2> QED
    BY Zenon, <2>3, <2>5
<1> QED
  BY Zenon, <1>1, <1>2, <1>3 DEF FreeTxn

(* The first entry of todo, and of an async_todo, has no other owner. *)
LEMMA OwnTodoHead ==
  ASSUME Inv0, Own, todo # <<>>
  PROVE  LET t == Head(todo) IN
         /\ t \in Txn /\ t \in Td /\ t \notin dropped /\ t \notin read
         /\ \A s \in Sender : cur[s] # t
         /\ \A n \in Node : t \notin As(n)
         /\ NoDuplicates(Tail(todo)) /\ Range(Tail(todo)) = Td \ {t}
         /\ txnMem[t] # "none"
<1>1. /\ Head(todo) \in Txn /\ Head(todo) \in Td
      /\ NoDuplicates(Tail(todo)) /\ Range(Tail(todo)) = Td \ {Head(todo)}
  BY Zenon, TakeFirst, SeqTypes DEF Inv0, Own, Lists, Td
<1> QED
  BY <1>1 DEF Own, Owned, Allocated

(* Nor has the first entry of an async_todo another owner.                 *)
LEMMA OwnAsyncHead ==
  ASSUME Inv0, Own, NEW n \in Node, async_todo[n] # <<>>
  PROVE  LET t == Head(async_todo[n]) IN
         /\ t \in Txn /\ t \in As(n) /\ t \notin dropped /\ t \notin read /\ t \notin Td
         /\ \A s \in Sender : cur[s] # t
         /\ \A m \in Node : t \in As(m) => m = n
         /\ NoDuplicates(Tail(async_todo[n])) /\ Range(Tail(async_todo[n])) = As(n) \ {t}
         /\ txnMem[t] # "none"
<1>1. /\ Head(async_todo[n]) \in Txn /\ Head(async_todo[n]) \in As(n)
      /\ NoDuplicates(Tail(async_todo[n]))
      /\ Range(Tail(async_todo[n])) = As(n) \ {Head(async_todo[n])}
  BY Zenon, TakeFirst, SeqTypes DEF Inv0, Own, Lists, As
<1>2. \A m \in Node : Head(async_todo[n]) \in As(m) => m = n
  BY Zenon, <1>1 DEF Own, Lists
<1>3. /\ \A x \in As(n) : x \notin dropped /\ x \notin read /\ x \notin Td
      /\ \A s \in Sender : cur[s] \notin As(n)
      /\ \A x \in As(n) : txnMem[x] # "none"
  BY Zenon DEF Own, Owned, Allocated
<1> QED
  BY Zenon, <1>1, <1>2, <1>3

(* Changing the async_todo of one node leaves those of the others alone.   *)
LEMMA AsyncExcept ==
  ASSUME Types, NEW n \in Node, NEW q, async_todo' = [async_todo EXCEPT ![n] = q]
  PROVE  \A m \in Node : /\ async_todo'[m] = IF m = n THEN q ELSE async_todo[m]
                         /\ As(m)' = IF m = n THEN Range(q) ELSE As(m)
  BY Zenon DEF Types, As

(* The deferred release takes off what is in a list, and frees it.         *)
LEMMA OwnRelease ==
  ASSUME Inv0, Own, Release PROVE Own'
<1> USE DEF Inv0
<1>1. CASE ReleaseThreads
  BY Zenon, <1>1, OwnUnchanged DEF ReleaseThreads, ownVars, sendVars, listVars, memVars,
     kpVars, histVars
<1>2. CASE ReleaseTodo
  <2> DEFINE t == Head(todo)
  <2>1. /\ todo # <<>> /\ todo' = Tail(todo)
        /\ UNCHANGED <<async_todo, cur, t_outdated, dropped, read, wq, txnMem>>
    BY Zenon, <1>2 DEF ReleaseTodo, ReleaseTake, sendVars, memVars, kpVars, histVars
  <2>2. Td' = Range(Tail(todo)) /\ NoDuplicates(todo') /\ \A n \in Node : As(n)' = As(n)
    BY Zenon, <2>1, OwnTodoHead DEF Td, As
  <2> QED
    BY ZenonT(30), <2>1, <2>2, OwnTodoHead, OwnTake DEF Own, Lists
<1>3. ASSUME NEW n \in Node, ReleaseAsync(n) PROVE Own'
  <2> DEFINE t == Head(async_todo[n])
  <2>1. /\ async_todo[n] # <<>> /\ async_todo' = [async_todo EXCEPT ![n] = Tail(@)]
        /\ UNCHANGED <<todo, cur, t_outdated, dropped, read, wq, txnMem>>
    BY Zenon, <1>3 DEF ReleaseAsync, ReleaseTake, sendVars, memVars, kpVars, histVars
  <2>2. /\ Td' = Td /\ \A m \in Node : NoDuplicates(async_todo'[m])
        /\ \A m \in Node : As(m)' = IF m = n THEN As(n) \ {t} ELSE As(m)
    <3>1. \A m \in Node : /\ async_todo'[m] = IF m = n THEN Tail(async_todo[n]) ELSE async_todo[m]
                          /\ As(m)' = IF m = n THEN Range(Tail(async_todo[n])) ELSE As(m)
      BY ZenonT(30), <2>1, AsyncExcept
    <3>2. \A m \in Node : NoDuplicates(async_todo[m])
      BY Zenon DEF Own, Lists
    <3> QED
      BY <2>1, <3>1, <3>2, OwnAsyncHead DEF Td
  <2>3. \A m \in Node : As(m)' \subseteq As(m) \ {t}
    BY <2>1, <2>2, OwnAsyncHead
  <2>4. NoDuplicates(todo') /\ t \in Txn /\ t \notin dropped /\ (\A s \in Sender : cur[s] # t)
        /\ Td' \subseteq Td \ {t} /\ txnMem[t] # "none"
    BY <2>1, <2>2, OwnAsyncHead DEF Own, Lists
  <2> HIDE DEF t
  <2> QED
    BY ZenonT(30), <2>1, <2>2, <2>3, <2>4, OwnTake
<1>4. CASE ReleaseDone
  BY Zenon, <1>4, OwnUnchanged DEF ReleaseDone, ownVars, sendVars, listVars, kpVars, histVars
<1>5. ASSUME NEW t \in Txn, ReleaseTaken(t) PROVE Own'
  BY Zenon, <1>5, OwnKfree DEF ReleaseTaken, FreeTaken, sendVars, kpVars, histVars
<1> QED
  BY Zenon, <1>1, <1>2, <1>3, <1>4, <1>5 DEF Release

(* Reading and BC_FREE_BUFFER move a transaction to the reader or to todo. *)
LEMMA OwnTarget ==
  ASSUME Inv0, Own, Target PROVE Own'
<1> USE DEF Inv0
<1>1. CASE binder_thread_read
  <2> DEFINE t == Head(todo)
  <2>1. /\ todo # <<>> /\ todo' = Tail(todo) /\ read' = read \cup {t}
        /\ UNCHANGED <<async_todo, cur, t_outdated, dropped, wq, txnMem>>
    BY Zenon, <1>1 DEF binder_thread_read, sendVars, memVars, kpVars
  <2>2. Td' = Range(Tail(todo)) /\ NoDuplicates(todo') /\ \A n \in Node : As(n)' = As(n)
    BY Zenon, <2>1, OwnTodoHead DEF Td, As
  <2> QED
    BY ZenonT(30), <2>1, <2>2, OwnTodoHead, OwnTake DEF Own, Lists
<1>2. CASE binder_ioctl_freeze
  BY Zenon, <1>2, OwnUnchanged DEF binder_ioctl_freeze, ownVars, sendVars, listVars, memVars,
     kpVars, histVars
<1>3. CASE ReleaseMarkDead
  BY Zenon, <1>3, OwnUnchanged DEF ReleaseMarkDead, ownVars, sendVars, listVars, memVars,
     kpVars, histVars
<1>4. ASSUME NEW u \in Txn, binder_free_buf(u) PROVE Own'
  <2> DEFINE n == Attr[u].node
             t == Head(async_todo[n])
  <2>1. n \in Node /\ UNCHANGED <<cur, t_outdated, txnMem, wq, dropped, read>>
    BY Zenon, <1>4, AttrAssumption DEF binder_free_buf, sendVars, kpVars, histVars
  <2>2. CASE UNCHANGED <<todo, async_todo>>
    BY Zenon, <2>1, <2>2, OwnUnchanged DEF ownVars
  <2>3. CASE /\ async_todo[n] # <<>>
             /\ todo' = Append(todo, t) /\ async_todo' = [async_todo EXCEPT ![n] = Tail(@)]
    <3>1. t \in Txn /\ t \notin Td /\ t \in As(n) /\ NoDuplicates(Tail(async_todo[n]))
      BY Zenon, <2>1, <2>3, OwnAsyncHead
    <3>2. Td' = Td \cup {t} /\ NoDuplicates(todo')
      BY <2>3, <3>1, AppendSet, SeqTypes DEF Own, Lists, Td
    <3>3. /\ \A m \in Node : As(m)' = IF m = n THEN As(n) \ {t} ELSE As(m)
          /\ \A m \in Node : NoDuplicates(async_todo'[m])
      <4>1. \A m \in Node : /\ async_todo'[m] = IF m = n THEN Tail(async_todo[n]) ELSE async_todo[m]
                            /\ As(m)' = IF m = n THEN Range(Tail(async_todo[n])) ELSE As(m)
        BY ZenonT(30), <2>1, <2>3, AsyncExcept
      <4>2. \A m \in Node : NoDuplicates(async_todo[m])
        BY Zenon DEF Own, Lists
      <4>3. Range(Tail(async_todo[n])) = As(n) \ {t}
        BY Zenon, <2>1, <2>3, OwnAsyncHead
      <4> QED
        BY Zenon, <3>1, <4>1, <4>2, <4>3
    <3>4. Wq' = Wq /\ t \notin dropped /\ t \notin read /\ (\A s \in Sender : cur[s] # t)
          /\ \A m \in Node : As(m)' \subseteq As(m) \ {t}
      BY <2>1, <2>3, <3>3, OwnAsyncHead DEF Wq
    <3> HIDE DEF t
    <3>5. Lists'
      BY Zenon, <2>1, <3>2, <3>3, <3>4 DEF Own, Lists
    <3>6. Owned'
      BY Zenon, <2>1, <3>2, <3>4 DEF Own, Owned
    <3>7. Allocated'
      BY Zenon, <2>1, <3>1, <3>2, <3>4 DEF Own, Allocated
    <3> QED
      BY Zenon, <3>5, <3>6, <3>7 DEF Own
  <2> QED
    BY Zenon, <1>4, <2>2, <2>3 DEF binder_free_buf
<1>5. ASSUME NEW f \in {"running", "freezing", "frozen"}, SetTaskState(f) PROVE Own'
  BY Zenon, <1>5, OwnUnchanged DEF SetTaskState, ownVars, sendVars, listVars, memVars, kpVars,
     histVars
<1>6. ASSUME NEW t \in Txn, binder_free_transaction(t) PROVE Own'
  BY Zenon, <1>6, OwnKfree DEF binder_free_transaction, FreeTaken, sendVars, kpVars, histVars
<1> QED
  BY Zenon, <1>1, <1>2, <1>3, <1>4, <1>5, <1>6 DEF Target

(* Ownership is inductive, given types and control.                        *)
LEMMA OwnStep == Inv0 /\ Own /\ [Next]_vars => Own'
<1> SUFFICES ASSUME Inv0, Own, [Next]_vars PROVE Own'
  BY Zenon
<1>1. CASE UNCHANGED vars
  BY Zenon, <1>1, OwnUnchanged DEF vars, ownVars, sendVars, listVars, memVars, kpVars, histVars
<1>2. ASSUME NEW s \in Sender, InDriver(s) PROVE Own'
  <2>1. CASE PreChooseStrategy(s)
    BY Zenon, <2>1, OwnUnchanged DEF PreChooseStrategy, ownVars, listVars, memVars, kpVars,
       histVars
  <2>2. CASE PreLockNode(s)
    BY Zenon, <2>2, OwnUnchanged DEF PreLockNode, ownVars, listVars, memVars, kpVars
  <2>3. CASE binder_proc_dec_tmpref(s)
    BY Zenon, <2>3, OwnUnchanged DEF binder_proc_dec_tmpref, ownVars, listVars, kpVars, histVars
  <2> QED
    BY Zenon, <1>2, <2>1, <2>2, <2>3, OwnFind, OwnQueue, OwnCall DEF InDriver
<1>3. CASE Register \/ Unregister
  BY Zenon, <1>3, OwnUnchanged DEF Register, Unregister, RegisterAllocWq, RegisterArm,
     RegisterFail,
     UnregisterDisarm, UnregisterSynchronize, UnregisterDestroyWq, ModStep,
     ownVars, sendVars, listVars, memVars, histVars
<1> QED
  BY Zenon, <1>1, <1>2, <1>3, OwnSend, OwnFreeTxn, OwnRelease, OwnTarget DEF Next

(* No step takes an allocation back to "none".                             *)
LEMMA StaysAllocated ==
  ASSUME Inv0, [Next]_vars
  PROVE  \A u \in Txn : txnMem[u] # "none" => txnMem'[u] # "none"
<1> SUFFICES ASSUME NEW u \in Txn, txnMem[u] # "none" PROVE txnMem'[u] # "none"
  BY Zenon
<1>1. CASE UNCHANGED txnMem
  BY Zenon, <1>1
<1>2. CASE \E t \in Txn : txnMem' = [txnMem EXCEPT ![t] = kfree(@)]
  BY Zenon, <1>2 DEF kfree, Inv0, Types
<1>3. ASSUME NEW s \in Sender, NEW t \in Txn, binder_transaction(s, t) PROVE txnMem'[u] # "none"
  BY Zenon, <1>3 DEF binder_transaction, Inv0, Types
<1>4. ASSUME NEW s \in Sender, InDriver(s) PROVE txnMem'[u] # "none"
  <2>1. CASE binder_proc_transaction(s)
    <3>1. cur[s] \in Txn
      BY Zenon, <2>1 DEF binder_proc_transaction, Inv0, Types, Control
    <3> QED
      BY ZenonT(40), <1>1, <1>2, <2>1, <3>1, CallCases DEF CallRefused, CallToProcess,
         CallToNode
  <2> QED
    BY ZenonT(40), <1>1, <1>4, <2>1 DEF InDriver, PreChooseStrategy, PreLockNode,
       PreFindOutdated, PreQueueFree, binder_proc_dec_tmpref, memVars
<1>5. CASE FreeTxn \/ Register \/ Unregister
  <2>1. CASE FreeTxnKfree
    <3>1. Head(wq) \in Txn
      BY Zenon, <2>1, FirstEntry DEF FreeTxnKfree, Inv0, Types
    <3> QED  BY Zenon, <1>2, <2>1, <3>1 DEF FreeTxnKfree, KfreeTxn
  <2> QED
    BY Zenon, <1>1, <1>5, <2>1 DEF FreeTxn, FreeTxnReleaseBuffer, FreeTxnDecTmpref, Register,
       Unregister, RegisterAllocWq, RegisterArm, RegisterFail, UnregisterDisarm,
       UnregisterSynchronize, UnregisterDestroyWq, ModStep, memVars
<1>6. CASE Release
  BY Zenon, <1>1, <1>2, <1>6 DEF Release, ReleaseThreads, ReleaseTodo, ReleaseAsync,
     ReleaseTake, ReleaseTaken, FreeTaken, ReleaseDone, memVars
<1>7. CASE Target
  BY Zenon, <1>1, <1>2, <1>7 DEF Target, binder_thread_read, binder_free_transaction,
     FreeTaken, binder_ioctl_freeze, ReleaseMarkDead, binder_free_buf, SetTaskState, memVars
<1> QED
  BY ZenonT(40), <1>1, <1>3, <1>4, <1>5, <1>6, <1>7 DEF Next, vars, memVars

(* Where else a transaction can be, and that one which the driver has      *)
(* taken off a list to free it is nowhere else.                            *)
Placed(t) ==
  \/ t \in Td \/ t \in dropped
  \/ \E n \in Node : t \in As(n)
  \/ \E s \in Sender : cur[s] = t
Apart == \A t \in taken : ~ Placed(t) /\ txnMem[t] # "none"

(* Only binder_transaction() gives a transaction a place that had none.    *)
LEMMA PlacedSender ==
  ASSUME Inv0, Own, NEW s \in Sender, InDriver(s), NEW u \in Txn, Placed(u)'
  PROVE  Placed(u)
<1> USE DEF Inv0
<1>1. CASE PreChooseStrategy(s) \/ PreLockNode(s) \/ PreQueueFree(s) \/ binder_proc_dec_tmpref(s)
  <2>1. UNCHANGED <<cur, todo, async_todo, dropped>>
    BY Zenon, <1>1 DEF PreChooseStrategy, PreLockNode, PreQueueFree, binder_proc_dec_tmpref,
       listVars, histVars
  <2> QED
    BY Zenon, <2>1 DEF Placed, Td, As
<1>2. CASE PreFindOutdated(s)
  <2> DEFINE n == Attr[cur[s]].node
  <2>1. n \in Node /\ UNCHANGED <<cur, todo>>
    BY ZenonT(30), <1>2, AttrAssumption DEF Types, Control, PreFindOutdated
  <2>2. CASE Empty(s)
    BY Zenon, <2>1, <2>2 DEF Empty, Placed, Td, As
  <2>3. ASSUME NEW i \in 1 .. Len(async_todo[n]), Detach(s, n, i) PROVE Placed(u)
    <3> DEFINE t == async_todo[n][i]
    <3>1. /\ async_todo' = [async_todo EXCEPT ![n] = list_del_init(@, i)]
          /\ dropped' = dropped \cup {t}
      BY Zenon, <2>3 DEF Detach
    <3>2. t \in As(n) /\ Range(list_del_init(async_todo[n], i)) \subseteq As(n)
      <4>1. async_todo[n] \in Seq(Txn) /\ NoDuplicates(async_todo[n])
        BY Zenon, <2>1, SeqTypes DEF Own, Lists
      <4>2. Range(list_del_init(async_todo[n], i)) = As(n) \ {t} /\ t \in As(n)
        BY Zenon, <4>1, TakeAt DEF As
      <4> QED
        BY Zenon, <4>2
    <3>3. \A m \in Node : As(m)' = IF m = n THEN Range(list_del_init(async_todo[n], i)) ELSE As(m)
      BY ZenonT(30), <2>1, <3>1, AsyncExcept
    <3>4. Td' = Td
      BY Zenon, <2>1 DEF Td
    <3> HIDE DEF t
    <3> QED
      BY Zenon, <2>1, <3>1, <3>2, <3>3, <3>4 DEF Placed
  <2> QED
    BY Zenon, <1>2, <2>2, <2>3, FindCases
<1>3. CASE binder_proc_transaction(s)
  <2>1. PICK t \in Txn : t = cur[s]
    BY ZenonT(30), <1>3 DEF Types, Control, binder_proc_transaction
  <2> DEFINE n == Attr[t].node
  <2>2. n \in Node /\ UNCHANGED dropped /\ \A v \in Sender : cur'[v] \in {cur[v], NULL}
    BY Zenon, <1>3, AttrAssumption DEF Types, binder_proc_transaction, histVars
  <2>3. \A v \in Sender : cur'[v] = u => cur[v] = u
    BY Zenon, <2>2, NullAssumption
  <2>4. Td' \subseteq Td \cup {t} /\ \A m \in Node : As(m)' \subseteq As(m) \cup {t}
    <3>1. CASE CallRefused(t)
      BY Zenon, <3>1 DEF CallRefused, Td, As
    <3>2. CASE CallToProcess(t)
      BY <3>2, AppendSet, SeqTypes DEF CallToProcess, Td, As
    <3>3. CASE CallToNode(t, n)
      <4>1. Range(Append(async_todo[n], t)) = As(n) \cup {t}
        BY <2>2, AppendSet, SeqTypes DEF As
      <4>2. \A m \in Node : As(m)' = IF m = n THEN Range(Append(async_todo[n], t)) ELSE As(m)
        <5>1. async_todo' = [async_todo EXCEPT ![n] = Append(async_todo[n], t)]
          BY Zenon, <3>3 DEF CallToNode
        <5> HIDE DEF n
        <5> QED
          BY ZenonT(30), <2>2, <5>1, AsyncExcept
      <4>3. Td' = Td
        BY Zenon, <3>3 DEF CallToNode, Td
      <4> QED
        BY Zenon, <4>1, <4>2, <4>3
    <3> QED
      BY Zenon, <1>3, <2>1, <3>1, <3>2, <3>3, CallCases
  <2> HIDE DEF n
  <2> QED
    BY Zenon, <2>1, <2>2, <2>3, <2>4 DEF Placed
<1> QED
  BY Zenon, <1>1, <1>2, <1>3 DEF InDriver

(* BC_FREE_BUFFER moves a transaction from one place to another.           *)
LEMMA PlacedFreeBuf ==
  ASSUME Inv0, Own, NEW w \in Txn, binder_free_buf(w), NEW u \in Txn, Placed(u)'
  PROVE  Placed(u)
<1> USE DEF Inv0
<1> DEFINE n == Attr[w].node
           t == Head(async_todo[n])
<1>1. n \in Node /\ UNCHANGED <<cur, dropped>>
  BY Zenon, AttrAssumption DEF binder_free_buf, sendVars, histVars
<1>2. CASE UNCHANGED <<todo, async_todo>>
  BY Zenon, <1>1, <1>2 DEF Placed, Td, As
<1>3. CASE /\ async_todo[n] # <<>>
           /\ todo' = Append(todo, t) /\ async_todo' = [async_todo EXCEPT ![n] = Tail(@)]
  <2>1. t \in Txn /\ t \in As(n) /\ Range(Tail(async_todo[n])) = As(n) \ {t}
    BY Zenon, <1>1, <1>3, OwnAsyncHead
  <2>2. Td' = Td \cup {t}
    BY <1>3, <2>1, AppendSet, SeqTypes DEF Td
  <2>3. \A m \in Node : As(m)' = IF m = n THEN Range(Tail(async_todo[n])) ELSE As(m)
    BY ZenonT(30), <1>1, <1>3, AsyncExcept
  <2> HIDE DEF t
  <2> QED
    BY Zenon, <1>1, <2>1, <2>2, <2>3 DEF Placed
<1> QED
  BY Zenon, <1>2, <1>3 DEF binder_free_buf

(* Reading, and the release, take a transaction off the one place it has.  *)
LEMMA TakenOff ==
  ASSUME Inv0, Own, Apart, [Next]_vars,
         binder_thread_read \/ ReleaseTodo \/ \E n \in Node : ReleaseAsync(n)
  PROVE  \E t \in Txn : /\ taken' = taken \cup {t} /\ txnMem[t] # "none"
                        /\ \A u \in Txn : Placed(u)' => Placed(u) /\ u # t
<1> USE DEF Inv0
<1>1. CASE binder_thread_read \/ ReleaseTodo
  <2> DEFINE t == Head(todo)
  <2>1. /\ todo # <<>> /\ todo' = Tail(todo) /\ taken' = taken \cup {t}
        /\ UNCHANGED <<cur, async_todo, dropped>>
    BY Zenon, <1>1 DEF binder_thread_read, ReleaseTodo, ReleaseTake, sendVars, histVars
  <2>2. /\ t \in Txn /\ txnMem[t] # "none" /\ t \notin dropped /\ (\A s \in Sender : cur[s] # t)
        /\ (\A n \in Node : t \notin As(n)) /\ Range(Tail(todo)) = Td \ {t}
    BY Zenon, <2>1, OwnTodoHead
  <2>3. Td' = Td \ {t} /\ \A n \in Node : As(n)' = As(n)
    BY Zenon, <2>1, <2>2 DEF Td, As
  <2> HIDE DEF t
  <2> QED
    BY Zenon, <2>1, <2>2, <2>3 DEF Placed
<1>2. ASSUME NEW n \in Node, ReleaseAsync(n)
      PROVE  \E t \in Txn : /\ taken' = taken \cup {t} /\ txnMem[t] # "none"
                            /\ \A u \in Txn : Placed(u)' => Placed(u) /\ u # t
  <2> DEFINE t == Head(async_todo[n])
  <2>1. /\ async_todo[n] # <<>> /\ async_todo' = [async_todo EXCEPT ![n] = Tail(@)]
        /\ taken' = taken \cup {t} /\ UNCHANGED <<cur, todo, dropped>>
    BY Zenon, <1>2 DEF ReleaseAsync, ReleaseTake, sendVars, histVars
  <2>2. /\ t \in Txn /\ txnMem[t] # "none" /\ t \notin dropped /\ t \notin Td
        /\ (\A s \in Sender : cur[s] # t) /\ (\A m \in Node : t \in As(m) => m = n)
        /\ Range(Tail(async_todo[n])) = As(n) \ {t}
    BY Zenon, <2>1, OwnAsyncHead
  <2>3. \A m \in Node : As(m)' = IF m = n THEN Range(Tail(async_todo[n])) ELSE As(m)
    BY ZenonT(30), <2>1, AsyncExcept
  <2>4. Td' = Td
    BY Zenon, <2>1 DEF Td
  <2> HIDE DEF t
  <2> QED
    BY Zenon, <2>1, <2>2, <2>3, <2>4 DEF Placed
<1> QED
  BY Zenon, <1>1, <1>2

(* What was taken off a list stays apart until it is freed.                *)
LEMMA ApartStep == Inv0 /\ Own /\ Apart /\ [Next]_vars => Apart'
<1> SUFFICES ASSUME Inv0, Own, Apart, [Next]_vars PROVE Apart'
  BY Zenon
<1>0. taken \subseteq Txn /\ \A u \in Txn : txnMem[u] # "none" => txnMem'[u] # "none"
  BY Zenon, StaysAllocated DEF Inv0, Types
<1>1. CASE /\ taken' \subseteq taken
           /\ \A u \in Txn : Placed(u)' => Placed(u) \/ txnMem[u] = "none"
  BY Zenon, <1>0, <1>1 DEF Apart
<1>2. CASE taken' \subseteq taken /\ UNCHANGED <<cur, todo, async_todo, dropped>>
  <2>1. \A u \in Txn : Placed(u)' => Placed(u)
    BY Zenon, <1>2 DEF Placed, Td, As
  <2> QED
    BY Zenon, <1>1, <1>2, <2>1
<1>3. ASSUME NEW s \in Sender, NEW t \in Txn, binder_transaction(s, t) PROVE Apart'
  <2>1. /\ cur' = [cur EXCEPT ![s] = t] /\ txnMem[t] = "none"
        /\ UNCHANGED <<taken, todo, async_todo, dropped>>
    BY Zenon, <1>3 DEF binder_transaction, listVars, histVars
  <2>2. \A v \in Sender : cur'[v] \in {cur[v], t}
    BY Zenon, <2>1 DEF Inv0, Types
  <2>3. Td' = Td /\ \A n \in Node : As(n)' = As(n)
    BY Zenon, <2>1 DEF Td, As
  <2>4. \A u \in Txn : Placed(u)' => Placed(u) \/ txnMem[u] = "none"
    BY Zenon, <2>1, <2>2, <2>3 DEF Placed
  <2> QED
    BY Zenon, <1>1, <2>1, <2>4
<1>4. ASSUME NEW s \in Sender, InDriver(s) PROVE Apart'
  <2>1. UNCHANGED taken
    BY Zenon, <1>4 DEF InDriver, PreChooseStrategy, PreLockNode, PreFindOutdated, PreQueueFree,
       binder_proc_transaction, binder_proc_dec_tmpref, listVars
  <2> QED
    BY Zenon, <1>1, <1>4, <2>1, PlacedSender
<1>5. CASE UNCHANGED vars \/ FreeTxn \/ Register \/ Unregister
  BY Zenon, <1>2, <1>5 DEF vars, FreeTxn, FreeTxnReleaseBuffer, FreeTxnKfree, FreeTxnDecTmpref,
     Register, Unregister, RegisterAllocWq, RegisterArm, RegisterFail, UnregisterDisarm,
     UnregisterSynchronize, UnregisterDestroyWq, ModStep, sendVars, listVars, histVars
<1>6. CASE binder_thread_read \/ ReleaseTodo \/ \E n \in Node : ReleaseAsync(n)
  <2>1. PICK t \in Txn : /\ taken' = taken \cup {t} /\ txnMem[t] # "none"
                         /\ \A u \in Txn : Placed(u)' => Placed(u) /\ u # t
    BY Zenon, <1>6, TakenOff
  <2> QED
    BY Zenon, <1>0, <2>1 DEF Apart
<1>7. ASSUME NEW t \in Txn, FreeTaken(t) PROVE Apart'
  BY Zenon, <1>2, <1>7 DEF FreeTaken, sendVars, histVars
<1>8. ASSUME NEW t \in Txn, binder_free_buf(t) PROVE Apart'
  <2>1. UNCHANGED taken
    BY Zenon, <1>8 DEF binder_free_buf
  <2> QED
    BY Zenon, <1>1, <1>8, <2>1, PlacedFreeBuf
<1>9. CASE Release
  BY Zenon, <1>2, <1>6, <1>7, <1>9 DEF Release, ReleaseThreads, ReleaseDone, ReleaseTaken,
     sendVars, listVars, histVars
<1>10. CASE Target
  BY Zenon, <1>2, <1>6, <1>7, <1>8, <1>10 DEF Target, binder_free_transaction,
     binder_ioctl_freeze, ReleaseMarkDead, SetTaskState, sendVars, listVars, histVars
<1> QED
  BY Zenon, <1>3, <1>4, <1>5, <1>9, <1>10 DEF Next

(* Every transaction is in one place: with its sender, in one list, with   *)
(* one probe, in the workqueue, with its reader or about to be freed,      *)
(* however the probe, the driver and the worker interleave.                *)
THEOREM OneOwner == Spec => [](Own /\ Apart)
<1>1. Init => Apart
  BY Zenon DEF Init, Apart
<1> QED
  BY <1>1, OwnInit, OwnStep, ApartStep, ControlCorrect, PTL DEF Spec

-----------------------------------------------------------------------------
(* What a live process loses *)

(* The deferred release works on a process that is dead, and stays so.     *)
LEMMA ReleaseOfTheDead == Release => is_dead /\ is_dead'
<1>1. ReleaseThreads \/ ReleaseDone => is_dead /\ is_dead'
  BY DEF ReleaseThreads, ReleaseDone, is_dead
<1>2. \A t : ReleaseTake(t) => is_dead /\ is_dead'
  BY DEF ReleaseTake, is_dead, stateVars
<1>3. \A t : ReleaseTaken(t) => is_dead /\ is_dead'
  BY Zenon DEF ReleaseTaken, FreeTaken, is_dead, stateVars
<1> QED
  BY Zenon, <1>1, <1>2, <1>3 DEF Release, ReleaseTodo, ReleaseAsync

(* Only the probed function, the workqueue, a reader and the deferred      *)
(* release free a transaction; nothing forgets what was read or unlinked,  *)
(* and nobody comes back from the dead.                                    *)
LEMMA WhoFreesTxn ==
  ASSUME Inv0, [Next]_vars, ~is_dead'
  PROVE  /\ ~is_dead /\ read \subseteq read' /\ dropped \subseteq dropped'
         /\ \/ UNCHANGED txnMem
            \/ \E s \in Sender, t \in Txn : binder_transaction(s, t)
            \/ \E s \in Sender : binder_proc_transaction(s)
            \/ FreeTxnKfree \/ \E t \in taken : binder_free_transaction(t)
<1>1. CASE UNCHANGED vars
  BY Zenon, <1>1 DEF vars, is_dead, stateVars, memVars, histVars
<1>2. ASSUME NEW s \in Sender, NEW t \in Txn, binder_transaction(s, t)
      PROVE  ~is_dead /\ read \subseteq read' /\ dropped \subseteq dropped'
  BY Zenon, <1>2 DEF binder_transaction, is_dead, stateVars, histVars
<1>3. ASSUME NEW s \in Sender, InDriver(s)
      PROVE  /\ ~is_dead /\ read \subseteq read' /\ dropped \subseteq dropped'
             /\ UNCHANGED txnMem \/ binder_proc_transaction(s)
  <2>1. CASE PreFindOutdated(s)
    <3>1. UNCHANGED <<release, read, txnMem>>
      BY Zenon, <2>1 DEF PreFindOutdated, stateVars, memVars
    <3>2. dropped \subseteq dropped'
      BY ZenonT(30), <2>1, FindCases DEF Empty, Detach
    <3> QED  BY Zenon, <3>1, <3>2 DEF is_dead
  <2> QED
    BY Zenon, <1>3, <2>1 DEF InDriver, PreChooseStrategy, PreLockNode, PreQueueFree,
       binder_proc_transaction,
       binder_proc_dec_tmpref, is_dead, stateVars, memVars, histVars
<1>4. CASE FreeTxn \/ Register \/ Unregister
  BY Zenon, <1>4 DEF FreeTxn, FreeTxnReleaseBuffer, FreeTxnKfree, FreeTxnDecTmpref, Register,
     Unregister, RegisterAllocWq, RegisterArm, RegisterFail, UnregisterDisarm,
     UnregisterSynchronize, UnregisterDestroyWq, ModStep, is_dead, stateVars, memVars, histVars
<1>5. CASE Release
  BY Zenon, <1>5, ReleaseOfTheDead
<1>6. CASE Target
  <2>1. CASE ReleaseMarkDead
    BY <2>1 DEF ReleaseMarkDead, is_dead
  <2>2. ASSUME NEW t \in Txn, binder_free_transaction(t)
        PROVE  ~is_dead /\ t \in taken /\ UNCHANGED <<read, dropped>>
    BY Zenon, <2>2 DEF binder_free_transaction, FreeTaken, histVars
  <2>3. CASE \E t \in Txn : binder_free_transaction(t)
    BY Zenon, <2>2, <2>3
  <2>4. CASE \/ binder_thread_read \/ binder_ioctl_freeze \/ \E t \in Txn : binder_free_buf(t)
             \/ \E f \in {"running", "freezing", "frozen"} : SetTaskState(f)
    BY Zenon, <2>4 DEF binder_thread_read, binder_ioctl_freeze, binder_free_buf, SetTaskState,
       is_dead, stateVars, memVars, histVars
  <2> QED
    BY Zenon, <1>6, <2>1, <2>3, <2>4 DEF Target
<1> QED
  BY Zenon, <1>1, <1>2, <1>3, <1>4, <1>5, <1>6 DEF Next

(* What a live process refuses is a call that waits for its reply; the     *)
(* workqueue frees what the probe unlinked; the rest is freed by a reader. *)
LEMMA LossStep == Inv0 /\ Own /\ NoSilentLoss /\ [Next]_vars => NoSilentLoss'
<1> SUFFICES ASSUME Inv0, Own, NoSilentLoss, [Next]_vars PROVE NoSilentLoss'
  BY Zenon
<1>1. dropped' \cap read' = {}
  BY Zenon, OwnStep DEF Own, Owned
<1>2. ASSUME ~is_dead', NEW t \in Txn, OneWay(t), txnMem'[t] = "freed"
      PROVE  t \in read' \cup dropped'
  <2>1. txnMem[t] = "freed" => t \in read' \cup dropped'
    BY Zenon, <1>2, WhoFreesTxn DEF NoSilentLoss
  <2>2. ASSUME NEW s \in Sender, NEW u \in Txn, binder_transaction(s, u) PROVE txnMem[t] = "freed"
    BY <1>2, <2>2 DEF binder_transaction, Inv0, Types
  <2>3. ASSUME NEW s \in Sender, binder_proc_transaction(s) PROVE txnMem[t] = "freed"
    <3>1. ~is_dead
      BY Zenon, <1>2, WhoFreesTxn
    <3>2. CASE cur[s] = t
      BY Zenon, <1>2, <2>3, <3>1, <3>2 DEF binder_proc_transaction, memVars
    <3>3. CASE cur[s] # t
      BY Zenon, <1>2, <2>3, <3>3 DEF binder_proc_transaction, memVars, Inv0, Types
    <3> QED  BY Zenon, <3>2, <3>3
  <2>4. ASSUME FreeTxnKfree PROVE txnMem[t] = "freed" \/ t \in dropped'
    <3>1. Head(wq) \in Wq
      BY Zenon, <2>4, TakeFirst, SeqTypes DEF FreeTxnKfree, Inv0, Own, Lists, Wq
    <3>2. Head(wq) \in dropped'
      BY Zenon, <1>2, <3>1, WhoFreesTxn DEF Own, Owned
    <3>3. t # Head(wq) => txnMem'[t] = txnMem[t]
      BY Zenon, <2>4 DEF FreeTxnKfree, KfreeTxn, Inv0, Types
    <3> QED  BY Zenon, <1>2, <3>2, <3>3
  <2>5. ASSUME NEW u \in taken, binder_free_transaction(u)
        PROVE  txnMem[t] = "freed" \/ t \in read'
    <3>1. u \in read
      BY Zenon, <2>5 DEF binder_free_transaction, is_dead, Inv0, Control
    <3>2. t # u => txnMem'[t] = txnMem[t]
      BY Zenon, <2>5 DEF binder_free_transaction, FreeTaken, Inv0, Types
    <3> QED  BY Zenon, <1>2, <3>1, <3>2, WhoFreesTxn
  <2> QED
    BY Zenon, <1>2, <2>1, <2>2, <2>3, <2>4, <2>5, WhoFreesTxn
<1> QED
  BY Zenon, <1>1, <1>2 DEF NoSilentLoss

(* A live process loses no oneway transaction except to the reader or,     *)
(* superseded, to the probe, and none is both delivered and superseded.    *)
THEOREM NothingLostSilently == Spec => []NoSilentLoss
<1>1. Init => NoSilentLoss
  BY Zenon DEF Init, NoSilentLoss
<1> QED
  BY <1>1, LossStep, ControlCorrect, OneOwner, PTL DEF Spec

-----------------------------------------------------------------------------
(* The last word of every call *)

(* u is on its way to the process, queued for it, or read. *)
Carried(u) ==
  \/ u \in read \/ u \in Td
  \/ \E n \in Node : u \in As(n)
  \/ \E s \in Sender : cur[s] = u

(* u says what the dropped t said, with its data unless a rule says that   *)
(* the code alone decides.                                                 *)
Supersedes(u, t) == SameCall(t, u) /\ (BY_CODE \notin Strategy => Attr[t].data = Attr[u].data)

(* A probe that looks for an outdated transaction follows some rule; what  *)
(* it has dropped for a live process is superseded.                        *)
Chosen == \A s \in Sender : pc[s] \in {"lock", "find"} => strategy[s] \in Strategy
Superseded == is_dead \/ \A t \in dropped : \E u \in Txn : Carried(u) /\ Supersedes(u, t)

(* Choosing the strategy comes before the locks.                           *)
LEMMA ChosenStep == Inv0 /\ Chosen /\ [Next]_vars => Chosen'
<1> SUFFICES ASSUME Inv0, Chosen, [Next]_vars, NEW s \in Sender, pc'[s] \in {"lock", "find"}
             PROVE  strategy'[s] \in Strategy
  BY Zenon DEF Chosen
<1>1. CASE pc'[s] = pc[s] /\ strategy'[s] = strategy[s]
  BY Zenon, <1>1 DEF Chosen
<1>2. CASE UNCHANGED <<pc, strategy>>
  BY Zenon, <1>1, <1>2
<1>3. ASSUME NEW u \in Sender, NEW t \in Txn, binder_transaction(u, t) PROVE pc'[s] = pc[s] /\ UNCHANGED strategy
  BY <1>3 DEF binder_transaction, Goto, Inv0, Types
<1>4. ASSUME NEW u \in Sender, PreChooseStrategy(u) PROVE strategy'[s] \in Strategy
  <2>1. CASE u # s
    BY Zenon, <1>1, <1>4, <2>1 DEF PreChooseStrategy, Goto, Inv0, Types
  <2>2. CASE u = s
    BY <1>4, <2>2 DEF PreChooseStrategy, Goto, Inv0, Types
  <2> QED  BY Zenon, <2>1, <2>2
<1>5. ASSUME NEW u \in Sender,
             PreLockNode(u) \/ PreFindOutdated(u) \/ PreQueueFree(u)
               \/ binder_proc_transaction(u) \/ binder_proc_dec_tmpref(u)
      PROVE  strategy'[s] \in Strategy
  <2>1. UNCHANGED strategy
    BY Zenon, <1>5 DEF PreLockNode, PreFindOutdated, PreQueueFree, binder_proc_transaction,
       binder_proc_dec_tmpref
  <2>2. pc'[s] = pc[s] \/ pc[s] \in {"lock", "find"}
    <3>1. \/ pc[u] = "lock" /\ \E l \in {"find", "call"} : Goto(u, l)
          \/ \E l \in {"call", "detached", "put", "idle"} : Goto(u, l)
      BY ZenonT(30), <1>5, FindCases DEF PreLockNode, PreQueueFree, binder_proc_transaction,
         binder_proc_dec_tmpref, Empty, Detach
    <3> QED
      BY <3>1 DEF Goto, Inv0, Types
  <2> QED  BY Zenon, <1>1, <2>1, <2>2 DEF Chosen
<1>6. CASE UNCHANGED vars \/ FreeTxn \/ Register \/ Unregister \/ Release \/ Target
  BY Zenon, <1>2, <1>6 DEF vars, FreeTxn, FreeTxnReleaseBuffer, FreeTxnKfree, FreeTxnDecTmpref,
     Register,
     Unregister, RegisterAllocWq, RegisterArm, RegisterFail, UnregisterDisarm,
     UnregisterSynchronize, UnregisterDestroyWq, ModStep, Release, ReleaseThreads, ReleaseTodo, ReleaseAsync,
     ReleaseTake, ReleaseTaken, FreeTaken, ReleaseDone, Target, binder_thread_read,
     binder_free_transaction, binder_ioctl_freeze, ReleaseMarkDead,
     binder_free_buf, SetTaskState, sendVars
<1> QED
  BY Zenon, <1>1, <1>3, <1>4, <1>5, <1>6 DEF Next, InDriver

(* What replaces a replacement replaces the first one.                     *)
LEMMA SupersedesTransitive ==
  ASSUME NEW t, NEW u, NEW v, Supersedes(u, t), Supersedes(v, u) PROVE Supersedes(v, t)
  BY Zenon DEF Supersedes, SameCall

(* The call a sender makes of a live process is queued, if it is oneway.   *)
LEMMA CarriedCall ==
  ASSUME Inv0, NEW s \in Sender, binder_proc_transaction(s), ~is_dead,
         NEW u \in Txn, OneWay(u), Carried(u)
  PROVE  Carried(u)'
<1> USE DEF Inv0
<1> DEFINE t == cur[s]
           n == Attr[t].node
<1>1. t \in Txn /\ n \in Node /\ UNCHANGED read
  BY ZenonT(30), AttrAssumption DEF Types, Control, binder_proc_transaction, histVars
<1>2. \A v \in Sender : v # s => cur'[v] = cur[v]
  BY Zenon DEF binder_proc_transaction, Types
<1>3. Td \subseteq Td' /\ \A m \in Node : As(m) \subseteq As(m)'
  <2>1. CASE CallRefused(t)
    BY Zenon, <2>1 DEF CallRefused, Td, As
  <2>2. CASE CallToProcess(t)
    BY <1>1, <2>2, AppendSet, SeqTypes DEF CallToProcess, Td, As
  <2>3. CASE CallToNode(t, n)
    <3>1. As(n) \subseteq Range(Append(async_todo[n], t))
      BY <1>1, AppendSet, SeqTypes DEF As
    <3>2. \A m \in Node : As(m)' = IF m = n THEN Range(Append(async_todo[n], t)) ELSE As(m)
      BY Zenon, <1>1, <2>3, AsyncExcept DEF CallToNode
    <3>3. Td' = Td
      BY Zenon, <2>3 DEF CallToNode, Td
    <3> QED  BY Zenon, <3>1, <3>2, <3>3
  <2> QED  BY Zenon, <2>1, <2>2, <2>3, CallCases
<1>4. CASE u # t
  <2> HIDE DEF t
  <2>1. t = cur[s]
    BY Zenon DEF t
  <2> QED  BY Zenon, <1>1, <1>2, <1>3, <1>4, <2>1 DEF Carried
<1>5. CASE u = t
  <2>1. todo' = Append(todo, t) \/ async_todo' = [async_todo EXCEPT ![n] = Append(@, t)]
    BY ZenonT(30), <1>5 DEF binder_proc_transaction
  <2>2. t \in Range(Append(todo, t)) /\ t \in Range(Append(async_todo[n], t))
    BY <1>1, AppendSet, SeqTypes
  <2>3. CASE todo' = Append(todo, t)
    <3>1. t \in Td'
      BY Zenon, <2>2, <2>3 DEF Td
    <3> QED  BY Zenon, <1>5, <3>1 DEF Carried
  <2>4. CASE async_todo' = [async_todo EXCEPT ![n] = Append(@, t)]
    <3>1. \A m \in Node : As(m)' = IF m = n THEN Range(Append(async_todo[n], t)) ELSE As(m)
      BY ZenonT(40), <1>1, <2>4, AsyncExcept
    <3>2. \E m \in Node : u \in As(m)'
      BY Zenon, <1>1, <1>5, <2>2, <3>1
    <3> QED  BY Zenon, <3>2 DEF Carried
  <2> QED  BY Zenon, <2>1, <2>3, <2>4
<1> QED  BY Zenon, <1>4, <1>5

(* Nor does a reader, or the end of a read call, lose a transaction.       *)
LEMMA CarriedTarget ==
  ASSUME Inv0, Own, Target, NEW u \in Txn, Carried(u)
  PROVE  Carried(u)'
<1> USE DEF Inv0
<1>1. CASE UNCHANGED <<cur, todo, async_todo, read>>
  BY Zenon, <1>1 DEF Carried, Td, As
<1>2. CASE binder_thread_read
  <2>1. /\ todo # <<>> /\ todo' = Tail(todo) /\ read' = read \cup {Head(todo)}
        /\ UNCHANGED <<async_todo, cur>>
    BY Zenon, <1>2 DEF binder_thread_read, sendVars
  <2>2. Td' = Td \ {Head(todo)} /\ \A n \in Node : As(n)' = As(n)
    BY Zenon, <2>1, OwnTodoHead DEF Td, As
  <2> QED  BY Zenon, <2>1, <2>2 DEF Carried
<1>3. ASSUME NEW w \in Txn, binder_free_buf(w) PROVE Carried(u)'
  <2> DEFINE n == Attr[w].node
             t == Head(async_todo[n])
  <2>1. n \in Node /\ UNCHANGED <<cur, read>>
    BY Zenon, <1>3, AttrAssumption DEF binder_free_buf, sendVars, histVars
  <2>2. CASE UNCHANGED <<todo, async_todo>>
    BY Zenon, <1>1, <2>1, <2>2
  <2>3. CASE /\ async_todo[n] # <<>>
             /\ todo' = Append(todo, t) /\ async_todo' = [async_todo EXCEPT ![n] = Tail(@)]
    <3>1. t \in Txn /\ Range(Tail(async_todo[n])) = As(n) \ {t}
      BY Zenon, <2>1, <2>3, OwnAsyncHead
    <3>2. Td' = Td \cup {t}
      BY <2>3, <3>1, AppendSet, SeqTypes DEF Td
    <3>3. \A m \in Node : As(m)' = IF m = n THEN Range(Tail(async_todo[n])) ELSE As(m)
      BY ZenonT(30), <2>1, <2>3, AsyncExcept
    <3> HIDE DEF t
    <3> QED  BY Zenon, <2>1, <3>1, <3>2, <3>3 DEF Carried
  <2> QED
    BY Zenon, <1>3, <2>2, <2>3 DEF binder_free_buf
<1> QED
  BY Zenon, <1>1, <1>2, <1>3 DEF Target, binder_free_transaction, FreeTaken,
     binder_ioctl_freeze, ReleaseMarkDead, SetTaskState, sendVars, listVars, histVars

(* What the probe unlinks is superseded by the call it runs for, and with  *)
(* it everything that it superseded.                                       *)
LEMMA SupersededFind ==
  ASSUME Inv0, Own, Chosen, Superseded, NEW s \in Sender, PreFindOutdated(s), ~is_dead
  PROVE  Superseded'
<1> USE DEF Inv0
<1> DEFINE n == Attr[cur[s]].node
<1>1. /\ n \in Node /\ cur[s] \in Txn /\ strategy[s] \in Strategy
      /\ UNCHANGED <<cur, todo, read>>
  BY ZenonT(30), AttrAssumption DEF Types, Control, Chosen, PreFindOutdated
<1>2. CASE Empty(s)
  <2>1. UNCHANGED <<async_todo, dropped, release>>
    BY Zenon, <1>2 DEF Empty, PreFindOutdated, stateVars
  <2> QED
    BY Zenon, <1>1, <2>1 DEF Superseded, is_dead, Carried, Td, As
<1>3. ASSUME NEW i \in 1 .. Len(async_todo[n]), Detach(s, n, i),
             rk_binder_find_outdated_transaction_ilocked(cur[s], async_todo[n], strategy[s], i)
      PROVE  Superseded'
  <2> DEFINE t == async_todo[n][i]
  <2>1. /\ async_todo' = [async_todo EXCEPT ![n] = list_del_init(@, i)]
        /\ dropped' = dropped \cup {t}
    BY Zenon, <1>3 DEF Detach
  <2>2. Supersedes(cur[s], t)
    BY Zenon, <1>1, <1>3 DEF rk_binder_find_outdated_transaction_ilocked,
       rk_binder_can_update_transaction,
       SameTarget, rkx_binder_buffer_data_equal, Supersedes, SameCall
  <2>3. t \in Txn /\ Range(list_del_init(async_todo[n], i)) = As(n) \ {t}
    <3>1. async_todo[n] \in Seq(Txn) /\ NoDuplicates(async_todo[n])
      BY Zenon, <1>1, SeqTypes DEF Own, Lists
    <3> QED  BY Zenon, <3>1, TakeAt DEF As
  <2>4. \A m \in Node : As(m)' = IF m = n THEN Range(list_del_init(async_todo[n], i)) ELSE As(m)
    BY ZenonT(30), <1>1, <2>1, AsyncExcept
  <2> HIDE DEF t
  <2>5. ASSUME NEW u \in Txn, Carried(u), u # t PROVE Carried(u)'
    BY Zenon, <1>1, <2>3, <2>4, <2>5 DEF Carried, Td
  <2>6. Carried(cur[s])'
    BY Zenon, <1>1 DEF Carried
  <2>7. ASSUME NEW x \in dropped' PROVE \E u \in Txn : Carried(u)' /\ Supersedes(u, x)
    <3>1. CASE x = t
      BY Zenon, <1>1, <2>2, <2>6, <3>1
    <3>2. CASE x \in dropped
      <4>1. PICK u \in Txn : Carried(u) /\ Supersedes(u, x)
        BY Zenon, <3>2 DEF Superseded
      <4>2. CASE u # t
        BY Zenon, <2>5, <4>1, <4>2
      <4>3. CASE u = t
        BY Zenon, <1>1, <2>2, <2>6, <4>1, <4>3, SupersedesTransitive
      <4> QED  BY Zenon, <4>2, <4>3
    <3> QED  BY Zenon, <2>1, <3>1, <3>2
  <2> QED
    BY Zenon, <2>7 DEF Superseded
<1> QED
  BY ZenonT(30), <1>2, <1>3 DEF PreFindOutdated

(* A step that drops nothing and carries on what it can keeps them.        *)
LEMMA CarryOn ==
  ASSUME Superseded, UNCHANGED dropped, is_dead => is_dead',
         is_dead' \/ \A u \in Txn : OneWay(u) /\ Carried(u) => Carried(u)'
  PROVE  Superseded'
<1>1. ASSUME ~is_dead', NEW t \in dropped' PROVE \E u \in Txn : Carried(u)' /\ Supersedes(u, t)
  <2>1. PICK u \in Txn : Carried(u) /\ Supersedes(u, t)
    BY Zenon, <1>1 DEF Superseded
  <2>2. OneWay(u)
    BY Zenon, <2>1 DEF Supersedes, SameCall
  <2> QED  BY Zenon, <1>1, <2>1, <2>2
<1> QED
  BY Zenon, <1>1 DEF Superseded

(* Every step keeps a successor of what was dropped.                       *)
LEMMA SupersededStep == Inv0 /\ Own /\ Chosen /\ Superseded /\ [Next]_vars => Superseded'
<1> SUFFICES ASSUME Inv0, Own, Chosen, Superseded, [Next]_vars PROVE Superseded'
  BY Zenon
<1>1. CASE is_dead'
  BY Zenon, <1>1 DEF Superseded
<1>2. CASE ~is_dead'
  <2>1. ~is_dead
    BY Zenon, <1>2, WhoFreesTxn
  <2>2. CASE UNCHANGED <<cur, todo, async_todo, read, dropped>>
    BY Zenon, <2>1, <2>2, CarryOn DEF Carried, Td, As
  <2>3. ASSUME NEW s \in Sender, NEW t \in Txn, binder_transaction(s, t) PROVE Superseded'
    <3>1. /\ cur[s] = NULL /\ cur' = [cur EXCEPT ![s] = t]
          /\ UNCHANGED <<todo, async_todo, read, dropped>>
      BY Zenon, <2>3 DEF binder_transaction, Inv0, Control, listVars, histVars
    <3>2. Td' = Td /\ \A n \in Node : As(n)' = As(n)
      BY Zenon, <3>1 DEF Td, As
    <3>3. \A v \in Sender : cur[v] \in Txn => cur'[v] = cur[v]
      BY Zenon, <3>1, NullAssumption DEF Inv0, Types
    <3>4. \A u \in Txn : Carried(u) => Carried(u)'
      BY Zenon, <3>1, <3>2, <3>3 DEF Carried
    <3> QED  BY Zenon, <2>1, <3>1, <3>4, CarryOn
  <2>4. ASSUME NEW s \in Sender, binder_proc_transaction(s) PROVE Superseded'
    <3>1. UNCHANGED dropped
      BY Zenon, <2>4 DEF binder_proc_transaction, histVars
    <3> QED  BY Zenon, <2>1, <2>4, <3>1, CarriedCall, CarryOn
  <2>5. ASSUME NEW s \in Sender, InDriver(s) PROVE Superseded'
    <3>1. CASE PreChooseStrategy(s) \/ PreLockNode(s) \/ PreQueueFree(s) \/ binder_proc_dec_tmpref(s)
      BY Zenon, <2>2, <3>1 DEF PreChooseStrategy, PreLockNode, PreQueueFree,
         binder_proc_dec_tmpref,
         listVars, histVars
    <3> QED
      BY Zenon, <2>1, <2>4, <2>5, <3>1, SupersededFind DEF InDriver
  <2>6. CASE UNCHANGED vars \/ FreeTxn \/ Register \/ Unregister
    BY Zenon, <2>2, <2>6 DEF vars, FreeTxn, FreeTxnReleaseBuffer, FreeTxnKfree,
       FreeTxnDecTmpref, Register,
       Unregister, RegisterAllocWq, RegisterArm, RegisterFail, UnregisterDisarm,
       UnregisterSynchronize, UnregisterDestroyWq, ModStep, sendVars, listVars, histVars
  <2>7. CASE Release
    BY Zenon, <2>1, <2>7, ReleaseOfTheDead
  <2>8. CASE Target
    <3>1. UNCHANGED dropped
      BY Zenon, <2>8 DEF Target, binder_thread_read, binder_free_transaction, FreeTaken,
         binder_ioctl_freeze, ReleaseMarkDead,
         binder_free_buf,
         SetTaskState, histVars
    <3> QED  BY Zenon, <2>1, <2>8, <3>1, CarriedTarget, CarryOn
  <2> QED
    BY Zenon, <2>3, <2>5, <2>6, <2>7, <2>8 DEF Next
<1> QED
  BY Zenon, <1>1, <1>2

(* The probe never drops the last word: whatever it has unlinked from a    *)
(* live process, a call that says the same is on its way to the process,   *)
(* queued for it or read, and has not been dropped itself.                 *)
THEOREM LastWordKept == Spec => []LatestSurvives
<1>1. Init => Chosen /\ Superseded
  BY DEF Init, Chosen, Superseded
<1>2. Inv0 /\ Own /\ Superseded => LatestSurvives
  <2> SUFFICES ASSUME Inv0, Own, Superseded, ~is_dead, NEW t \in dropped
               PROVE  \E u \in (Held \cup Queued \cup read) \ dropped :
                        /\ SameCall(t, u)
                        /\ BY_CODE \notin Strategy => Attr[t].data = Attr[u].data
    BY Zenon DEF LatestSurvives
  <2>1. PICK u \in Txn : Carried(u) /\ Supersedes(u, t)
    BY Zenon DEF Superseded
  <2>2. u \in Held \cup Queued \cup read
    BY Zenon, <2>1, NullAssumption DEF Carried, Held, Queued, Td, As
  <2>3. u \notin dropped
    BY ZenonT(40), <2>1 DEF Carried, Own, Owned
  <2> QED
    BY Zenon, <2>1, <2>2, <2>3 DEF Supersedes
<1> QED
  BY <1>1, <1>2, ChosenStep, SupersededStep, ControlCorrect, OneOwner, PTL DEF Spec

-----------------------------------------------------------------------------
(* tmp_ref counts the senders, the probes between unlinking and queueing,  *)
(* the queued work items and the deferred release.                         *)

Busy == {s \in Sender : pc[s] # "idle"}
Detached == {s \in Sender : pc[s] = "detached"}
ReleasePin == IF release \in {"marked", "draining"} THEN 1 ELSE 0

RefsExact ==
  tmp_ref = Cardinality(Busy) + Cardinality(Detached) + Len(wq) + ReleasePin

(* The four counts are natural numbers.                                    *)
LEMMA CountTypes ==
  ASSUME Types
  PROVE  /\ IsFiniteSet(Busy) /\ IsFiniteSet(Detached)
         /\ Cardinality(Busy) \in Nat /\ Cardinality(Detached) \in Nat
         /\ Len(wq) \in Nat /\ ReleasePin \in {0, 1}
<1>1. IsFiniteSet(Busy) /\ IsFiniteSet(Detached)
  <2>1. Busy \in SUBSET Sender /\ Detached \in SUBSET Sender
    BY Zenon DEF Busy, Detached
  <2> QED
    BY Zenon, <2>1, FinitenessAssumption, FS_Subset
<1> QED
  BY <1>1, FS_CardinalityType DEF Types, ReleasePin

(* What moving sender s to place l does to the two counts of senders. *)
Recount(s, l) ==
  /\ Cardinality(Busy') = Cardinality(Busy)
       + (IF l = "idle" THEN 0 ELSE 1) - (IF pc[s] = "idle" THEN 0 ELSE 1)
  /\ Cardinality(Detached') = Cardinality(Detached)
       + (IF l = "detached" THEN 1 ELSE 0) - (IF pc[s] = "detached" THEN 1 ELSE 0)

(* Moving one sender changes the counts of senders by that sender.         *)
LEMMA CountMove ==
  ASSUME Types, NEW s \in Sender, NEW l, pc' = [pc EXCEPT ![s] = l]
  PROVE  Recount(s, l)
<1>1. Busy' = IF l = "idle" THEN Busy \ {s} ELSE Busy \cup {s}
  BY Zenon DEF Types, Busy
<1>2. Detached' = IF l = "detached" THEN Detached \cup {s} ELSE Detached \ {s}
  BY Zenon DEF Types, Detached
<1>3. (s \in Busy <=> pc[s] # "idle") /\ (s \in Detached <=> pc[s] = "detached")
  BY Zenon DEF Busy, Detached
<1>4. Cardinality(Busy') = Cardinality(Busy)
         + (IF l = "idle" THEN 0 ELSE 1) - (IF pc[s] = "idle" THEN 0 ELSE 1)
  <2>1. /\ Cardinality(Busy \cup {s}) =
              IF s \in Busy THEN Cardinality(Busy) ELSE Cardinality(Busy) + 1
        /\ Cardinality(Busy \ {s}) =
              IF s \in Busy THEN Cardinality(Busy) - 1 ELSE Cardinality(Busy)
    BY Zenon, CountTypes, FS_AddElement, FS_RemoveElement
  <2>2. Cardinality(Busy) \in Nat
    BY Zenon, CountTypes
  <2> QED
    BY <1>1, <1>3, <2>1, <2>2
<1>5. Cardinality(Detached') = Cardinality(Detached)
         + (IF l = "detached" THEN 1 ELSE 0) - (IF pc[s] = "detached" THEN 1 ELSE 0)
  <2>1. /\ Cardinality(Detached \cup {s}) =
              IF s \in Detached THEN Cardinality(Detached) ELSE Cardinality(Detached) + 1
        /\ Cardinality(Detached \ {s}) =
              IF s \in Detached THEN Cardinality(Detached) - 1 ELSE Cardinality(Detached)
    BY Zenon, CountTypes, FS_AddElement, FS_RemoveElement
  <2>2. Cardinality(Detached) \in Nat
    BY Zenon, CountTypes
  <2> QED
    BY <1>2, <1>3, <2>1, <2>2
<1> QED
  BY Zenon, <1>4, <1>5 DEF Recount

(* No reference is held at first.                                          *)
LEMMA RefsInit == Init => RefsExact
<1> SUFFICES ASSUME Init PROVE RefsExact
  BY Zenon
<1>1. Busy = {} /\ Detached = {} /\ wq = <<>> /\ ReleasePin = 0 /\ tmp_ref = 0
  BY Zenon DEF Init, Busy, Detached, ReleasePin
<1> QED
  BY <1>1, FS_EmptySet DEF RefsExact

(* The steps of a sender take and give references as they begin and end:   *)
(* one for the call, one for what the probe unlinks.                       *)
LEMMA RefsSender ==
  ASSUME Inv0, RefsExact, NEW s \in Sender,
         InDriver(s) \/ \E t \in Txn : binder_transaction(s, t)
  PROVE  RefsExact'
<1> USE DEF Inv0
<1>1. /\ Cardinality(Busy) \in Nat /\ Cardinality(Detached) \in Nat
      /\ Len(wq) \in Nat /\ ReleasePin \in {0, 1} /\ tmp_ref \in Int
  BY Zenon, CountTypes DEF Types
<1>2. UNCHANGED release /\ ReleasePin' = ReleasePin
  BY Zenon DEF InDriver, PreChooseStrategy, PreLockNode, PreFindOutdated, PreQueueFree,
     ReleasePin,
     binder_proc_transaction, binder_proc_dec_tmpref, binder_transaction, stateVars
<1>3. ASSUME NEW l \in {"probe", "lock", "find", "call", "put"}, pc' = [pc EXCEPT ![s] = l],
             pc[s] \notin {"idle", "detached"}, UNCHANGED <<wq, tmp_ref>>
      PROVE  RefsExact'
  <2>1. Cardinality(Busy') = Cardinality(Busy) /\ Cardinality(Detached') = Cardinality(Detached)
    <3>1. Recount(s, l)
      BY Zenon, <1>3, CountMove, Zenon
    <3> QED
      BY <1>3, <1>1, <3>1 DEF Recount
  <2> QED
    BY Zenon, <1>1, <1>2, <1>3, <2>1 DEF RefsExact
<1>4. ASSUME NEW t \in Txn, binder_transaction(s, t) PROVE RefsExact'
  <2>1. PICK l \in {"probe", "call"} : pc' = [pc EXCEPT ![s] = l]
    BY ZenonT(30), <1>4 DEF binder_transaction, Goto
  <2>2. pc[s] = "idle" /\ tmp_ref' = tmp_ref + 1 /\ UNCHANGED wq
    BY Zenon, <1>4 DEF binder_transaction, kpVars
  <2>3. Cardinality(Busy') = Cardinality(Busy) + 1 /\ Cardinality(Detached') = Cardinality(Detached)
    <3>1. Recount(s, l)
      BY Zenon, <2>1, <2>2, CountMove, Zenon
    <3> QED
      BY <2>1, <2>2, <1>1, <3>1 DEF Recount
  <2> QED
    BY <1>1, <1>2, <2>1, <2>2, <2>3 DEF RefsExact
<1>5. CASE PreChooseStrategy(s)
  <2>1. PICK l \in {"lock", "call"} : pc' = [pc EXCEPT ![s] = l]
    BY Zenon, <1>5 DEF PreChooseStrategy, Goto
  <2> QED
    BY Zenon, <1>3, <1>5, <2>1 DEF PreChooseStrategy, refVars, kpVars
<1>6. CASE PreLockNode(s)
  <2>1. PICK l \in {"find", "call"} : pc' = [pc EXCEPT ![s] = l]
    BY Zenon, <1>6 DEF PreLockNode, Goto
  <2> QED
    BY ZenonT(30), <1>3, <1>6, <2>1 DEF PreLockNode, refVars, kpVars
<1>7. CASE PreFindOutdated(s)
  <2>1. pc[s] = "find" /\ UNCHANGED wq
    BY Zenon, <1>7 DEF PreFindOutdated, kpVars
  <2>2. CASE Empty(s)
    BY Zenon, <1>3, <2>1, <2>2 DEF Empty, Goto
  <2>3. CASE pc' = [pc EXCEPT ![s] = "detached"] /\ tmp_ref' = tmp_ref + 1
    <3>1. Cardinality(Busy') = Cardinality(Busy) /\ Cardinality(Detached') = Cardinality(Detached) + 1
      <4>1. Recount(s, "detached")
        BY Zenon, <2>1, <2>3, CountMove, Zenon
      <4> QED
        BY <2>1, <2>3, <1>1, <4>1 DEF Recount
    <3> QED
      BY <1>1, <1>2, <2>1, <2>3, <3>1 DEF RefsExact
  <2> QED
    BY Zenon, <1>7, <2>2, <2>3, FindCases DEF Detach, Goto, PinProc
<1>8. CASE PreQueueFree(s)
  <2>1. pc[s] = "detached" /\ pc' = [pc EXCEPT ![s] = "call"] /\ UNCHANGED tmp_ref
    BY Zenon, <1>8 DEF PreQueueFree, Goto, refVars
  <2>2. Len(wq') = Len(wq) + 1
    BY <1>8, AppendEntry DEF PreQueueFree, Types, Control
  <2>3. Cardinality(Busy') = Cardinality(Busy) /\ Cardinality(Detached') = Cardinality(Detached) - 1
    <3>1. Recount(s, "call")
      BY Zenon, <2>1, <2>2, CountMove, Zenon
    <3> QED
      BY <2>1, <2>2, <1>1, <3>1 DEF Recount
  <2> QED
    BY <1>1, <1>2, <2>1, <2>2, <2>3 DEF RefsExact
<1>9. CASE binder_proc_transaction(s)
  BY Zenon, <1>3, <1>9 DEF binder_proc_transaction, Goto, refVars, kpVars
<1>10. CASE binder_proc_dec_tmpref(s)
  <2>1. /\ pc[s] = "put" /\ pc' = [pc EXCEPT ![s] = "idle"] /\ tmp_ref' = tmp_ref - 1
        /\ UNCHANGED wq
    BY Zenon, <1>10 DEF binder_proc_dec_tmpref, rk_binder_proc_dec_tmpref, Goto, kpVars
  <2>2. Cardinality(Busy') = Cardinality(Busy) - 1 /\ Cardinality(Detached') = Cardinality(Detached)
    <3>1. Recount(s, "idle")
      BY Zenon, <2>1, CountMove, Zenon
    <3> QED
      BY <2>1, <1>1, <3>1 DEF Recount
  <2> QED
    BY <1>1, <1>2, <2>1, <2>2 DEF RefsExact
<1> QED
  BY Zenon, <1>4, <1>5, <1>6, <1>7, <1>8, <1>9, <1>10 DEF InDriver

(* tmp_ref stays exact: the probe takes one reference for each work item,  *)
(* rkx_free_txn_func gives it back.                                        *)
LEMMA RefsStep == Inv0 /\ RefsExact /\ [Next]_vars => RefsExact'
<1> SUFFICES ASSUME Inv0, RefsExact, [Next]_vars PROVE RefsExact'
  BY Zenon
<1> USE DEF Inv0
<1>1. /\ Cardinality(Busy) \in Nat /\ Cardinality(Detached) \in Nat
      /\ Len(wq) \in Nat /\ ReleasePin \in {0, 1} /\ tmp_ref \in Int
  BY Zenon, CountTypes DEF Types
<1>2. ASSUME UNCHANGED pc PROVE Busy' = Busy /\ Detached' = Detached
  BY Zenon, <1>2 DEF Busy, Detached
<1>3. CASE UNCHANGED <<pc, wq, tmp_ref>> /\ ReleasePin' = ReleasePin
  BY Zenon, <1>2, <1>3 DEF RefsExact
<1>4. CASE FreeTxn
  <2>1. UNCHANGED pc /\ ReleasePin' = ReleasePin
    BY Zenon, <1>4 DEF FreeTxn, FreeTxnReleaseBuffer, FreeTxnKfree, FreeTxnDecTmpref,
       ReleasePin,
       sendVars, stateVars
  <2>2. CASE UNCHANGED <<wq, tmp_ref>>
    BY Zenon, <1>3, <2>1, <2>2
  <2>3. CASE FreeTxnDecTmpref
    <3>1. wq # <<>> /\ wq' = Tail(wq) /\ tmp_ref' = tmp_ref - 1
      BY Zenon, <2>3 DEF FreeTxnDecTmpref, rk_binder_proc_dec_tmpref
    <3>2. Len(wq') = Len(wq) - 1
      BY Zenon, <3>1, FirstEntry DEF Types
    <3> QED
      BY <1>1, <1>2, <2>1, <3>1, <3>2 DEF RefsExact
  <2> QED
    BY Zenon, <1>4, <2>2, <2>3 DEF FreeTxn, FreeTxnReleaseBuffer, FreeTxnKfree, refVars
<1>5. CASE Register \/ Unregister
  BY Zenon, <1>3, <1>5 DEF Register, Unregister, RegisterAllocWq, RegisterArm, RegisterFail,
     UnregisterDisarm, UnregisterSynchronize, UnregisterDestroyWq, ModStep, ReleasePin,
     sendVars, refVars, stateVars
<1>6. CASE ReleaseMarkDead
  <2>1. ReleasePin = 0 /\ ReleasePin' = 1 /\ tmp_ref' = tmp_ref + 1 /\ UNCHANGED <<pc, wq>>
    BY Zenon, <1>6 DEF ReleaseMarkDead, is_dead, ReleasePin, sendVars, kpVars
  <2> QED
    BY <1>1, <1>2, <2>1 DEF RefsExact
<1>7. CASE ReleaseDone
  <2>1. ReleasePin = 1 /\ ReleasePin' = 0 /\ tmp_ref' = tmp_ref - 1 /\ UNCHANGED <<pc, wq>>
    BY Zenon, <1>7 DEF ReleaseDone, rk_binder_proc_dec_tmpref, ReleasePin, sendVars, kpVars
  <2> QED
    BY <1>1, <1>2, <2>1 DEF RefsExact
<1>8. CASE \/ ReleaseThreads \/ ReleaseTodo \/ \E n \in Node : ReleaseAsync(n)
           \/ \E t \in Txn : ReleaseTaken(t)
  BY Zenon, <1>3, <1>8 DEF ReleaseThreads, ReleaseTodo, ReleaseAsync, ReleaseTake,
     ReleaseTaken, FreeTaken, ReleasePin,
     sendVars, refVars, stateVars, kpVars
<1>9. CASE \/ binder_thread_read \/ binder_ioctl_freeze
           \/ \E t \in Txn : binder_free_transaction(t) \/ binder_free_buf(t)
           \/ \E f \in {"running", "freezing", "frozen"} : SetTaskState(f)
  BY Zenon, <1>3, <1>9 DEF binder_thread_read, binder_free_transaction, FreeTaken,
     binder_ioctl_freeze, binder_free_buf,
     SetTaskState,
     ReleasePin, sendVars, refVars, stateVars, kpVars
<1>10. CASE UNCHANGED vars
  BY Zenon, <1>3, <1>10 DEF vars, sendVars, refVars, stateVars, kpVars, ReleasePin
<1> QED
  BY Zenon, <1>4, <1>5, <1>6, <1>7, <1>8, <1>9, <1>10, RefsSender DEF Next, Release, Target

-----------------------------------------------------------------------------
(* Memory *)

Owner(t) ==
  \/ \E s \in Sender : cur[s] = t \/ t_outdated[s] = t
  \/ t \in Td
  \/ \E n \in Node : t \in As(n)

(* What an owner outside the workqueue has is intact. *)
OwnedIntact ==
  \A t \in Txn : Owner(t) => txnMem[t] = "live" /\ bufMem[t] = "attached"

(* What is in the workqueue is cut apart, and the worker's item is as far  *)
(* as rkx_free_txn_func has come.                                          *)
QueuedIntact ==
  /\ \A t \in Wq : bufMem[t] = IF t = Head(wq) /\ worker # "release" THEN "freed" ELSE "detached"
  /\ \A t \in Wq : txnMem[t] = IF t = Head(wq) /\ worker = "dec" THEN "freed" ELSE "live"
  /\ worker # "release" => wq # <<>>

(* What the driver took off a list to free it is still there; only its     *)
(* buffer may have been freed by its reader.                               *)
TakenIntact ==
  \A t \in taken : txnMem[t] = "live" /\ bufMem[t] \in {"attached", "freed"}

(* What is still there has an owner, or was taken, or, a buffer, was read. *)
NothingLost ==
  /\ \A t \in Txn : bufMem[t] = "attached" => Owner(t) \/ t \in taken
  /\ \A t \in Txn : txnMem[t] = "live" => Owner(t) \/ t \in taken \/ t \in Wq

NoCorruption ==
  /\ \A t \in Txn : txnMem[t] # "corrupt" /\ bufMem[t] # "corrupt"
  /\ \A t \in read \ taken : txnMem[t] = "freed" /\ bufMem[t] \in {"detached", "freed"}
  /\ procMem = IF release = "done" /\ tmp_ref = 0 THEN "freed" ELSE "live"

Mem == OwnedIntact /\ QueuedIntact /\ TakenIntact /\ NothingLost /\ NoCorruption

Inv == Inv0 /\ Own /\ Apart /\ RefsExact /\ Mem

(* What is in the workqueue or was read has no other owner.                *)
LEMMA Exclusive ==
  ASSUME Inv0, Own
  PROVE  /\ \A t \in Wq : ~ Owner(t) /\ t \notin read
         /\ \A t \in read : ~ Owner(t) /\ t \notin Wq
<1> USE DEF Inv0, Own
<1>1. \A t \in Txn : Owner(t) => t \notin Wq /\ t \notin read
  BY NullAssumption DEF Types, Owner, Owned
<1> QED
  BY Zenon, <1>1, OwnSets DEF Types, Owned

(* Nor has what the driver took off a list to free it.                     *)
LEMMA TakenAlone ==
  ASSUME Inv0, Own, Apart
  PROVE  \A t \in taken : t \in Txn /\ ~ Owner(t) /\ t \notin Wq
<1> USE DEF Inv0, Own
<1>1. taken \subseteq Txn
  BY Zenon DEF Types
<1>2. /\ \A s \in Sender : t_outdated[s] # NULL => t_outdated[s] \in dropped
      /\ \A t \in Wq : t \in dropped
  BY Zenon DEF Owned
<1> QED
  BY ZenonT(30), <1>1, <1>2, NullAssumption DEF Apart, Placed, Owner

(* Whoever gives the last reference of a dead process back is alone.       *)
LEMMA LastReference ==
  ASSUME Inv, tmp_ref = 1, is_dead, RB_EMPTY_ROOT_threads,
         \/ \E s \in Sender : pc[s] = "put"
         \/ wq # <<>> /\ worker = "dec"
         \/ /\ release = "draining" /\ todo = <<>> /\ taken = {}
            /\ \A n \in Node : async_todo[n] = <<>>
  PROVE  /\ taken = {} /\ \A t \in Txn : ~ Owner(t)
         /\ \A t \in Wq : bufMem[t] = "freed"
         /\ procMem = "live"
         /\ wq # <<>> => Len(wq) = 1 /\ worker = "dec"
<1> USE DEF Inv, Inv0
<1>1. /\ Cardinality(Busy) \in Nat /\ Cardinality(Detached) \in Nat
      /\ Len(wq) \in Nat /\ ReleasePin \in {0, 1}
      /\ IsFiniteSet(Busy)
      /\ Cardinality(Busy) + Cardinality(Detached) + Len(wq) + ReleasePin = 1
  BY Zenon, CountTypes DEF RefsExact
<1>0. wq \in Seq(Txn) /\ (Len(wq) = 0 <=> wq = <<>>) /\ (wq = <<>> <=> Wq = {})
  <2>1. wq \in Seq(Txn)
    BY Zenon DEF Types
  <2> QED
    BY Zenon, <2>1, EntryProperties DEF Wq
<1>2. procMem = "live"
  BY DEF Mem, NoCorruption
<1>3. ASSUME NEW t \in Txn, \A s \in Sender : pc[s] \in {"idle", "put"},
             todo = <<>>, \A n \in Node : async_todo[n] = <<>>
      PROVE  ~ Owner(t)
  <2>1. \A s \in Sender : cur[s] = NULL /\ t_outdated[s] = NULL
    BY Zenon, <1>3 DEF Control
  <2>2. Td = {} /\ \A n \in Node : As(n) = {}
    BY Zenon, <1>3, EntryProperties DEF Types, Td, As
  <2> QED
    BY Zenon, <2>1, <2>2, NullAssumption DEF Owner
<1>4. release = "draining" \/ release = "done"
  BY Zenon DEF RB_EMPTY_ROOT_threads
<1>5. ASSUME NEW s \in Sender, pc[s] = "put" PROVE Busy = {s} /\ wq = <<>> /\ ReleasePin = 0
  <2>1. {s} \in SUBSET Busy /\ Cardinality({s}) = 1
    BY Zenon, <1>5, FS_Singleton DEF Busy
  <2>2. 1 <= Cardinality(Busy)
    BY Zenon, <1>1, <2>1, FS_Subset
  <2>3. Cardinality(Busy) = 1 /\ Len(wq) = 0 /\ ReleasePin = 0
    BY <1>1, <2>2
  <2>4. {s} = Busy
    BY Zenon, <1>1, <2>1, <2>3, FS_Subset
  <2> QED
    BY Zenon, <1>0, <2>3, <2>4
<1>6. CASE \E s \in Sender : pc[s] = "put"
  <2>1. PICK s \in Sender : pc[s] = "put"
    BY Zenon, <1>6
  <2>2. (\A u \in Sender : pc[u] \in {"idle", "put"}) /\ wq = <<>> /\ release = "done"
    BY <1>4, <1>5, <2>1 DEF Busy, ReleasePin
  <2>3. Wq = {}
    BY Zenon, <1>0, <2>2
  <2> QED
    BY Zenon, <1>2, <1>3, <2>2, <2>3 DEF Control
<1>7. ASSUME Cardinality(Busy) = 0 PROVE \A u \in Sender : pc[u] \in {"idle", "put"}
  <2>1. Busy = {}
    BY Zenon, <1>1, <1>7, FS_EmptySet
  <2> QED
    BY Zenon, <2>1 DEF Busy
<1>8. CASE wq # <<>> /\ worker = "dec"
  <2>1. Len(wq) = 1 /\ Cardinality(Busy) = 0 /\ ReleasePin = 0
    <3>1. Len(wq) # 0
      BY Zenon, <1>0, <1>8
    <3>2. ReleasePin \in Nat
      BY <1>1
    <3> DEFINE b == Cardinality(Busy)
               d == Cardinality(Detached)
               l == Len(wq)
               p == ReleasePin
    <3>3. b \in Nat /\ d \in Nat /\ l \in Nat /\ p \in Nat /\ b + d + l + p = 1 /\ l # 0
      BY Zenon, <1>1, <3>1, <3>2
    <3> HIDE DEF b, d, l, p
    <3>4. l = 1 /\ b = 0 /\ p = 0
      BY <3>3
    <3> QED
      BY Zenon, <3>4 DEF b, l, p
  <2>2. release = "done"
    BY <1>4, <2>1 DEF ReleasePin
  <2>3. \A t \in Wq : t = Head(wq)
    BY <1>8, <2>1, EntryProperties, TakeFirst DEF Types, Own, Lists, Wq
  <2>4. \A t \in Wq : bufMem[t] = "freed"
    BY Zenon, <1>8, <2>3 DEF Mem, QueuedIntact
  <2> QED
    BY Zenon, <1>2, <1>3, <1>7, <1>8, <2>1, <2>2, <2>4 DEF Control
<1>9. CASE /\ release = "draining" /\ todo = <<>> /\ taken = {}
           /\ \A n \in Node : async_todo[n] = <<>>
  <2>1. Len(wq) = 0 /\ Cardinality(Busy) = 0
    BY <1>1, <1>9 DEF ReleasePin
  <2>2. wq = <<>> /\ Wq = {}
    BY Zenon, <1>0, <2>1
  <2> QED
    BY ZenonT(40), <1>2, <1>3, <1>7, <1>9, <2>1, <2>2
<1> QED
  BY Zenon, <1>6, <1>8, <1>9

(* The effect of giving a reference back: nothing, or the process is freed *)
(* and only detached and freed buffers were left.                          *)
LEMMA DecTmpref ==
  ASSUME Inv, rk_binder_proc_dec_tmpref, release' \in {release, "done"},
         release' # release => release = "draining",
         \/ \E s \in Sender : pc[s] = "put"
         \/ wq # <<>> /\ worker = "dec"
         \/ /\ release = "draining" /\ release' = "done" /\ todo = <<>> /\ taken = {}
            /\ \A n \in Node : async_todo[n] = <<>>
  PROVE  /\ procMem' = IF release' = "done" /\ tmp_ref' = 0 THEN "freed" ELSE "live"
         /\ \A t \in Txn : \/ bufMem'[t] = bufMem[t]
                           \/ bufMem[t] = "detached" /\ bufMem'[t] = "freed" /\ t \notin Wq
         /\ \A t \in Txn : Owner(t) => bufMem'[t] = bufMem[t]
         /\ \A t \in Wq : bufMem'[t] = bufMem[t]
         /\ \A t \in taken : bufMem'[t] = bufMem[t]
         /\ procMem' # procMem => /\ procMem = "live" /\ taken = {} /\ \A t \in Txn : ~ Owner(t)
                                  /\ wq # <<>> => Len(wq) = 1 /\ worker = "dec"
<1> USE DEF Inv, Inv0
<1>0. /\ tmp_ref \in Int /\ tmp_ref' = tmp_ref - 1
      /\ procMem = IF release = "done" /\ tmp_ref = 0 THEN "freed" ELSE "live"
  BY Zenon DEF Types, rk_binder_proc_dec_tmpref, Mem, NoCorruption
<1>1. CASE is_dead /\ RB_EMPTY_ROOT_threads /\ tmp_ref = 1
  <2>1. /\ taken = {} /\ \A t \in Txn : ~ Owner(t)
        /\ \A t \in Wq : bufMem[t] = "freed"
        /\ procMem = "live"
        /\ wq # <<>> => Len(wq) = 1 /\ worker = "dec"
    BY Zenon, <1>1, LastReference
  <2>2. /\ procMem' = "freed"
        /\ bufMem' = [t \in Txn |-> IF bufMem[t] \in {"none", "freed"}
                                    THEN bufMem[t] ELSE binder_alloc_free_buf(bufMem[t])]
    BY Zenon, <1>1, <2>1 DEF rk_binder_proc_dec_tmpref, kfree
  <2>3. \A t \in Txn : bufMem[t] \in {"none", "freed", "detached"}
    BY Zenon, <2>1 DEF Mem, NothingLost, NoCorruption, Types, BufMem
  <2>4. \A t \in Txn : \/ bufMem'[t] = bufMem[t]
                       \/ bufMem[t] = "detached" /\ bufMem'[t] = "freed" /\ t \notin Wq
    BY Zenon, <2>1, <2>2, <2>3 DEF binder_alloc_free_buf
  <2>5. release' = "done"
    <3>1. ASSUME release = "draining", release' = "draining" PROVE FALSE
      <4>1. ReleasePin = 1 /\ Cardinality(Busy) = 0 /\ Len(wq) = 0
        BY <1>1, <3>1, CountTypes DEF RefsExact, ReleasePin
      <4>2. Busy = {}
        BY Zenon, <4>1, CountTypes, FS_EmptySet
      <4>3. wq = <<>>
        BY <4>1 DEF Types
      <4> QED
        BY Zenon, <3>1, <4>2, <4>3 DEF Busy
    <3> QED
      BY <1>1, <3>1 DEF RB_EMPTY_ROOT_threads
  <2> QED
    BY <1>0, <1>1, <2>1, <2>2, <2>4, <2>5, OwnSets
<1>2. CASE ~ (is_dead /\ RB_EMPTY_ROOT_threads /\ tmp_ref = 1)
  <2>1. UNCHANGED <<procMem, bufMem>>
    BY Zenon, <1>2 DEF rk_binder_proc_dec_tmpref
  <2>2. ~ (release' = "done" /\ tmp_ref' = 0)
    BY <1>0, <1>2 DEF is_dead, RB_EMPTY_ROOT_threads
  <2>3. tmp_ref # 0
    <3>1. CASE \E s \in Sender : pc[s] = "put"
      <4>1. Busy # {}
        BY Zenon, <3>1 DEF Busy
      <4>2. Cardinality(Busy) # 0
        BY Zenon, <4>1, CountTypes, FS_EmptySet
      <4> QED
        BY <4>2, CountTypes DEF RefsExact
    <3>2. CASE wq # <<>>
      <4>1. Len(wq) # 0
        BY <3>2 DEF Types
      <4> QED
        BY <4>1, CountTypes DEF RefsExact
    <3>3. CASE release = "draining"
      BY <3>3, CountTypes DEF RefsExact, ReleasePin
    <3> QED
      BY Zenon, <3>1, <3>2, <3>3
  <2> QED
    BY Zenon, <1>0, <2>1, <2>2, <2>3
<1> QED
  BY Zenon, <1>1, <1>2

-----------------------------------------------------------------------------
(* The steps *)

(* What the invariant says about transactions, without the process.        *)
TxnMemory ==
  /\ OwnedIntact /\ QueuedIntact /\ TakenIntact /\ NothingLost
  /\ \A t \in Txn : txnMem[t] # "corrupt" /\ bufMem[t] # "corrupt"
  /\ \A t \in read \ taken : txnMem[t] = "freed" /\ bufMem[t] \in {"detached", "freed"}

(* Handing a transaction from owner to owner (a sender links it, the probe  *)
(* unlinks it, the next one moves up) does not touch its memory.            *)
LEMMA HandOver ==
  ASSUME TxnMemory, UNCHANGED <<txnMem, bufMem, wq, worker, read, taken>>,
         \A t \in Txn : Owner(t)' <=> Owner(t)
  PROVE  TxnMemory'
<1>1. Wq' = Wq
  BY Zenon DEF Wq
<1> QED
  BY ZenonT(30), <1>1 DEF TxnMemory, OwnedIntact, QueuedIntact, TakenIntact, NothingLost

(* The owners depend on the senders' locals and the lists only.             *)
LEMMA SameOwners ==
  ASSUME UNCHANGED <<cur, t_outdated, todo, async_todo>>
  PROVE  \A t \in Txn : Owner(t)' <=> Owner(t)
  BY Zenon DEF Owner, Td, As

(* A sender frees the transaction of its refused call.                      *)
LEMMA OwnerFrees ==
  ASSUME Inv, NEW t \in Txn, Owner(t), UNCHANGED <<wq, worker, read, taken>>,
         txnMem' = [txnMem EXCEPT ![t] = kfree(@)],
         NEW b \in {"detached", "freed"}, bufMem' = [bufMem EXCEPT ![t] = b],
         \A u \in Txn : Owner(u)' <=> Owner(u) /\ u # t
  PROVE  TxnMemory'
<1> USE DEF Inv
<1>1. Wq' = Wq /\ t \notin Wq /\ t \notin read /\ Wq \subseteq Txn /\ read \subseteq Txn
  BY Zenon, Exclusive, OwnSets DEF Wq, Inv0, Types
<1>2. txnMem[t] = "live"
  BY Zenon DEF Mem, OwnedIntact
<1>3. \A u \in Txn : /\ txnMem'[u] = IF u = t THEN "freed" ELSE txnMem[u]
                     /\ bufMem'[u] = IF u = t THEN b ELSE bufMem[u]
  BY Zenon, <1>2 DEF Inv0, Types, kfree
<1>4. OwnedIntact'
  BY Zenon, <1>3 DEF Mem, OwnedIntact
<1>5. QueuedIntact'
  BY <1>1, <1>3 DEF Mem, QueuedIntact
<1>6. NothingLost'
  BY <1>1, <1>3 DEF Mem, NothingLost
<1>8. TakenIntact'
  <2>1. \A u \in taken : u \in Txn /\ u # t
    BY Zenon, TakenAlone
  <2> QED  BY Zenon, <1>3, <2>1 DEF Mem, TakenIntact
<1>7. /\ \A u \in Txn : txnMem'[u] # "corrupt" /\ bufMem'[u] # "corrupt"
      /\ \A u \in read' \ taken' : txnMem'[u] = "freed" /\ bufMem'[u] \in {"detached", "freed"}
  BY <1>1, <1>3 DEF Mem, NoCorruption
<1> QED
  BY Zenon, <1>4, <1>5, <1>6, <1>7, <1>8 DEF TxnMemory

(* binder_transaction() allocates what no one owned.                        *)
LEMMA MemSend ==
  ASSUME Inv, NEW s \in Sender, NEW t \in Txn, binder_transaction(s, t) PROVE TxnMemory'
<1> USE DEF Inv, Inv0
<1>1. /\ cur' = [cur EXCEPT ![s] = t] /\ txnMem[t] = "none" /\ cur[s] = NULL
      /\ txnMem' = [txnMem EXCEPT ![t] = "live"] /\ bufMem' = [bufMem EXCEPT ![t] = "attached"]
      /\ UNCHANGED <<t_outdated, todo, async_todo, wq, worker, read, taken>>
  BY Zenon DEF Control, binder_transaction, listVars, kpVars, histVars
<1>2. Wq' = Wq /\ Td' = Td /\ \A n \in Node : As(n)' = As(n)
  BY Zenon, <1>1 DEF Wq, Td, As
<1>3. ~ Owner(t) /\ t \notin Wq /\ t \notin read /\ t \notin taken
  BY Zenon, <1>1 DEF Mem, OwnedIntact, QueuedIntact, Own, Allocated, Apart
<1>4. \A u \in Txn : Owner(u)' <=> Owner(u) \/ u = t
  BY <1>1, <1>2, NullAssumption DEF Owner, Types
<1>5. \A u \in Txn : /\ txnMem'[u] = IF u = t THEN "live" ELSE txnMem[u]
                     /\ bufMem'[u] = IF u = t THEN "attached" ELSE bufMem[u]
  BY Zenon, <1>1 DEF Types
<1>6. Wq \subseteq Txn /\ read \subseteq Txn
  BY Zenon, OwnSets DEF Types
<1>7. OwnedIntact' /\ NothingLost' /\ TakenIntact'
  <2>1. OwnedIntact' /\ NothingLost'
    BY Zenon, <1>1, <1>2, <1>4, <1>5 DEF Mem, OwnedIntact, NothingLost
  <2>2. \A u \in taken : u \in Txn /\ u # t
    BY Zenon, <1>3, TakenAlone
  <2> QED  BY Zenon, <1>1, <1>5, <2>1, <2>2 DEF Mem, TakenIntact
<1>8. QueuedIntact'
  BY <1>1, <1>2, <1>3, <1>5, <1>6 DEF Mem, QueuedIntact
<1>9. /\ \A u \in Txn : txnMem'[u] # "corrupt" /\ bufMem'[u] # "corrupt"
      /\ \A u \in read' \ taken' : txnMem'[u] = "freed" /\ bufMem'[u] \in {"detached", "freed"}
  BY <1>1, <1>3, <1>5, <1>6 DEF Mem, NoCorruption
<1> QED
  BY Zenon, <1>7, <1>8, <1>9 DEF TxnMemory

(* The probe cuts the unlinked transaction and its buffer apart and hands   *)
(* it to the workqueue.                                                     *)
LEMMA MemQueue ==
  ASSUME Inv, NEW s \in Sender, PreQueueFree(s) PROVE TxnMemory'
<1> USE DEF Inv, Inv0
<1> DEFINE t == t_outdated[s]
<1>1. /\ wq' = Append(wq, t) /\ t_outdated' = [t_outdated EXCEPT ![s] = NULL]
      /\ bufMem' = [bufMem EXCEPT ![t] = Cut(@)] /\ t # NULL
      /\ UNCHANGED <<cur, async_todo, todo, txnMem, worker, read, taken>>
  BY Zenon DEF PreQueueFree, CutBuffer, Control, listVars, histVars
<1>2. t \in Txn /\ t \in dropped /\ t \notin Wq /\ Owner(t)
  BY Zenon, <1>1 DEF Types, Own, Owned, Owner
<1>3. /\ Wq' = Wq \cup {t} /\ Head(wq') = IF wq = <<>> THEN t ELSE Head(wq)
      /\ wq' # <<>>
  BY <1>1, <1>2, AppendSet, SeqTypes DEF Wq
<1>4. Td' = Td /\ \A n \in Node : As(n)' = As(n)
  BY Zenon, <1>1 DEF Td, As
<1>5. txnMem[t] = "live" /\ bufMem[t] = "attached"
  BY Zenon, <1>2 DEF Mem, OwnedIntact
<1>6. \A u \in Txn : bufMem'[u] = IF u = t THEN "detached" ELSE bufMem[u]
  BY Zenon, <1>1, <1>2, <1>5 DEF Types, Cut
<1>7. \A u \in Txn : Owner(u)' <=> Owner(u) /\ u # t
  <2>1. (\A v \in Sender : cur[v] # t) /\ t \notin Td /\ \A n \in Node : t \notin As(n)
    BY Zenon, <1>2 DEF Own, Owned
  <2>2. \A v \in Sender : t_outdated'[v] = IF v = s THEN NULL ELSE t_outdated[v]
    BY Zenon, <1>1 DEF Types
  <2>3. \A v \in Sender : v # s => t_outdated[v] # t
    BY Zenon, <1>1 DEF Own, Owned
  <2> HIDE DEF t
  <2>4. t_outdated[s] = t
    BY Zenon DEF t
  <2> QED
    BY Zenon, <1>1, <1>4, <2>1, <2>2, <2>3, <2>4, NullAssumption DEF Owner
<1>8. Wq \subseteq Txn /\ read \subseteq Txn /\ t \notin read
      /\ (wq = <<>> => worker = "release") /\ (wq # <<>> => Head(wq) \in Wq)
  <2>1. t \notin read /\ (wq = <<>> => worker = "release")
    BY Zenon, <1>2, Exclusive DEF Types, Mem, QueuedIntact
  <2>2. wq # <<>> => Head(wq) \in Wq
    BY Zenon, TakeFirst, SeqTypes DEF Own, Lists, Wq
  <2> QED
    BY Zenon, <2>1, <2>2, OwnSets DEF Types
<1> HIDE DEF t
<1>9. OwnedIntact' /\ NothingLost' /\ TakenIntact'
  <2>1. OwnedIntact' /\ NothingLost'
    BY <1>1, <1>3, <1>6, <1>7 DEF Mem, OwnedIntact, NothingLost
  <2>2. \A u \in taken : u \in Txn /\ u # t
    BY Zenon, <1>2, TakenAlone
  <2> QED  BY Zenon, <1>1, <1>6, <2>1, <2>2 DEF Mem, TakenIntact
<1>10. QueuedIntact'
  <2>1. \A u \in Wq : u # t
    BY Zenon, <1>2
  <2> QED
    BY Zenon, <1>1, <1>2, <1>3, <1>5, <1>6, <1>8, <2>1 DEF Mem, QueuedIntact
<1>11. /\ \A u \in Txn : txnMem'[u] # "corrupt" /\ bufMem'[u] # "corrupt"
       /\ \A u \in read' \ taken' : txnMem'[u] = "freed" /\ bufMem'[u] \in {"detached", "freed"}
  BY <1>1, <1>6, <1>8 DEF Mem, NoCorruption
<1> QED
  BY Zenon, <1>9, <1>10, <1>11 DEF TxnMemory

(* The inner_lock section hands an entry of async_todo to the probe.        *)
LEMMA MemFind ==
  ASSUME Inv, NEW s \in Sender, PreFindOutdated(s) PROVE TxnMemory'
<1> USE DEF Inv, Inv0
<1> DEFINE n == Attr[cur[s]].node
<1>1. n \in Node /\ UNCHANGED <<cur, todo, wq, worker, read, taken, txnMem, bufMem>>
  BY ZenonT(30), AttrAssumption DEF Types, Control, PreFindOutdated, memVars, kpVars
<1>2. TxnMemory
  BY Zenon DEF Mem, NoCorruption, TxnMemory
<1>3. CASE Empty(s)
  <2>1. \A u \in Txn : Owner(u)' <=> Owner(u)
    BY Zenon, <1>1, <1>3, SameOwners DEF Empty
  <2> QED
    BY Zenon, <1>1, <1>2, <2>1, HandOver
<1>4. ASSUME NEW i \in 1 .. Len(async_todo[n]), Detach(s, n, i) PROVE TxnMemory'
  <2> DEFINE t == async_todo[n][i]
  <2>1. /\ async_todo' = [async_todo EXCEPT ![n] = list_del_init(@, i)]
        /\ t_outdated' = [t_outdated EXCEPT ![s] = t] /\ t_outdated[s] = NULL
    BY ZenonT(30), <1>4 DEF Detach, Control, PreFindOutdated
  <2>2. t \in As(n) /\ t \in Txn /\ Range(list_del_init(async_todo[n], i)) = As(n) \ {t}
    <3>1. async_todo[n] \in Seq(Txn) /\ NoDuplicates(async_todo[n])
      BY Zenon, <1>1, SeqTypes DEF Own, Lists
    <3> QED
      BY Zenon, <3>1, TakeAt DEF As
  <2>3. Td' = Td /\ \A m \in Node : As(m)' = IF m = n THEN As(n) \ {t} ELSE As(m)
    BY ZenonT(30), <1>1, <2>1, <2>2 DEF Td, As, Types
  <2>4. \A v \in Sender : t_outdated'[v] = IF v = s THEN t ELSE t_outdated[v]
    BY Zenon, <2>1 DEF Types
  <2> HIDE DEF t
  <2>5. \A u \in Txn : Owner(u)' <=> Owner(u)
    BY Zenon, <1>1, <2>1, <2>2, <2>3, <2>4, NullAssumption DEF Owner
  <2> QED
    BY Zenon, <1>1, <1>2, <2>5, HandOver
<1> QED
  BY Zenon, <1>3, <1>4, FindCases

(* The probed function links the transaction, or frees it.                  *)
LEMMA MemCall ==
  ASSUME Inv, NEW s \in Sender, binder_proc_transaction(s) PROVE TxnMemory'
<1> USE DEF Inv, Inv0
<1> DEFINE t == cur[s]
           n == Attr[t].node
<1>1. /\ t \in Txn /\ n \in Node /\ cur' = [cur EXCEPT ![s] = NULL]
      /\ UNCHANGED <<t_outdated, wq, worker, read, taken>>
  BY ZenonT(30), AttrAssumption DEF Types, Control, binder_proc_transaction, kpVars, histVars
<1>2. /\ t \notin Td /\ \A m \in Node : t \notin As(m)
      /\ \A v \in Sender : t_outdated[v] # t
  BY Zenon, <1>1, NullAssumption DEF Own, Owned
<1>3. (\A v \in Sender : v # s => cur[v] # t)
      /\ \A v \in Sender : cur'[v] = IF v = s THEN NULL ELSE cur[v]
  <2>1. ASSUME NEW v \in Sender, v # s PROVE cur[v] # t
    BY Zenon, <1>1, <2>1, NullAssumption DEF Own, Owned
  <2>2. cur \in [Sender -> Txn \cup {NULL}]
    BY Zenon DEF Types
  <2>3. \A v \in Sender : cur'[v] = IF v = s THEN NULL ELSE cur[v]
    BY Zenon, <1>1, <2>2
  <2> QED
    BY Zenon, <2>1, <2>3
<1>4. TxnMemory /\ Owner(t) /\ cur[s] = t
  BY Zenon, <1>1 DEF Mem, NoCorruption, TxnMemory, Owner
<1> HIDE DEF t
<1>5. CASE CallRefused(t)
  <2>1. /\ UNCHANGED <<todo, async_todo>> /\ txnMem' = [txnMem EXCEPT ![t] = kfree(@)]
        /\ bufMem' = [bufMem EXCEPT ![t] = "freed"]
    BY ZenonT(30), <1>1, <1>4, <1>5 DEF CallRefused, TxnMemory, OwnedIntact, Cut,
       binder_alloc_free_buf
  <2>2. Td' = Td /\ \A m \in Node : As(m)' = As(m)
    BY Zenon, <2>1 DEF Td, As
  <2>3. \A u \in Txn : Owner(u)' <=> Owner(u) /\ u # t
    BY Zenon, <1>1, <1>2, <1>3, <1>4, <2>2, NullAssumption DEF Owner
  <2> QED
    BY Zenon, <1>1, <1>4, <2>1, <2>3, OwnerFrees
<1>6. CASE CallToProcess(t)
  <2>1. todo' = Append(todo, t) /\ UNCHANGED <<async_todo, txnMem, bufMem>>
    BY Zenon, <1>6 DEF CallToProcess
  <2>2. Td' = Td \cup {t} /\ \A m \in Node : As(m)' = As(m)
    BY <1>1, <2>1, AppendSet, SeqTypes DEF Td, As
  <2>3. \A u \in Txn : Owner(u)' <=> Owner(u)
    BY Zenon, <1>1, <1>3, <1>4, <2>2, NullAssumption DEF Owner
  <2> QED
    BY Zenon, <1>1, <1>4, <2>1, <2>3, HandOver
<1>7. CASE CallToNode(t, n)
  <2>1. async_todo' = [async_todo EXCEPT ![n] = Append(@, t)] /\ UNCHANGED <<todo, txnMem, bufMem>>
    BY ZenonT(40), <1>7 DEF CallToNode
  <2>2. Range(Append(async_todo[n], t)) = As(n) \cup {t}
    BY <1>1, AppendSet, SeqTypes DEF As
  <2>3. Td' = Td /\ \A m \in Node : As(m)' = IF m = n THEN As(n) \cup {t} ELSE As(m)
    BY ZenonT(30), <1>1, <2>1, <2>2 DEF Types, Td, As
  <2>4. \A u \in Txn : Owner(u)' <=> Owner(u)
    BY Zenon, <1>1, <1>3, <1>4, <2>3, NullAssumption DEF Owner
  <2> QED
    BY Zenon, <1>1, <1>4, <2>1, <2>4, HandOver
<1> QED
  BY Zenon, <1>5, <1>6, <1>7, CallCases DEF t

(* What binder_free_proc() may do to the buffers.                           *)
BuffersSwept ==
  /\ \A t \in Txn : \/ bufMem'[t] = bufMem[t]
                    \/ bufMem[t] = "detached" /\ bufMem'[t] = "freed" /\ t \notin Wq
  /\ \A t \in Txn : Owner(t) => bufMem'[t] = bufMem[t]
  /\ \A t \in Wq : bufMem'[t] = bufMem[t]
  /\ \A t \in taken : bufMem'[t] = bufMem[t]

(* Giving a reference back, by a sender or by the deferred release.         *)
LEMMA MemPut ==
  ASSUME Inv, BuffersSwept, UNCHANGED <<txnMem, wq, worker, read, taken>>,
         \A t \in Txn : Owner(t)' <=> Owner(t)
  PROVE  TxnMemory'
<1> USE DEF Inv
<1>1. Wq' = Wq /\ Wq \subseteq Txn /\ read \subseteq Txn
  BY Zenon, OwnSets DEF Wq, Inv0, Types
<1>2. OwnedIntact' /\ NothingLost' /\ TakenIntact'
  <2>1. OwnedIntact' /\ TakenIntact'
    BY Zenon DEF Mem, OwnedIntact, TakenIntact, BuffersSwept
  <2> QED
    BY Zenon, <1>1, <2>1 DEF Mem, NothingLost, BuffersSwept
<1>3. QueuedIntact'
  BY Zenon, <1>1 DEF Mem, QueuedIntact, BuffersSwept
<1>4. /\ \A u \in Txn : txnMem'[u] # "corrupt" /\ bufMem'[u] # "corrupt"
      /\ \A u \in read' \ taken' : txnMem'[u] = "freed" /\ bufMem'[u] \in {"detached", "freed"}
  BY Zenon, <1>1 DEF Mem, NoCorruption, BuffersSwept
<1> QED
  BY Zenon, <1>2, <1>3, <1>4 DEF TxnMemory

(* rkx_free_txn_func: the buffer, the transaction, the reference.           *)
LEMMA MemFreeTxn ==
  ASSUME Inv, FreeTxn PROVE TxnMemory'
<1> USE DEF Inv, Inv0
<1> DEFINE t == Head(wq)
<1>1. UNCHANGED <<cur, t_outdated, todo, async_todo, read, taken>> /\ wq # <<>>
  BY Zenon DEF FreeTxn, FreeTxnReleaseBuffer, FreeTxnKfree, FreeTxnDecTmpref, sendVars,
     listVars, histVars
<1>2. \A u \in Txn : Owner(u)' <=> Owner(u)
  BY Zenon, <1>1, SameOwners
<1>3. /\ t \in Wq /\ t \in Txn /\ Range(Tail(wq)) = Wq \ {t}
      /\ Wq \subseteq Txn /\ read \subseteq Txn /\ wq \in Seq(Txn) /\ Tail(wq) \in Seq(Txn)
  <2>1. wq \in Seq(Txn) /\ NoDuplicates(wq) /\ Wq \subseteq Txn /\ read \subseteq Txn
    BY Zenon, OwnSets, SeqTypes DEF Own, Lists, Types
  <2> QED
    BY Zenon, <1>1, <2>1, TakeFirst DEF Wq
<1>4. (\A u \in Wq : ~ Owner(u) /\ u \notin read) /\ \A u \in taken : u \in Txn /\ u \notin Wq
  BY Zenon, Exclusive, TakenAlone
<1>5. CASE FreeTxnReleaseBuffer
  <2>1. /\ worker = "release" /\ worker' = "kfree" /\ UNCHANGED <<txnMem, wq>>
        /\ bufMem' = [bufMem EXCEPT ![t] = binder_alloc_free_buf(@)]
    BY Zenon, <1>5 DEF FreeTxnReleaseBuffer
  <2>2. bufMem[t] = "detached" /\ Wq' = Wq
    BY Zenon, <1>3, <2>1 DEF Mem, QueuedIntact, Wq
  <2>3. \A u \in Txn : bufMem'[u] = IF u = t THEN "freed" ELSE bufMem[u]
    BY Zenon, <1>3, <2>1, <2>2 DEF Types, binder_alloc_free_buf
  <2>4. OwnedIntact' /\ NothingLost'
    BY <1>1, <1>2, <1>3, <1>4, <2>1, <2>2, <2>3 DEF Mem, OwnedIntact, NothingLost
  <2>5. QueuedIntact'
    BY Zenon, <1>1, <1>3, <2>1, <2>2, <2>3 DEF Mem, QueuedIntact
  <2>8. TakenIntact'
    BY Zenon, <1>1, <1>3, <1>4, <2>1, <2>3 DEF Mem, TakenIntact
  <2>6. /\ \A u \in Txn : txnMem'[u] # "corrupt" /\ bufMem'[u] # "corrupt"
        /\ \A u \in read' \ taken' : txnMem'[u] = "freed" /\ bufMem'[u] \in {"detached", "freed"}
    <3>1. \A u \in Txn : txnMem'[u] # "corrupt" /\ bufMem'[u] # "corrupt"
      BY <2>1, <2>3 DEF Mem, NoCorruption
    <3>2. \A u \in read' \ taken' : txnMem'[u] = "freed" /\ bufMem'[u] \in {"detached", "freed"}
      <4>1. \A u \in read' \ taken' : u \in Txn /\ u # t /\ u \in read \ taken
        BY Zenon, <1>1, <1>3, <1>4
      <4> QED
        BY Zenon, <2>1, <2>3, <4>1 DEF Mem, NoCorruption
    <3> QED
      BY Zenon, <3>1, <3>2
  <2> QED
    BY Zenon, <2>4, <2>5, <2>6, <2>8 DEF TxnMemory
<1>6. CASE FreeTxnKfree
  <2>1. /\ worker = "kfree" /\ worker' = "dec" /\ UNCHANGED <<bufMem, wq>>
        /\ txnMem' = [txnMem EXCEPT ![t] = kfree(@)]
    BY Zenon, <1>6 DEF FreeTxnKfree, KfreeTxn
  <2>2. txnMem[t] = "live" /\ Wq' = Wq
    BY Zenon, <1>3, <2>1 DEF Mem, QueuedIntact, Wq
  <2>3. \A u \in Txn : txnMem'[u] = IF u = t THEN "freed" ELSE txnMem[u]
    BY Zenon, <1>3, <2>1, <2>2 DEF Types, kfree
  <2>4. OwnedIntact' /\ NothingLost'
    BY Zenon, <1>1, <1>2, <1>3, <1>4, <2>1, <2>2, <2>3 DEF Mem, OwnedIntact, NothingLost
  <2>5. QueuedIntact'
    BY ZenonT(40), <1>1, <1>3, <2>1, <2>2, <2>3 DEF Mem, QueuedIntact
  <2>8. TakenIntact'
    BY Zenon, <1>1, <1>3, <1>4, <2>1, <2>3 DEF Mem, TakenIntact
  <2>6. /\ \A u \in Txn : txnMem'[u] # "corrupt" /\ bufMem'[u] # "corrupt"
        /\ \A u \in read' \ taken' : txnMem'[u] = "freed" /\ bufMem'[u] \in {"detached", "freed"}
    <3>1. \A u \in Txn : txnMem'[u] # "corrupt" /\ bufMem'[u] # "corrupt"
      BY <2>1, <2>3 DEF Mem, NoCorruption
    <3>2. \A u \in read' \ taken' : txnMem'[u] = "freed" /\ bufMem'[u] \in {"detached", "freed"}
      <4>1. \A u \in read' \ taken' : u \in Txn /\ u # t /\ u \in read \ taken
        BY Zenon, <1>1, <1>3, <1>4
      <4> QED
        BY ZenonT(40), <2>1, <2>3, <4>1 DEF Mem, NoCorruption
    <3> QED
      BY Zenon, <3>1, <3>2
  <2> QED
    BY Zenon, <2>4, <2>5, <2>6, <2>8 DEF TxnMemory
<1>7. CASE FreeTxnDecTmpref
  <2>1. /\ worker = "dec" /\ worker' = "release" /\ wq' = Tail(wq) /\ UNCHANGED txnMem
        /\ rk_binder_proc_dec_tmpref /\ UNCHANGED release
    BY Zenon, <1>7 DEF FreeTxnDecTmpref, stateVars
  <2>2. BuffersSwept
    BY Zenon, <1>1, <2>1, DecTmpref DEF BuffersSwept
  <2>3. Wq' = Wq \ {t}
    BY Zenon, <1>3, <2>1 DEF Wq
  <2>4. txnMem[t] = "freed" /\ bufMem[t] = "freed"
    BY Zenon, <1>3, <2>1 DEF Mem, QueuedIntact
  <2>5. OwnedIntact' /\ NothingLost'
    BY <1>1, <1>2, <1>3, <2>1, <2>2, <2>3, <2>4 DEF Mem, OwnedIntact, NothingLost, BuffersSwept
  <2>8. TakenIntact'
    BY Zenon, <1>1, <2>1, <2>2 DEF Mem, TakenIntact, BuffersSwept
  <2>6. QueuedIntact'
    <3>1. \A u \in Wq' : u # t /\ u \in Wq /\ txnMem[u] = "live" /\ bufMem'[u] = "detached"
      BY Zenon, <1>3, <2>2, <2>3 DEF Mem, QueuedIntact, BuffersSwept
    <3> QED
      BY Zenon, <2>1, <3>1 DEF QueuedIntact
  <2>7. /\ \A u \in Txn : txnMem'[u] # "corrupt" /\ bufMem'[u] # "corrupt"
        /\ \A u \in read' \ taken' : txnMem'[u] = "freed" /\ bufMem'[u] \in {"detached", "freed"}
    BY Zenon, <1>1, <1>3, <2>1, <2>2 DEF Mem, NoCorruption, BuffersSwept
  <2> QED
    BY Zenon, <2>5, <2>6, <2>7, <2>8 DEF TxnMemory
<1> QED
  BY Zenon, <1>5, <1>6, <1>7 DEF FreeTxn

(* The driver takes an entry off a list to free it.                         *)
LEMMA MemTake ==
  ASSUME Inv, NEW t \in Txn, Owner(t), taken' = taken \cup {t}, read' \subseteq read \cup {t},
         UNCHANGED <<txnMem, bufMem, wq, worker>>,
         \A u \in Txn : Owner(u)' <=> Owner(u) /\ u # t
  PROVE  TxnMemory'
<1> USE DEF Inv
<1>1. Wq' = Wq /\ txnMem[t] = "live" /\ bufMem[t] = "attached"
  BY Zenon DEF Wq, Mem, OwnedIntact
<1>2. OwnedIntact' /\ TakenIntact'
  BY Zenon, <1>1 DEF Mem, OwnedIntact, TakenIntact
<1>3. NothingLost'
  BY Zenon, <1>1 DEF Mem, NothingLost
<1>4. QueuedIntact'
  BY Zenon, <1>1 DEF Mem, QueuedIntact
<1>5. /\ \A u \in Txn : txnMem'[u] # "corrupt" /\ bufMem'[u] # "corrupt"
      /\ \A u \in read' \ taken' : txnMem'[u] = "freed" /\ bufMem'[u] \in {"detached", "freed"}
  BY Zenon DEF Mem, NoCorruption
<1> QED
  BY Zenon, <1>2, <1>3, <1>4, <1>5 DEF TxnMemory

(* The first entry of todo is taken: by binder_thread_read(), or released.  *)
LEMMA MemTodoHead ==
  ASSUME Inv, todo # <<>>, todo' = Tail(todo), taken' = taken \cup {Head(todo)},
         read' \subseteq read \cup {Head(todo)},
         UNCHANGED <<cur, t_outdated, async_todo, txnMem, bufMem, wq, worker>>
  PROVE  TxnMemory'
<1> USE DEF Inv, Inv0
<1> DEFINE t == Head(todo)
<1>1. /\ t \in Txn /\ t \in Td /\ t \notin dropped /\ \A s \in Sender : cur[s] # t
      /\ (\A n \in Node : t \notin As(n)) /\ Range(Tail(todo)) = Td \ {t}
  BY Zenon, OwnTodoHead
<1>2. \A s \in Sender : t_outdated[s] # t
  BY Zenon, <1>1, NullAssumption DEF Own, Owned
<1>3. Td' = Td \ {t} /\ \A n \in Node : As(n)' = As(n)
  BY Zenon, <1>1 DEF Td, As
<1>4. Owner(t)
  BY Zenon, <1>1 DEF Owner
<1> HIDE DEF t
<1>5. \A u \in Txn : Owner(u)' <=> Owner(u) /\ u # t
  BY Zenon, <1>1, <1>2, <1>3 DEF Owner
<1>6. taken' = taken \cup {t} /\ read' \subseteq read \cup {t}
  BY Zenon DEF t
<1> QED
  BY ZenonT(30), <1>1, <1>4, <1>5, <1>6, MemTake

(* What was taken is freed, and cut from its buffer.                        *)
LEMMA MemFreeTaken ==
  ASSUME Inv, NEW t \in Txn, FreeTaken(t) PROVE TxnMemory'
<1> USE DEF Inv, Inv0
<1>1. /\ t \in taken /\ taken' = taken \ {t} /\ txnMem' = [txnMem EXCEPT ![t] = kfree(@)]
      /\ bufMem' = [bufMem EXCEPT ![t] = IF @ = "freed" THEN @ ELSE Cut(@)]
      /\ UNCHANGED <<cur, t_outdated, todo, async_todo, wq, worker, read>>
  BY Zenon DEF FreeTaken, sendVars, kpVars, histVars
<1>2. ~ Owner(t) /\ t \notin Wq /\ \A u \in taken : u \in Txn
  BY Zenon, <1>1, TakenAlone
<1>3. txnMem[t] = "live" /\ bufMem[t] \in {"attached", "freed"}
  BY Zenon, <1>1 DEF Mem, TakenIntact
<1>4. PICK b \in {"detached", "freed"} : b = IF bufMem[t] = "freed" THEN "freed" ELSE "detached"
  BY Zenon
<1>5. \A u \in Txn : /\ txnMem'[u] = IF u = t THEN "freed" ELSE txnMem[u]
                     /\ bufMem'[u] = IF u = t THEN b ELSE bufMem[u]
  BY ZenonT(30), <1>1, <1>3, <1>4 DEF Types, kfree, Cut
<1>6. Wq' = Wq /\ Wq \subseteq Txn /\ read \subseteq Txn /\ \A u \in Txn : Owner(u)' <=> Owner(u)
  BY Zenon, <1>1, SameOwners, OwnSets DEF Wq, Types
<1>7. OwnedIntact' /\ TakenIntact'
  BY ZenonT(30), <1>1, <1>2, <1>5, <1>6 DEF Mem, OwnedIntact, TakenIntact
<1>8. NothingLost'
  <2>1. ASSUME NEW u \in Txn, bufMem'[u] = "attached" PROVE Owner(u)' \/ u \in taken'
    BY <1>1, <1>4, <1>5, <1>6, <2>1 DEF Mem, NothingLost
  <2>2. ASSUME NEW u \in Txn, txnMem'[u] = "live" PROVE Owner(u)' \/ u \in taken' \/ u \in Wq'
    BY <1>1, <1>5, <1>6, <2>2 DEF Mem, NothingLost
  <2> QED
    BY Zenon, <2>1, <2>2 DEF NothingLost
<1>9. QueuedIntact'
  <2>1. \A u \in Wq : /\ u \in Txn /\ txnMem'[u] = txnMem[u] /\ bufMem'[u] = bufMem[u]
    BY Zenon, <1>2, <1>5, <1>6
  <2> QED
    BY Zenon, <1>1, <1>6, <2>1 DEF Mem, QueuedIntact
<1>10. /\ \A u \in Txn : txnMem'[u] # "corrupt" /\ bufMem'[u] # "corrupt"
       /\ \A u \in read' \ taken' : txnMem'[u] = "freed" /\ bufMem'[u] \in {"detached", "freed"}
  BY <1>1, <1>5, <1>6 DEF Mem, NoCorruption
<1> QED
  BY Zenon, <1>7, <1>8, <1>9, <1>10 DEF TxnMemory

(* The deferred release frees what is queued and gives its pin back.        *)
LEMMA MemRelease ==
  ASSUME Inv, Release PROVE TxnMemory'
<1> USE DEF Inv, Inv0
<1>1. CASE ReleaseThreads
  BY ZenonT(30), <1>1, HandOver, SameOwners DEF ReleaseThreads, TxnMemory, Mem, NoCorruption,
     sendVars, listVars, memVars, kpVars, histVars
<1>2. CASE ReleaseTodo
  <2>1. /\ todo # <<>> /\ todo' = Tail(todo) /\ taken' = taken \cup {Head(todo)}
        /\ read' \subseteq read \cup {Head(todo)}
        /\ UNCHANGED <<cur, t_outdated, async_todo, txnMem, bufMem, wq, worker>>
    BY Zenon, <1>2 DEF ReleaseTodo, ReleaseTake, sendVars, memVars, kpVars, histVars
  <2> QED
    BY Zenon, <2>1, MemTodoHead
<1>3. ASSUME NEW n \in Node, ReleaseAsync(n) PROVE TxnMemory'
  <2> DEFINE t == Head(async_todo[n])
  <2>1. /\ async_todo[n] # <<>> /\ async_todo' = [async_todo EXCEPT ![n] = Tail(@)]
        /\ taken' = taken \cup {t}
        /\ UNCHANGED <<todo, cur, t_outdated, read, txnMem, bufMem, wq, worker>>
    BY Zenon, <1>3 DEF ReleaseAsync, ReleaseTake, sendVars, memVars, kpVars, histVars
  <2>2. /\ t \in Txn /\ t \in As(n) /\ t \notin dropped /\ t \notin Td
        /\ (\A s \in Sender : cur[s] # t) /\ (\A m \in Node : t \in As(m) => m = n)
        /\ Range(Tail(async_todo[n])) = As(n) \ {t}
    BY Zenon, <2>1, OwnAsyncHead
  <2>3. \A s \in Sender : t_outdated[s] # t
    BY Zenon, <2>2, NullAssumption DEF Own, Owned
  <2>4. Td' = Td /\ \A m \in Node : As(m)' = IF m = n THEN As(n) \ {t} ELSE As(m)
    <3>1. \A m \in Node : As(m)' = IF m = n THEN Range(Tail(async_todo[n])) ELSE As(m)
      BY Zenon, <2>1, AsyncExcept
    <3> QED
      BY Zenon, <2>1, <2>2, <3>1 DEF Td
  <2>5. Owner(t)
    BY Zenon, <2>2 DEF Owner
  <2> HIDE DEF t
  <2>6. \A u \in Txn : Owner(u)' <=> Owner(u) /\ u # t
    BY Zenon, <2>1, <2>2, <2>3, <2>4 DEF Owner
  <2> QED
    BY ZenonT(30), <2>1, <2>2, <2>5, <2>6, MemTake
<1>4. CASE ReleaseDone
  <2>1. /\ release = "draining" /\ release' = "done" /\ todo = <<>> /\ taken = {}
        /\ (\A n \in Node : async_todo[n] = <<>>) /\ rk_binder_proc_dec_tmpref
        /\ UNCHANGED <<cur, t_outdated, todo, async_todo, txnMem, wq, worker, read, taken>>
    BY Zenon, <1>4 DEF ReleaseDone, sendVars, listVars, kpVars, histVars
  <2>2. BuffersSwept
    BY Zenon, <2>1, DecTmpref DEF BuffersSwept
  <2> QED
    BY Zenon, <2>1, <2>2, SameOwners, MemPut
<1> QED
  BY Zenon, <1>1, <1>2, <1>3, <1>4, MemFreeTaken DEF Release, ReleaseTaken

(* BC_FREE_BUFFER frees the buffer of a transaction that was read, and      *)
(* moves the next waiting one from async_todo to todo.                      *)
LEMMA MemFreeBuf ==
  ASSUME Inv, NEW u \in Txn, binder_free_buf(u) PROVE TxnMemory'
<1> USE DEF Inv, Inv0
<1> DEFINE n == Attr[u].node
           t == Head(async_todo[n])
<1>1. /\ n \in Node /\ u \in read /\ bufMem' = [bufMem EXCEPT ![u] = "freed"]
      /\ UNCHANGED <<cur, t_outdated, txnMem, wq, worker, read, taken>>
  BY Zenon, AttrAssumption DEF binder_free_buf, sendVars, kpVars, histVars
<1>2. \A x \in Txn : Owner(x)' <=> Owner(x)
  <2>1. CASE UNCHANGED <<todo, async_todo>>
    BY Zenon, <1>1, <2>1, SameOwners
  <2>2. CASE /\ async_todo[n] # <<>>
             /\ todo' = Append(todo, t) /\ async_todo' = [async_todo EXCEPT ![n] = Tail(@)]
    <3>1. t \in Txn /\ t \in As(n) /\ Range(Tail(async_todo[n])) = As(n) \ {t}
      BY Zenon, <1>1, <2>2, OwnAsyncHead
    <3>2. Td' = Td \cup {t}
      BY <2>2, <3>1, AppendSet, SeqTypes DEF Td
    <3>3. \A m \in Node : As(m)' = IF m = n THEN As(n) \ {t} ELSE As(m)
      <4>1. \A m \in Node : As(m)' = IF m = n THEN Range(Tail(async_todo[n])) ELSE As(m)
        BY ZenonT(30), <1>1, <2>2, AsyncExcept
      <4> QED
        BY Zenon, <3>1, <4>1
    <3> HIDE DEF t
    <3> QED
      BY Zenon, <1>1, <3>1, <3>2, <3>3 DEF Owner
  <2> QED
    BY Zenon, <2>1, <2>2 DEF binder_free_buf
<1>3. \A x \in Txn : bufMem'[x] = IF x = u THEN "freed" ELSE bufMem[x]
  BY Zenon, <1>1 DEF Types
<1>4. ~ Owner(u) /\ u \notin Wq /\ Wq' = Wq /\ Wq \subseteq Txn /\ read \subseteq Txn
  BY Zenon, <1>1, Exclusive, OwnSets DEF Wq, Types
<1>5. OwnedIntact' /\ NothingLost'
  <2>1. txnMem' = txnMem
    BY Zenon, <1>1
  <2>2. OwnedIntact /\ NothingLost
    BY Zenon DEF Mem
  <2>3. OwnedIntact'
    BY Zenon, <1>2, <1>3, <1>4, <2>1, <2>2 DEF OwnedIntact
  <2>4. NothingLost'
    <3>1. taken' = taken /\ Wq' = Wq
      BY Zenon, <1>1, <1>4
    <3>2. ASSUME NEW x \in Txn, bufMem'[x] = "attached" PROVE Owner(x)' \/ x \in taken'
      BY <1>2, <1>3, <2>2, <3>1, <3>2 DEF NothingLost
    <3>3. ASSUME NEW x \in Txn, txnMem'[x] = "live" PROVE Owner(x)' \/ x \in taken' \/ x \in Wq'
      BY Zenon, <1>2, <2>1, <2>2, <3>1, <3>3 DEF NothingLost
    <3> QED
      BY Zenon, <3>2, <3>3 DEF NothingLost
  <2> QED
    BY Zenon, <2>3, <2>4
<1>6. QueuedIntact'
  BY Zenon, <1>1, <1>3, <1>4 DEF Mem, QueuedIntact
<1>7. /\ \A x \in Txn : txnMem'[x] # "corrupt" /\ bufMem'[x] # "corrupt"
      /\ \A x \in read' \ taken' : txnMem'[x] = "freed" /\ bufMem'[x] \in {"detached", "freed"}
  <2>1. /\ \A x \in Txn : txnMem[x] # "corrupt" /\ bufMem[x] # "corrupt"
        /\ \A x \in read \ taken : txnMem[x] = "freed" /\ bufMem[x] \in {"detached", "freed"}
    BY Zenon DEF Mem, NoCorruption
  <2>2. read' \ taken' = read \ taken /\ txnMem' = txnMem /\ read \subseteq Txn
    BY Zenon, <1>1, <1>4
  <2> QED
    BY <1>3, <2>1, <2>2
<1>8. TakenIntact'
  <2>1. \A x \in taken : x \in Txn
    BY Zenon, TakenAlone
  <2> QED  BY Zenon, <1>1, <1>3, <2>1 DEF Mem, TakenIntact
<1> QED
  BY Zenon, <1>5, <1>6, <1>7, <1>8 DEF TxnMemory

(* Every step keeps the transactions' memory in order.                      *)
LEMMA TxnMemoryStep == Inv /\ [Next]_vars => TxnMemory'
<1> SUFFICES ASSUME Inv, [Next]_vars PROVE TxnMemory'
  BY Zenon
<1>0. TxnMemory
  BY Zenon DEF Inv, Mem, NoCorruption, TxnMemory
<1>1. CASE UNCHANGED <<cur, t_outdated, todo, async_todo, txnMem, bufMem, wq, worker, read, taken>>
  BY Zenon, <1>0, <1>1, SameOwners, HandOver
<1>2. CASE UNCHANGED vars
  BY Zenon, <1>1, <1>2 DEF vars, sendVars, listVars, memVars, kpVars, histVars
<1>3. ASSUME NEW s \in Sender, InDriver(s) PROVE TxnMemory'
  <2>1. CASE PreChooseStrategy(s) \/ PreLockNode(s)
    BY Zenon, <1>1, <2>1 DEF PreChooseStrategy, PreLockNode, listVars, memVars, kpVars, histVars
  <2>2. CASE binder_proc_dec_tmpref(s)
    <3>1. /\ pc[s] = "put" /\ rk_binder_proc_dec_tmpref /\ UNCHANGED release
          /\ UNCHANGED <<cur, t_outdated, todo, async_todo, txnMem, wq, worker, read, taken>>
      BY Zenon, <2>2 DEF binder_proc_dec_tmpref, listVars, stateVars, kpVars, histVars
    <3>2. BuffersSwept
      BY Zenon, <3>1, DecTmpref DEF BuffersSwept
    <3> QED
      BY Zenon, <3>1, <3>2, SameOwners, MemPut
  <2> QED
    BY ZenonT(30), <1>3, <2>1, <2>2, MemFind, MemQueue, MemCall DEF InDriver
<1>4. CASE Register \/ Unregister
  BY Zenon, <1>1, <1>4 DEF Register, Unregister, RegisterAllocWq, RegisterArm, RegisterFail,
     UnregisterDisarm, UnregisterSynchronize, UnregisterDestroyWq, ModStep,
     sendVars, listVars, memVars, histVars
<1>5. CASE Target
  <2>1. CASE binder_thread_read
    BY Zenon, <2>1, MemTodoHead DEF binder_thread_read, sendVars, memVars, kpVars
  <2>2. CASE binder_ioctl_freeze \/ ReleaseMarkDead
             \/ \E f \in {"running", "freezing", "frozen"} : SetTaskState(f)
    BY Zenon, <1>1, <2>2 DEF binder_ioctl_freeze, ReleaseMarkDead, SetTaskState,
       sendVars, listVars, memVars, kpVars, histVars
  <2> QED
    BY Zenon, <1>5, <2>1, <2>2, MemFreeBuf, MemFreeTaken DEF Target, binder_free_transaction
<1> QED
  BY ZenonT(30), <1>2, <1>3, <1>4, <1>5, MemSend, MemFreeTxn, MemRelease DEF Next

ProcMemory == procMem = IF release = "done" /\ tmp_ref = 0 THEN "freed" ELSE "live"

(* Only the last reference of a released process frees it, and no reference *)
(* is taken on a freed one.                                                 *)
LEMMA ProcMemoryStep == Inv /\ [Next]_vars => ProcMemory'
<1> SUFFICES ASSUME Inv, [Next]_vars PROVE ProcMemory'
  BY Zenon
<1> USE DEF Inv, Inv0
<1>0. ProcMemory
  BY Zenon DEF Mem, NoCorruption, ProcMemory
<1>1. CASE UNCHANGED <<procMem, release, tmp_ref>>
  BY Zenon, <1>0, <1>1 DEF ProcMemory
<1>2. CASE UNCHANGED <<procMem, release>> /\ release # "done"
  BY Zenon, <1>0, <1>2 DEF ProcMemory
<1>3. CASE UNCHANGED vars
  BY Zenon, <1>1, <1>3 DEF vars, refVars, stateVars
<1>4. ASSUME NEW s \in Sender, NEW t \in Txn, binder_transaction(s, t) PROVE ProcMemory'
  BY Zenon, <1>2, <1>4 DEF binder_transaction, stateVars
<1>5. ASSUME NEW s \in Sender, InDriver(s) PROVE ProcMemory'
  <2>1. CASE PreChooseStrategy(s) \/ PreLockNode(s) \/ PreQueueFree(s) \/ binder_proc_transaction(s)
    BY ZenonT(30), <1>1, <2>1 DEF PreChooseStrategy, PreLockNode, PreQueueFree,
       binder_proc_transaction,
       refVars, stateVars
  <2>2. CASE PreFindOutdated(s)
    <3>1. UNCHANGED <<procMem, release>>
      BY ZenonT(30), <2>2 DEF PreFindOutdated, stateVars
    <3>2. CASE Empty(s)
      BY Zenon, <1>1, <3>1, <3>2 DEF Empty
    <3>3. CASE ~ is_dead
      BY Zenon, <1>2, <3>1, <3>3 DEF is_dead
    <3> QED
      BY Zenon, <2>2, <3>2, <3>3, FindCases
  <2>3. CASE binder_proc_dec_tmpref(s)
    <3>1. pc[s] = "put" /\ rk_binder_proc_dec_tmpref /\ UNCHANGED release
      BY Zenon, <2>3 DEF binder_proc_dec_tmpref, stateVars
    <3> QED
      BY Zenon, <3>1, DecTmpref DEF ProcMemory
  <2> QED
    BY Zenon, <1>5, <2>1, <2>2, <2>3 DEF InDriver
<1>6. CASE FreeTxn
  <2>1. CASE FreeTxnDecTmpref
    <3>1. wq # <<>> /\ worker = "dec" /\ rk_binder_proc_dec_tmpref /\ UNCHANGED release
      BY Zenon, <2>1 DEF FreeTxnDecTmpref, stateVars
    <3> QED
      BY Zenon, <3>1, DecTmpref DEF ProcMemory
  <2> QED
    BY Zenon, <1>1, <1>6, <2>1 DEF FreeTxn, FreeTxnReleaseBuffer, FreeTxnKfree, refVars,
       stateVars
<1>7. CASE Register \/ Unregister
  BY Zenon, <1>1, <1>7 DEF Register, Unregister, RegisterAllocWq, RegisterArm, RegisterFail,
     UnregisterDisarm, UnregisterSynchronize, UnregisterDestroyWq, ModStep, refVars, stateVars
<1>8. CASE Release
  <2>1. CASE ReleaseDone
    <3>1. /\ release = "draining" /\ release' = "done" /\ todo = <<>> /\ taken = {}
          /\ (\A n \in Node : async_todo[n] = <<>>) /\ rk_binder_proc_dec_tmpref
      BY Zenon, <2>1 DEF ReleaseDone
    <3> QED
      BY Zenon, <3>1, DecTmpref DEF ProcMemory
  <2>2. CASE ReleaseThreads
    <3>1. release = "marked" /\ release' = "draining" /\ UNCHANGED procMem
      BY Zenon, <2>2 DEF ReleaseThreads, refVars
    <3> QED
      BY Zenon, <1>0, <3>1 DEF ProcMemory
  <2>3. CASE \/ ReleaseTodo \/ \E n \in Node : ReleaseAsync(n)
             \/ \E t \in Txn : ReleaseTaken(t)
    BY Zenon, <1>1, <2>3 DEF ReleaseTodo, ReleaseAsync, ReleaseTake, ReleaseTaken, FreeTaken,
       refVars, stateVars
  <2> QED
    BY Zenon, <1>8, <2>1, <2>2, <2>3 DEF Release
<1>9. CASE Target
  <2>1. CASE ReleaseMarkDead
    <3>1. release = "none" /\ release' = "marked" /\ UNCHANGED procMem
      BY Zenon, <2>1 DEF ReleaseMarkDead, is_dead
    <3> QED
      BY Zenon, <1>0, <3>1 DEF ProcMemory
  <2> QED
    BY Zenon, <1>1, <1>9, <2>1 DEF Target, binder_thread_read, binder_free_transaction,
       FreeTaken, binder_ioctl_freeze,
       binder_free_buf,
       SetTaskState, refVars, stateVars
<1> QED
  BY ZenonT(30), <1>3, <1>4, <1>5, <1>6, <1>7, <1>8, <1>9 DEF Next

(* The invariant holds when nothing has been sent.                          *)
LEMMA MemInit == Init => Mem
<1> SUFFICES ASSUME Init PROVE Mem
  BY Zenon
<1>1. Td = {} /\ Wq = {} /\ \A n \in Node : As(n) = {}
  BY ZenonT(30), Inv0Init, EntryProperties DEF Init, Td, Wq, As, Inv0, Types
<1>2. \A t \in Txn : ~ Owner(t)
  BY Zenon, <1>1, NullAssumption DEF Init, Owner
<1>3. OwnedIntact /\ TakenIntact /\ NothingLost
  BY Zenon, <1>2 DEF Init, OwnedIntact, TakenIntact, NothingLost
<1>4. QueuedIntact /\ NoCorruption
  BY Zenon, <1>1 DEF Init, QueuedIntact, NoCorruption
<1> QED
  BY Zenon, <1>3, <1>4 DEF Mem

(* The inductive invariant: types and control, one owner for everything,    *)
(* exact references, memory in order.                                       *)
THEOREM Inductive == Spec => []Inv
<1>1. Init => Inv
  <2>1. Init => Apart
    BY Zenon DEF Init, Apart
  <2> QED
    BY Zenon, <2>1, Inv0Init, OwnInit, RefsInit, MemInit DEF Inv
<1>2. Inv /\ [Next]_vars => Inv'
  <2> SUFFICES ASSUME Inv, [Next]_vars PROVE Inv'
    BY Zenon
  <2>1. Inv0' /\ Own' /\ Apart' /\ RefsExact'
    BY Zenon, Inv0Step, OwnStep, ApartStep, RefsStep DEF Inv
  <2>2. Mem'
    BY Zenon, TxnMemoryStep, ProcMemoryStep DEF TxnMemory, ProcMemory, Mem, NoCorruption
  <2> QED
    BY Zenon, <2>1, <2>2 DEF Inv
<1> QED
  BY <1>1, <1>2, PTL DEF Spec

-----------------------------------------------------------------------------
(* Memory safety *)

(* A reference pins the process: with a sender in the driver, or with work *)
(* queued, tmp_ref is not 0.                                               *)
LEMMA Pinned ==
  ASSUME Inv, wq # <<>> \/ \E s \in Sender : pc[s] # "idle"
  PROVE  procMem = "live"
<1> USE DEF Inv, Inv0
<1>1. /\ Cardinality(Busy) \in Nat /\ Cardinality(Detached) \in Nat
      /\ Len(wq) \in Nat /\ ReleasePin \in {0, 1} /\ IsFiniteSet(Busy)
  BY Zenon, CountTypes
<1>2. Cardinality(Busy) # 0 \/ Len(wq) # 0
  <2>1. CASE wq # <<>>
    BY <2>1 DEF Types
  <2>2. CASE \E s \in Sender : pc[s] # "idle"
    <3>1. Busy # {}
      BY Zenon, <2>2 DEF Busy
    <3> QED
      BY Zenon, <1>1, <3>1, FS_EmptySet
  <2> QED
    BY Zenon, <2>1, <2>2
<1>3. tmp_ref # 0
  BY <1>1, <1>2 DEF RefsExact
<1> QED
  BY Zenon, <1>3 DEF Mem, NoCorruption

(* The invariant implies memory safety: owners and work items only refer   *)
(* to memory in the state that rkx_free_txn_func and the driver expect.    *)
LEMMA InvMemorySafe == Inv => MemorySafe
<1> SUFFICES ASSUME Inv PROVE MemorySafe
  BY Zenon
<1> USE DEF Inv, Inv0
<1>1. procMem # "corrupt" /\ \A t \in Txn : txnMem[t] # "corrupt" /\ bufMem[t] # "corrupt"
  BY Zenon DEF Mem, NoCorruption
<1>2. \A t \in Held \cup Queued : t \in Txn /\ Owner(t)
  <2>1. \A t \in Held : t \in Txn /\ Owner(t)
    BY Zenon DEF Held, Owner, Types
  <2>2. \A t \in Queued : t \in Td \/ \E n \in Node : t \in As(n)
    BY Zenon DEF Queued, Td, As
  <2> QED
    BY Zenon, <2>1, <2>2, OwnSets DEF Owner
<1>3. ASSUME NEW s \in Sender, pc[s] = "detached"
      PROVE  t_outdated[s] \in Txn /\ Owner(t_outdated[s])
  BY Zenon, <1>3 DEF Control, Types, Owner
<1>4. ASSUME NEW i \in 1 .. Len(wq)
      PROVE  /\ i > 1 \/ worker = "release" => bufMem[wq[i]] = "detached"
             /\ i > 1 \/ worker # "dec" => txnMem[wq[i]] = "live"
  <2>1. wq \in Seq(Txn) /\ NoDuplicates(wq)
    BY Zenon DEF Types, Own, Lists
  <2>2. wq[i] \in Wq
    BY Zenon, <2>1, EntryProperties DEF Wq
  <2>3. i > 1 => wq[i] # Head(wq)
    <3>1. Head(wq) = wq[1] /\ 1 \in 1 .. Len(wq)
      BY <2>1
    <3> QED
      BY <2>1, <3>1 DEF NoDuplicates
  <2> QED
    BY Zenon, <2>2, <2>3 DEF Mem, QueuedIntact
<1> QED
  BY Zenon, <1>1, <1>2, <1>3, <1>4, Pinned DEF MemorySafe, Mem, OwnedIntact, TakenIntact

(* No use after free, no double free, no free of an attached buffer by the *)
(* probe, the workqueue or the driver, however they interleave.            *)
THEOREM MemorySafety == Spec => []MemorySafe
  BY Inductive, InvMemorySafe, PTL

(* Only the three places that give a reference back can free the process.  *)
LEMMA WhoFrees ==
  ASSUME Next, procMem' # procMem
  PROVE  \/ \E s \in Sender : binder_proc_dec_tmpref(s)
         \/ FreeTxnDecTmpref \/ ReleaseDone
<1>1. ASSUME NEW s \in Sender, NEW t \in Txn, binder_transaction(s, t) PROVE UNCHANGED procMem
  BY Zenon, <1>1 DEF binder_transaction
<1>2. ASSUME NEW s \in Sender, InDriver(s) PROVE UNCHANGED procMem \/ binder_proc_dec_tmpref(s)
  BY ZenonT(30), <1>2 DEF InDriver, PreChooseStrategy, PreLockNode, PreFindOutdated,
     PreQueueFree,
     binder_proc_transaction, refVars
<1>3. FreeTxn => UNCHANGED procMem \/ FreeTxnDecTmpref
  BY Zenon DEF FreeTxn, FreeTxnReleaseBuffer, FreeTxnKfree, refVars
<1>4. Register \/ Unregister => UNCHANGED procMem
  BY Zenon DEF Register, Unregister, RegisterAllocWq, RegisterArm, RegisterFail,
     UnregisterDisarm,
     UnregisterSynchronize, UnregisterDestroyWq, ModStep, refVars
<1>5. Release => UNCHANGED procMem \/ ReleaseDone
  BY Zenon DEF Release, ReleaseThreads, ReleaseTodo, ReleaseAsync, ReleaseTake, ReleaseTaken,
     FreeTaken, refVars
<1>6. Target => UNCHANGED procMem
  BY Zenon DEF Target, binder_thread_read, binder_free_transaction, FreeTaken,
     binder_ioctl_freeze, ReleaseMarkDead,
     binder_free_buf,
     SetTaskState, refVars
<1> QED
  BY Zenon, <1>1, <1>2, <1>3, <1>4, <1>5, <1>6 DEF Next

(* When binder_free_proc() runs nothing that it would pull the rug from     *)
(* under is left.                                                           *)
LEMMA FreedClean ==
  ASSUME Inv, Next, procMem' # procMem
  PROVE  procMem = "live" /\ \A t \in Txn : txnMem[t] # "live"
<1> USE DEF Inv, Inv0
<1>1. /\ rk_binder_proc_dec_tmpref /\ release' \in {release, "done"}
      /\ release' # release => release = "draining"
      /\ \/ \E s \in Sender : pc[s] = "put"
         \/ wq # <<>> /\ worker = "dec"
         \/ /\ release = "draining" /\ release' = "done" /\ todo = <<>> /\ taken = {}
            /\ \A n \in Node : async_todo[n] = <<>>
  BY Zenon, WhoFrees DEF binder_proc_dec_tmpref, FreeTxnDecTmpref, ReleaseDone, stateVars
<1>2. /\ procMem = "live" /\ taken = {} /\ \A t \in Txn : ~ Owner(t)
      /\ wq # <<>> => Len(wq) = 1 /\ worker = "dec"
  BY Zenon, <1>1, DecTmpref
<1>3. \A t \in Wq : txnMem[t] = "freed"
  <2>1. wq \in Seq(Txn) /\ NoDuplicates(wq)
    BY Zenon DEF Types, Own, Lists
  <2>2. ASSUME NEW t \in Wq PROVE t = Head(wq) /\ worker = "dec"
    <3>1. wq # <<>>
      BY Zenon, <2>1, EntryProperties DEF Wq
    <3>2. Head(wq) = wq[1] /\ Len(wq) = 1 /\ worker = "dec"
      BY <1>2, <2>1, <3>1
    <3>3. \E i \in 1 .. Len(wq) : wq[i] = t
      BY Zenon, <2>1, EntryProperties DEF Wq
    <3> QED
      BY <3>2, <3>3
  <2> QED
    BY Zenon, <2>2 DEF Mem, QueuedIntact
<1> QED
  BY Zenon, <1>2, <1>3 DEF Mem, NothingLost

(* The dead process is freed at most once, and only when no transaction to  *)
(* it is left anywhere.                                                     *)
THEOREM FreedOnce == Spec => FreedOnceAndClean
<1>1. Inv /\ [Next]_vars =>
        [procMem' # procMem => procMem = "live" /\ \A t \in Txn : txnMem[t] # "live"]_vars
  BY Zenon, FreedClean
<1> QED
  BY <1>1, Inductive, PTL DEF Spec, FreedOnceAndClean

-----------------------------------------------------------------------------
(* The count of outstanding transactions *)

Counted == Queued \cup taken

(* What counts is in todo, in some async_todo or taken, and is finite.     *)
LEMMA CountedSets ==
  ASSUME Types
  PROVE  /\ \A t : t \in Counted <=> t \in Td \/ (\E n \in Node : t \in As(n)) \/ t \in taken
         /\ IsFiniteSet(Counted) /\ Cardinality(Counted) \in Nat
<1>1. \A t : t \in Counted <=> t \in Td \/ (\E n \in Node : t \in As(n)) \/ t \in taken
  BY Zenon DEF Counted, Queued, Td, As
<1>2. taken \subseteq Txn
  BY Zenon DEF Types
<1>3. Counted \in SUBSET Txn
  BY Zenon, <1>1, <1>2, OwnSets
<1>4. IsFiniteSet(Counted)
  BY Zenon, <1>3, FinitenessAssumption, FS_Subset
<1> QED
  BY Zenon, <1>1, <1>4, FS_CardinalityType

(* A step that neither links nor frees keeps the count.                    *)
LEMMA CountKept ==
  ASSUME OutstandingExact, \A x : x \in Counted' <=> x \in Counted, UNCHANGED outstanding_txns
  PROVE  OutstandingExact'
<1>1. Counted' = Counted
  BY Zenon
<1> QED
  BY Zenon, <1>1 DEF OutstandingExact, Counted

(* Linking one transaction that did not count counts one up.               *)
LEMMA CountLinked ==
  ASSUME Types, Types', OutstandingExact, NEW t, t \notin Counted,
         \A x : x \in Counted' <=> x \in Counted \/ x = t,
         outstanding_txns' = outstanding_txns + 1
  PROVE  OutstandingExact'
<1>1. Counted' = Counted \cup {t}
  BY Zenon
<1>2. outstanding_txns = Cardinality(Counted)
  BY Zenon DEF OutstandingExact, Counted
<1>3. outstanding_txns' = Cardinality(Counted')
  BY ZenonT(30), <1>1, <1>2, CountedSets, FS_AddElement
<1> QED
  BY Zenon, <1>3 DEF OutstandingExact, Counted

(* Unlinking or freeing one that counted counts one down.                  *)
LEMMA CountUnlinkedOne ==
  ASSUME Types, Types', OutstandingExact, NEW t, t \in Counted,
         \A x : x \in Counted' <=> x \in Counted /\ x # t,
         outstanding_txns' = outstanding_txns - 1
  PROVE  OutstandingExact'
<1>1. Counted' = Counted \ {t}
  BY Zenon
<1>2. outstanding_txns = Cardinality(Counted)
  BY Zenon DEF OutstandingExact, Counted
<1>3. outstanding_txns' = Cardinality(Counted')
  BY ZenonT(30), <1>1, <1>2, CountedSets, FS_RemoveElement
<1> QED
  BY Zenon, <1>3 DEF OutstandingExact, Counted

(* The first entry of todo is taken off: binder_thread_read(), the release. *)
LEMMA TakenFromTodo ==
  ASSUME Inv, Inv', OutstandingExact, todo # <<>>, todo' = Tail(todo), UNCHANGED async_todo,
         taken' = taken \cup {Head(todo)}, UNCHANGED outstanding_txns
  PROVE  OutstandingExact'
<1> USE DEF Inv, Inv0
<1> DEFINE t == Head(todo)
<1>1. t \in Td /\ Range(Tail(todo)) = Td \ {t}
  BY Zenon, OwnTodoHead
<1>2. Td' = Td \ {t} /\ \A n \in Node : As(n)' = As(n)
  BY Zenon, <1>1 DEF Td, As
<1>3. \A x : x \in Counted' <=> x \in Td' \/ (\E n \in Node : x \in As(n)') \/ x \in taken'
  BY Zenon DEF Counted, Queued, Td, As
<1>4. taken' = taken \cup {t}
  BY Zenon
<1> HIDE DEF t
<1>5. \A x : x \in Counted' <=> x \in Counted
  BY Zenon, <1>1, <1>2, <1>3, <1>4, CountedSets
<1> QED
  BY Zenon, <1>5, CountKept

(* The first entry of an async_todo is taken off by the release.           *)
LEMMA TakenFromAsync ==
  ASSUME Inv, Inv', OutstandingExact, NEW n \in Node, ReleaseAsync(n)
  PROVE  OutstandingExact'
<1> USE DEF Inv, Inv0
<1> DEFINE t == Head(async_todo[n])
<1>1. /\ async_todo[n] # <<>> /\ async_todo' = [async_todo EXCEPT ![n] = Tail(@)]
      /\ taken' = taken \cup {t} /\ UNCHANGED <<todo, outstanding_txns>>
  BY Zenon DEF ReleaseAsync, ReleaseTake
<1>2. t \in As(n) /\ Range(Tail(async_todo[n])) = As(n) \ {t}
  BY Zenon, <1>1, OwnAsyncHead
<1>3. \A m \in Node : As(m)' = IF m = n THEN Range(Tail(async_todo[n])) ELSE As(m)
  BY ZenonT(30), <1>1, AsyncExcept
<1>4. \A x : x \in Counted' <=> x \in Td' \/ (\E m \in Node : x \in As(m)') \/ x \in taken'
  BY Zenon DEF Counted, Queued, Td, As
<1>5. Td' = Td
  BY Zenon, <1>1 DEF Td
<1> HIDE DEF t
<1>6. \A x : x \in Counted' <=> x \in Counted
  <2>1. \A x : (\E m \in Node : x \in As(m)) <=> x = t \/ \E m \in Node : x \in As(m)'
    BY ZenonT(30), <1>2, <1>3
  <2> QED
    BY Zenon, <1>1, <1>4, <1>5, <2>1, CountedSets
<1> QED
  BY Zenon, <1>1, <1>6, CountKept

(* What was taken is freed.                                                *)
LEMMA OutstandingFreed ==
  ASSUME Inv, Inv', OutstandingExact, NEW t \in Txn, FreeTaken(t)
  PROVE  OutstandingExact'
<1> USE DEF Inv, Inv0
<1>1. /\ t \in taken /\ taken' = taken \ {t} /\ outstanding_txns' = outstanding_txns - 1
      /\ UNCHANGED <<todo, async_todo>>
  BY Zenon DEF FreeTaken
<1>2. t \notin Td /\ \A n \in Node : t \notin As(n)
  BY Zenon, <1>1 DEF Apart, Placed
<1>3. \A x : x \in Counted' <=> x \in Td \/ (\E n \in Node : x \in As(n)) \/ x \in taken'
  BY Zenon, <1>1 DEF Counted, Queued, Td, As
<1>4. t \in Counted /\ \A x : x \in Counted' <=> x \in Counted /\ x # t
  BY Zenon, <1>1, <1>2, <1>3, CountedSets
<1> QED
  BY Zenon, <1>1, <1>4, CountUnlinkedOne

(* The probed function links what the sender held, or nothing.             *)
LEMMA OutstandingCall ==
  ASSUME Inv, Inv', OutstandingExact, NEW s \in Sender, binder_proc_transaction(s)
  PROVE  OutstandingExact'
<1> USE DEF Inv, Inv0
<1> DEFINE t == cur[s]
           n == Attr[t].node
<1>1. t \in Txn /\ n \in Node /\ UNCHANGED taken
  BY ZenonT(30), AttrAssumption DEF Types, Control, binder_proc_transaction
<1>2. t \notin Td /\ (\A m \in Node : t \notin As(m)) /\ t \notin taken
  BY Zenon DEF Own, Owned, Apart, Placed
<1>3. \A x : x \in Counted' <=> x \in Td' \/ (\E m \in Node : x \in As(m)') \/ x \in taken
  BY Zenon, <1>1 DEF Counted, Queued, Td, As
<1>4. t \notin Counted
  BY Zenon, <1>2, CountedSets
<1> HIDE DEF t
<1>5. CASE CallRefused(t)
  BY Zenon, <1>1, <1>5 DEF CallRefused, OutstandingExact, Queued
<1>6. CASE CallToProcess(t)
  <2>1. Td' = Td \cup {t} /\ \A m \in Node : As(m)' = As(m)
    BY <1>1, <1>6, AppendSet, SeqTypes DEF CallToProcess, Td, As
  <2>2. \A x : x \in Counted' <=> x \in Counted \/ x = t
    BY Zenon, <1>3, <2>1, CountedSets
  <2> QED
    BY Zenon, <1>4, <1>6, <2>2, CountLinked DEF CallToProcess
<1>7. CASE CallToNode(t, n)
  <2>1. Range(Append(async_todo[n], t)) = As(n) \cup {t}
    BY <1>1, AppendSet, SeqTypes DEF As
  <2>2. Td' = Td /\ \A m \in Node : As(m)' = IF m = n THEN As(n) \cup {t} ELSE As(m)
    BY ZenonT(30), <1>1, <1>7, <2>1 DEF CallToNode, Types, Td, As
  <2>3. \A x : x \in Counted' <=> x \in Counted \/ x = t
    <3>1. \A x : (\E m \in Node : x \in As(m)') <=> x = t \/ \E m \in Node : x \in As(m)
      BY ZenonT(30), <1>1, <2>2
    <3> QED
      BY Zenon, <1>3, <2>2, <3>1, CountedSets
  <2> QED
    BY Zenon, <1>4, <1>7, <2>3, CountLinked DEF CallToNode
<1> QED
  BY Zenon, <1>5, <1>6, <1>7, CallCases DEF t

(* The probe counts down once for the one entry that it unlinks.           *)
LEMMA OutstandingFind ==
  ASSUME Inv, Inv', OutstandingExact, NEW s \in Sender, PreFindOutdated(s)
  PROVE  OutstandingExact'
<1> USE DEF Inv, Inv0
<1> DEFINE n == Attr[cur[s]].node
<1>1. n \in Node /\ UNCHANGED <<todo, taken>>
  BY ZenonT(30), AttrAssumption DEF Types, Control, PreFindOutdated
<1>2. CASE Empty(s)
  BY Zenon, <1>1, <1>2 DEF Empty, OutstandingExact, Queued
<1>3. ASSUME NEW i \in 1 .. Len(async_todo[n]), Detach(s, n, i) PROVE OutstandingExact'
  <2> DEFINE t == async_todo[n][i]
  <2>1. /\ async_todo' = [async_todo EXCEPT ![n] = list_del_init(@, i)]
        /\ outstanding_txns' = outstanding_txns - 1
    BY Zenon, <1>3 DEF Detach, CountUnlinked
  <2>2. t \in As(n) /\ Range(list_del_init(async_todo[n], i)) = As(n) \ {t}
    <3>1. async_todo[n] \in Seq(Txn) /\ NoDuplicates(async_todo[n])
      BY Zenon, <1>1 DEF Types, Own, Lists
    <3> QED
      BY Zenon, <3>1, TakeAt DEF As
  <2>3. \A m \in Node : As(m)' = IF m = n THEN As(n) \ {t} ELSE As(m)
    <3>1. \A m \in Node : As(m)' = IF m = n THEN Range(list_del_init(async_todo[n], i)) ELSE As(m)
      BY ZenonT(30), <1>1, <2>1, AsyncExcept
    <3> QED
      BY Zenon, <2>2, <3>1
  <2> HIDE DEF t
  <2>4. t \notin Td /\ (\A m \in Node : t \in As(m) => m = n) /\ t \notin taken
    <3>1. t \notin taken
      BY Zenon, <1>1, <2>2 DEF Apart, Placed
    <3>2. t \notin Td
      BY Zenon, <1>1, <2>2 DEF Own, Owned
    <3>3. \A m \in Node : t \in As(m) => m = n
      BY Zenon, <1>1, <2>2 DEF Own, Lists
    <3> QED
      BY Zenon, <3>1, <3>2, <3>3
  <2>5. \A x : x \in Counted' <=> x \in Td \/ (\E m \in Node : x \in As(m)') \/ x \in taken
    BY Zenon, <1>1 DEF Counted, Queued, Td, As
  <2>6. \A x : (\E m \in Node : x \in As(m)') <=> x # t /\ \E m \in Node : x \in As(m)
    BY ZenonT(30), <1>1, <2>3, <2>4
  <2>7. t \in Counted /\ \A x : x \in Counted' <=> x \in Counted /\ x # t
    BY Zenon, <1>1, <2>2, <2>4, <2>5, <2>6, CountedSets
  <2> QED
    BY Zenon, <2>1, <2>7, CountUnlinkedOne
<1> QED
  BY Zenon, <1>2, <1>3, FindCases

(* BC_FREE_BUFFER only moves an entry from async_todo to todo.             *)
LEMMA OutstandingFreeBuf ==
  ASSUME Inv, OutstandingExact, NEW u \in Txn, binder_free_buf(u)
  PROVE  OutstandingExact'
<1> USE DEF Inv, Inv0
<1> DEFINE n == Attr[u].node
           t == Head(async_todo[n])
<1>1. n \in Node /\ UNCHANGED <<outstanding_txns, taken>>
  BY Zenon, AttrAssumption DEF binder_free_buf
<1>2. CASE UNCHANGED <<todo, async_todo>>
  BY Zenon, <1>1, <1>2 DEF OutstandingExact, Queued
<1>3. CASE /\ async_todo[n] # <<>>
           /\ todo' = Append(todo, t) /\ async_todo' = [async_todo EXCEPT ![n] = Tail(@)]
  <2>1. t \in Txn /\ t \in As(n) /\ Range(Tail(async_todo[n])) = As(n) \ {t}
    BY Zenon, <1>1, <1>3, OwnAsyncHead
  <2>2. Td' = Td \cup {t}
    BY <1>3, <2>1, AppendSet, SeqTypes DEF Td
  <2>3. \A m \in Node : As(m)' = IF m = n THEN As(n) \ {t} ELSE As(m)
    <3>1. \A m \in Node : As(m)' = IF m = n THEN Range(Tail(async_todo[n])) ELSE As(m)
      BY ZenonT(30), <1>1, <1>3, AsyncExcept
    <3> QED
      BY Zenon, <2>1, <3>1
  <2>4. \A x : x \in Counted' <=> x \in Td' \/ (\E m \in Node : x \in As(m)') \/ x \in taken
    BY Zenon, <1>1 DEF Counted, Queued, Td, As
  <2> HIDE DEF t
  <2>5. \A x : (\E m \in Node : x \in As(m)) => x = t \/ \E m \in Node : x \in As(m)'
    BY ZenonT(30), <1>1, <2>1, <2>3
  <2>6. \A x : (\E m \in Node : x \in As(m)') => \E m \in Node : x \in As(m)
    BY ZenonT(30), <1>1, <2>1, <2>3
  <2>7. \A x : x \in Counted' <=> x \in Counted
    BY Zenon, <1>1, <2>1, <2>2, <2>4, <2>5, <2>6, CountedSets
  <2> QED
    BY Zenon, <1>1, <2>7, CountKept
<1> QED
  BY Zenon, <1>2, <1>3 DEF binder_free_buf

(* Every step keeps the count.                                             *)
LEMMA OutstandingStep == Inv /\ Inv' /\ OutstandingExact /\ [Next]_vars => OutstandingExact'
<1> SUFFICES ASSUME Inv, Inv', OutstandingExact, [Next]_vars PROVE OutstandingExact'
  BY Zenon
<1>1. CASE UNCHANGED <<todo, async_todo, taken, outstanding_txns>>
  BY Zenon, <1>1 DEF OutstandingExact, Queued
<1>2. CASE UNCHANGED vars
  BY Zenon, <1>1, <1>2 DEF vars, listVars
<1>3. ASSUME NEW s \in Sender, NEW t \in Txn, binder_transaction(s, t) PROVE OutstandingExact'
  BY Zenon, <1>1, <1>3 DEF binder_transaction, listVars
<1>4. ASSUME NEW s \in Sender, InDriver(s) PROVE OutstandingExact'
  <2>1. CASE PreChooseStrategy(s) \/ PreLockNode(s) \/ PreQueueFree(s) \/ binder_proc_dec_tmpref(s)
    BY Zenon, <1>1, <2>1 DEF PreChooseStrategy, PreLockNode, PreQueueFree,
       binder_proc_dec_tmpref, listVars
  <2> QED
    BY Zenon, <1>4, <2>1, OutstandingFind, OutstandingCall DEF InDriver
<1>5. CASE FreeTxn \/ Register \/ Unregister
  BY Zenon, <1>1, <1>5 DEF FreeTxn, FreeTxnReleaseBuffer, FreeTxnKfree, FreeTxnDecTmpref,
     Register,
     Unregister, RegisterAllocWq, RegisterArm, RegisterFail, UnregisterDisarm,
     UnregisterSynchronize, UnregisterDestroyWq, ModStep, listVars
<1>6. CASE Release
  <2>1. CASE ReleaseThreads \/ ReleaseDone
    BY Zenon, <1>1, <2>1 DEF ReleaseThreads, ReleaseDone, listVars
  <2>2. CASE ReleaseTodo
    <3>1. taken' = taken \cup {Head(todo)}
      BY Zenon, <2>2 DEF ReleaseTodo, ReleaseTake
    <3> QED
      BY Zenon, <2>2, <3>1, TakenFromTodo DEF ReleaseTodo, ReleaseTake
  <2> QED
    BY Zenon, <1>6, <2>1, <2>2, TakenFromAsync, OutstandingFreed DEF Release, ReleaseTaken
<1>7. CASE Target
  <2>1. CASE binder_thread_read
    BY Zenon, <2>1, TakenFromTodo DEF binder_thread_read
  <2>2. CASE binder_ioctl_freeze \/ ReleaseMarkDead
             \/ \E f \in {"running", "freezing", "frozen"} : SetTaskState(f)
    BY Zenon, <1>1, <2>2 DEF binder_ioctl_freeze, ReleaseMarkDead, SetTaskState, listVars
  <2> QED
    BY Zenon, <1>7, <2>1, <2>2, OutstandingFreeBuf, OutstandingFreed DEF Target,
       binder_free_transaction
<1> QED
  BY Zenon, <1>2, <1>3, <1>4, <1>5, <1>6, <1>7 DEF Next

(* outstanding_txns is exact: BINDER_FREEZE never waits for a transaction   *)
(* that the probe has taken away, and never misses one that is queued.      *)
THEOREM OutstandingCorrect == Spec => []OutstandingExact
<1>1. Init => OutstandingExact
  <2> SUFFICES ASSUME Init PROVE OutstandingExact
    BY Zenon
  <2>1. Td = {} /\ \A n \in Node : As(n) = {}
    BY ZenonT(30), Inv0Init, EntryProperties DEF Init, Td, As, Inv0, Types
  <2>2. Counted = {} /\ outstanding_txns = 0
    BY Zenon, <2>1, Inv0Init, CountedSets DEF Init, Inv0
  <2> QED
    BY Zenon, <2>2, FS_EmptySet DEF OutstandingExact, Counted
<1> QED
  BY <1>1, OutstandingStep, Inductive, PTL DEF Spec

(* Type correctness; tmp_ref and outstanding_txns never go below 0.         *)
THEOREM TypeCorrect == Spec => []TypeOK
<1>1. Inv /\ OutstandingExact => TypeOK
  <2> SUFFICES ASSUME Inv, OutstandingExact PROVE TypeOK
    BY Zenon
  <2>1. Types
    BY Zenon DEF Inv, Inv0
  <2>2. outstanding_txns \in Nat
    BY Zenon, <2>1, CountedSets DEF OutstandingExact, Counted
  <2>3. tmp_ref \in Nat
    <3>1. /\ Cardinality(Busy) \in Nat /\ Cardinality(Detached) \in Nat
          /\ Len(wq) \in Nat /\ ReleasePin \in {0, 1}
      BY Zenon, <2>1, CountTypes
    <3>2. tmp_ref = Cardinality(Busy) + Cardinality(Detached) + Len(wq) + ReleasePin
      BY Zenon DEF Inv, RefsExact
    <3> QED
      BY <3>1, <3>2
  <2> QED
    BY Zenon, <2>1, <2>2, <2>3, Zenon DEF Types, TypeOK
<1> QED
  BY <1>1, Inductive, OutstandingCorrect, PTL

-----------------------------------------------------------------------------
(* The backlog of equivalent calls *)

(* A nonempty set of numbers has a least one.                              *)
LEMMA Least ==
  ASSUME NEW S, S \subseteq Nat, S # {}
  PROVE  \E x \in S : \A y \in S : x <= y
<1> DEFINE R == {ss \in Nat \X Nat : ss[1] < ss[2]}
<1>1. IsWellFoundedOn(R, Nat)
  BY Zenon, NatLessThanWellFounded DEF OpToRel
<1>2. \A x, y \in Nat : y < x => <<y, x>> \in R
  BY SMT
<1> HIDE DEF R
<1>3. PICK x \in S : \A y \in S : ~ (<<y, x>> \in R)
  BY Zenon, <1>1, WFMin
<1>4. \A y \in S : ~ (y < x)
  BY Zenon, <1>2, <1>3
<1>5. \A y \in S : x <= y
  BY SMT, <1>4
<1> QED
  BY Zenon, <1>5

(* The list walk finds the first outdated entry, if there is one.          *)
LEMMA WalkFinds ==
  ASSUME NEW t, NEW q \in Seq(Txn), NEW strat,
         \A i \in 1 .. Len(q) : ~ rk_binder_find_outdated_transaction_ilocked(t, q, strat, i)
  PROVE  \A i \in 1 .. Len(q) : ~ rk_binder_can_update_transaction(q[i], t, strat)
<1> DEFINE S == {i \in 1 .. Len(q) : rk_binder_can_update_transaction(q[i], t, strat)}
<1>1. S \subseteq Nat
  BY SMT
<1>2. ASSUME NEW i \in S, \A j \in S : i <= j PROVE FALSE
  <2>1. \A j \in 1 .. (i - 1) : j \in 1 .. Len(q) /\ ~ (i <= j)
    BY SMT, <1>1
  <2> QED
    BY Zenon, <1>2, <2>1 DEF rk_binder_find_outdated_transaction_ilocked
<1>3. S = {}
  BY Zenon, <1>1, <1>2, Least
<1> QED
  BY Zenon, <1>3

(* The bound on three sets: the queued calls, the senders whose call has   *)
(* done its sweep, and the calls that were made without one.               *)
Bounded(A, P, U) == Cardinality(A) + Cardinality(P) <= Cardinality(Sender) + Cardinality(U)

(* It is kept by taking calls from the queue or a sender from the swept.   *)
LEMMA BoundShrink ==
  ASSUME NEW A, NEW P, NEW U, NEW A1, NEW P1, NEW U1,
         IsFiniteSet(A), IsFiniteSet(P), IsFiniteSet(U1),
         A1 \in SUBSET A, P1 \in SUBSET P, U \in SUBSET U1, Bounded(A, P, U)
  PROVE  Bounded(A1, P1, U1)
<1>1. Cardinality(A1) <= Cardinality(A) /\ IsFiniteSet(A1)
  BY FS_Subset
<1>2. Cardinality(P1) <= Cardinality(P) /\ IsFiniteSet(P1)
  BY FS_Subset
<1>3. Cardinality(U) <= Cardinality(U1) /\ IsFiniteSet(U)
  BY FS_Subset
<1>4. /\ Cardinality(A) \in Nat /\ Cardinality(A1) \in Nat /\ Cardinality(P) \in Nat
      /\ Cardinality(P1) \in Nat /\ Cardinality(U) \in Nat /\ Cardinality(U1) \in Nat
      /\ Cardinality(Sender) \in Nat
  BY ZenonT(40), <1>1, <1>2, <1>3, FS_CardinalityType, FinitenessAssumption
<1> QED
  BY SMT, <1>1, <1>2, <1>3, <1>4 DEF Bounded

(* A call that has done its sweep joins the queue: its sender leaves P.    *)
LEMMA BoundQueueSwept ==
  ASSUME NEW A, NEW P, NEW U, NEW t, NEW s \in P, IsFiniteSet(A), IsFiniteSet(P), IsFiniteSet(U),
         Bounded(A, P, U)
  PROVE  Bounded(A \cup {t}, P \ {s}, U)
<1>1. Cardinality(A \cup {t}) <= Cardinality(A) + 1 /\ Cardinality(P \ {s}) = Cardinality(P) - 1
      /\ Cardinality(A \cup {t}) \in Nat /\ Cardinality(P) \in Nat /\ Cardinality(U) \in Nat
      /\ Cardinality(A) \in Nat /\ Cardinality(Sender) \in Nat
  <2>1. Cardinality(A \cup {t}) = IF t \in A THEN Cardinality(A) ELSE Cardinality(A) + 1
    BY Zenon, FS_AddElement
  <2>2. Cardinality(P \ {s}) = Cardinality(P) - 1
    BY Zenon, FS_RemoveElement
  <2>3. /\ Cardinality(A) \in Nat /\ Cardinality(P) \in Nat /\ Cardinality(U) \in Nat
        /\ Cardinality(Sender) \in Nat
    BY Zenon, FS_CardinalityType, FinitenessAssumption
  <2> QED  BY SMT, <2>1, <2>2, <2>3
<1> QED
  BY SMT, <1>1 DEF Bounded

(* A call without a sweep joins the queue and U.                           *)
LEMMA BoundQueueUnswept ==
  ASSUME NEW A, NEW P, NEW U, NEW t, t \notin U, IsFiniteSet(A), IsFiniteSet(P), IsFiniteSet(U),
         Bounded(A, P, U)
  PROVE  Bounded(A \cup {t}, P, U \cup {t})
<1>1. Cardinality(A \cup {t}) = IF t \in A THEN Cardinality(A) ELSE Cardinality(A) + 1
  BY Zenon, FS_AddElement
<1>2. Cardinality(U \cup {t}) = Cardinality(U) + 1
  BY Zenon, FS_AddElement
<1>3. /\ Cardinality(A) \in Nat /\ Cardinality(P) \in Nat /\ Cardinality(U) \in Nat
      /\ Cardinality(Sender) \in Nat
  BY Zenon, FS_CardinalityType, FinitenessAssumption
<1> QED
  BY SMT, <1>1, <1>2, <1>3 DEF Bounded

(* A sweep that unlinks a call makes room for the one that does it.        *)
LEMMA BoundSweep ==
  ASSUME NEW A, NEW P, NEW U, NEW t \in A, NEW s, IsFiniteSet(A), IsFiniteSet(P), IsFiniteSet(U),
         Bounded(A, P, U)
  PROVE  Bounded(A \ {t}, P \cup {s}, U)
<1>1. Cardinality(P \cup {s}) = IF s \in P THEN Cardinality(P) ELSE Cardinality(P) + 1
  BY Zenon, FS_AddElement
<1>2. Cardinality(A \ {t}) = Cardinality(A) - 1
  BY Zenon, FS_RemoveElement
<1>3. /\ Cardinality(A) \in Nat /\ Cardinality(P) \in Nat /\ Cardinality(U) \in Nat
      /\ Cardinality(Sender) \in Nat
  BY Zenon, FS_CardinalityType, FinitenessAssumption
<1> QED
  BY SMT, <1>1, <1>2, <1>3 DEF Bounded

(* After a sweep that finds nothing, only the senders are left to count.   *)
LEMMA BoundEmpty ==
  ASSUME NEW P \in SUBSET Sender, NEW U, IsFiniteSet(U)
  PROVE  Bounded({}, P, U)
<1>1. Cardinality(P) <= Cardinality(Sender) /\ IsFiniteSet(P)
  BY FS_Subset, FinitenessAssumption
<1>2. /\ Cardinality(P) \in Nat /\ Cardinality(U) \in Nat /\ Cardinality(Sender) \in Nat
      /\ Cardinality({}) = 0
  BY Zenon, <1>1, FS_CardinalityType, FS_EmptySet, FinitenessAssumption
<1> QED
  BY SMT, <1>1, <1>2 DEF Bounded

(* The calls like t that wait at t's node, the senders whose call is like t *)
(* and has done a complete BY_CODE sweep, and the calls like t that left    *)
(* their sender without one.                                                *)
Waiting(t)  == {u \in As(Attr[t].node) : SameCall(u, t)}
Arriving(t) == {s \in Sender : cur[s] \in swept /\ SameCall(cur[s], t)}
Unswept(t)  == {u \in Txn : /\ txnMem[u] # "none" /\ \A s \in Sender : cur[s] # u
                            /\ u \notin swept /\ SameCall(u, t)}
Bound(t)    == Bounded(Waiting(t), Arriving(t), Unswept(t))

(* Nothing waits at a node without an asynchronous transaction under way,  *)
(* and what was swept was sent.                                            *)
AsyncMarked == \A n \in Node : ~ has_async_transaction[n] => async_todo[n] = <<>>
SweptSent   == \A t \in swept : txnMem[t] # "none"

(* All three sets are finite.                                              *)
LEMMA BacklogFinite ==
  ASSUME Types, NEW t \in Txn
  PROVE  IsFiniteSet(Waiting(t)) /\ IsFiniteSet(Arriving(t)) /\ IsFiniteSet(Unswept(t))
<1>1. Waiting(t) \in SUBSET Txn
  BY Zenon, OwnSets, AttrAssumption DEF Waiting
<1>2. Arriving(t) \in SUBSET Sender /\ Unswept(t) \in SUBSET Txn
  BY Zenon DEF Arriving, Unswept
<1> QED
  BY Zenon, <1>1, <1>2, FinitenessAssumption, FS_Subset

(* A step that adds to neither the waiting calls nor the swept senders.    *)
LEMMA BoundKept ==
  ASSUME Types, Types', NEW t \in Txn, Bound(t), Waiting(t)' \subseteq Waiting(t),
         Arriving(t)' \subseteq Arriving(t), Unswept(t) \subseteq Unswept(t)'
  PROVE  Bound(t)'
<1>1. IsFiniteSet(Waiting(t)) /\ IsFiniteSet(Arriving(t))
  BY Zenon, BacklogFinite
<1>0. Unswept(t)' \in SUBSET Txn
  BY Zenon DEF Unswept
<1>3. IsFiniteSet(Unswept(t)')
  BY Zenon, <1>0, FinitenessAssumption, FS_Subset
<1>2. /\ Waiting(t)' \in SUBSET Waiting(t) /\ Arriving(t)' \in SUBSET Arriving(t)
      /\ Unswept(t) \in SUBSET Unswept(t)'
  BY Zenon
<1> QED
  BY Zenon, <1>1, <1>2, <1>3, BoundShrink DEF Bound, Bounded

(* Transactions stay allocated; what no sender or sweep is involved in     *)
(* keeps the bound as long as nothing is added to an async_todo.           *)
LEMMA BoundQuiet ==
  ASSUME Types, Types', NEW t \in Txn, Bound(t), UNCHANGED <<cur, swept>>,
         \A n \in Node : As(n)' \subseteq As(n),
         \A u \in Txn : txnMem[u] # "none" => txnMem'[u] # "none"
  PROVE  Bound(t)'
<1>1. Waiting(t)' \subseteq Waiting(t)
  BY Zenon, AttrAssumption DEF Waiting
<1>2. Arriving(t)' \subseteq Arriving(t)
  BY Zenon DEF Arriving
<1>3. Unswept(t) \subseteq Unswept(t)'
  BY Zenon DEF Unswept
<1> QED
  BY Zenon, <1>1, <1>2, <1>3, BoundKept

(* A new call has done no sweep, and is not sent yet.                      *)
LEMMA BoundSend ==
  ASSUME Inv0, Types', SweptSent, NEW s \in Sender, NEW c \in Txn, binder_transaction(s, c),
         NEW t \in Txn, Bound(t)
  PROVE  Bound(t)'
<1>1. /\ cur' = [cur EXCEPT ![s] = c] /\ txnMem[c] = "none" /\ txnMem' = [txnMem EXCEPT ![c] = "live"]
      /\ UNCHANGED <<async_todo, swept>>
  BY Zenon DEF binder_transaction, listVars, histVars
<1>2. c \notin swept /\ \A v \in Sender : cur'[v] = IF v = s THEN c ELSE cur[v]
  BY Zenon, <1>1 DEF SweptSent, Inv0, Types
<1>3. \A u \in Txn : u # c => txnMem'[u] = txnMem[u]
  BY Zenon, <1>1 DEF Inv0, Types
<1>4. Waiting(t)' \subseteq Waiting(t)
  BY Zenon, <1>1 DEF Waiting, As
<1>5. ASSUME NEW v \in Arriving(t)' PROVE v \in Arriving(t)
  <2>1. v \in Sender /\ cur'[v] \in swept' /\ SameCall(cur'[v], t)
    BY Zenon, <1>5 DEF Arriving
  <2>2. swept' = swept
    BY Zenon, <1>1
  <2>3. v # s /\ cur'[v] = cur[v]
    BY <1>2, <2>1, <2>2
  <2> QED  BY Zenon, <2>1, <2>2, <2>3 DEF Arriving
<1>6. Unswept(t) \subseteq Unswept(t)'
  BY Zenon, <1>1, <1>2, <1>3 DEF Unswept
<1> QED
  BY Zenon, <1>4, <1>5, <1>6, BoundKept DEF Inv0

(* A complete BY_CODE sweep: it leaves no call like the sender's waiting,   *)
(* or one less.                                                             *)
LEMMA BoundSwept ==
  ASSUME Inv0, Own, Types', NEW s \in Sender, cur[s] \in Txn, swept' = swept \cup {cur[s]},
         UNCHANGED <<cur, txnMem>>, NEW t \in Txn, Bound(t), Waiting(t)' \subseteq Waiting(t),
         SameCall(cur[s], t) => \/ Waiting(t)' = {}
                                \/ \E x \in Waiting(t) : Waiting(t)' = Waiting(t) \ {x}
  PROVE  Bound(t)'
<1> USE DEF Inv0
<1> DEFINE c == cur[s]
<1>1. Unswept(t)' = Unswept(t)
  <2>1. \A u \in Txn : u \in Unswept(t)' <=> u \in Unswept(t)
    BY Zenon DEF Unswept
  <2> QED  BY Zenon, <2>1 DEF Unswept
<1>2. /\ IsFiniteSet(Waiting(t)) /\ IsFiniteSet(Arriving(t)) /\ IsFiniteSet(Unswept(t))
      /\ IsFiniteSet(Waiting(t)') /\ IsFiniteSet(Arriving(t)')
  <2>1. IsFiniteSet(Waiting(t)) /\ IsFiniteSet(Arriving(t)) /\ IsFiniteSet(Unswept(t))
    BY Zenon, BacklogFinite
  <2>2. Waiting(t)' \in SUBSET Waiting(t) /\ Arriving(t)' \in SUBSET Sender
    BY Zenon DEF Arriving
  <2> QED  BY Zenon, <2>1, <2>2, FinitenessAssumption, FS_Subset
<1>6. \A v \in Arriving(t)' : v \in Sender /\ SameCall(cur[v], t) /\ (cur[v] \in swept \/ cur[v] = c)
  <2>1. \A v \in Arriving(t)' : v \in Sender /\ cur'[v] \in swept' /\ SameCall(cur'[v], t)
    BY Zenon DEF Arriving
  <2> QED  BY Zenon, <2>1
<1>3. CASE ~ SameCall(c, t)
  <2>1. ASSUME NEW v \in Arriving(t)' PROVE v \in Arriving(t)
    BY Zenon, <1>3, <1>6, <2>1 DEF Arriving
  <2> QED  BY Zenon, <1>1, <2>1, BoundKept
<1>4. CASE SameCall(c, t) /\ Waiting(t)' = {}
  <2>1. Arriving(t)' \in SUBSET Sender
    BY Zenon DEF Arriving
  <2>2. Bounded({}, Arriving(t)', Unswept(t))
    BY Zenon, <1>2, <2>1, BoundEmpty
  <2> QED  BY Zenon, <1>1, <1>4, <2>2 DEF Bound, Bounded
<1>5. ASSUME SameCall(c, t), NEW x \in Waiting(t), Waiting(t)' = Waiting(t) \ {x} PROVE Bound(t)'
  <2>1. ASSUME NEW v \in Arriving(t)' PROVE v \in Arriving(t) \cup {s}
    <3>1. cur[v] = c => v = s
      BY Zenon, <1>6, <2>1, NullAssumption DEF Own, Owned
    <3> QED  BY Zenon, <1>6, <2>1, <3>1 DEF Arriving
  <2>2. Bounded(Waiting(t) \ {x}, Arriving(t) \cup {s}, Unswept(t))
    BY Zenon, <1>2, <1>5, BoundSweep DEF Bound
  <2>3. IsFiniteSet(Arriving(t) \cup {s}) /\ IsFiniteSet(Waiting(t) \ {x})
    BY Zenon, <1>2, <1>5, FS_AddElement
  <2>4. Bounded(Waiting(t) \ {x}, Arriving(t)', Unswept(t))
    BY ZenonT(40), <1>2, <2>1, <2>2, <2>3, BoundShrink
  <2> QED  BY Zenon, <1>1, <1>5, <2>4 DEF Bound, Bounded
<1> QED  BY Zenon, <1>3, <1>4, <1>5

(* A call leaves its sender for a list, or is refused.                      *)
LEMMA BoundCall ==
  ASSUME Inv0, Own, Types', NEW s \in Sender, binder_proc_transaction(s), NEW t \in Txn, Bound(t),
         \A u \in Txn : txnMem[u] # "none" => txnMem'[u] # "none"
  PROVE  Bound(t)'
<1> USE DEF Inv0
<1>1. PICK c \in Txn : c = cur[s]
  BY ZenonT(40) DEF Types, Control, binder_proc_transaction
<1>2. UNCHANGED swept /\ cur' = [cur EXCEPT ![s] = NULL]
  BY Zenon DEF binder_proc_transaction, histVars
<1>3. \A v \in Sender : cur'[v] = IF v = s THEN NULL ELSE cur[v]
  BY Zenon, <1>2 DEF Types
<1>4. \A n \in Node : As(n)' \subseteq As(n) \cup {c}
  <2>1. CASE CallRefused(c) \/ CallToProcess(c)
    BY Zenon, <2>1 DEF CallRefused, CallToProcess, As
  <2>2. CASE CallToNode(c, Attr[c].node)
    <3> DEFINE m == Attr[c].node
    <3>1. m \in Node
      BY Zenon, AttrAssumption
    <3>2. Range(Append(async_todo[m], c)) = As(m) \cup {c}
      BY <3>1, AppendSet, SeqTypes DEF As
    <3>3. \A n \in Node : As(n)' = IF n = m THEN Range(Append(async_todo[m], c)) ELSE As(n)
      BY Zenon, <2>2, <3>1, AsyncExcept DEF CallToNode
    <3> QED  BY Zenon, <3>2, <3>3
  <2> QED  BY Zenon, <1>1, <2>1, <2>2, CallCases
<1>5. Waiting(t)' \subseteq Waiting(t) \cup {c} /\ (~ SameCall(c, t) => Waiting(t)' \subseteq Waiting(t))
  BY Zenon, <1>4, AttrAssumption DEF Waiting
<1>6. ASSUME NEW v \in Arriving(t)' PROVE v \in Arriving(t) \ {s}
  <2>1. v \in Sender /\ cur'[v] \in swept' /\ SameCall(cur'[v], t)
    BY Zenon, <1>6 DEF Arriving
  <2>2. cur'[v] # NULL
    BY Zenon, <1>2, <2>1, NullAssumption DEF Types
  <2>3. v # s /\ cur'[v] = cur[v]
    BY ZenonT(40), <1>3, <2>1, <2>2
  <2>4. cur[v] \in swept /\ SameCall(cur[v], t)
    <3>1. swept' = swept
      BY Zenon, <1>2
    <3> QED  BY SMT, <2>1, <2>3, <3>1 DEF SameCall
  <2> QED  BY Zenon, <2>1, <2>3, <2>4 DEF Arriving
<1>7. ASSUME NEW u \in Txn, \A v \in Sender : v # s => cur[v] # u PROVE \A v \in Sender : cur'[v] # u
  BY Zenon, <1>3, <1>7, NullAssumption
<1>8. Unswept(t) \subseteq Unswept(t)'
  BY Zenon, <1>2, <1>7 DEF Unswept
<1>9. IsFiniteSet(Waiting(t)) /\ IsFiniteSet(Arriving(t)) /\ IsFiniteSet(Unswept(t))
  BY Zenon, BacklogFinite
<1>10. IsFiniteSet(Waiting(t) \cup {c}) /\ IsFiniteSet(Arriving(t) \ {s}) /\ IsFiniteSet(Unswept(t)')
  <2>1. Unswept(t)' \in SUBSET Txn
    BY Zenon DEF Unswept
  <2>2. IsFiniteSet(Unswept(t)')
    BY Zenon, <2>1, FinitenessAssumption, FS_Subset
  <2> QED  BY Zenon, <1>9, <2>2, FS_AddElement, FS_RemoveElement
<1>11. CASE ~ SameCall(c, t)
  BY Zenon, <1>5, <1>6, <1>8, <1>11, BoundKept
<1>12. CASE SameCall(c, t) /\ c \in swept
  <2>1. s \in Arriving(t)
    BY Zenon, <1>1, <1>12 DEF Arriving
  <2>2. Bounded(Waiting(t) \cup {c}, Arriving(t) \ {s}, Unswept(t))
    BY Zenon, <1>9, <2>1, BoundQueueSwept DEF Bound
  <2>3. Bounded(Waiting(t)', Arriving(t)', Unswept(t)')
    BY ZenonT(40), <1>5, <1>6, <1>8, <1>10, <2>2, BoundShrink
  <2> QED  BY Zenon, <2>3 DEF Bound, Bounded
<1>13. CASE SameCall(c, t) /\ c \notin swept
  <2>1. c \notin Unswept(t) /\ c \in Unswept(t)'
    <3>1. txnMem[c] # "none" /\ \A v \in Sender : v # s => cur[v] # c
      BY Zenon, <1>1, NullAssumption DEF Own, Owned, Allocated
    <3> QED  BY ZenonT(40), <1>1, <1>2, <1>7, <1>13, <3>1 DEF Unswept
  <2>2. Bounded(Waiting(t) \cup {c}, Arriving(t), Unswept(t) \cup {c})
    BY Zenon, <1>9, <2>1, BoundQueueUnswept DEF Bound
  <2>3. Unswept(t) \cup {c} \subseteq Unswept(t)'
    BY Zenon, <1>8, <2>1
  <2>5. /\ Waiting(t)' \in SUBSET (Waiting(t) \cup {c}) /\ Arriving(t)' \in SUBSET Arriving(t)
        /\ Unswept(t) \cup {c} \in SUBSET Unswept(t)'
    BY Zenon, <1>5, <1>6, <2>3
  <2>4. Bounded(Waiting(t)', Arriving(t)', Unswept(t)')
    BY ZenonT(40), <1>9, <1>10, <2>2, <2>5, BoundShrink
  <2> QED  BY Zenon, <2>4 DEF Bound, Bounded
<1> QED  BY Zenon, <1>11, <1>12, <1>13

(* BY_CODE, the walk takes exactly the equivalents of the new call.        *)
LEMMA ByCodeTakesAlike ==
  ASSUME NEW u \in Txn, NEW c \in Txn, NEW t \in Txn, SameCall(c, t)
  PROVE  rk_binder_can_update_transaction(u, c, BY_CODE) <=> SameCall(u, t)
  BY SMT DEF rk_binder_can_update_transaction, SameTarget, SameCall

(* A node without a transaction under way has nothing waiting, so the      *)
(* probe that gives its lock back has swept it.                            *)
LEMMA BoundLock ==
  ASSUME Inv0, Own, AsyncMarked, Types', NEW s \in Sender, PreLockNode(s), NEW t \in Txn, Bound(t)
  PROVE  Bound(t)'
<1> USE DEF Inv0
<1>1. cur[s] \in Txn
  BY Zenon DEF Types, Control, PreLockNode
<1>2. UNCHANGED <<cur, txnMem, async_todo>>
  BY Zenon DEF PreLockNode, listVars, memVars
<1>3. \A n \in Node : As(n)' = As(n)
  BY Zenon, <1>2 DEF As
<1>4. CASE swept' = swept
  BY Zenon, <1>2, <1>3, <1>4, BoundQuiet
<1>5. CASE swept' = swept \cup {cur[s]} /\ ~ has_async_transaction[Attr[cur[s]].node]
  <2>1. Waiting(t)' = Waiting(t)
    BY Zenon, <1>3, AttrAssumption DEF Waiting
  <2>2. ASSUME SameCall(cur[s], t) PROVE Waiting(t)' = {}
    <3>1. Attr[t].node \in Node /\ ~ has_async_transaction[Attr[t].node]
      BY ZenonT(40), <1>5, <2>2, AttrAssumption DEF SameCall
    <3>2. As(Attr[t].node) = {}
      BY <3>1  DEF AsyncMarked, As, Range
    <3> QED  BY Zenon, <2>1, <3>2 DEF Waiting
  <2> QED  BY ZenonT(40), <1>1, <1>2, <1>5, <2>1, <2>2, BoundSwept
<1> QED  BY Zenon, <1>4, <1>5 DEF PreLockNode, Swept

(* A complete BY_CODE sweep leaves no equivalent of the new call, or one   *)
(* less than it found.                                                     *)
LEMMA BoundFind ==
  ASSUME Inv0, Own, Types', NEW s \in Sender, PreFindOutdated(s), NEW t \in Txn, Bound(t)
  PROVE  Bound(t)'
<1> USE DEF Inv0
<1>1. PICK c \in Txn : c = cur[s]
  BY Zenon DEF Types, Control, PreFindOutdated
<1> DEFINE n == Attr[c].node
           q == async_todo[n]
<1>2. n \in Node /\ q \in Seq(Txn) /\ As(n) = Range(q)
  BY Zenon, AttrAssumption, SeqTypes DEF As
<1> HIDE DEF q
<1>3. UNCHANGED <<cur, txnMem>>
  BY Zenon DEF PreFindOutdated, memVars
<1>4. CASE UNCHANGED <<async_todo, swept>>
  BY Zenon, <1>3, <1>4, BoundQuiet DEF As
<1>5. CASE /\ \A i \in 1 .. Len(q) : ~ rk_binder_find_outdated_transaction_ilocked(c, q, strategy[s], i)
           /\ Empty(s) /\ Swept(s)
  <2>1. UNCHANGED async_todo
    BY Zenon, <1>5 DEF Empty
  <2>2. CASE swept' = swept
    BY Zenon, <1>4, <2>1, <2>2
  <2>3. CASE strategy[s] = BY_CODE /\ swept' = swept \cup {cur[s]}
    <3>1. Waiting(t)' = Waiting(t)
      BY Zenon, <2>1 DEF Waiting, As
    <3>2. \A i \in 1 .. Len(q) : ~ rk_binder_can_update_transaction(q[i], c, BY_CODE)
      BY Zenon, <1>2, <1>5, <2>3, WalkFinds
    <3>3. ASSUME SameCall(c, t), NEW u \in Waiting(t) PROVE FALSE
      <4>1. u \in Range(q) /\ SameCall(u, t)
        BY Zenon, <1>2, <3>3 DEF Waiting, SameCall
      <4>2. PICK i \in 1 .. Len(q) : q[i] = u
        BY Zenon, <1>2, <4>1, EntryProperties
      <4>3. u \in Txn
        BY Zenon, <1>2, <4>1, EntryProperties
      <4> QED  BY ZenonT(40), <3>2, <3>3, <4>1, <4>2, <4>3, ByCodeTakesAlike
    <3> QED  BY ZenonT(40), <1>1, <1>3, <2>3, <3>1, <3>3, BoundSwept
  <2> QED  BY Zenon, <1>5, <2>2, <2>3 DEF Swept
<1>6. ASSUME NEW i \in 1 .. Len(q), Detach(s, n, i),
             rk_binder_can_update_transaction(q[i], c, strategy[s])
      PROVE  Bound(t)'
  <2>1. /\ q[i] \in Range(q) /\ q[i] \in Txn
        /\ Range(list_del_init(q, i)) = Range(q) \ {q[i]}
    <3>1. NoDuplicates(q)
      BY Zenon, <1>2 DEF q, Own, Lists
    <3> QED  BY Zenon, <1>2, <3>1, TakeAt
  <2>2. async_todo' = [async_todo EXCEPT ![n] = list_del_init(q, i)] /\ Swept(s)
    BY Zenon, <1>6 DEF Detach, q
  <2>3. \A m \in Node : As(m)' = IF m = n THEN Range(list_del_init(q, i)) ELSE As(m)
    BY Zenon, <1>2, <2>2, AsyncExcept
  <2>4. \A m \in Node : As(m)' \subseteq As(m)
    BY Zenon, <1>2, <2>1, <2>3
  <2>5. CASE swept' = swept
    BY Zenon, <1>3, <2>4, <2>5, BoundQuiet
  <2>6. CASE strategy[s] = BY_CODE /\ swept' = swept \cup {cur[s]}
    <3>1. Waiting(t)' \subseteq Waiting(t)
      BY Zenon, <2>4, AttrAssumption DEF Waiting
    <3>2. ASSUME SameCall(c, t) PROVE \E x \in Waiting(t) : Waiting(t)' = Waiting(t) \ {x}
      <4>1. SameCall(q[i], t)
        BY Zenon, <1>6, <2>1, <2>6, <3>2, ByCodeTakesAlike
      <4>2. Attr[t].node = n
        BY Zenon, <3>2 DEF SameCall
      <4>3. As(Attr[t].node)' = As(n) \ {q[i]}
        BY Zenon, <1>2, <2>1, <2>3, <4>2
      <4>4. q[i] \in Waiting(t)
        BY Zenon, <1>2, <2>1, <4>1, <4>2 DEF Waiting
      <4>5. Waiting(t)' = Waiting(t) \ {q[i]}
        BY Zenon, <4>2, <4>3 DEF Waiting
      <4> QED  BY Zenon, <4>4, <4>5
    <3> QED  BY ZenonT(40), <1>1, <1>3, <2>6, <3>1, <3>2, BoundSwept
  <2> QED  BY Zenon, <2>2, <2>5, <2>6 DEF Swept
<1> QED
  BY ZenonT(40), <1>1, <1>4, <1>5, <1>6 DEF q, PreFindOutdated, Empty,
     rk_binder_find_outdated_transaction_ilocked

(* has_async_transaction is set before the first call waits at a node and  *)
(* cleared only when none waits.                                           *)
LEMMA AsyncMarkedStep ==
  ASSUME Inv0, AsyncMarked, [Next]_vars PROVE AsyncMarked'
<1> USE DEF Inv0
<1>1. CASE UNCHANGED <<has_async_transaction, async_todo>>
  BY Zenon, <1>1 DEF AsyncMarked
<1>2. ASSUME NEW n \in Node, NEW q, has_async_transaction[n], UNCHANGED has_async_transaction,
             async_todo' = [async_todo EXCEPT ![n] = q]
      PROVE  AsyncMarked'
  BY Zenon, <1>2 DEF AsyncMarked, Types
<1>3. ASSUME NEW s \in Sender, InDriver(s) PROVE AsyncMarked'
  <2>1. CASE PreFindOutdated(s)
    <3> DEFINE n == Attr[cur[s]].node
    <3>1. n \in Node /\ UNCHANGED has_async_transaction
      BY Zenon, <2>1, AttrAssumption DEF PreFindOutdated, Types, Control
    <3>2. ASSUME NEW i \in 1 .. Len(async_todo[n]), Detach(s, n, i) PROVE AsyncMarked'
      <4>1. async_todo[n] # <<>>
        BY <3>2
      <4> QED  BY ZenonT(40), <1>2, <3>1, <3>2, <4>1 DEF Detach, AsyncMarked
    <3> QED  BY Zenon, <1>1, <2>1, <3>1, <3>2, FindCases DEF Empty
  <2>2. CASE binder_proc_transaction(s)
    <3>1. PICK c \in Txn : c = cur[s]
      BY Zenon, <2>2 DEF Types, Control, binder_proc_transaction
    <3> DEFINE n == Attr[c].node
    <3>2. n \in Node /\ OneWay(c) \in BOOLEAN
      BY Zenon, AttrAssumption DEF OneWay
    <3>3. ASSUME NEW m \in Node, ~ has_async_transaction'[m] PROVE async_todo'[m] = <<>>
      <4>1. has_async_transaction' = [has_async_transaction EXCEPT ![n] = @ \/ OneWay(c)]
        BY ZenonT(40), <2>2, <3>1 DEF binder_proc_transaction
      <4>2. ~ has_async_transaction[m]
        BY <3>2, <3>3, <4>1 DEF Types
      <4>3. \/ UNCHANGED async_todo
            \/ has_async_transaction[n] /\ async_todo' = [async_todo EXCEPT ![n] = Append(@, c)]
        BY Zenon, <2>2, <3>1 DEF binder_proc_transaction
      <4> QED  BY ZenonT(40), <3>2, <4>2, <4>3 DEF AsyncMarked, Types
    <3> QED  BY Zenon, <3>3 DEF AsyncMarked
  <2> QED
    BY Zenon, <1>1, <1>3, <2>1, <2>2 DEF InDriver, PreChooseStrategy, PreLockNode, PreQueueFree,
       binder_proc_dec_tmpref, listVars
<1>4. ASSUME NEW t \in Txn, binder_free_buf(t) PROVE AsyncMarked'
  <2> DEFINE n == Attr[t].node
  <2>1. n \in Node
    BY Zenon, AttrAssumption
  <2>2. CASE UNCHANGED async_todo /\ async_todo[n] = <<>>
             /\ has_async_transaction' = [has_async_transaction EXCEPT ![n] = FALSE]
    BY Zenon, <2>1, <2>2 DEF AsyncMarked, Types
  <2> QED
    BY Zenon, <1>1, <1>2, <1>4, <2>1, <2>2 DEF binder_free_buf, AsyncMarked
<1>5. ASSUME NEW n \in Node, ReleaseAsync(n) PROVE AsyncMarked'
  BY Zenon, <1>2, <1>5 DEF ReleaseAsync, ReleaseTake, AsyncMarked
<1>6. CASE UNCHANGED vars \/ FreeTxn \/ Register \/ Unregister
  BY Zenon, <1>1, <1>6 DEF vars, FreeTxn, FreeTxnReleaseBuffer, FreeTxnKfree, FreeTxnDecTmpref,
     Register,
     Unregister, RegisterAllocWq, RegisterArm, RegisterFail, UnregisterDisarm,
     UnregisterSynchronize, UnregisterDestroyWq, ModStep, listVars
<1>7. CASE Release
  BY Zenon, <1>1, <1>5, <1>7 DEF Release, ReleaseThreads, ReleaseTodo, ReleaseTake, ReleaseTaken,
     FreeTaken, ReleaseDone, listVars
<1>8. CASE Target
  BY Zenon, <1>1, <1>4, <1>8 DEF Target, binder_thread_read, binder_free_transaction,
     FreeTaken, binder_ioctl_freeze, ReleaseMarkDead, SetTaskState, listVars
<1>9. ASSUME NEW s \in Sender, NEW t \in Txn, binder_transaction(s, t) PROVE AsyncMarked'
  BY Zenon, <1>1, <1>9 DEF binder_transaction, listVars
<1> QED
  BY Zenon, <1>3, <1>6, <1>7, <1>8, <1>9 DEF Next

(* Outside the probed function nothing joins a node's queue, and only the  *)
(* probe under the node's lock records a sweep.                            *)
LEMMA QuietSteps ==
  ASSUME Inv0, Own, [Next]_vars,
         \A s \in Sender : /\ ~ PreLockNode(s) /\ ~ PreFindOutdated(s) /\ ~ binder_proc_transaction(s)
                           /\ \A t \in Txn : ~ binder_transaction(s, t)
  PROVE  UNCHANGED <<cur, swept>> /\ \A n \in Node : As(n)' \subseteq As(n)
<1> USE DEF Inv0
<1>1. ASSUME UNCHANGED async_todo PROVE \A n \in Node : As(n)' \subseteq As(n)
  BY Zenon, <1>1 DEF As
<1>2. ASSUME NEW n \in Node, async_todo[n] # <<>>,
             async_todo' = [async_todo EXCEPT ![n] = Tail(async_todo[n])]
      PROVE  \A m \in Node : As(m)' \subseteq As(m)
  <2>1. Tail(async_todo[n]) \in Seq(Txn) /\ Range(Tail(async_todo[n])) \subseteq As(n)
    <3>1. async_todo[n] \in Seq(Txn) /\ NoDuplicates(async_todo[n])
      BY Zenon, SeqTypes DEF Own, Lists
    <3> QED  BY Zenon, <1>2, <3>1, TakeFirst DEF As
  <2> QED  BY Zenon, <1>2, <2>1, AsyncExcept
<1>3. ASSUME NEW t \in Txn, binder_free_buf(t) PROVE \A n \in Node : As(n)' \subseteq As(n)
  <2>1. Attr[t].node \in Node
    BY ZenonT(40), AttrAssumption
  <2> QED  BY ZenonT(40), <1>1, <1>2, <1>3, <2>1 DEF binder_free_buf
<1>4. UNCHANGED <<cur, swept>>
  BY Zenon DEF Next, vars, InDriver, PreChooseStrategy, PreQueueFree, binder_proc_dec_tmpref,
     FreeTxn, FreeTxnReleaseBuffer, FreeTxnKfree, FreeTxnDecTmpref, Register,
     Unregister, RegisterAllocWq, RegisterArm, RegisterFail, UnregisterDisarm,
     UnregisterSynchronize, UnregisterDestroyWq, ModStep, Release, ReleaseThreads, ReleaseTodo,
     ReleaseTake, ReleaseTaken, FreeTaken, ReleaseDone, ReleaseAsync, Target, binder_thread_read,
     binder_free_transaction, binder_ioctl_freeze,
     ReleaseMarkDead, binder_free_buf, SetTaskState, sendVars, histVars
<1>5. CASE UNCHANGED async_todo
  BY Zenon, <1>1, <1>4, <1>5
<1>6. CASE Release
  BY ZenonT(40), <1>1, <1>2, <1>4, <1>6 DEF Release, ReleaseThreads, ReleaseTodo, ReleaseDone,
     ReleaseAsync, ReleaseTaken, FreeTaken, listVars
<1>7. CASE Target
  BY ZenonT(40), <1>1, <1>3, <1>4, <1>7 DEF Target, binder_thread_read,
     binder_free_transaction, FreeTaken, binder_ioctl_freeze, ReleaseMarkDead, SetTaskState,
     listVars
<1>8. CASE UNCHANGED vars \/ FreeTxn \/ Register \/ Unregister
  BY Zenon, <1>5, <1>8 DEF vars, FreeTxn, FreeTxnReleaseBuffer, FreeTxnKfree, FreeTxnDecTmpref,
     Register,
     Unregister, RegisterAllocWq, RegisterArm, RegisterFail, UnregisterDisarm,
     UnregisterSynchronize, UnregisterDestroyWq, ModStep, listVars
<1> QED
  BY ZenonT(40), <1>5, <1>6, <1>7, <1>8 DEF Next, InDriver, PreChooseStrategy, PreQueueFree,
     binder_proc_dec_tmpref, listVars

(* The invariant behind BacklogBound.                                      *)
Backlog == AsyncMarked /\ SweptSent /\ \A t \in Txn : Bound(t)

(* Every step keeps it.                                                    *)
LEMMA BacklogStep ==
  ASSUME Inv0, Inv0', Own, Backlog, [Next]_vars PROVE Backlog'
<1> USE DEF Inv0
<1>1. \A u \in Txn : txnMem[u] # "none" => txnMem'[u] # "none"
  BY Zenon, StaysAllocated
<1>2. AsyncMarked'
  BY Zenon, AsyncMarkedStep DEF Backlog
<1>3. \/ \E s \in Sender : PreLockNode(s) \/ PreFindOutdated(s)
      \/ UNCHANGED swept
  <2>1. CASE \E s \in Sender : binder_proc_transaction(s) \/ \E t \in Txn : binder_transaction(s, t)
    BY Zenon, <2>1 DEF binder_proc_transaction, binder_transaction, histVars
  <2> QED  BY Zenon, <2>1, QuietSteps
<1>4. SweptSent'
  <2>1. CASE UNCHANGED swept
    BY ZenonT(40), <1>1, <2>1 DEF Backlog, SweptSent, Types
  <2>2. ASSUME NEW s \in Sender, PreLockNode(s) \/ PreFindOutdated(s) PROVE SweptSent'
    <3>1. cur[s] \in Txn /\ txnMem[cur[s]] # "none"
      BY ZenonT(40), <2>2, NullAssumption DEF Types, Control, PreLockNode, PreFindOutdated, Own,
         Allocated
    <3>2. swept' = swept \/ swept' = swept \cup {cur[s]}
      BY Zenon, <2>2 DEF PreLockNode, PreFindOutdated, Detach, Swept
    <3> QED  BY ZenonT(40), <1>1, <3>1, <3>2 DEF Backlog, SweptSent, Types
  <2> QED  BY Zenon, <1>3, <2>1, <2>2
<1>5. ASSUME NEW t \in Txn PROVE Bound(t)'
  <2>1. Bound(t)
    BY Zenon DEF Backlog
  <2>2. ASSUME NEW s \in Sender, NEW c \in Txn, binder_transaction(s, c) PROVE Bound(t)'
    BY Zenon, <2>1, <2>2, BoundSend DEF Backlog
  <2>3. ASSUME NEW s \in Sender, PreLockNode(s) PROVE Bound(t)'
    BY Zenon, <2>1, <2>3, BoundLock DEF Backlog
  <2>4. ASSUME NEW s \in Sender, PreFindOutdated(s) PROVE Bound(t)'
    BY Zenon, <2>1, <2>4, BoundFind
  <2>5. ASSUME NEW s \in Sender, binder_proc_transaction(s) PROVE Bound(t)'
    BY Zenon, <1>1, <2>1, <2>5, BoundCall
  <2>6. CASE UNCHANGED <<cur, swept>> /\ \A n \in Node : As(n)' \subseteq As(n)
    BY Zenon, <1>1, <2>1, <2>6, BoundQuiet
  <2> QED
    BY ZenonT(40), <2>2, <2>3, <2>4, <2>5, <2>6, QuietSteps
<1> QED
  BY Zenon, <1>2, <1>4, <1>5 DEF Backlog

(* However long the process stays frozen, the equivalents of a call that   *)
(* wait for it do not outnumber the senders plus the calls that reached    *)
(* the driver without a complete BY_CODE sweep: one removal per call keeps *)
(* up with the calls, senders that race for the node's lock included.      *)
THEOREM BacklogBounded == Spec => []BacklogBound
<1>1. Init => Backlog
  <2> SUFFICES ASSUME Init PROVE Backlog
    BY Zenon
  <2>1. AsyncMarked /\ SweptSent
    BY Zenon DEF Init, AsyncMarked, SweptSent
  <2>2. ASSUME NEW t \in Txn PROVE Bound(t)
    <3>1. As(Attr[t].node) = {}
      BY AttrAssumption DEF Init, As, Range
    <3>2. Waiting(t) = {} /\ Arriving(t) = {}
      BY Zenon, <3>1 DEF Waiting, Arriving, Init
    <3>3. IsFiniteSet(Unswept(t))
      BY Zenon, Inv0Init, BacklogFinite DEF Inv0
    <3> QED  BY ZenonT(40), <3>2, <3>3, BoundEmpty DEF Bound
  <2> QED  BY Zenon, <2>1, <2>2 DEF Backlog
<1>2. Inv0 /\ Own /\ Backlog => BacklogBound
  <2> SUFFICES ASSUME Inv0, Own, Backlog, NEW n \in Node, NEW t \in As(n)
               PROVE  Cardinality({u \in As(n) : SameCall(u, t)}) <= Cardinality(Sender)
                        + Cardinality({u \in ({v \in Txn : txnMem[v] # "none"} \ Held) \ swept : SameCall(u, t)})
    BY Zenon DEF BacklogBound, As
  <2>1. t \in Txn /\ Attr[t].node = n
    BY Zenon, OwnSets DEF Inv0, Own, Lists
  <2>2. Waiting(t) = {u \in As(n) : SameCall(u, t)}
    BY Zenon, <2>1 DEF Waiting
  <2>3. \A u \in Txn : u \in Held <=> \E s \in Sender : cur[s] = u
    BY Zenon, NullAssumption DEF Held
  <2>4. Unswept(t) = {u \in ({v \in Txn : txnMem[v] # "none"} \ Held) \ swept : SameCall(u, t)}
    BY Zenon, <2>3 DEF Unswept
  <2>5. Bounded(Waiting(t), Arriving(t), Unswept(t))
    BY Zenon, <2>1 DEF Backlog, Bound
  <2>6. /\ Cardinality(Waiting(t)) \in Nat /\ Cardinality(Arriving(t)) \in Nat
        /\ Cardinality(Unswept(t)) \in Nat /\ Cardinality(Sender) \in Nat
    BY ZenonT(40), <2>1, BacklogFinite, FinitenessAssumption, FS_CardinalityType DEF Inv0
  <2>7. Cardinality(Waiting(t)) <= Cardinality(Sender) + Cardinality(Unswept(t))
    BY SMT, <2>5, <2>6 DEF Bounded
  <2> QED  BY Zenon, <2>2, <2>4, <2>7
<1> QED
  BY <1>1, <1>2, BacklogStep, ControlCorrect, OneOwner, PTL DEF Spec

=============================================================================
