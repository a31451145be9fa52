------------------------------ MODULE BinderKp ------------------------------
(***************************************************************************)
(* The free-async cleaner of rkx_binder_kp.c.  A kprobe on                 *)
(* binder_proc_transaction() runs in every thread that sends a binder      *)
(* transaction.  If the target process is frozen and the target node's     *)
(* async_todo holds an older oneway transaction that the new one makes     *)
(* obsolete, the probe unlinks it and leaves it to a workqueue to free.    *)
(*                                                                         *)
(* One target binder_proc is followed, with its nodes, the threads that    *)
(* send to it, the workqueue and the registration of the probe.  The       *)
(* binder driver is not part of this repository: it is modelled from the   *)
(* fields and functions the probe shares with it.  A critical section of   *)
(* proc->inner_lock is one step; node->lock is held over two.              *)
(***************************************************************************)
EXTENDS Integers, Sequences, FiniteSets, Functions

CONSTANTS
  Txn,           \* the transactions that may be sent to the process
  Sender,        \* the threads that send them
  Node,          \* the binder nodes of the process
  Attr,          \* what a transaction carries, see AttrAssumption
  Strategy,      \* the strategies the rules of rkx_free_async.c may yield
  KzallocFails,  \* the answers to "does kzalloc(GFP_ATOMIC) fail"
  NULL

SKIP    == "SKIP"
BY_CODE == "BY_CODE"
BY_DATA == "BY_DATA"

ASSUME AttrAssumption ==
  \A t \in Txn : Attr[t].node \in Node /\ {Attr[t].oneway, Attr[t].offsets} \subseteq BOOLEAN
ASSUME StrategyAssumption == Strategy \subseteq {SKIP, BY_CODE, BY_DATA}
ASSUME KzallocAssumption == KzallocFails \subseteq BOOLEAN
ASSUME FinitenessAssumption == IsFiniteSet(Txn) /\ IsFiniteSet(Sender)
ASSUME NullAssumption == NULL \notin Txn /\ NULL \notin Sender

VARIABLES
  pc, cur, strategy, t_outdated,            \* per sender: its place and locals
  node_lock,                                \* per node: the holder of its lock
  has_async_transaction, async_todo, todo,  \* per node and process: queued
  taken, outstanding_txns,                  \* off the lists, not yet freed; count
  tmp_ref, procMem,                         \* binder_proc: references, memory
  is_frozen, task, release,  \* BINDER_FREEZE, the freezer, deferred release
  txnMem, bufMem,                           \* per transaction: its memory
  wq, worker, mod,            \* rkx_free_wq, its worker, the registration
  dropped, read, swept        \* history: unlinked, read, BY_CODE sweep done

sendVars == <<pc, cur, strategy, t_outdated>>
listVars == <<has_async_transaction, async_todo, todo, taken, outstanding_txns>>
refVars  == <<tmp_ref, procMem>>
stateVars == <<is_frozen, task, release>>
memVars  == <<txnMem, bufMem>>
kpVars   == <<wq, worker, mod>>
histVars == <<dropped, read, swept>>
vars == <<sendVars, node_lock, listVars, refVars, stateVars, memVars, kpVars, histVars>>

-----------------------------------------------------------------------------
(* Memory.  A bad free is recorded rather than forbidden.  A live buffer   *)
(* is "attached" while buffer->transaction is set: freeing it then is a    *)
(* BUG_ON in the driver.                                                   *)

TxnMem == {"none", "live", "freed", "corrupt"}
BufMem == {"none", "attached", "detached", "freed", "corrupt"}

kfree(m) == IF m = "live" THEN "freed" ELSE "corrupt"
Cut(m) == IF m = "attached" THEN "detached" ELSE "corrupt"
binder_alloc_free_buf(m) == IF m = "detached" THEN "freed" ELSE "corrupt"

rkx_is_frozen == task # "running"
is_dead == release # "none"
RB_EMPTY_ROOT_threads == release \in {"draining", "done"}

OneWay(t) == Attr[t].oneway

(* tmp_ref-- and, with the last reference of a dead process,               *)
(* binder_free_proc(), which frees the buffers the process still has.      *)
rk_binder_proc_dec_tmpref ==
  /\ tmp_ref' = tmp_ref - 1
  /\ IF is_dead /\ RB_EMPTY_ROOT_threads /\ tmp_ref = 1
     THEN /\ procMem' = kfree(procMem)
          /\ bufMem' = [t \in Txn |-> IF bufMem[t] \in {"none", "freed"}
                                      THEN bufMem[t]
                                      ELSE binder_alloc_free_buf(bufMem[t])]
     ELSE UNCHANGED <<procMem, bufMem>>

-----------------------------------------------------------------------------
(* Which transactions are outdated *)

\* Faulty: compares the sizes only.
DataEqualBySize(t1, t2) == TRUE

\* The bytes of two live buffers of one process, chunk by chunk.
rkx_binder_buffer_data_equal(t1, t2) == Attr[t1].data = Attr[t2].data

\* Oneway calls from one process to one node, alike but for code and data.
SameTarget(t1, t2) ==
  /\ OneWay(t1) /\ OneWay(t2)
  /\ Attr[t1].flags = Attr[t2].flags
  /\ Attr[t1].pid = Attr[t2].pid
  /\ Attr[t1].node = Attr[t2].node

(* The queued t1 and the new t2 have the same to_proc; ptr and cookie are  *)
(* the node's identity.                                                    *)
rk_binder_can_update_transaction(t1, t2, strat) ==
  /\ SameTarget(t1, t2)
  /\ Attr[t1].code = Attr[t2].code
  /\ ~Attr[t1].offsets /\ ~Attr[t2].offsets
  /\ \/ strat = BY_CODE
     \/ strat = BY_DATA /\ rkx_binder_buffer_data_equal(t1, t2)

\* Faulty: the walk begins behind the first entry.
FindFromSecond(t, list, strat, i) ==
  /\ i > 1 /\ rk_binder_can_update_transaction(list[i], t, strat)
  /\ \A j \in 2 .. (i - 1) : ~rk_binder_can_update_transaction(list[j], t, strat)

\* The list walk stops at i, the first entry that t makes obsolete.
rk_binder_find_outdated_transaction_ilocked(t, list, strat, i) ==
  /\ rk_binder_can_update_transaction(list[i], t, strat)
  /\ \A j \in 1 .. (i - 1) : ~rk_binder_can_update_transaction(list[j], t, strat)

-----------------------------------------------------------------------------
(* The sender: the driver up to the probed call, the probe, the call. *)

Goto(s, l) == pc' = [pc EXCEPT ![s] = l]

\* The sender pins the process and allocates transaction and buffer.
binder_transaction(s, t) ==
  /\ pc[s] = "idle" /\ txnMem[t] = "none" /\ release # "done"
  /\ tmp_ref' = tmp_ref + 1
  /\ cur' = [cur EXCEPT ![s] = t]
  /\ txnMem' = [txnMem EXCEPT ![t] = "live"]
  /\ bufMem' = [bufMem EXCEPT ![t] = "attached"]
  /\ Goto(s, IF mod = "armed" THEN "probe" ELSE "call")
  /\ UNCHANGED <<strategy, t_outdated, node_lock, listVars, procMem, stateVars,
                 kpVars, histVars>>

\* The probe has work only for a oneway call to a frozen task without SKIP.
PreChooseStrategy(s) ==
  /\ pc[s] = "probe"
  /\ IF OneWay(cur[s]) /\ rkx_is_frozen
     THEN \E st \in Strategy :
            /\ strategy' = [strategy EXCEPT ![s] = st]
            /\ Goto(s, IF st = SKIP THEN "call" ELSE "lock")
     ELSE Goto(s, "call") /\ UNCHANGED strategy
  /\ UNCHANGED <<cur, t_outdated, node_lock, listVars, refVars, stateVars,
                 memVars, kpVars, histVars>>

Swept(s) == swept' = IF strategy[s] = BY_CODE THEN swept \cup {cur[s]} ELSE swept

\* Take node->lock; with no async transaction under way, give it back.
PreLockNode(s) ==
  LET n == Attr[cur[s]].node IN
  /\ pc[s] = "lock" /\ node_lock[n] = NULL
  /\ IF has_async_transaction[n]
     THEN /\ node_lock' = [node_lock EXCEPT ![n] = s]
          /\ Goto(s, "find") /\ UNCHANGED swept
     ELSE /\ Goto(s, "call") /\ Swept(s) /\ UNCHANGED node_lock
  /\ UNCHANGED <<cur, strategy, t_outdated, listVars, refVars, stateVars,
                 memVars, kpVars, dropped, read>>

\* Faulty: no pin, no count, no unlock, no unlink.
PinForgotten == UNCHANGED tmp_ref
CountForgotten == UNCHANGED outstanding_txns
UnlockForgotten(n) == UNCHANGED node_lock
ListKeep(list, i) == list

PinProc == tmp_ref' = tmp_ref + 1
CountUnlinked == outstanding_txns' = outstanding_txns - 1
rk_binder_node_unlock(n) == node_lock' = [node_lock EXCEPT ![n] = NULL]
list_del_init(list, i) == SubSeq(list, 1, i - 1) \o SubSeq(list, i + 1, Len(list))

\* Unlink the i-th entry and pin the process for its work item.
Detach(s, n, i) ==
  /\ PinProc
  /\ async_todo' = [async_todo EXCEPT ![n] = list_del_init(@, i)]
  /\ CountUnlinked
  /\ t_outdated' = [t_outdated EXCEPT ![s] = async_todo[n][i]]
  /\ dropped' = dropped \cup {async_todo[n][i]}
  /\ Goto(s, "detached")
  /\ Swept(s)

\* Faulty: the probe tries again until it can free something.
TryAgain(s) == Goto(s, "lock") /\ UNCHANGED <<async_todo, outstanding_txns, tmp_ref,
                                              t_outdated, dropped>>

Empty(s) == Goto(s, "call") /\ UNCHANGED <<async_todo, outstanding_txns, tmp_ref,
                                           t_outdated, dropped>>

(* The inner_lock section, at whose end both locks are released.  It finds *)
(* the process dead or frozen by the driver, nothing outdated, or an       *)
(* outdated entry for which a work item can or cannot be allocated.        *)
PreFindOutdated(s) ==
  LET n == Attr[cur[s]].node
      Outdated(i) == rk_binder_find_outdated_transaction_ilocked(
                       cur[s], async_todo[n], strategy[s], i)
      Here == 1 .. Len(async_todo[n])
  IN
  /\ pc[s] = "find"
  /\ rk_binder_node_unlock(n)
  /\ \/ (is_dead \/ is_frozen) /\ Empty(s) /\ UNCHANGED swept
     \/ /\ ~is_dead /\ ~is_frozen
        /\ \/ (\A i \in Here : ~Outdated(i)) /\ Empty(s) /\ Swept(s)
           \/ \E i \in Here : Outdated(i) /\ FALSE \in KzallocFails /\ Detach(s, n, i)
           \/ \E i \in Here : Outdated(i) /\ TRUE \in KzallocFails /\ Empty(s)
                              /\ UNCHANGED swept
  /\ UNCHANGED <<cur, strategy, has_async_transaction, todo, taken, procMem,
                 stateVars, memVars, kpVars, read>>

\* Faulty: buffer->transaction stays set.
CutForgotten(t) == UNCHANGED bufMem

CutBuffer(t) == bufMem' = [bufMem EXCEPT ![t] = Cut(@)]

\* Without locks: cut transaction and buffer apart, rkx_queue_free_txn().
PreQueueFree(s) ==
  /\ pc[s] = "detached"
  /\ CutBuffer(t_outdated[s])
  /\ wq' = Append(wq, t_outdated[s])
  /\ t_outdated' = [t_outdated EXCEPT ![s] = NULL]
  /\ Goto(s, "call")
  /\ UNCHANGED <<cur, strategy, node_lock, listVars, refVars, stateVars, txnMem,
                 worker, mod, histVars>>

(* The probed function.  A process that is dead, or frozen for a call that *)
(* wants a reply, refuses and the sender frees the transaction.  The first *)
(* oneway transaction of a node goes to the process, the next ones wait.   *)
binder_proc_transaction(s) ==
  LET t == cur[s]
      n == Attr[t].node
  IN
  /\ pc[s] = "call" /\ node_lock[n] = NULL
  /\ has_async_transaction' = [has_async_transaction EXCEPT ![n] = @ \/ OneWay(t)]
  /\ IF is_dead \/ (is_frozen /\ ~OneWay(t))
     THEN /\ txnMem' = [txnMem EXCEPT ![t] = kfree(@)]
          /\ bufMem' = [bufMem EXCEPT ![t] = binder_alloc_free_buf(Cut(@))]
          /\ UNCHANGED <<todo, async_todo, outstanding_txns>>
     ELSE /\ IF OneWay(t) /\ has_async_transaction[n]
             THEN /\ async_todo' = [async_todo EXCEPT ![n] = Append(@, t)]
                  /\ UNCHANGED todo
             ELSE todo' = Append(todo, t) /\ UNCHANGED async_todo
          /\ outstanding_txns' = outstanding_txns + 1
          /\ UNCHANGED memVars
  /\ cur' = [cur EXCEPT ![s] = NULL]
  /\ Goto(s, "put")
  /\ UNCHANGED <<strategy, t_outdated, node_lock, taken, refVars, stateVars, kpVars,
                 histVars>>

\* The sender gives its reference on the process back.
binder_proc_dec_tmpref(s) ==
  /\ pc[s] = "put"
  /\ rk_binder_proc_dec_tmpref
  /\ Goto(s, "idle")
  /\ UNCHANGED <<cur, strategy, t_outdated, node_lock, listVars, stateVars,
                 txnMem, kpVars, histVars>>

-----------------------------------------------------------------------------
(* rkx_free_txn_func, on the work item at the head of the queue. *)

FreeTxnReleaseBuffer ==
  /\ wq # <<>> /\ worker = "release"
  /\ bufMem' = [bufMem EXCEPT ![Head(wq)] = binder_alloc_free_buf(@)]
  /\ worker' = "kfree"
  /\ UNCHANGED <<sendVars, node_lock, listVars, refVars, stateVars, txnMem, wq,
                 mod, histVars>>

\* Faulty: the transaction is never freed.
KfreeForgotten == UNCHANGED txnMem

KfreeTxn == txnMem' = [txnMem EXCEPT ![Head(wq)] = kfree(@)]

FreeTxnKfree ==
  /\ wq # <<>> /\ worker = "kfree"
  /\ KfreeTxn
  /\ worker' = "dec"
  /\ UNCHANGED <<sendVars, node_lock, listVars, refVars, stateVars, bufMem, wq,
                 mod, histVars>>

FreeTxnDecTmpref ==
  /\ wq # <<>> /\ worker = "dec"
  /\ rk_binder_proc_dec_tmpref
  /\ wq' = Tail(wq) /\ worker' = "release"
  /\ UNCHANGED <<sendVars, node_lock, listVars, stateVars, txnMem, mod, histVars>>

-----------------------------------------------------------------------------
(* rkx_register_binder_kp and rkx_unregister_binder_kp *)

ModStep(from, to) ==
  /\ mod = from /\ mod' = to
  /\ UNCHANGED <<sendVars, node_lock, listVars, refVars, stateVars, memVars, wq,
                 worker, histVars>>

\* alloc_workqueue; symbols and probe; or, if one of them fails, the error path.
RegisterAllocWq == ModStep("absent", "resolving")
RegisterArm     == ModStep("resolving", "armed")
RegisterFail    == ModStep("resolving", "flushing")

InProbe(s) == pc[s] \in {"probe", "lock", "find", "detached"}

\* Faulty: the flush waits for nothing.
FlushSkipped == TRUE

flush_workqueue == wq = <<>>

\* unregister_kprobe lets nobody in and waits; then the workqueue goes.
UnregisterDisarm      == ModStep("armed", "disarming")
UnregisterSynchronize == (\A s \in Sender : ~InProbe(s)) /\ ModStep("disarming", "flushing")
UnregisterDestroyWq   == flush_workqueue /\ ModStep("flushing", "absent")

-----------------------------------------------------------------------------
(* The target process, as the driver and the freezer treat it. *)

\* A thread takes the next transaction off the list, under inner_lock.
binder_thread_read ==
  /\ todo # <<>> /\ ~is_dead /\ task # "frozen"
  /\ todo' = Tail(todo)
  /\ taken' = taken \cup {Head(todo)} /\ read' = read \cup {Head(todo)}
  /\ UNCHANGED <<sendVars, node_lock, has_async_transaction, async_todo, outstanding_txns,
                 refVars, stateVars, memVars, kpVars, dropped, swept>>

(* A transaction off the lists is counted until it is freed; its buffer,   *)
(* unless the process has freed it before, loses buffer->transaction.      *)
FreeTaken(t) ==
  /\ t \in taken /\ taken' = taken \ {t}
  /\ outstanding_txns' = outstanding_txns - 1
  /\ txnMem' = [txnMem EXCEPT ![t] = kfree(@)]
  /\ bufMem' = [bufMem EXCEPT ![t] = IF @ = "freed" THEN @ ELSE Cut(@)]
  /\ UNCHANGED <<sendVars, node_lock, has_async_transaction, async_todo, todo,
                 refVars, stateVars, kpVars, histVars>>

\* The reading thread frees a oneway transaction at once, another one in its reply.
binder_free_transaction(t) ==
  ~is_dead /\ (OneWay(t) \/ task # "frozen") /\ FreeTaken(t)

(* BC_FREE_BUFFER, before or after the reply: clears buffer->transaction,  *)
(* if it is still set, and the node's next waiting oneway call moves up.   *)
binder_free_buf(t) ==
  LET n == Attr[t].node IN
  /\ t \in read /\ bufMem[t] \in {"attached", "detached"}
  /\ ~is_dead /\ task # "frozen" /\ node_lock[n] = NULL
  /\ IF OneWay(t) /\ async_todo[n] = <<>>
     THEN /\ has_async_transaction' = [has_async_transaction EXCEPT ![n] = FALSE]
          /\ UNCHANGED <<todo, async_todo>>
     ELSE /\ UNCHANGED has_async_transaction
          /\ IF OneWay(t)
             THEN /\ todo' = Append(todo, Head(async_todo[n]))
                  /\ async_todo' = [async_todo EXCEPT ![n] = Tail(@)]
             ELSE UNCHANGED <<todo, async_todo>>
  /\ bufMem' = [bufMem EXCEPT ![t] = "freed"]
  /\ UNCHANGED <<sendVars, node_lock, taken, outstanding_txns, refVars, stateVars,
                 txnMem, kpVars, histVars>>

\* The freezer freezes and thaws the task; BINDER_FREEZE the binder_proc.
SetTaskState(f) ==
  /\ ~is_dead /\ <<task, f>> \notin {<<"running", "frozen">>, <<"frozen", "freezing">>}
  /\ task' = f
  /\ UNCHANGED <<sendVars, node_lock, listVars, refVars, is_frozen, release,
                 memVars, kpVars, histVars>>

binder_ioctl_freeze ==
  /\ ~is_dead /\ is_frozen' = ~is_frozen
  /\ UNCHANGED <<sendVars, node_lock, listVars, refVars, task, release, memVars,
                 kpVars, histVars>>

(* binder_deferred_release(): with no thread left in the driver, pin the   *)
(* process and mark it dead, ...                                           *)
ReleaseMarkDead ==
  /\ ~is_dead /\ \A t \in taken : ~OneWay(t)
  /\ release' = "marked" /\ is_frozen' = FALSE
  /\ tmp_ref' = tmp_ref + 1
  /\ UNCHANGED <<sendVars, node_lock, listVars, procMem, task, memVars, kpVars, histVars>>

\* ... release its threads, with the calls they have not answered, ...
ReleaseThreads ==
  /\ release = "marked" /\ taken = {} /\ release' = "draining"
  /\ UNCHANGED <<sendVars, node_lock, listVars, refVars, is_frozen, task, memVars,
                 kpVars, histVars>>

ReleaseTaken(t) == is_dead /\ FreeTaken(t)

(* ... take what is queued off the lists, one by one, and free it, leaving *)
(* the buffers to binder_free_proc(), ...                                  *)
ReleaseTake(t) ==
  /\ release = "draining" /\ taken = {} /\ taken' = {t}
  /\ UNCHANGED <<sendVars, node_lock, has_async_transaction, outstanding_txns, refVars,
                 stateVars, memVars, kpVars, histVars>>

ReleaseAsync(n) ==
  /\ async_todo[n] # <<>> /\ ReleaseTake(Head(async_todo[n]))
  /\ async_todo' = [async_todo EXCEPT ![n] = Tail(@)] /\ UNCHANGED todo

ReleaseTodo ==
  /\ todo # <<>> /\ ReleaseTake(Head(todo))
  /\ todo' = Tail(todo) /\ UNCHANGED async_todo

\* ... and give the pin back.
ReleaseDone ==
  /\ release = "draining" /\ release' = "done"
  /\ todo = <<>> /\ taken = {} /\ \A n \in Node : async_todo[n] = <<>>
  /\ rk_binder_proc_dec_tmpref
  /\ UNCHANGED <<sendVars, node_lock, listVars, is_frozen, task, txnMem, kpVars, histVars>>

-----------------------------------------------------------------------------

Init ==
  /\ pc = [s \in Sender |-> "idle"] /\ cur = [s \in Sender |-> NULL]
  /\ strategy = [s \in Sender |-> BY_CODE] /\ t_outdated = [s \in Sender |-> NULL]
  /\ node_lock = [n \in Node |-> NULL]
  /\ has_async_transaction = [n \in Node |-> FALSE]
  /\ async_todo = [n \in Node |-> <<>>] /\ todo = <<>>
  /\ taken = {} /\ outstanding_txns = 0
  /\ tmp_ref = 0 /\ procMem = "live"
  /\ is_frozen = FALSE /\ task = "running" /\ release = "none"
  /\ txnMem = [t \in Txn |-> "none"] /\ bufMem = [t \in Txn |-> "none"]
  /\ wq = <<>> /\ worker = "release" /\ mod = "absent"
  /\ dropped = {} /\ read = {} /\ swept = {}

InDriver(s) ==
  \/ PreChooseStrategy(s) \/ PreLockNode(s) \/ PreFindOutdated(s) \/ PreQueueFree(s)
  \/ binder_proc_transaction(s) \/ binder_proc_dec_tmpref(s)

FreeTxn == FreeTxnReleaseBuffer \/ FreeTxnKfree \/ FreeTxnDecTmpref

Register == RegisterAllocWq \/ RegisterArm \/ RegisterFail \/ UnregisterDisarm

Unregister == UnregisterSynchronize \/ UnregisterDestroyWq

Release == \/ ReleaseThreads \/ ReleaseTodo \/ ReleaseDone
           \/ \E n \in Node : ReleaseAsync(n)
           \/ \E t \in Txn : ReleaseTaken(t)

Target == \/ binder_thread_read \/ binder_ioctl_freeze \/ ReleaseMarkDead
          \/ \E t \in Txn : binder_free_transaction(t) \/ binder_free_buf(t)
          \/ \E f \in {"running", "freezing", "frozen"} : SetTaskState(f)

Next == \/ \E s \in Sender : InDriver(s) \/ \E t \in Txn : binder_transaction(s, t)
        \/ FreeTxn \/ Register \/ Unregister \/ Release \/ Target

Spec == Init /\ [][Next]_vars

(* The kernel runs every thread that is inside the driver, the workqueue,  *)
(* the driver's release and a started unregistration to their ends; nobody *)
(* has to send, read, answer, freeze or unload.                            *)
FairSpec == /\ Spec
            /\ \A s \in Sender : WF_vars(InDriver(s))
            /\ WF_vars(FreeTxn) /\ WF_vars(Release) /\ WF_vars(Unregister)

-----------------------------------------------------------------------------
(* Properties *)

Queued == Range(todo) \cup UNION {Range(async_todo[n]) : n \in Node}
Held   == {cur[s] : s \in Sender} \ {NULL}

\* Type invariant; both counters of binder_proc stay natural numbers.
TypeOK ==
  /\ pc \in [Sender -> {"idle", "probe", "lock", "find", "detached", "call", "put"}]
  /\ cur \in [Sender -> Txn \cup {NULL}]
  /\ strategy \in [Sender -> {SKIP, BY_CODE, BY_DATA}]
  /\ t_outdated \in [Sender -> Txn \cup {NULL}]
  /\ node_lock \in [Node -> Sender \cup {NULL}]
  /\ has_async_transaction \in [Node -> BOOLEAN]
  /\ async_todo \in [Node -> Seq(Txn)] /\ todo \in Seq(Txn)
  /\ taken \subseteq Txn /\ outstanding_txns \in Nat /\ tmp_ref \in Nat
  /\ procMem \in TxnMem /\ is_frozen \in BOOLEAN
  /\ task \in {"running", "freezing", "frozen"}
  /\ release \in {"none", "marked", "draining", "done"}
  /\ txnMem \in [Txn -> TxnMem] /\ bufMem \in [Txn -> BufMem]
  /\ wq \in Seq(Txn) /\ worker \in {"release", "kfree", "dec"}
  /\ mod \in {"absent", "resolving", "armed", "disarming", "flushing"}
  /\ dropped \subseteq Txn /\ read \subseteq Txn /\ swept \subseteq Txn

(* The probe and its work item only touch memory that is still there, and  *)
(* nothing is freed twice or with buffer->transaction set, however the     *)
(* death of the process, the driver's own frees and the worker interleave: *)
(* what a sender, a list or a work item refers to is live.  (tmp_ref++ and *)
(* list_del_init under the locks, buffer->transaction = NULL before        *)
(* queue_work, the order of rkx_free_txn_func.)                            *)
MemorySafe ==
  /\ procMem # "corrupt"
  /\ \A t \in Txn : txnMem[t] # "corrupt" /\ bufMem[t] # "corrupt"
  /\ \A t \in Held \cup Queued : txnMem[t] = "live" /\ bufMem[t] = "attached"
  /\ \A t \in taken : txnMem[t] = "live" /\ bufMem[t] \in {"attached", "freed"}
  /\ \A s \in Sender : pc[s] = "detached" =>
       txnMem[t_outdated[s]] = "live" /\ bufMem[t_outdated[s]] = "attached"
  /\ \A i \in 1 .. Len(wq) :
       /\ i > 1 \/ worker = "release" => bufMem[wq[i]] = "detached"
       /\ i > 1 \/ worker # "dec" => txnMem[wq[i]] = "live"
  /\ wq # <<>> \/ (\E s \in Sender : pc[s] # "idle") => procMem = "live"

(* outstanding_txns, on which BINDER_FREEZE waits, is the number of queued *)
(* and of read but unanswered transactions after every unlink by the       *)
(* probe: the driver counts down when it frees, the probe when it unlinks. *)
OutstandingExact == outstanding_txns = Cardinality(Queued \cup taken)

\* Oneway calls that only their data tells apart, none with objects in it.
SameCall(t1, t2) ==
  /\ OneWay(t1) /\ OneWay(t2) /\ ~Attr[t1].offsets /\ ~Attr[t2].offsets
  /\ Attr[t1].code = Attr[t2].code /\ Attr[t1].flags = Attr[t2].flags
  /\ Attr[t1].pid = Attr[t2].pid /\ Attr[t1].node = Attr[t2].node

(* The probe never drops the last word: for every transaction it drops,    *)
(* an equivalent one that it has not dropped is on its way to the process, *)
(* queued for it or already read, unless the process is dead.  When no     *)
(* rule says BY_CODE the survivor carries the same data, too.              *)
LatestSurvives ==
  is_dead \/ \A t \in dropped : \E u \in (Held \cup Queued \cup read) \ dropped :
    /\ SameCall(t, u)
    /\ BY_CODE \notin Strategy => Attr[t].data = Attr[u].data

(* A live process loses nothing else: a freed oneway transaction has been  *)
(* read or superseded, and never both (a superseded one is not delivered). *)
NoSilentLoss ==
  /\ dropped \cap read = {}
  /\ is_dead \/ \A t \in Txn : OneWay(t) /\ txnMem[t] = "freed" => t \in read \cup dropped

(* A sweep unlinks only one transaction, yet the equivalents of a call     *)
(* that wait for a frozen process never outnumber the senders plus the     *)
(* calls that ever reached the driver without a complete BY_CODE sweep.    *)
BacklogBound ==
  \A n \in Node : \A t \in Range(async_todo[n]) :
    LET AlikeIn(S) == {u \in S : SameCall(u, t)}
        sent == {u \in Txn : txnMem[u] # "none"} \ Held
    IN  Cardinality(AlikeIn(Range(async_todo[n])))
          <= Cardinality(Sender) + Cardinality(AlikeIn(sent \ swept))

(* rkx_free_wq exists as long as a probe may queue work or work is queued: *)
(* unregister_kprobe, then flush_workqueue, then destroy_workqueue.        *)
WqOutlivesWork == wq # <<>> \/ (\E s \in Sender : InProbe(s)) => mod # "absent"

(* binder_free_proc() runs once, when no transaction to the process is     *)
(* left that a sender, a list or a work item would have to free.           *)
FreedOnceAndClean ==
  [][procMem' # procMem => /\ procMem = "live"
                           /\ \A t \in Txn : txnMem[t] # "live"]_vars

\* A process that dies is freed, whatever the probe has pinned.
DeadProcessFreed == is_dead ~> procMem = "freed"

\* Whatever the probe unlinks is freed.
DroppedFreed == \A t \in Txn : t \in dropped ~> txnMem[t] = "freed" /\ bufMem[t] = "freed"

\* rkx_unregister_binder_kp returns, however many works are still queued.
UnregisterReturns == mod = "disarming" ~> mod = "absent"
=============================================================================
