# ReKernel-X: specifications and proofs

ReKernel-X is an Android kernel module with a client library.  The module
watches frozen applications: it reports binder transactions, signals and
network packets that concern them, and drops one-way binder calls that a newer
call makes obsolete.  This directory holds TLA+ models of the code under
`src/`, the TLC instances that check them and TLAPS proofs that most of their safety
properties hold for instances of any size.  `PROJECT.json` maps every definition
to the lines it models.

## The system

| Part | Code | State | Operations |
|---|---|---|---|
| Free-async cleaner | `rkx_binder_kp.c`, `rkx_frozen.c` | binder's lists and counters, `rkx_free_wq` | kprobe on `binder_proc_transaction`, work items, register, unregister |
| Free-async rules | `rkx_free_async.c`, commands in `rkx_genl.c` | hash table, counter | add, delete, lookup under RCU, destroy, init |
| Network monitor | `rkx_netuid.c`, `rkx_netfilter.c`, commands in `rkx_genl.c` | uid hash table, hooks per net | add, delete, packet hook, register, unregister |
| Event hooks | `rkx_binder.c`, `rkx_signal.c` | registration flags | buffer-full, reply, transaction and signal hooks |
| Load and unload | `rkx.c` and every `rkx_register_*` | what is registered | `rkx_init`, its error path, `rkx_exit` |
| Event transport | `rkx_genl.c`, `rkx_nla.h`, `rkx_uapi.h` | the netlink family | encode, multicast, decode |
| Client | `rkx_jni.cpp`, `ReKernelX.java` | descriptors, family id, callback | connect, pollEvent, disconnect, setCallback, four commands |
| Buffer copy | `rkx_binder_alloc.c` | none | page-wise copy |
| Boot guard, installer | `template/` | marker files | run at boot, at installation |

**How they interact.**  The client's commands change the two tables.  The
packet hook reads the uid table and the kprobe reads the rule table, on any CPU
and under RCU.  All hooks but the kprobe multicast events, which `pollEvent`
receives.  Loading registers the hooks one by one, and any of these calls may
fail; unloading must take the hooks away before the tables and the family.

**What is hard.**  The kprobe edits lists of a driver it is not part of, between
threads that send, a process that may be thawed or die at any moment, and a
worker that frees later.  Table walks run beside deletions.  Hooks run on other
CPUs while the module goes away.  The client shares descriptors, whose numbers
the kernel reuses, between threads without a lock.  A hook reads the bits of two
freezers one by one while they change, and finds tasks by pids that are used
again.  A command is answered by the kernel and nobody reads the answer.  The `hazards` of
`PROJECT.json` list these places line by line, with the properties that watch
them or the reason why none does yet.

## Modules

`RuleTable` is an abstract specification, and `ModuleLifecycle` is one for
`BootGuard`.  A module `MC…` instantiates the
module of the same name for TLC, and a `.cfg` is named after the module it is
for and the question it asks.

Definitions marked `Faulty` are variants of the definition that follows them,
with one plausible mistake.  Nothing uses them: putting one in place of its
original shows that a property notices the mistake.

### BinderKp: the free-async cleaner

One target `binder_proc` with its nodes, the threads that send to it
(`Sender`), the workqueue and the registration of the probe.  The binder driver
is not in this repository.  It is modelled from the fields and functions that
the probe shares with it: `binder_transaction` up to the probed call, the call,
reading, `BC_FREE_BUFFER`, freezing and `binder_deferred_release`.  Reading and
the release take a transaction off its list in one step and free it in a later
one (`taken` has those in between): a one-way call is freed by the thread that
read it, another one with its reply, and `BC_FREE_BUFFER` may come before that.
`outstanding_txns` is lowered where a transaction is freed, in the driver, and
where it is unlinked, in the probe.

| Model | Code |
|---|---|
| `PreChooseStrategy` | the early returns of the pre-handler, `rkx_is_frozen`, rule lookup |
| `PreLockNode`, `PreFindOutdated` | the node lock, then the section under both locks |
| `PreQueueFree` | what follows the unlocks: cut the buffer off, `queue_work` |
| `FreeTxn…` | `rkx_free_txn_func` in three steps |
| `Register…`, `Unregister…` | `rkx_register_binder_kp`, `rkx_unregister_binder_kp` |

Critical sections of the inner lock are one step, since everything that uses
the lists takes it.  The node lock is held over two steps, so it is a variable.
A rule lookup yields any member of `Strategy`: the table is changed at any time.
A bad free is not forbidden by a guard but leaves memory `corrupt`, which the
properties exclude.  Payloads are values; the interface token is not parsed.

### FreeAsyncRules and RuleTable: the rules

Buckets are linked lists.  A lookup follows one pointer or reads one entry per
step, and a command takes several steps under the mutex (its atomic counter
changes in a step of its own).  A deleted entry stays
readable for the readers that were inside RCU when it was given to `kfree_rcu`.
`rcu_barrier` at the end of the destruction waits for callbacks of `call_rcu`
only; where the kernel gathers memory for `kfree_rcu`, entries may be given back
after it has returned, so the model lets them.
`RuleTable` says what is promised: a map whose keys change one at a time, and
lookups that answer from the exact or the wildcard rule as each was at some
moment of the lookup.  `RefinesTable` shows the lists implement it.  The history
variable `seen` carries the refinement.

### NetMonitor: the network monitor

The same kind of list, with the netfilter hook as its reader.  A command is one
step: it holds the mutex and publishes one pointer.  A packet is a record of the
header fields the hook reads, with the payload it really carries, so that the
arithmetic of both parsers is checked.  A packet may be cut short of its headers,
and for any packet there may be no memory to pull them together (`pskb_may_pull`)
or for the message; the hook then returns without an event.  A packet without a
full socket is one of uid 0.

### ModuleLifecycle: loading and unloading

`rkx_init` with a possible failure at each registration (and between network
namespaces), its error path, and `rkx_exit`, beside hooks that run on each CPU.
Unregistering a vendor or netfilter hook does not wait for running calls;
`tracepoint_synchronize_unregister` does.  `unregister_kprobe` and
`genl_unregister_family` wait for theirs.  The set of namespaces is constant.
`Restart` is the machine going down; only `BootGuard` takes it.

### BootGuard: the boot script around the module

`template/post-fs-data.sh` command by command, with `insmod` being `rkx_init` of
`ModuleLifecycle`, which this module extends and implements.  The files are kept
twice, as the script sees them and as they are on disk: the script does not
sync, `Sync` is the kernel writing back at some time.  `GoDown` is a crash or a
reboot at any moment, and loses what is not on disk.

| Model | Code |
|---|---|
| `Boot` | the manager skips a module with a `disable` file |
| `TestMarker`, `TouchBoot`, `TouchDisable`, `RmBoot` | the test and the file commands |
| `InsmodRefused`, `Insmod`, `InsmodReturns` | one `insmod` per module file until one succeeds |

### EventPath: from a hook to the Java callback

A CPU runs one of the five hooks for a call of a process on a process.  The hook
looks the target up, reads its freezer bits one by one (`rkx_is_frozen`), fills
an event in and multicasts it; the client decodes it and calls back.  Meanwhile
freezers freeze and thaw, processes exit, are reaped and freed, and pids are
given to others.  A name is a text and a number of characters, so cutting it is
visible.  Attributes are nested as `rkx_send_message` nests them and are read by
the client's own numbering (`rkx_uapi.h`), their values are not bytes.  The
vendor hooks call out from a tracepoint, hence under RCU: a task that was reaped
is freed only when the hooks that were running have returned.

### CommandPath: from the Java call to the tables

The four commands of `rkx_jni.cpp`: the checks of the arguments, `NlaBuilder`
with its `uint16_t` lengths, `sendto`, the family id, the attribute policy and
the handlers of `rkx_genl.c`.  A name is its length, so a cut name is a shorter
one without its NUL.  A thread whose builder has written past its buffer is in
the place `undefined` and takes no further step.  Other threads connect and
disconnect, and the module is unloaded and loaded under a new family id.

### BufferCopy: comparing two transactions

`rkx_binder_buffer_data_equal` on kernels before 6.0, where the module copies
with its own `rk_binder_alloc_copy_from_buffer`: chunk by chunk, page by page,
reading binder's list of buffers without its lock.  The list is in the order of
addresses, so the model has a buffer per address and no links.  The driver allocates, splits, frees and merges buffers and the
shrinker takes pages meanwhile.  `rk_binder_alloc_buffer_size` reads the list
twice, first whether the buffer is the last one and then the one behind it, and
the driver may change the list in between.

### ReKernelXClient: the client

Application threads call connect, disconnect, commands and `setCallback` while
one thread runs `pollEvent`.  Loads and stores of the atomics are single steps.
Descriptors get the lowest free number, and other code opens and closes files
too.  An event that finds the receive buffer full makes the next `recv` fail.
What is in an event or a command is the matter of `EventPath` and `CommandPath`.

## What TLC checks

| Run (`.cfg`) | Instance | Shows |
|---|---|---|
| `BinderKp` | 4 calls (2 alike, one with a reply and objects, one of other data), 2 senders, `SKIP` and `BY_DATA`, `kzalloc` may fail | memory safety, exact `outstanding_txns`, the latest of equal calls survives, no other call is lost, the workqueue outlives its work, the process is freed once |
| `BinderKpLive` | 3 equal calls, 1 sender, `BY_CODE`, `kzalloc` may fail | a dead process and every dropped call are freed; unregistering returns; a bound on the obsolete calls that pile up |
| `FreeAsyncRules` | 2 tokens in one bucket, exact and wildcard rules, 2 strategies, 2 entries, 1 walk | refinement of `RuleTable`, no use after free, intact lists, exact counter, nothing linked after destruction; lookups end, and the memory of deleted rules comes back |
| `BootGuard` | 2 CPUs, 2 namespaces, 2 module files | nothing stays registered; tables and family outlive their users; unloading ends; a module that crashes the boot is inserted no second time; a good one is not disabled |
| `NetMonitor` | 2 uids in one bucket, 2 entries, 2 CPUs, seven kinds of packet | safe walks, intact table, justified events with the right length, no segment missed, entries are reclaimed |
| `ReKernelXClient` | 2 threads and the poller, 3 descriptors, queue of 1, 1 callback | descriptors are open on what they are used for, none leaks; exact JNI references, family known while events are handled, a disconnect ends `pollEvent` whatever the event rate |
| `EventPath` | 3 processes, 2 pids, 1 CPU, eight calls over all five hooks | a task a hook looks at is not freed; the callback gets what happened; no call on a frozen process is missed |
| `CommandPath` | 2 threads, names at every limit, 2 loads of the module | what a command's result means; a table changes only as asked; the builder stays in its buffer |
| `BufferCopy` | 4 pages of 4 bytes, chunks of 4, texts of 0 and 5 bytes | the comparison is exact; no page that is gone is read |
| `ReKernelXClientReconnect`, `NetMonitorReadme`, `EventPathDoc` | as above, smaller | a document and the code disagree, see below |

Deadlock is checked in every run.

**Bounds.**  Two senders suffice for two probes that compete for one node, and
three equal calls for one that is dropped, one that drops it and one that drops
that in turn.  Each transaction is sent at most once, so `Txn` bounds a
behaviour's calls.  Two entries in one bucket let a walk stand on one that is
deleted and reclaimed while the other is added behind or before it; a longer
chain of deleted entries is the matter of the proof `WalksAreSafe`, which has no
bound.  `MaxQueue` and `Room` bound the receive buffer, which overflows in the
runs.  `MaxFd` leaves room for a connection (socket and eventfd) and a foreign
file or a command's socket.  Two pids for three processes force a pid to be
given away.  `MaxLoads` of 2 gives a client a stale family id.  The lengths in
`MCCommandPath` are the ones on both sides of each limit in the code: 139/140
bytes (kernel), 215/216 (client buffer), 65527/65535 (`uint16_t`).  In
`MCBufferCopy` a chunk may straddle two pages, the data take two chunks, and
there is room for a third buffer in front, between or behind.  Symmetry is used
only in runs without liveness.

**Fairness.**  Weak fairness is assumed for what the kernel runs to its end once
started: a thread inside the driver or a hook, the workqueue, a started loading
or unloading while the machine is up, a due RCU callback.  Nobody is obliged to
send, read, thaw, call, unload or reboot.  In the client, `pollEvent` gets strong
fairness for the mutex (other threads may take it between its attempts) and for
`poll` (signals do not interrupt every one).  `EventPath`, `CommandPath` and
`BufferCopy` are checked for safety only: their loops are bounded by the data,
and delivery is not promised (a full receive buffer drops events).

### What the runs say about limits of the code

Some properties hold only with a condition, and the condition is in the property:

* A command that returns true was *sent*.  `ResultMeans` says it is in force if
  the name has 1 to 139 bytes and the strategy is valid.  Names of 140 to 215
  bytes, unknown strategies and a family id from before a reload also give true,
  without effect; the kernel's refusal is not read.  The strategy is cut to eight
  bits on the way, so 257 is strategy 1 (`ChangedAsAsked`).
* `NlaBuilder::put` computes an attribute's length in 16 bits.  `WrittenInside`
  excludes names of 65528 to 65534 bytes (modulo 65536): with the header added
  and the sum rounded up the length wraps, and the check of the room is about
  less than is written.  What the code does after such a write is undefined: the
  thread goes no further in the model, and no run gives it such a name.
* `NothingMissed` is about packets that are as long as their headers, and allows
  the hook to lose one for lack of memory.
* A uid is added or not, for lack of memory, with the same result
  (`rkx_netuid.c`); `ResultMeans` names this exception.
* Interface tokens are cut at 62 characters, by the hook and by the probe alike,
  so a rule added under the reported name matches (`EventTrue`).
* `NoBootLoop` needs the marker on disk: the script does not sync.  A module that
  crashes the machine after the script has ended is not guarded against.

### Where documents and code disagree

* `ReKernelXClientReconnect`, `BlocksUntilDisconnect`: after `disconnect` and
  before `pollEvent` has noticed, `connect` answers true for the connection that
  is about to end.  The next `pollEvent` returns at once, while
  `Develop/README.md` says it blocks until disconnect.
* `NetMonitorReadme`, `MonitoredReported`: the README promises an event for an
  inbound packet of a monitored uid.  The hook ignores uids below 10000 (the
  example in `Develop/README.md` monitors 1000), packets other than TCP, and
  segments with neither data nor SYN, FIN or RST.
* `EventPathDoc`, `NamedAsDocumented`: `ReKernelXCallback.java` calls `rpcName`
  the interface token name.  Of a token of more than 62 characters the callback
  gets the first 62, and for a synchronous call a constant.

## What is proved

Every safety property of the passing runs, for all values of the constants that
satisfy the `ASSUME`s of the module.  These say what kind of thing a constant is
(a hash is a function from names to buckets, a packet has the fields the hook
reads), that model values like `NULL` are not mistaken for others, that pages and
chunks are whole words, and, where something is counted, that `Txn`, `Sender`,
`Entry` or `Thread` is finite.

A property is proved from an inductive invariant: the initial states satisfy it,
every step keeps it, and the property follows from it.  Each invariant was checked
by TLC on the run's instance before its proof.

### The cleaner

`BinderKpTheorems`, for any nodes, attributes and strategies and finitely many
transactions and senders.

| Theorem | Statement |
|---|---|
| `ControlCorrect` | `Spec => []Inv0` |
| `WqOutlives` | `Spec => []WqOutlivesWork` |
| `OneOwner` | `Spec => [](Own /\ Apart)` |
| `NothingLostSilently` | `Spec => []NoSilentLoss` |
| `LastWordKept` | `Spec => []LatestSurvives` |
| `Inductive` | `Spec => []Inv` |
| `MemorySafety` | `Spec => []MemorySafe` |
| `FreedOnce` | `Spec => FreedOnceAndClean` |
| `OutstandingCorrect` | `Spec => []OutstandingExact` |
| `TypeCorrect` | `Spec => []TypeOK`: both counters stay natural numbers, too |
| `BacklogBounded` | `Spec => []BacklogBound` |

**Memory.**  `MemorySafe` is not inductive: it does not say why a work item's
process is still there.  `Inv` is built in four layers, each proved with the help
of the ones before it.

1. `Inv0`: types, and which locals a sender has at which place.  A probe runs
   only while it is registered, and queued work implies a workqueue.
2. `Own`: no list has an entry twice, and a transaction is with one sender, in
   one list, with one probe, in the workqueue, or read.  This is what the locks
   around `list_del_init` give.  `Apart`: what is taken off a list to be freed is
   in no list and with no sender, and no probe has dropped it.
3. `RefsExact`: `tmp_ref` is the number of senders inside the driver, probes that
   have unlinked something, queued work items and the pin of the release.
4. `Mem`: what an owner has is live and attached; what is in the workqueue is cut
   apart and as far as the worker has come; nothing live is without an owner;
   nothing is corrupt.

The step that frees the process needs all four.  By `RefsExact` a `tmp_ref` of 1
means whoever gives it back is alone (`LastReference`), so by `Mem` no owned
buffer is left for `binder_free_proc` to find attached.

`OutstandingCorrect` follows the cardinality of `Queued \cup taken`: by `Own` and
`Apart` what is linked was in neither before, what is read or released only moves
from the one to the other, and what is freed or unlinked by the probe leaves the
union, so each step changes it by the transactions that it counts.

**Losses.**  `NoSilentLoss` is inductive with `Inv0` and `Own`: a transaction is
freed by its reader, by the worker that got it from a probe, by its sender when
it is not delivered, or by the release (`WhoFreesTxn`).  For `LatestSurvives` the
call that superseded a dropped one may itself be dropped by a third.  `Superseded`
says that among the equivalents of a dropped call one is still carried, by a
sender on its way to the lists, by a list, or by the reader; equivalence is
transitive, so whoever drops that one takes its place.

**Backlog.**  A probe unlinks one call at most, while several senders may link
theirs in between, so the number that waits is not bounded by 1.  `Bound(t)`
counts those that wait together with the sweeps whose own call has not arrived
(`Arriving`): each such sweep leaves room for one, and there are no more of them
than senders.  The step that sweeps needs that the walk of the list finds an
equivalent whenever one waits (`WalkFinds`), and that nothing waits at a node
without a pending one-way call (`AsyncMarked`).

### Loading, unloading and booting

For any `Cpu` and `Net`, and any positive number of `Files`
(`LifecycleTheorems`).

| Theorem | Statement |
|---|---|
| `LifecycleInvariant` | `Spec => []IInv` |
| `NothingStays` | `Spec => []NothingLeftBehind` |
| `TablesOutlive` | `Spec => []TablesOutliveUsers` |
| `FamilyOutlives` | `Spec => []FamilyOutlivesSenders` |
| `ScriptRunsModule` | `BootSpec => Spec`: the script implements `ModuleLifecycle` |
| `ModuleSafeOverBoots` | the three properties over any sequence of boots |
| `BootLoopBroken` | `BootSpec => []NoBootLoop` |
| `GoodModuleKept` | `BootSpec => []GoodModuleStays` |

**The argument.**  None of the properties is inductive: they do not say which
hooks may still be registered at which step of the unwinding, nor which calls
may still run although their hook is gone.  `IInv` says both.  `Flagged` and
`Passed`: what is registered is flagged, and what the unwinding has passed is
not.  `Running`: a call is that of a registered hook, or the unwinding has yet to
come to what waits for it.  `TablesUp`, `FamilyUp` and `Senders` say how long the
tables and the family stay.  With them, past `tracepoint_synchronize_unregister`
no CPU is in a vendor or netfilter hook (`Drained`), so the family and the tables
can go.  For the script, `Guarded`: after a boot that was cut off with the marker
on disk the marker is still there until the script has taken the disabling branch.
`Undisturbed`: as long as all boots end in order, the marker is there only while
the script inserts.

### The rule table

`RulesTheorems`, for any interfaces, hash function, strategies and readers, and
any finite set of entries.

| Theorem | Statement |
|---|---|
| `WalksAreSafe` | `Spec => []NoUseAfterFree` |
| `RulesInvariant` | `Spec => []CInv` |
| `RulesListsIntact` | `Spec => []ListsIntact` |
| `RulesRefineTable` | `Spec => RefinesTable`: the lists implement `RuleTable` |

**Walks.**  A walk may stand on an entry that was deleted long ago, whose
pointer leads to one deleted later.  `Kept(r, e)` says that `e` is not freed
before reader `r` has left: it is linked, or unlinked and not yet given to
`kfree_rcu`, or a zombie whose grace period waits for `r`.  `Walks` says that the
set of kept entries is closed under `next` for every reader inside RCU.  The
rest is why it stays so: `Lists` (a pointer of a list leads to a linked entry and
every linked entry has one predecessor), `Pending` (at most one entry is between
`hash_del_rcu` and `kfree_rcu`, and it leads to no zombie) and `Graces` (a grace
period waits only for readers inside RCU).  A new reader is not waited for by
any zombie, but nothing it can reach leads to one.

**Refinement.**  `Reach(p)`, the nodes that pointers lead to from `p`, is the
least set closed under `next`, so what a change of one pointer does to it can be
proved without induction over the list (`ReachAdd`, `ReachDel`, `ReachFrame`).
`TInv` adds to the invariant of the walks what a lookup knows.  `Rules`: the list
of a bucket reaches all its linked entries, with one rule per key.  `Shown`: the
history `seen` has every value the two keys of a running lookup had.  `Met`: what
the walk can still come to has been such a value.  `Ahead`: a rule that was there
all the time is ahead of the walk, or was taken as the wildcard.  So at the end
of a list a lookup without the exact rule is entitled to answer with what it has.
The short cut through the counter needs `Counted`: by how much
`rkx_free_async_count` is off while a command is between its steps.

### The network monitor

`NetTheorems`, for any uids, packets, buckets, hash, entries and CPUs.

| Theorem | Statement |
|---|---|
| `NetInvariant` | `Spec => []NInv` |
| `NetWalksSafe` | `Spec => []WalkSafe` |
| `NetTableIntact` | `Spec => []TableIntact` |
| `NetEventsJustified` | `Spec => []EventsJustified` |
| `NetNothingMissed` | `Spec => []NothingMissed` |

**The argument** has the parts of the rule table's: `Walks` keeps what a hook may
reach, `Reached` and `Lists` relate the lists to the uids, `Ahead` says that the
entry of a uid that stayed monitored is ahead of the hook's walk, and `Seen` that
an entry the walk can meet was monitored while the packet was there.  `Phases`
says that hooks run only until the unregistration has waited for them, and
`Returned` what a hook has done when it returns.

### The client

`ClientTheorems`, for any callbacks and number of descriptors and any finite set
of threads.

| Theorem | Statement |
|---|---|
| `ClientInvariant` | `Spec => []CInv` |
| `ClientFamilyKnown` | `Spec => []FamilyKnown` |
| `ClientDescriptorsLive` | `Spec => []DescriptorsLive` |
| `ClientNoDescriptorLeak` | `Spec => []NoDescriptorLeak` |
| `ClientReferencesExact` | `Spec => []ReferencesExact` |

**The argument.**  `pollEvent` uses descriptors it has read without the mutex.
The invariant says who owns each open file at every place of every call
(`Owned`, `Locals`, `Published`) and that what `pollEvent` holds is what is
published (`Polled`): only `pollEvent` takes a connection down, so nobody closes
its descriptors behind its back.  The references to a callback are counted like
`tmp_ref`: as the cardinality of the set of those who hold one.

### The commands

`CommandTheorems`, for any threads, uids, names of any length, codes, strategies
and number of loads.

| Theorem | Statement |
|---|---|
| `CommandInvariant` | `Spec => []CmdInv` |
| `BuilderInside` | `Spec => []WrittenInside` |
| `CommandResults` | `Spec => []ResultMeans` |
| `TablesAsAsked` | `Spec => ChangedAsAsked` |

**The argument.**  `PutFacts` is about one `put`: it fails, or it appends one
attribute and, if the rounded length is one of 16 bits, stays in the buffer.
`UidMessage` and `RuleMessage` put the calls together, and `UidRead` and `RuleRead`
say what the policy and the handlers then find: a message that passes the policy
holds the whole name.  `Course` ties a thread's message and outcome to its
command.  `Families` says that ids only grow, hence a family that was not found
does not come back (`Gone`).  `RuleKeys`, that no rule has a key the handlers
refuse, is why `rkx_genl_del_free_async` may remove an invalid key in the model:
there is none to remove.

### The events

`EventTheorems`, for any processes, pids, CPUs, calls and room in the socket.

| Theorem | Statement |
|---|---|
| `EventInvariant` | `Spec => []EInv` |
| `HookTaskLive` | `Spec => []TaskLive` |
| `EventsTrue` | `Spec => []EventTrue` |
| `FrozenCallsReported` | `Spec => []FrozenReported` |

**The hooks.**  `EInv` says of every CPU what its hook has found out so far.
`Held` and `Looked`: the task it looks at is the target of the call, which
binder_proc holds, or was found by the target's pid after the target had gone;
then it is hashed, or reaped with a grace period that waits for this CPU
(`TaskLive`).  `Stands`: a freezer whose request is in the history `since` still
requests.  Only the living have bits (`Bits`) and no two of them share a pid
(`Pids`), so looking up the pid of such a target finds it and nobody else.
`Unread`: once the bits of the cgroup freezer are read without success, its
request does not stand.  `Reported` draws the conclusion when the hook returns.
`Touched`: what a read finds set was set at some moment of the hook.

**The messages.**  `Messages` says of every queued message that decoding it would
tell the application what happened.  That stays so while it waits: a process
keeps its pid from birth on (`SaidStays`).  What the client reads is then a matter
of the operators.  The two loops over the token stop at the same character
(`TokenSame`); a table of `rkx_nla_parse` has each attribute under the client's
number (`Numbering`, `RowRead`); every event is short enough for the buffer
(`LengthFits`); and the callback's arguments are the fields in the callback's order
(`BinderRead`, `SignalRead`, `NetworkRead`, `EventTold`).  The decoder picks an
attribute by its index, not by recursion, so no induction is needed.

### The comparison

`CopyTheorems`, for any data and any size of the mapping, the pages, the chunks and
the words, as long as a mapping is whole pages and a page or chunk whole words.

| Theorem | Statement |
|---|---|
| `CopyInvariant` | `Spec => []CInv` |
| `ComparesExactly` | `Spec => []CompareExact` |
| `ReadsBackedPages` | `Spec => []ReadsBacked` |

**The allocator.**  `Layout`: every buffer has an end, the start of the nearest one
behind it or the end of the mapping, and a buffer in use ends after the room its
text takes.  So allocating, freeing and merging other buffers leaves the end of a
buffer in use where it is (`EndAdd`, `EndRemove`, `EndsDiffer`, `AllocLayout`,
`FreeLayout`).  `Contents` and `Backed`: its bytes and its pages stay too.

**The comparison.**  `Sized`: a buffer that had another one behind it keeps one, so
the second read of the list never meets the list head, and the size that comes out
is the buffer's.  Hence `rk_check_buffer` refuses nothing (`CheckKeeps`), which
also takes `pos` to be a whole number of words (`Progress`, `WordsAdd`).  `Copies`:
what has been copied is what the buffer holds from `pos` on, byte by byte
(`CopyKeeps`).  The chunks before `pos` are equal, so the last `memcmp` decides
about all of the data (`MemcmpKeeps`).  A round stays in one page because it stops
at the page's end (`SamePage`).  The loops need no induction: each round extends
what the invariant says about the rounds before it.

### Only model-checked

* Liveness: the prover has no support for fairness and `ENABLED`.  These are
  `DeadProcessFreed`, `DroppedFreed`, `UnregisterReturns`, `LookupReturns`,
  `RulesReclaimed`, `UnloadEnds`, `DisconnectReturns` and `EntriesReclaimed`.

## What is not modelled

* The installer (`customize.sh`): a straight-line script that picks a file by the
  kernel's version.  Build files and workflows.
* `JNI_OnLoad`, `JNI_OnUnload` (method ids, dropping the callback at the end) and
  `isConnected`, which reads one atomic.
* Network namespaces created after loading, which get no hook, and the netfilter
  core's handling of unregistering a namespace that was never registered.
* The teardown of a socket while the packet hook reads its uid; IPv6 jumbo
  payloads, whose header length is 0.
* Two threads in `pollEvent`: the example in `Develop/README.md` has one.
* Bytes of attributes and of UTF-16 tokens, hashing, logging: no property depends
  on them.  Where versions of the kernel differ the models follow the code from
  6.0 on, but for `BufferCopy`, which is the code for older ones.

## What could come next

Two threads in `pollEvent`, which the code does not exclude.  Namespaces that come and go in `ModuleLifecycle`.
