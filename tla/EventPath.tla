----------------------------- MODULE EventPath -----------------------------
(***************************************************************************)
(* The way of an event: a vendor hook (rkx_binder.c, rkx_signal.c) asks    *)
(* whether the target of a call is frozen (rkx_frozen.c), rkx_send_message *)
(* (rkx_genl.c) encodes what it saw, and the client decodes it and calls   *)
(* back (rkx_jni.cpp, rkx_nla.h).  Meanwhile processes are frozen, thawed, *)
(* exit and are reaped, and their pids are given to others.                *)
(*                                                                         *)
(* A name is a pair: the text it is a prefix of and how many characters of *)
(* it there are.  The headers rkx.h and rkx_uapi.h, which the two sides    *)
(* include, are both here.                                                 *)
(***************************************************************************)
EXTENDS Integers, Sequences, FiniteSets, FiniteSetsExt

CONSTANTS
  Task, uid,  \* process leaders, and task_uid of each
  Pid,
  Freezers,   \* per task: which of "cgroup" and "pm" may freeze it
  Cpu,
  Calls,      \* what the hooks are called for, see below
  Room,       \* room for events in the socket's receive buffer
  NONE

(* A call is made by the process from on the process to (the target, the   *)
(* owner of the buffer space, the receiver of the signal).  A oneway call  *)
(* carries an interface token of so many characters in so many bytes.      *)
ASSUME CallAssumption ==
  \A k \in Calls :
    \/ k.hook = "network" /\ {k.proto, k.target_uid, k.data_len} \subseteq Nat
    \/ /\ {k.from, k.to} \subseteq Task
       /\ \/ k.hook = "signal" /\ k.sig \in Nat
          \/ k.hook = "reply"
          \/ k.hook = "trans" /\ k.oneway \in {0, 1} /\ {k.code, k.token, k.data_size} \subseteq Nat
          \/ k.hook = "alloc_buf" /\ k.oneway \in {0, 1} /\ {k.size, k.space} \subseteq Nat
ASSUME TaskAssumption == /\ uid \in [Task -> Nat] /\ NONE \notin Task /\ Room \in Nat \ {0}
                         /\ Freezers \in [Task -> SUBSET {"cgroup", "pm"}]

VARIABLES
  life,       \* per task: unborn, running, zombie, reaped or freed
  pid,        \* per task: its pid, kept by what remembers it
  bits,       \* per task: its freezer bits
  grace,      \* per reaped task: the CPUs its release waits for
  at, call, task, \* per CPU: place in the hook, the call, the task looked at
  outcome,    \* per CPU: what became of the event
  since,      \* history, per CPU: the freeze requests that stand since it came in
  touched,    \* history, per CPU: tasks with a freezer bit since it came in
  joined, queue, overrun, \* the client's socket
  heard       \* the callback that is running: its arguments

taskVars == <<life, pid, bits, grace>>
hookVars == <<at, call, task, outcome>>
histVars == <<since, touched>>
sockVars == <<joined, queue, overrun, heard>>
vars == <<taskVars, hookVars, histVars, sockVars>>

Goto(c, l) == at' = [at EXCEPT ![c] = l]
InHook(c) == at[c] # "idle"
Caller(c) == IF InHook(c) /\ call[c].hook # "network" THEN call[c].from ELSE NONE
Hashed(t) == life[t] \in {"running", "zombie"}

-----------------------------------------------------------------------------
(* The protocol, as rkx.h and as rkx_uapi.h number it. *)

rkx_genl_attr ==
  [EVENT |-> 1,
   BINDER |-> 10, BINDER_TYPE |-> 11, BINDER_ONEWAY |-> 12, BINDER_FROM_PID |-> 13,
   BINDER_FROM_UID |-> 14, BINDER_TARGET_PID |-> 15, BINDER_TARGET_UID |-> 16,
   BINDER_CODE |-> 17, BINDER_RPC_NAME |-> 18,
   SIGNAL |-> 20, SIGNAL_SIGNAL |-> 21, SIGNAL_KILLER_PID |-> 22, SIGNAL_KILLER_UID |-> 23,
   SIGNAL_DST_PID |-> 24, SIGNAL_DST_UID |-> 25,
   NETWORK |-> 30, NETWORK_PROTO |-> 31, NETWORK_TARGET_UID |-> 32, NETWORK_DATA_LEN |-> 33,
   MAX |-> 49]

uapi_attr ==
  [EVENT |-> 1,
   BINDER |-> 10, BINDER_TYPE |-> 11, BINDER_ONEWAY |-> 12, BINDER_FROM_PID |-> 13,
   BINDER_FROM_UID |-> 14, BINDER_TARGET_PID |-> 15, BINDER_TARGET_UID |-> 16,
   BINDER_CODE |-> 17, BINDER_RPC_NAME |-> 18,
   SIGNAL |-> 20, SIGNAL_SIGNAL |-> 21, SIGNAL_KILLER_PID |-> 22, SIGNAL_KILLER_UID |-> 23,
   SIGNAL_DST_PID |-> 24, SIGNAL_DST_UID |-> 25,
   NETWORK |-> 30, NETWORK_PROTO |-> 31, NETWORK_TARGET_UID |-> 32, NETWORK_DATA_LEN |-> 33,
   MAX |-> 49]

RKX_C_EVENT == [kernel |-> 1, client |-> 1]

\* BINDER_TRANSACTION, BINDER_REPLY, BINDER_FREE_BUFFER_FULL.
rkx_binder_type == [trans |-> 1, reply |-> 2, alloc_buf |-> 3]

RKX_MAX_SYSTEM_UID == 2000
RKX_MIN_APP_UID == 10000
RKX_WARN_AHEAD_SPACE == 2 ^ 17
RKX_INTERFACETOKEN_BUFF_SIZE == 140
RKX_PARCEL_OFFSET == 16
RKX_RPC_NAME_LEN == 140

-----------------------------------------------------------------------------
(* The kernel around the module: processes, the two freezers. *)

Fork(t) ==
  /\ life[t] = "unborn"
  /\ \E p \in Pid : /\ \A u \in Task : Hashed(u) => pid[u] # p
                    /\ pid' = [pid EXCEPT ![t] = p]
  /\ life' = [life EXCEPT ![t] = "running"]
  /\ UNCHANGED <<bits, grace, hookVars, histVars, sockVars>>

\* The caller of a hook does not exit inside it.
Exit(t) ==
  /\ life[t] = "running" /\ \A c \in Cpu : Caller(c) # t
  /\ life' = [life EXCEPT ![t] = "zombie"]
  /\ bits' = [bits EXCEPT ![t] = {}]
  /\ since' = [c \in Cpu |-> {r \in since[c] : r[1] # t}]
  /\ UNCHANGED <<pid, grace, hookVars, touched, sockVars>>

\* Faulty: a hook may be preempted, and its task released, between two reads.
NoReader == {}

\* A tracepoint calls its probes with preemption off, which is an RCU reader.
tracepoint_readers == {c \in Cpu : InHook(c)}

\* release_task unhashes the pid and leaves the memory to call_rcu.
Reap(t) ==
  /\ life[t] = "zombie"
  /\ life' = [life EXCEPT ![t] = "reaped"]
  /\ grace' = [grace EXCEPT ![t] = tracepoint_readers]
  /\ UNCHANGED <<pid, bits, hookVars, histVars, sockVars>>

\* binder_proc->tsk and the sender of a signal hold references.
Pinned(t) == \E c \in Cpu : Caller(c) # NONE /\ t \in {call[c].from, call[c].to}

put_task_struct(t) ==
  /\ life[t] = "reaped" /\ grace[t] = {} /\ ~Pinned(t)
  /\ life' = [life EXCEPT ![t] = "freed"]
  /\ UNCHANGED <<pid, bits, grace, hookVars, histVars, sockVars>>

\* The bit that asks a task to freeze, and the one it sets when it has.
Request == [cgroup |-> "trap_freeze", pm |-> "freezing"]
Arrival == [cgroup |-> "cgroup_frozen", pm |-> "frozen_state"]

Freeze(t, f) ==
  /\ life[t] = "running" /\ Request[f] \notin bits[t]
  /\ bits' = [bits EXCEPT ![t] = @ \cup {Request[f]}]
  /\ touched' = [c \in Cpu |-> IF InHook(c) THEN touched[c] \cup {t} ELSE {}]
  /\ UNCHANGED <<life, pid, grace, hookVars, since, sockVars>>

\* A task freezes itself: not in the middle of a call of its own.
Arrive(t, f) ==
  /\ Request[f] \in bits[t] /\ Arrival[f] \notin bits[t]
  /\ \A c \in Cpu : Caller(c) # t
  /\ bits' = [bits EXCEPT ![t] = @ \cup {Arrival[f]}]
  /\ UNCHANGED <<life, pid, grace, hookVars, histVars, sockVars>>

Thaw(t, f) ==
  /\ Request[f] \in bits[t]
  /\ bits' = [bits EXCEPT ![t] = @ \ {Request[f]}]
  /\ since' = [c \in Cpu |-> since[c] \ {<<t, f>>}]
  /\ UNCHANGED <<life, pid, grace, hookVars, touched, sockVars>>

Wake(t, f) ==
  /\ Request[f] \notin bits[t] /\ Arrival[f] \in bits[t]
  /\ bits' = [bits EXCEPT ![t] = @ \ {Arrival[f]}]
  /\ UNCHANGED <<life, pid, grace, hookVars, histVars, sockVars>>

-----------------------------------------------------------------------------
(* The hooks *)

BinderBufferSize == 96  \* sizeof(struct binder_buffer)

Low(k) == k.space < 3 * (k.size + BinderBufferSize) \/ k.space < RKX_WARN_AHEAD_SPACE

\* The conditions of the hooks that are not about freezing.
AllocBufWatched(k) == k.oneway = 1 /\ Low(k)
ReplyWatched(k) == uid[k.to] <= RKX_MAX_SYSTEM_UID /\ pid[k.from] # pid[k.to]
TransWatched(k) == uid[k.to] > RKX_MIN_APP_UID /\ pid[k.from] # pid[k.to]
SignalWatched(k) == k.sig \in {9, 15, 6, 3}

Watched(k) == CASE k.hook = "network"   -> TRUE
                [] k.hook = "signal"    -> SignalWatched(k)
                [] k.hook = "reply"     -> ReplyWatched(k)
                [] k.hook = "trans"     -> TransWatched(k)
                [] k.hook = "alloc_buf" -> AllocBufWatched(k)

\* A target may have died, but its binder_proc still holds its task.
HookEnter(c, k) ==
  /\ ~InHook(c)
  /\ k.hook # "network" => /\ life[k.from] = "running" /\ life[k.to] \notin {"unborn", "freed"}
                           /\ \A f \in {"cgroup", "pm"} : Arrival[f] \notin bits[k.from]
  /\ call' = [call EXCEPT ![c] = k]
  /\ task' = [task EXCEPT ![c] = IF k.hook \in {"alloc_buf", "network"} THEN NONE ELSE k.to]
  /\ Goto(c, CASE ~Watched(k)           -> "return"
               [] k.hook = "network"    -> "send"
               [] k.hook = "alloc_buf"  -> "find"
               [] OTHER                 -> "frozen1")
  /\ since' = [since EXCEPT ![c] = {r \in Task \X {"cgroup", "pm"} : Request[r[2]] \in bits[r[1]]}]
  /\ touched' = [touched EXCEPT ![c] = {t \in Task : bits[t] # {}}]
  /\ UNCHANGED <<taskVars, outcome, sockVars>>

\* alloc->pid is the owner's, whoever has that pid now.
find_task_by_vpid(p) == {t \in Task : Hashed(t) /\ pid[t] = p}

AllocBufFind(c) ==
  LET found == find_task_by_vpid(pid[call[c].to]) IN
  /\ at[c] = "find"
  /\ \/ found = {} /\ Goto(c, "return") /\ UNCHANGED task
     \/ \E t \in found : task' = [task EXCEPT ![c] = t] /\ Goto(c, "frozen1")
  /\ UNCHANGED <<taskVars, call, outcome, histVars, sockVars>>

\* Faulty: a task that was asked to freeze counts only when it has frozen.
ArrivalsOnly == <<"cgroup_frozen", "frozen_state">>

\* What rkx_is_frozen reads, one bit after the other.
rkx_is_frozen == <<"cgroup_frozen", "trap_freeze", "frozen_state", "freezing">>

FrozenAt == <<"frozen1", "frozen2", "frozen3", "frozen4">>

IsAsyncTrans(k) == k.hook = "trans" /\ k.oneway = 1

ReadBit(c, i) ==
  /\ at[c] = FrozenAt[i]
  /\ Goto(c, IF rkx_is_frozen[i] \in bits[task[c]]
             THEN IF IsAsyncTrans(call[c]) THEN "copy" ELSE "send"
             ELSE IF i < Len(rkx_is_frozen) THEN FrozenAt[i + 1] ELSE "return")
  /\ UNCHANGED <<taskVars, call, task, outcome, histVars, sockVars>>

\* rk_copy_from_user; a page that is not there is not waited for.
CopyToken(c) ==
  /\ at[c] = "copy"
  /\ \/ Goto(c, "send") /\ UNCHANGED outcome
     \/ Goto(c, "return") /\ outcome' = [outcome EXCEPT ![c] = "fault"]
  /\ UNCHANGED <<taskVars, call, task, histVars, sockVars>>

Smaller(m, n) == IF m < n THEN m ELSE n

\* The token loop of rkx_binder_trans_vh: the first index at which it stops.
TokenChars(k) ==
  LET size == Smaller(k.data_size, RKX_INTERFACETOKEN_BUFF_SIZE)
      stop == Min({i \in 0 .. RKX_INTERFACETOKEN_BUFF_SIZE :
                     ~(/\ i < RKX_INTERFACETOKEN_BUFF_SIZE
                       /\ RKX_PARCEL_OFFSET + 1 + 2 * i < size
                       /\ i < k.token)})
  IN  IF size <= RKX_PARCEL_OFFSET THEN 0
      ELSE Smaller(stop, RKX_INTERFACETOKEN_BUFF_SIZE - 1)

\* What the free-async probe takes for the name, rkx_parse_interface_token.
rkx_parse_interface_token(k) ==
  LET copy_size == Smaller(k.data_size, RKX_INTERFACETOKEN_BUFF_SIZE)
  IN  IF k.data_size <= RKX_PARCEL_OFFSET THEN 0
      ELSE Min({i \in 0 .. RKX_INTERFACETOKEN_BUFF_SIZE :
                  ~(/\ i + 1 < RKX_INTERFACETOKEN_BUFF_SIZE
                    /\ RKX_PARCEL_OFFSET + 1 + 2 * i < copy_size
                    /\ i < k.token)})

\* The events that the hooks fill in, for call k on task t.
BinderEvent(k, t, type, oneway, code, name) ==
  [BINDER_TYPE |-> rkx_binder_type[type], BINDER_ONEWAY |-> oneway,
   BINDER_FROM_PID |-> pid[k.from], BINDER_FROM_UID |-> uid[k.from],
   BINDER_TARGET_PID |-> pid[t], BINDER_TARGET_UID |-> uid[t],
   BINDER_CODE |-> code, BINDER_RPC_NAME |-> name]
AllocBufEvent(k, t) == BinderEvent(k, t, "alloc_buf", 1, -1, <<"FREE_BUFFER_FULL", 16>>)
ReplyEvent(k, t) == BinderEvent(k, t, "reply", 0, -1, <<"SYNC_BINDER_REPLY", 17>>)
SyncTransEvent(k, t) == BinderEvent(k, t, "trans", 0, -1, <<"SYNC_BINDER", 11>>)
AsyncTransEvent(k, t) == BinderEvent(k, t, "trans", 1, k.code, <<"token", TokenChars(k)>>)

SignalEvent(k, t) ==
  [SIGNAL_SIGNAL |-> k.sig, SIGNAL_KILLER_PID |-> pid[k.from], SIGNAL_KILLER_UID |-> uid[k.from],
   SIGNAL_DST_PID |-> pid[t], SIGNAL_DST_UID |-> uid[t]]

NetworkEvent(k) ==
  [NETWORK_PROTO |-> k.proto, NETWORK_TARGET_UID |-> k.target_uid, NETWORK_DATA_LEN |-> k.data_len]

\* The event of a call and of the task its hook looked at.
Event(k, t) ==
  CASE k.hook = "network"   -> [type |-> "NETWORK", u |-> NetworkEvent(k)]
    [] k.hook = "signal"    -> [type |-> "SIGNAL", u |-> SignalEvent(k, t)]
    [] k.hook = "alloc_buf" -> [type |-> "BINDER", u |-> AllocBufEvent(k, t)]
    [] k.hook = "reply"     -> [type |-> "BINDER", u |-> ReplyEvent(k, t)]
    [] IsAsyncTrans(k)      -> [type |-> "BINDER", u |-> AsyncTransEvent(k, t)]
    [] OTHER                -> [type |-> "BINDER", u |-> SyncTransEvent(k, t)]

-----------------------------------------------------------------------------
(* rkx_send_message *)

NLA_HDRLEN == 4
NLA_ALIGN(n) == 4 * ((n + 3) \div 4)
nla_total_size(n) == NLA_ALIGN(NLA_HDRLEN + n)

\* The order in which the fields of an event are put.
PutOrder ==
  [BINDER  |-> <<"BINDER_TYPE", "BINDER_ONEWAY", "BINDER_FROM_PID", "BINDER_FROM_UID",
                 "BINDER_TARGET_PID", "BINDER_TARGET_UID", "BINDER_CODE", "BINDER_RPC_NAME">>,
   SIGNAL  |-> <<"SIGNAL_SIGNAL", "SIGNAL_KILLER_PID", "SIGNAL_KILLER_UID",
                 "SIGNAL_DST_PID", "SIGNAL_DST_UID">>,
   NETWORK |-> <<"NETWORK_PROTO", "NETWORK_TARGET_UID", "NETWORK_DATA_LEN">>]

\* All fields are numbers of four bytes but the name of a binder event, a
\* string with a NUL.  The attributes are put into two nests.
MessageLen(e) ==
  LET numbers == IF e.type = "BINDER" THEN Len(PutOrder.BINDER) - 1 ELSE Len(PutOrder[e.type])
      name == IF e.type = "BINDER" THEN nla_total_size(e.u.BINDER_RPC_NAME[2] + 1) ELSE 0
  IN  2 * NLA_HDRLEN + nla_total_size(4) * numbers + name

nla_put(f, v) == [type |-> rkx_genl_attr[f], value |-> v]

Encode(e) ==
  LET payload == [i \in DOMAIN PutOrder[e.type] |->
                    nla_put(PutOrder[e.type][i], e.u[PutOrder[e.type][i]])]
  IN  [cmd |-> RKX_C_EVENT.kernel,
       attrs |-> <<nla_put("EVENT", <<nla_put(e.type, payload)>>)>>]

Multicast(m) ==
  IF joined /\ Len(queue) < Room
  THEN queue' = Append(queue, m) /\ UNCHANGED <<joined, overrun, heard>>
  ELSE overrun' = (overrun \/ joined) /\ UNCHANGED <<joined, queue, heard>>

(* What the message is about goes with it, for the properties only.        *)
About(c) == [call |-> call[c], task |-> task[c], frozen |-> task[c] \in touched[c],
             owner |-> call[c].hook # "network" =>
                         task[c] = call[c].to \/ ~Hashed(call[c].to)]

rkx_send_message(c) ==
  LET e == Event(call[c], task[c]) IN
  /\ at[c] = "send"
  /\ \/ /\ outcome' = [outcome EXCEPT ![c] = "no_memory"]
        /\ UNCHANGED sockVars
     \/ IF MessageLen(e) > nla_total_size(256)
        THEN outcome' = [outcome EXCEPT ![c] = "nla_fail"] /\ UNCHANGED sockVars
        ELSE /\ outcome' = [outcome EXCEPT ![c] = "sent"]
             /\ Multicast([msg |-> Encode(e), about |-> About(c)])
  /\ Goto(c, "return")
  /\ UNCHANGED <<taskVars, call, task, histVars>>

HookReturn(c) ==
  /\ at[c] = "return"
  /\ Goto(c, "idle")
  /\ call' = [call EXCEPT ![c] = NONE] /\ task' = [task EXCEPT ![c] = NONE]
  /\ outcome' = [outcome EXCEPT ![c] = NONE]
  /\ since' = [since EXCEPT ![c] = {}] /\ touched' = [touched EXCEPT ![c] = {}]
  /\ grace' = [t \in Task |-> grace[t] \ {c}]
  /\ UNCHANGED <<life, pid, bits, sockVars>>

-----------------------------------------------------------------------------
(* The client: connect and pollEvent as far as events go, handle_event. *)

\* The attributes that were found; of several of a type the last one counts.
rkx_nla_parse(attrs) ==
  [t \in {attrs[i].type : i \in DOMAIN attrs} \cap 1 .. uapi_attr.MAX |->
     attrs[Max({i \in DOMAIN attrs : attrs[i].type = t})].value]

Found(tb, f) == uapi_attr[f] \in DOMAIN tb
Get(tb, f, default) == IF Found(tb, f) THEN tb[uapi_attr[f]] ELSE default
Number(tb, f) == Get(tb, f, -1)

\* The arguments of the callbacks.
handle_binder_event(tb) ==
  LET name == Get(tb, "BINDER_RPC_NAME", <<"", 0>>)
  IN  <<Number(tb, "BINDER_TYPE"), Number(tb, "BINDER_ONEWAY"),
        Number(tb, "BINDER_FROM_UID"), Number(tb, "BINDER_FROM_PID"),
        Number(tb, "BINDER_TARGET_UID"), Number(tb, "BINDER_TARGET_PID"),
        <<name[1], Smaller(name[2], RKX_RPC_NAME_LEN)>>, Number(tb, "BINDER_CODE")>>

\* Faulty: the uid and the pid of the receiver change places.
SignalArgsSwapped(tb) ==
  <<Number(tb, "SIGNAL_SIGNAL"), Number(tb, "SIGNAL_KILLER_UID"), Number(tb, "SIGNAL_KILLER_PID"),
    Number(tb, "SIGNAL_DST_PID"), Number(tb, "SIGNAL_DST_UID")>>

handle_signal_event(tb) ==
  <<Number(tb, "SIGNAL_SIGNAL"), Number(tb, "SIGNAL_KILLER_UID"), Number(tb, "SIGNAL_KILLER_PID"),
    Number(tb, "SIGNAL_DST_UID"), Number(tb, "SIGNAL_DST_PID")>>

handle_network_event(tb) ==
  <<Number(tb, "NETWORK_PROTO"), Number(tb, "NETWORK_TARGET_UID"), Number(tb, "NETWORK_DATA_LEN")>>

\* The callbacks that one message leads to, with their arguments.
handle_event(m) ==
  LET evt == rkx_nla_parse(Get(rkx_nla_parse(m.attrs), "EVENT", <<>>))
      callback(f, handle(_)) ==
        IF Found(evt, f) THEN {<<f, handle(rkx_nla_parse(Get(evt, f, <<>>)))>>} ELSE {}
  IN  IF m.cmd # RKX_C_EVENT.client THEN {}
      ELSE callback("BINDER", handle_binder_event) \cup callback("SIGNAL", handle_signal_event)
             \cup callback("NETWORK", handle_network_event)

PollRecv ==
  /\ heard = NONE
  /\ \/ overrun /\ overrun' = FALSE /\ UNCHANGED <<queue, heard>>
     \/ /\ ~overrun /\ queue # <<>>
        /\ queue' = Tail(queue)
        /\ heard' = [called |-> handle_event(Head(queue).msg), about |-> Head(queue).about]
        /\ UNCHANGED overrun
  /\ UNCHANGED <<taskVars, hookVars, histVars, joined>>

CallbackReturn ==
  /\ heard # NONE /\ heard' = NONE
  /\ UNCHANGED <<taskVars, hookVars, histVars, joined, queue, overrun>>

Join ==
  /\ ~joined /\ joined' = TRUE
  /\ UNCHANGED <<taskVars, hookVars, histVars, queue, overrun, heard>>

Leave ==
  /\ joined /\ heard = NONE
  /\ joined' = FALSE /\ queue' = <<>> /\ overrun' = FALSE
  /\ UNCHANGED <<taskVars, hookVars, histVars, heard>>

-----------------------------------------------------------------------------

\* The processes that calls name are there from the start, but for the unborn.
Init ==
  /\ \E first \in SUBSET Task :
       /\ life = [t \in Task |-> IF t \in first THEN "running" ELSE "unborn"]
       /\ pid \in [Task -> Pid \cup {NONE}]
       /\ \A t \in Task : pid[t] = NONE <=> t \notin first
       /\ \A t, u \in first : t # u => pid[t] # pid[u]
  /\ bits = [t \in Task |-> {}] /\ grace = [t \in Task |-> {}]
  /\ at = [c \in Cpu |-> "idle"] /\ call = [c \in Cpu |-> NONE]
  /\ task = [c \in Cpu |-> NONE] /\ outcome = [c \in Cpu |-> NONE]
  /\ since = [c \in Cpu |-> {}] /\ touched = [c \in Cpu |-> {}]
  /\ joined = FALSE /\ queue = <<>> /\ overrun = FALSE /\ heard = NONE

Processes == \E t \in Task : \/ Fork(t) \/ Exit(t) \/ Reap(t) \/ put_task_struct(t)
                             \/ \E f \in Freezers[t] : \/ Freeze(t, f) \/ Arrive(t, f)
                                                       \/ Thaw(t, f) \/ Wake(t, f)

HookStep(c) == \/ AllocBufFind(c) \/ \E i \in 1 .. 4 : ReadBit(c, i)
               \/ CopyToken(c) \/ rkx_send_message(c) \/ HookReturn(c)

Next == \/ Processes
        \/ \E c \in Cpu : HookStep(c) \/ \E k \in Calls : HookEnter(c, k)
        \/ PollRecv \/ CallbackReturn \/ Join \/ Leave

Spec == Init /\ [][Next]_vars

-----------------------------------------------------------------------------
(* Properties *)

(* A task that a hook looks at is never freed memory: neither the target,  *)
(* whose binder_proc holds it, nor the task that was found by its pid and  *)
(* is used after rcu_read_unlock, which the tracepoint still protects.     *)
TaskLive ==
  \A c \in Cpu : at[c] \notin {"idle", "return"} /\ task[c] # NONE => life[task[c]] # "freed"

\* What the application should hear of call k on task t.
Told(k, t) ==
  LET binder(type, oneway, name, code) ==
        <<"BINDER", <<rkx_binder_type[type], oneway, uid[k.from], pid[k.from], uid[t], pid[t],
                      name, code>> >>
  IN CASE k.hook = "network"   -> <<"NETWORK", <<k.proto, k.target_uid, k.data_len>> >>
       [] k.hook = "signal"    -> <<"SIGNAL", <<k.sig, uid[k.from], pid[k.from], uid[t], pid[t]>> >>
       [] k.hook = "alloc_buf" -> binder("alloc_buf", 1, <<"FREE_BUFFER_FULL", 16>>, -1)
       [] k.hook = "reply"     -> binder("reply", 0, <<"SYNC_BINDER_REPLY", 17>>, -1)
       [] IsAsyncTrans(k)      -> binder("trans", 1, <<"token", rkx_parse_interface_token(k)>>, k.code)
       [] OTHER                -> binder("trans", 0, <<"SYNC_BINDER", 11>>, -1)

(* What the application hears is what happened: one callback per message,  *)
(* with the numbers of the call, about a process that was frozen or being  *)
(* frozen at some moment of the hook, and that owns the full buffer unless *)
(* the owner is gone and its pid was given away.  The name is the one by   *)
(* which the free-async probe will look up the same transaction.           *)
EventTrue ==
  heard # NONE =>
    /\ heard.called = {Told(heard.about.call, heard.about.task)}
    /\ heard.about.call.hook # "network" => heard.about.frozen /\ heard.about.owner

(* No call on a frozen process slips through: if one freezer's request to  *)
(* the target stood all the while, whichever bits change as the hook reads *)
(* them one by one, it sends the event, unless there was no memory for it  *)
(* or no page to read the token from.                                      *)
FrozenReported ==
  \A c \in Cpu :
    at[c] = "return" /\ Watched(call[c])
      /\ (call[c].hook # "network" => \E f \in {"cgroup", "pm"} : <<call[c].to, f>> \in since[c])
    => outcome[c] \in {"sent", "no_memory"} \/ (outcome[c] = "fault" /\ IsAsyncTrans(call[c]))

(* ReKernelXCallback.java: for a transaction rpcName is the interface      *)
(* token name and code the transaction code.                               *)
NamedAsDocumented ==
  heard # NONE /\ heard.about.call.hook = "trans" =>
    \A e \in heard.called : /\ e[2][7] = <<"token", heard.about.call.token>>
                            /\ e[2][8] = heard.about.call.code
=============================================================================
