---------------------------- MODULE CommandPath ----------------------------
(***************************************************************************)
(* The way of a command: addMonitorNet, delMonitorNet, addFreeAsync and    *)
(* delFreeAsync (rkx_jni.cpp) check their arguments, build a message with  *)
(* NlaBuilder (rkx_nla.h) and send it; generic netlink finds the family,   *)
(* checks the attributes against the policy and calls the handler          *)
(* (rkx_genl.c), all before sendto returns.  An answer that refuses the    *)
(* command is never read.  Meanwhile other threads connect and disconnect, *)
(* and the module is unloaded and loaded again under a new family id.      *)
(*                                                                         *)
(* A name is its length in bytes, so names are told apart by length.       *)
(***************************************************************************)
EXTENDS Integers, Sequences

CONSTANTS
  Thread,
  Commands,    \* what the application asks for
  MaxLoads,    \* how often the module is loaded
  NULL

ASSUME CommandAssumption ==
  /\ MaxLoads \in Nat
  /\ \A c \in Commands :
       \/ c.cmd \in {"ADD_MONITOR_NET", "DEL_MONITOR_NET"} /\ c.uid \in Nat
       \/ /\ c.cmd \in {"ADD_FREE_ASYNC", "DEL_FREE_ASYNC"}
          /\ c.name \in Nat \cup {NULL} /\ c.code \in Int
          /\ c.cmd = "ADD_FREE_ASYNC" => c.strategy \in Nat

ASSUME NullAssumption == NULL \notin {"applied", "ENOMEM", "ENOENT", "EINVAL"}

VARIABLES
  family,      \* the id of the registered family, 0 without the module
  loads,       \* how often the module was loaded
  net_uid, free_async,       \* the tables: uids, and strategies by name and code
  g_family_id, g_fd,         \* the client's connection
  at, command, fid,          \* per thread: its place, its command, the family read
  buf,         \* per thread: the message under construction
  done         \* history, per thread: what the kernel made of it

tables == <<net_uid, free_async>>
kernelVars == <<family, loads, tables>>
connVars == <<g_family_id, g_fd>>
threadVars == <<at, command, fid, buf, done>>
vars == <<kernelVars, connVars, threadVars>>

Goto(t, l) == at' = [at EXCEPT ![t] = l]
IsRule(c) == c.cmd \in {"ADD_FREE_ASYNC", "DEL_FREE_ASYNC"}

-----------------------------------------------------------------------------
(* NlaBuilder: lengths are uint16_t, the place in the buffer is a size_t. *)

U16 == 65536
U8  == 256
NLA_HDRLEN == 4
NLA_ALIGN(n) == 4 * ((n + 3) \div 4)

Larger(m, n) == IF m > n THEN m ELSE n
Smaller(m, n) == IF m < n THEN m ELSE n

\* NLMSG_HDRLEN + GENL_HDRLEN; end is how far the buffer has been written.
Builder(cap) == [cap |-> cap, len |-> 20, end |-> 20, ok |-> TRUE, attrs |-> <<>>]

\* Faulty: the room is checked before the header of the attribute counts.
PutUnchecked(b, type, value, datalen) ==
  LET attr_len == (NLA_HDRLEN + datalen) % U16
      aligned  == NLA_ALIGN(attr_len) % U16
  IN  IF ~b.ok \/ b.len + datalen > b.cap THEN [b EXCEPT !.ok = FALSE]
      ELSE [b EXCEPT !.len = @ + aligned, !.end = Larger(@, b.len + NLA_HDRLEN + datalen),
                     !.attrs = Append(@, [type |-> type, value |-> value, len |-> datalen])]

\* A put that does not fit ends the chain of &&.
put(b, type, value, datalen) ==
  LET attr_len == (NLA_HDRLEN + datalen) % U16
      aligned  == NLA_ALIGN(attr_len) % U16
  IN  IF ~b.ok \/ b.len + aligned > b.cap THEN [b EXCEPT !.ok = FALSE]
      ELSE [b EXCEPT !.len = @ + aligned, !.end = Larger(@, b.len + NLA_HDRLEN + datalen),
                     !.attrs = Append(@, [type |-> type, value |-> value, len |-> datalen])]

putU32(b, type, v) == put(b, type, v, 4)
putS32(b, type, v) == put(b, type, v, 4)
putU8(b, type, v)  == put(b, type, v % U8, 1)

\* A name whose length and NUL do not fit into 16 bits is cut.
putString(b, type, s) ==
  LET datalen == (s + 1) % U16 IN put(b, type, Smaller(s, datalen), datalen)

\* Faulty: the buffer of the commands without a name.
SmallBuffer == 128

RuleBuffer == 256

Build(c) ==
  CASE ~IsRule(c) -> putU32(Builder(128), "UID", c.uid)
    [] c.cmd = "ADD_FREE_ASYNC" ->
         putU8(putS32(putString(Builder(RuleBuffer), "RPC_NAME", c.name), "CODE", c.code),
               "STRATEGY", c.strategy)
    [] c.cmd = "DEL_FREE_ASYNC" ->
         putS32(putString(Builder(RuleBuffer), "RPC_NAME", c.name), "CODE", c.code)

-----------------------------------------------------------------------------
(* The kernel's side of sendto *)

RKX_INTERFACETOKEN_BUFF_SIZE == 140

Has(m, type) == \E i \in DOMAIN m.attrs : m.attrs[i].type = type
Attr(m, type) == m.attrs[CHOOSE i \in DOMAIN m.attrs : m.attrs[i].type = type]

\* Faulty: the name of a rule needs no NUL.
ValidUnterminated(m) ==
  \A i \in DOMAIN m.attrs :
    m.attrs[i].type = "RPC_NAME" => m.attrs[i].len <= RKX_INTERFACETOKEN_BUFF_SIZE

\* rkx_genl_policy: a name that was cut has no NUL, and one may be too long.
Valid(m) ==
  \A i \in DOMAIN m.attrs : LET a == m.attrs[i] IN
    CASE a.type = "RPC_NAME" -> /\ a.len = a.value + 1
                                /\ a.value <= RKX_INTERFACETOKEN_BUFF_SIZE - 1
      [] a.type = "STRATEGY" -> a.len = 1
      [] OTHER               -> a.len = 4

rkx_free_async_strategy_valid(s) == s \in {1, 2, 3}

Rule(m) == <<Attr(m, "RPC_NAME").value, Attr(m, "CODE").value>>

KeyValid(k) == k[1] \in 1 .. RKX_INTERFACETOKEN_BUFF_SIZE - 1 /\ k[2] >= -1

\* A step of a handler ends with what it did: "applied", or why not.
Done(t, what) == done' = [done EXCEPT ![t] = what]

rkx_genl_monitor_net(t, m) ==
  /\ Has(m, "UID")
  /\ \/ net_uid' = net_uid \cup {Attr(m, "UID").value} /\ Done(t, "applied")
     \/ Attr(m, "UID").value \notin net_uid /\ UNCHANGED net_uid /\ Done(t, "ENOMEM")
  /\ UNCHANGED free_async

rkx_genl_del_monitor_net(t, m) ==
  /\ Has(m, "UID")
  /\ net_uid' = net_uid \ {Attr(m, "UID").value} /\ Done(t, "applied")
  /\ UNCHANGED free_async

SetRule(k, s) == [r \in DOMAIN free_async \cup {k} |-> IF r = k THEN s ELSE free_async[r]]

rkx_genl_add_free_async(t, m) ==
  LET k == Rule(m)
      s == Attr(m, "STRATEGY").value
  IN
  /\ UNCHANGED net_uid
  /\ \/ /\ KeyValid(k) /\ rkx_free_async_strategy_valid(s)
        /\ \/ free_async' = SetRule(k, s) /\ Done(t, "applied")
           \/ k \notin DOMAIN free_async /\ UNCHANGED free_async /\ Done(t, "ENOMEM")
     \/ /\ ~(KeyValid(k) /\ rkx_free_async_strategy_valid(s))
        /\ UNCHANGED free_async /\ Done(t, "EINVAL")

rkx_genl_del_free_async(t, m) ==
  LET k == Rule(m) IN
  /\ free_async' = [r \in DOMAIN free_async \ {k} |-> free_async[r]]
  /\ Done(t, IF KeyValid(k) THEN "applied" ELSE "EINVAL")  \* no rule has an invalid key
  /\ UNCHANGED net_uid

\* rkx_genl_ops: every command is sent with the attributes its handler needs.
Handle(t, cmd, m) ==
  CASE cmd = "ADD_MONITOR_NET" -> rkx_genl_monitor_net(t, m)
    [] cmd = "DEL_MONITOR_NET" -> rkx_genl_del_monitor_net(t, m)
    [] cmd = "ADD_FREE_ASYNC"  -> rkx_genl_add_free_async(t, m)
    [] cmd = "DEL_FREE_ASYNC"  -> rkx_genl_del_free_async(t, m)

genl_rcv(t, m) ==
  IF fid[t] # family THEN Done(t, "ENOENT") /\ UNCHANGED tables
  ELSE IF ~Valid(m) THEN Done(t, "EINVAL") /\ UNCHANGED tables
  ELSE Handle(t, command[t].cmd, m)

-----------------------------------------------------------------------------
(* The four commands *)

CommandBegin(t, c) ==
  /\ at[t] = "idle"
  /\ command' = [command EXCEPT ![t] = c]
  /\ fid' = [fid EXCEPT ![t] = g_family_id]
  /\ Goto(t, "check")
  /\ UNCHANGED <<kernelVars, connVars, buf, done>>

Refused(c) == IsRule(c) /\ (c.name \in {NULL, 0} \/ c.code < -1)

\* A thread that wrote past its buffer has no defined course, and takes no step.
AfterBuild(c, b) ==
  IF b.end > b.cap THEN "undefined" ELSE IF IsRule(c) /\ ~b.ok THEN "false" ELSE "send"

\* The checks and the socket, which may not be had; then the message.
CommandCheck(t) ==
  LET b == Build(command[t]) IN
  /\ at[t] = "check"
  /\ \/ Goto(t, "false") /\ UNCHANGED buf
     \/ /\ fid[t] # 0 /\ g_fd /\ ~Refused(command[t])
        /\ buf' = [buf EXCEPT ![t] = b]
        /\ Goto(t, AfterBuild(command[t], b))
  /\ UNCHANGED <<kernelVars, connVars, command, fid, done>>

\* Without memory for the message sendto fails and nothing is delivered.
CommandSend(t) ==
  /\ at[t] = "send"
  /\ \/ Goto(t, "false") /\ UNCHANGED <<tables, done>>
     \/ Goto(t, "true") /\ genl_rcv(t, buf[t])
  /\ UNCHANGED <<family, loads, connVars, command, fid, buf>>

CommandReturn(t) ==
  /\ at[t] \in {"true", "false"}
  /\ Goto(t, "idle")
  /\ command' = [command EXCEPT ![t] = NULL] /\ fid' = [fid EXCEPT ![t] = 0]
  /\ buf' = [buf EXCEPT ![t] = NULL] /\ done' = [done EXCEPT ![t] = NULL]
  /\ UNCHANGED <<kernelVars, connVars>>

-----------------------------------------------------------------------------
(* The connection and the module, see ReKernelXClient and ModuleLifecycle. *)

connect ==
  /\ ~g_fd /\ family # 0
  /\ g_family_id' = family /\ g_fd' = TRUE
  /\ UNCHANGED <<kernelVars, threadVars>>

disconnect ==
  /\ g_fd
  /\ g_family_id' = 0 /\ g_fd' = FALSE
  /\ UNCHANGED <<kernelVars, threadVars>>

\* Family ids are not used again.
rkx_init ==
  /\ family = 0 /\ loads < MaxLoads
  /\ loads' = loads + 1 /\ family' = loads'
  /\ UNCHANGED <<tables, connVars, threadVars>>

rkx_exit ==
  /\ family # 0
  /\ family' = 0 /\ net_uid' = {} /\ free_async' = <<>>
  /\ UNCHANGED <<loads, connVars, threadVars>>

Init ==
  /\ family = 0 /\ loads = 0 /\ net_uid = {} /\ free_async = <<>>
  /\ g_family_id = 0 /\ g_fd = FALSE
  /\ at = [t \in Thread |-> "idle"] /\ command = [t \in Thread |-> NULL]
  /\ fid = [t \in Thread |-> 0] /\ buf = [t \in Thread |-> NULL]
  /\ done = [t \in Thread |-> NULL]

Next ==
  \/ \E t \in Thread : \/ \E c \in Commands : CommandBegin(t, c)
                       \/ CommandCheck(t) \/ CommandSend(t) \/ CommandReturn(t)
  \/ connect \/ disconnect \/ rkx_init \/ rkx_exit

Spec == Init /\ [][Next]_vars

-----------------------------------------------------------------------------
(* Properties *)

\* What the kernel takes: the name of a rule has 1 to 139 bytes.
Acceptable(c) ==
  IsRule(c) => /\ c.name \in 1 .. RKX_INTERFACETOKEN_BUFF_SIZE - 1 /\ c.code >= -1
               /\ c.cmd = "ADD_FREE_ASYNC" => rkx_free_async_strategy_valid(c.strategy)

(* The result of a command: FALSE means that the kernel did nothing of it, *)
(* and TRUE that it was sent.  A command the kernel accepts, with a name   *)
(* of up to 139 bytes, fits into the buffer and is in force when it        *)
(* returns TRUE, unless there was no memory or the module was unloaded     *)
(* since the client connected.                                             *)
ResultMeans ==
  \A t \in Thread :
    /\ at[t] = "false" => done[t] = NULL
    /\ buf[t] # NULL /\ Acceptable(command[t]) => buf[t].ok
    /\ at[t] = "true" /\ Acceptable(command[t]) => done[t] \in {"applied", "ENOMEM", "ENOENT"}
    /\ done[t] = "ENOENT" => fid[t] # loads \/ family = 0

\* The tables as command c leaves them.
Asked(c) ==
  CASE c.cmd = "ADD_MONITOR_NET" -> /\ net_uid' = net_uid \cup {c.uid} /\ UNCHANGED free_async
    [] c.cmd = "DEL_MONITOR_NET" -> /\ net_uid' = net_uid \ {c.uid} /\ UNCHANGED free_async
    [] OTHER -> LET k == <<c.name, c.code>> IN
         /\ UNCHANGED net_uid
         /\ \A r \in DOMAIN free_async \cup DOMAIN free_async' :
              r # k => /\ r \in DOMAIN free_async \cap DOMAIN free_async'
                       /\ free_async'[r] = free_async[r]
         /\ IF c.cmd = "DEL_FREE_ASYNC" THEN k \notin DOMAIN free_async'
            ELSE k \in DOMAIN free_async' /\ free_async'[k] = c.strategy % U8

(* While the module stays, the tables change only as a command asked: the  *)
(* rule of exactly the name and code that were given, and no cut name;     *)
(* only the strategy is taken modulo 256, which makes 257 a valid one.     *)
ChangedAsAsked ==
  [][family' = family /\ tables' # tables =>
       \E t \in Thread : at[t] = "send" /\ Asked(command[t])]_vars

(* NlaBuilder writes only inside its buffer, for every name whose length   *)
(* is still one of 16 bits when the header is added and the sum is rounded *)
(* up: the check of the room is about the rounded sum, a uint16_t.         *)
WrittenInside ==
  \A t \in Thread :
    /\ buf[t] # NULL
    /\ IsRule(command[t]) => command[t].name % U16 \notin U16 - 8 .. U16 - 2
    => buf[t].end <= buf[t].cap /\ buf[t].len <= buf[t].cap
=============================================================================
