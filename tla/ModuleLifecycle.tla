--------------------------- MODULE ModuleLifecycle ---------------------------
(***************************************************************************)
(* Loading and unloading the module: rkx_init and rkx_exit (rkx.c) with    *)
(* the register and unregister functions they call, while the kernel calls *)
(* the hooks that are registered.  Each CPU runs at most one hook or       *)
(* netlink command.  Unregistering a vendor hook or a netfilter hook does  *)
(* not wait for its running calls, tracepoint_synchronize_unregister does; *)
(* unregister_kprobe and genl_unregister_family wait for theirs.           *)
(***************************************************************************)
EXTENDS Integers, Sequences, FiniteSets

CONSTANTS Cpu, Net

VARIABLES
  phase,     \* "out", "init", "undo_netfilter", "live", "unwind"
  step,      \* the next entry of InitOrder or UnwindOrder
  flag,      \* the static bools: what the module believes is registered
  hooked,    \* what the kernel has registered, netfilter per net
  net_uid, free_async, \* whether the tables may be used
  cpu        \* per CPU: what it runs and how far it is

vars == <<phase, step, flag, hooked, net_uid, free_async, cpu>>

Netfilter == {"netfilter"} \X Net
Vendor == {"alloc_buf", "reply", "trans", "signal"}
InitOrder == <<"genl", "alloc_buf", "reply", "trans", "signal", "netfilter", "kp">>

\* Faulty: the netfilter hooks stay; the tables go first.
KeepNetfilter == <<"kp", "signal", "trans", "reply", "alloc_buf",
                   "synchronize", "genl", "free_async", "net_uid">>
TablesFirst == <<"free_async", "net_uid", "kp", "netfilter", "signal", "trans",
                 "reply", "alloc_buf", "synchronize", "genl">>

\* The error path of rkx_init and the body of rkx_exit.
UnwindOrder == <<"kp", "netfilter", "signal", "trans", "reply", "alloc_buf",
                 "synchronize", "genl", "free_async", "net_uid">>

Hook(h) == IF h = "netfilter" THEN Netfilter ELSE {<<h>>}
Runs(c, names) == cpu[c] # <<>> /\ cpu[c].hook[1] \in names

-----------------------------------------------------------------------------
(* rkx_init *)

InitTables ==
  /\ phase = "out"
  /\ phase' = "init" /\ step' = 1
  /\ net_uid' = TRUE /\ free_async' = TRUE
  /\ UNCHANGED <<flag, hooked, cpu>>

Registering(h) == phase = "init" /\ InitOrder[step] = h

Registered(h) == /\ flag' = flag \cup {h}
                 /\ step' = step + 1
                 /\ phase' = IF step = Len(InitOrder) THEN "live" ELSE "init"

\* rkx_register_genl, _binder (three hooks), _signal and _binder_kp.
RegisterHook(h) ==
  /\ Registering(h) /\ h # "netfilter"
  /\ hooked' = hooked \cup Hook(h)
  /\ Registered(h)
  /\ UNCHANGED <<net_uid, free_async, cpu>>

\* rkx_register_netfilter hooks one net after the other ...
RegisterNet(n) ==
  /\ Registering("netfilter") /\ <<"netfilter", n>> \notin hooked
  /\ hooked' = hooked \cup {<<"netfilter", n>>}
  /\ UNCHANGED <<phase, step, flag, net_uid, free_async, cpu>>

RegisterNetDone ==
  /\ Registering("netfilter") /\ Netfilter \subseteq hooked
  /\ Registered("netfilter")
  /\ UNCHANGED <<hooked, net_uid, free_async, cpu>>

\* ... and unhooks all of them when one fails.
RegisterNetFails ==
  /\ Registering("netfilter") /\ ~(Netfilter \subseteq hooked)
  /\ phase' = "undo_netfilter"
  /\ UNCHANGED <<step, flag, hooked, net_uid, free_async, cpu>>

UndoNetfilter ==
  /\ phase = "undo_netfilter"
  /\ hooked' = hooked \ Netfilter
  /\ phase' = "unwind" /\ step' = 1
  /\ UNCHANGED <<flag, net_uid, free_async, cpu>>

(* A failure takes the error path, which for the binder hooks repeats what *)
(* rkx_register_binder undid; without the kprobe the module stays.         *)
RegisterFails(h) ==
  /\ Registering(h) /\ h # "netfilter"
  /\ phase' = IF h = "kp" THEN "live" ELSE "unwind"
  /\ step' = 1
  /\ UNCHANGED <<flag, hooked, net_uid, free_async, cpu>>

-----------------------------------------------------------------------------
(* rkx_exit and the error path *)

rkx_exit ==
  /\ phase = "live"
  /\ phase' = "unwind" /\ step' = 1
  /\ UNCHANGED <<flag, hooked, net_uid, free_async, cpu>>

Unwinding(x) == phase = "unwind" /\ UnwindOrder[step] = x

Unwound == /\ step' = IF step = Len(UnwindOrder) THEN 1 ELSE step + 1
           /\ phase' = IF step = Len(UnwindOrder) THEN "out" ELSE "unwind"

(* What is flagged is unregistered.  A kprobe or a family lets no new call *)
(* in and then waits until the last one has left.                          *)
UnregisterHook(h) ==
  /\ Unwinding(h) /\ h \notin {"kp", "genl"}
  /\ hooked' = IF h \in flag THEN hooked \ Hook(h) ELSE hooked
  /\ flag' = flag \ {h}
  /\ Unwound
  /\ UNCHANGED <<net_uid, free_async, cpu>>

UnregisterBegin(h) ==
  /\ Unwinding(h) /\ h \in {"kp", "genl"} /\ h \in flag
  /\ hooked' = hooked \ Hook(h) /\ hooked' # hooked
  /\ UNCHANGED <<phase, step, flag, net_uid, free_async, cpu>>

UnregisterEnd(h) ==
  /\ Unwinding(h) /\ h \in {"kp", "genl"} /\ Hook(h) \cap hooked = {}
  /\ \A c \in Cpu : ~Runs(c, {h})
  /\ flag' = flag \ {h}
  /\ Unwound
  /\ UNCHANGED <<hooked, net_uid, free_async, cpu>>

\* Faulty: the netfilter hooks are not waited for.
VendorOnly == Vendor

Synchronized == Vendor \cup {"netfilter"}

(* A call that starts while the synchronization waits finds its hook gone, *)
(* so waiting for all running ones is waiting for those that were running. *)
tracepoint_synchronize_unregister ==
  /\ Unwinding("synchronize")
  /\ \A c \in Cpu : ~Runs(c, Synchronized)
  /\ Unwound
  /\ UNCHANGED <<flag, hooked, net_uid, free_async, cpu>>

DestroyTable(t) ==
  /\ Unwinding(t) /\ t \in {"free_async", "net_uid"}
  /\ free_async' = (free_async /\ t # "free_async")
  /\ net_uid' = (net_uid /\ t # "net_uid")
  /\ Unwound
  /\ UNCHANGED <<flag, hooked, cpu>>

-----------------------------------------------------------------------------
(* The hooks and commands: read a table, ask rkx_netlink_ready, send. *)

Enter(c, h) ==
  /\ cpu[c] = <<>> /\ h \in hooked
  /\ cpu' = [cpu EXCEPT ![c] = [hook |-> h, at |-> "entered"]]
  /\ UNCHANGED <<phase, step, flag, hooked, net_uid, free_async>>

\* The tables that hook h reads or changes.
Tables(h) == CASE h[1] = "netfilter" -> {"net_uid"}
               [] h[1] = "kp"        -> {"free_async"}
               [] h[1] = "genl"      -> {"net_uid", "free_async"}
               [] OTHER              -> {}

UseTables(c) ==
  /\ cpu[c] # <<>> /\ cpu[c].at = "entered"
  /\ cpu' = [cpu EXCEPT ![c].at = "looked_up"]
  /\ UNCHANGED <<phase, step, flag, hooked, net_uid, free_async>>

rkx_netlink_ready == "genl" \in flag

\* The probe and the commands send nothing.
AskReady(c) ==
  /\ cpu[c] # <<>> /\ cpu[c].at = "looked_up"
  /\ cpu' = [cpu EXCEPT ![c] = IF rkx_netlink_ready /\ ~Runs(c, {"kp", "genl"})
                               THEN [@ EXCEPT !.at = "sending"] ELSE <<>>]
  /\ UNCHANGED <<phase, step, flag, hooked, net_uid, free_async>>

Sent(c) ==
  /\ cpu[c] # <<>> /\ cpu[c].at = "sending"
  /\ cpu' = [cpu EXCEPT ![c] = <<>>]
  /\ UNCHANGED <<phase, step, flag, hooked, net_uid, free_async>>

-----------------------------------------------------------------------------

Init ==
  /\ phase = "out" /\ step = 1
  /\ flag = {} /\ hooked = {}
  /\ net_uid = FALSE /\ free_async = FALSE
  /\ cpu = [c \in Cpu |-> <<>>]

\* The machine goes down: nothing of the module outlives it.
Restart ==
  /\ phase' = "out" /\ step' = 1
  /\ flag' = {} /\ hooked' = {}
  /\ net_uid' = FALSE /\ free_async' = FALSE
  /\ cpu' = [c \in Cpu |-> <<>>]

Names == {InitOrder[i] : i \in 1 .. Len(InitOrder)}

Initialise == \/ \E h \in Names : RegisterHook(h) \/ RegisterFails(h)
              \/ \E n \in Net : RegisterNet(n)
              \/ RegisterNetDone \/ RegisterNetFails \/ UndoNetfilter

Unwind == \/ \E h \in Names : UnregisterHook(h) \/ UnregisterBegin(h) \/ UnregisterEnd(h)
          \/ tracepoint_synchronize_unregister
          \/ \E t \in {"free_async", "net_uid"} : DestroyTable(t)

Run(c) == UseTables(c) \/ AskReady(c) \/ Sent(c)

Next == \/ InitTables \/ Initialise \/ rkx_exit \/ Unwind \/ Restart
        \/ \E c \in Cpu : Run(c) \/ \E h \in hooked : Enter(c, h)

Spec == Init /\ [][Next]_vars

-----------------------------------------------------------------------------
(* Properties *)

\* Type invariant.
TypeOK ==
  /\ phase \in {"out", "init", "undo_netfilter", "live", "unwind"}
  /\ step \in 1 .. Len(UnwindOrder)
  /\ flag \subseteq Names
  /\ hooked \subseteq UNION {Hook(h) : h \in Names}
  /\ net_uid \in BOOLEAN /\ free_async \in BOOLEAN
  /\ cpu \in [Cpu -> {<<>>} \cup [hook : UNION {Hook(h) : h \in Names},
                                  at : {"entered", "looked_up", "sending"}]]

(* When rkx_exit or a failed rkx_init returns, the kernel holds no pointer *)
(* into the module: nothing is registered and no CPU is inside a hook.     *)
NothingLeftBehind == phase = "out" => hooked = {} /\ flag = {} /\ \A c \in Cpu : cpu[c] = <<>>

\* A hook or command that uses a table finds it initialised and not destroyed.
TablesOutliveUsers ==
  \A c \in Cpu : cpu[c] # <<>> /\ cpu[c].at = "entered" =>
    /\ "net_uid" \in Tables(cpu[c].hook) => net_uid
    /\ "free_async" \in Tables(cpu[c].hook) => free_async

(* rkx_netlink_ready is checked without a lock, yet the family is still    *)
(* registered whenever a hook that passed the check sends.                 *)
FamilyOutlivesSenders ==
  (\E c \in Cpu : cpu[c] # <<>> /\ cpu[c].at = "sending") => <<"genl">> \in hooked

\* Unloading ends, however busy the hooks are.
UnloadEnds == phase = "unwind" ~> phase = "out"
=============================================================================
