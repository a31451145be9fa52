-------------------------- MODULE LifecycleTheorems --------------------------
(***************************************************************************)
(* The safety properties of ModuleLifecycle for any CPUs and any network   *)
(* namespaces.  None of them is inductive.  The invariant that carries     *)
(* them says where in the unwinding a hook may still be registered, and    *)
(* where it may still be running although it is not.                       *)
(*                                                                         *)
(* Then the boot script around the module: it implements ModuleLifecycle,  *)
(* so what holds of the module holds of every sequence of boots, and its   *)
(* marker does what it is for, with any number of module files.            *)
(***************************************************************************)
EXTENDS BootGuard, TLAPS

AllHooks == UNION {Hook(h) : h \in Names}

\* What the kernel has registered is flagged, but for the nets of a netfilter
\* registration under way.
Flagged ==
  \A x \in hooked :
    \/ x[1] \in flag
    \/ x[1] = "netfilter" /\ (phase = "undo_netfilter" \/ (phase = "init" /\ step = 6))

\* What the unwinding has passed is not flagged any more.
Passed == phase = "unwind" => \A i \in 1 .. 10 : i < step => UnwindOrder[i] \notin flag

\* A call of a hook that is not registered any more has not been waited for.
NotWaitedFor(h) ==
  /\ phase = "unwind"
  /\ \/ h \in Synchronized /\ step <= 7
     \/ h = "kp" /\ step = 1
     \/ h = "genl" /\ step = 8

Running == \A c \in Cpu : cpu[c] # <<>> => cpu[c].hook \in hooked \/ NotWaitedFor(cpu[c].hook[1])

TablesUp == phase # "out" => net_uid /\ (free_async \/ (phase = "unwind" /\ step = 10))

FamilyUp == "genl" \in flag => <<"genl">> \in hooked \/ (phase = "unwind" /\ step = 8)

Senders == \A c \in Cpu : cpu[c] # <<>> /\ cpu[c].at = "sending" =>
             cpu[c].hook[1] \in Synchronized /\ <<"genl">> \in hooked

\* The inductive invariant.
IInv == /\ TypeOK /\ (phase = "init" => step <= 7)
        /\ Flagged /\ Passed /\ Running /\ TablesUp /\ FamilyUp /\ Senders
        /\ NothingLeftBehind

-----------------------------------------------------------------------------
(* The orders in which rkx_init registers and rkx_exit unregisters, place by place. *)
LEMMA Orders ==
  /\ Len(InitOrder) = 7 /\ Len(UnwindOrder) = 10
  /\ InitOrder[1] = "genl" /\ InitOrder[2] = "alloc_buf" /\ InitOrder[3] = "reply"
  /\ InitOrder[4] = "trans" /\ InitOrder[5] = "signal" /\ InitOrder[6] = "netfilter"
  /\ InitOrder[7] = "kp"
  /\ UnwindOrder[1] = "kp" /\ UnwindOrder[2] = "netfilter" /\ UnwindOrder[3] = "signal"
  /\ UnwindOrder[4] = "trans" /\ UnwindOrder[5] = "reply" /\ UnwindOrder[6] = "alloc_buf"
  /\ UnwindOrder[7] = "synchronize" /\ UnwindOrder[8] = "genl"
  /\ UnwindOrder[9] = "free_async" /\ UnwindOrder[10] = "net_uid"
BY Zenon DEF InitOrder, UnwindOrder

(* The seven things rkx_init registers. *)
LEMMA AllNames ==
  Names = {"genl", "alloc_buf", "reply", "trans", "signal", "netfilter", "kp"}
<1>1. \A i \in 1 .. 7 : i = 1 \/ i = 2 \/ i = 3 \/ i = 4 \/ i = 5 \/ i = 6 \/ i = 7
  OBVIOUS
<1> QED  BY <1>1, Orders DEF Names

(* A registered hook carries the name it was registered under: no two names share one. *)
LEMMA HookNames ==
  /\ \A h : \A x \in Hook(h) : x[1] = h
  /\ \A x \in AllHooks : x[1] \in Names /\ x \in Hook(x[1])
<1>1. ASSUME NEW h, NEW x \in Hook(h)  PROVE x[1] = h
  <2>1. CASE h = "netfilter"
    <3>1. PICK n \in Net : x = <<"netfilter", n>>
      BY <2>1 DEF Hook, Netfilter
    <3> QED  BY Zenon, <2>1, <3>1
  <2>2. CASE h # "netfilter"
    BY <2>2 DEF Hook
  <2> QED  BY Zenon, <2>1, <2>2
<1>2. ASSUME NEW x \in AllHooks  PROVE x[1] \in Names /\ x \in Hook(x[1])
  <2>1. PICK h \in Names : x \in Hook(h)
    BY Zenon DEF AllHooks
  <2> QED  BY Zenon, <1>1, <2>1
<1> QED  BY Zenon, <1>1, <1>2

(* A hook that is still registered while the module is unwound has its     *)
(* place in UnwindOrder ahead.                                             *)
LEMMA HookAhead ==
  ASSUME IInv, phase = "unwind", NEW x \in hooked
  PROVE  /\ x[1] \in flag
         /\ \A i \in 1 .. 10 : i < step => UnwindOrder[i] # x[1]
BY Zenon DEF IInv, Flagged, Passed

(* When the unwinding is past tracepoint_synchronize_unregister no CPU     *)
(* runs a tracepoint or netfilter hook, past the kprobe none runs the      *)
(* probe, and past the family none runs a command.                         *)
LEMMA Drained ==
  ASSUME IInv, phase = "unwind", NEW c \in Cpu, cpu[c] # <<>>
  PROVE  /\ step > 7 => cpu[c].hook[1] \notin Synchronized
         /\ step > 1 => cpu[c].hook[1] # "kp"
         /\ step > 8 => cpu[c].hook[1] # "genl"
<1> DEFINE x == cpu[c].hook
<1>1. step \in 1 .. 10
  BY Zenon, Orders DEF IInv, TypeOK
<1>2. CASE x \in hooked
  <2>1. \A i \in 1 .. 10 : i < step => UnwindOrder[i] # x[1]
    BY Zenon, <1>2, HookAhead
  <2> QED  BY <1>1, <2>1, Orders DEF Synchronized, Vendor
<1>3. CASE NotWaitedFor(x[1])
  BY <1>1, <1>3 DEF NotWaitedFor, Synchronized, Vendor
<1> QED  BY Zenon, <1>2, <1>3 DEF IInv, Running

(* With the module out everything the invariant asks for holds: this is    *)
(* the state before rkx_init and after a restart.                          *)
LEMMA OutIInv ==
  /\ Init => IInv
  /\ Restart => IInv'
<1> DEFINE Quiet == /\ phase = "out" /\ step = 1 /\ flag = {} /\ hooked = {}
                    /\ net_uid = FALSE /\ free_async = FALSE /\ cpu = [c \in Cpu |-> <<>>]
<1>1. Quiet => IInv
  <2> SUFFICES ASSUME Quiet  PROVE IInv
    BY Zenon
  <2>1. net_uid \in BOOLEAN /\ free_async \in BOOLEAN
    BY Zenon
  <2>2. cpu \in [Cpu -> {<<>>} \cup [hook : AllHooks, at : {"entered", "looked_up", "sending"}]]
    BY Zenon
  <2>3. phase = "out" /\ step = 1 /\ flag = {} /\ hooked = {} /\ \A c \in Cpu : cpu[c] = <<>>
    BY Zenon
  <2>4. TypeOK
    BY <2>1, <2>2, <2>3, Orders DEF TypeOK, AllHooks
  <2> QED  BY Zenon, <2>3, <2>4 DEF IInv, Flagged, Passed, Running, TablesUp, FamilyUp, Senders,
                           NothingLeftBehind
<1>2. Quiet' => IInv'
  BY <1>1, PTL
<1> QED  BY Zenon, <1>1, <1>2 DEF Init, Restart

(* The steps of the hooks and commands on the CPUs keep the invariant: a   *)
(* call starts only while its hook is registered, and one that finds the   *)
(* family ready before it sends is one that the unwinding still waits for. *)
LEMMA RunIInv ==
  ASSUME IInv, NEW c \in Cpu, Run(c) \/ \E h \in hooked : Enter(c, h)
  PROVE  IInv'
<1> USE DEF IInv
<1>1. UNCHANGED <<phase, step, flag, hooked, net_uid, free_async>>
  BY Zenon DEF Run, UseTables, AskReady, Sent, Enter
<1>2. (phase = "init" => step <= 7)' /\ Flagged' /\ Passed' /\ TablesUp' /\ FamilyUp'
  BY Zenon, <1>1 DEF Flagged, Passed, TablesUp, FamilyUp
<1>3. \A d \in Cpu : d # c => cpu'[d] = cpu[d]
  BY Zenon DEF Run, UseTables, AskReady, Sent, Enter, TypeOK
<1>4. cpu[c] # <<>> => cpu[c] \in [hook : AllHooks, at : {"entered", "looked_up", "sending"}]
  BY Zenon DEF TypeOK, AllHooks
<1>5. \/ cpu'[c] = <<>>
      \/ cpu'[c].hook \in hooked /\ cpu'[c].at = "entered"
      \/ cpu[c] # <<>> /\ cpu'[c].hook = cpu[c].hook /\ cpu'[c].at = "looked_up"
      \/ /\ cpu[c] # <<>> /\ cpu'[c].hook = cpu[c].hook
         /\ "genl" \in flag /\ cpu[c].hook[1] \notin {"kp", "genl"}
  BY <1>4 DEF Run, UseTables, AskReady, Sent, Enter, TypeOK, rkx_netlink_ready, Runs
<1>6. TypeOK'
  <2>1. cpu' \in [Cpu -> {<<>>} \cup [hook : AllHooks, at : {"entered", "looked_up", "sending"}]]
    BY <1>4 DEF Run, UseTables, AskReady, Sent, Enter, TypeOK, AllHooks
  <2> QED  BY Zenon, <1>1, <2>1 DEF TypeOK, AllHooks
<1>7. Running'
  BY <1>1, <1>3, <1>5 DEF Running, NotWaitedFor
<1>8. Senders'
  <2>1. ASSUME cpu[c] # <<>>, "genl" \in flag, cpu[c].hook[1] \notin {"kp", "genl"}
        PROVE  cpu[c].hook[1] \in Synchronized /\ <<"genl">> \in hooked
    <3>1. cpu[c].hook[1] \in Synchronized
      BY Zenon, <1>4, <2>1, HookNames, AllNames DEF Synchronized, Vendor
    <3>2. ~(phase = "unwind" /\ step = 8)
      BY <2>1, <3>1, Drained
    <3> QED  BY Zenon, <2>1, <3>1, <3>2 DEF FamilyUp
  <2> QED  BY Zenon, <1>1, <1>3, <1>5, <2>1 DEF Senders
<1>9. NothingLeftBehind'
  BY Zenon, <1>1, <1>3, <1>5 DEF NothingLeftBehind
<1> QED  BY Zenon, <1>2, <1>6, <1>7, <1>8, <1>9

(* The steps of rkx_init keep the invariant: what it registers it flags,   *)
(* nets of the netfilter hook excepted until all are there, and a failure  *)
(* starts the unwinding at its first entry.                                *)
LEMMA InitialiseIInv ==
  ASSUME IInv, Initialise
  PROVE  IInv'
<1> USE DEF IInv
<1>1. step \in 1 .. 10 /\ (phase = "init" => step \in 1 .. 7)
  BY Orders DEF TypeOK
<1>2. cpu' = cpu /\ net_uid' = net_uid /\ free_async' = free_async
  BY Zenon DEF Initialise, RegisterHook, RegisterFails, RegisterNet, RegisterNetDone, RegisterNetFails,
         UndoNetfilter
<1>3. phase \in {"init", "undo_netfilter"} /\ phase' # "out"
  BY Zenon DEF Initialise, RegisterHook, RegisterFails, RegisterNet, RegisterNetDone, RegisterNetFails,
         UndoNetfilter, Registering, Registered
<1>4. \A c \in Cpu : cpu[c] # <<>> => cpu[c].hook \in hooked
  BY Zenon, <1>3 DEF Running, NotWaitedFor
<1>5. TablesUp' /\ NothingLeftBehind'
  BY Zenon, <1>2, <1>3 DEF TablesUp, NothingLeftBehind
<1>6. ASSUME NEW h \in Names, RegisterHook(h)  PROVE IInv'
  <2>1. /\ phase = "init" /\ step # 6 /\ h = InitOrder[step]
        /\ phase' \in {"init", "live"} /\ step' \in 2 .. 8 /\ (phase' = "init" => step' <= 7)
        /\ hooked' = hooked \cup Hook(h) /\ flag' = flag \cup {h}
    BY <1>1, <1>6, Orders DEF RegisterHook, Registering, Registered
  <2>2. TypeOK'
    BY <1>2, <2>1, Orders DEF TypeOK
  <2>3. Flagged'
    BY Zenon, <2>1, HookNames DEF Flagged
  <2>4. FamilyUp'
    BY Zenon, <2>1 DEF FamilyUp, Hook
  <2> QED  BY Zenon, <1>2, <1>4, <1>5, <2>1, <2>2, <2>3, <2>4 DEF Passed, Running, Senders
<1>7. ASSUME NEW h \in Names, RegisterFails(h)  PROVE IInv'
  <2>1. /\ phase = "init" /\ step # 6 /\ phase' \in {"live", "unwind"} /\ step' = 1
        /\ hooked' = hooked /\ flag' = flag
    BY Zenon, <1>1, <1>7, Orders DEF RegisterFails, Registering
  <2>2. TypeOK'
    BY <1>2, <2>1, Orders DEF TypeOK
  <2> QED  BY <1>2, <1>4, <1>5, <2>1, <2>2 DEF Flagged, Passed, Running, FamilyUp, Senders
<1>8. ASSUME NEW n \in Net, RegisterNet(n)  PROVE IInv'
  <2>1. /\ phase = "init" /\ step = 6 /\ phase' = phase /\ step' = step /\ flag' = flag
        /\ hooked' = hooked \cup {<<"netfilter", n>>}
    BY <1>1, <1>8, Orders DEF RegisterNet, Registering
  <2>2. <<"netfilter", n>> \in Hook("netfilter")
    BY Zenon DEF Hook, Netfilter
  <2>3. TypeOK'
    BY <1>2, <2>1, <2>2, AllNames DEF TypeOK
  <2> QED  BY <1>2, <1>4, <1>5, <2>1, <2>3 DEF Flagged, Passed, Running, FamilyUp, Senders
<1>9. ASSUME RegisterNetDone  PROVE IInv'
  <2>1. /\ phase = "init" /\ step = 6 /\ phase' = "init" /\ step' = 7
        /\ hooked' = hooked /\ flag' = flag \cup {"netfilter"}
    BY <1>1, <1>9, Orders DEF RegisterNetDone, Registering, Registered
  <2>2. TypeOK'
    BY <1>2, <2>1, AllNames, Orders DEF TypeOK
  <2> QED  BY <1>2, <1>4, <1>5, <2>1, <2>2 DEF Flagged, Passed, Running, FamilyUp, Senders
<1>10. ASSUME RegisterNetFails  PROVE IInv'
  <2>1. /\ phase = "init" /\ phase' = "undo_netfilter" /\ step' = step
        /\ hooked' = hooked /\ flag' = flag
    BY Zenon, <1>10 DEF RegisterNetFails, Registering
  <2>2. TypeOK'
    BY Zenon, <1>2, <2>1 DEF TypeOK
  <2> QED  BY Zenon, <1>2, <1>4, <1>5, <2>1, <2>2 DEF Flagged, Passed, Running, FamilyUp, Senders
<1>11. ASSUME UndoNetfilter  PROVE IInv'
  <2>1. /\ phase = "undo_netfilter" /\ phase' = "unwind" /\ step' = 1 /\ flag' = flag
        /\ hooked' = hooked \ Hook("netfilter")
    BY Zenon, <1>11 DEF UndoNetfilter, Hook
  <2>2. \A x \in hooked : x \notin hooked' <=> x[1] = "netfilter"
    BY Zenon, <2>1, HookNames DEF TypeOK, AllHooks
  <2>3. TypeOK'
    BY <1>2, <2>1, Orders DEF TypeOK
  <2>4. <<"genl">> \in hooked => <<"genl">> \in hooked'
    BY Zenon, <2>2
  <2>5. Running'
    BY <1>2, <1>4, <2>1, <2>2 DEF Running, NotWaitedFor, Synchronized
  <2> QED  BY <1>2, <1>5, <2>1, <2>2, <2>3, <2>4, <2>5 DEF Flagged, Passed, FamilyUp, Senders
<1> QED  BY Zenon, <1>6, <1>7, <1>8, <1>9, <1>10, <1>11 DEF Initialise

(* The steps of rkx_exit and of the error path keep the invariant: each    *)
(* removes one entry, in an order in which nothing that a running call     *)
(* still needs goes before the call has been waited for.                   *)
LEMMA UnwindIInv ==
  ASSUME IInv, Unwind
  PROVE  IInv'
<1> USE DEF IInv
<1>1. step \in 1 .. 10 /\ phase = "unwind" /\ cpu' = cpu
  BY Zenon, Orders DEF TypeOK, Unwind, UnregisterHook, UnregisterBegin, UnregisterEnd,
                tracepoint_synchronize_unregister, DestroyTable, Unwinding
<1>2. \A x \in hooked : x[1] \in flag /\ x \in Hook(x[1])
  BY Zenon, <1>1, HookAhead, HookNames DEF TypeOK, AllHooks
<1>3. ASSUME NEW h \in Names, UnregisterHook(h)  PROVE IInv'
  <2>1. /\ step \in 2 .. 6 /\ h = UnwindOrder[step] /\ h \in Synchronized /\ h # "genl"
        /\ phase' = "unwind" /\ step' = step + 1 /\ flag' = flag \ {h}
        /\ net_uid' = net_uid /\ free_async' = free_async
    BY <1>1, <1>3, AllNames, Orders
       DEF UnregisterHook, Unwinding, Unwound, Synchronized, Vendor
  <2>2. hooked' = hooked \ Hook(h)
    BY <1>2, <1>3, HookNames DEF UnregisterHook
  <2>3. \A x \in hooked : x \notin hooked' <=> x[1] = h
    BY Zenon, <1>2, <2>2, HookNames
  <2>4. TypeOK'
    BY <1>1, <2>1, <2>2, Orders DEF TypeOK
  <2>5. Flagged' /\ Passed'
    BY <1>1, <1>2, <2>1, <2>2, <2>3 DEF Flagged, Passed
  <2>6. Running'
    BY <1>1, <2>1, <2>3 DEF Running, NotWaitedFor
  <2>7. <<"genl">> \in hooked => <<"genl">> \in hooked'
    BY Zenon, <2>1, <2>3
  <2> QED  BY <1>1, <2>1, <2>4, <2>5, <2>6, <2>7
           DEF TablesUp, FamilyUp, Senders, NothingLeftBehind
<1>4. ASSUME NEW h \in Names, UnregisterBegin(h)  PROVE IInv'
  <2>1. /\ h \in {"kp", "genl"} /\ (h = "kp" => step = 1) /\ (h = "genl" => step = 8)
        /\ phase' = phase /\ step' = step /\ flag' = flag /\ hooked' = hooked \ Hook(h)
        /\ net_uid' = net_uid /\ free_async' = free_async
    BY <1>1, <1>4, Orders DEF UnregisterBegin, Unwinding
  <2>2. \A x \in hooked : x \notin hooked' <=> x[1] = h
    BY Zenon, <1>2, <2>1, HookNames
  <2>3. TypeOK'
    BY Zenon, <1>1, <2>1 DEF TypeOK
  <2>4. Flagged' /\ Passed' /\ TablesUp'
    BY Zenon, <1>2, <2>1 DEF Flagged, Passed, TablesUp
  <2>5. Running'
    BY Zenon, <1>1, <2>1, <2>2 DEF Running, NotWaitedFor
  <2>6. FamilyUp'
    BY Zenon, <1>1, <2>1, <2>2 DEF FamilyUp
  <2>7. Senders'
    <3>1. h = "genl" => \A c \in Cpu : cpu[c] # <<>> => cpu[c].at # "sending"
      BY <1>1, <2>1, Drained DEF Senders
    <3> QED  BY Zenon, <1>1, <2>1, <2>2, <3>1 DEF Senders
  <2> QED  BY Zenon, <1>1, <2>1, <2>3, <2>4, <2>5, <2>6, <2>7 DEF NothingLeftBehind
<1>5. ASSUME NEW h \in Names, UnregisterEnd(h)  PROVE IInv'
  <2>1. /\ h \in {"kp", "genl"} /\ (h = "kp" => step = 1) /\ (h = "genl" => step = 8)
        /\ h = UnwindOrder[step] /\ Hook(h) \cap hooked = {}
        /\ phase' = "unwind" /\ step' = step + 1 /\ flag' = flag \ {h} /\ hooked' = hooked
        /\ net_uid' = net_uid /\ free_async' = free_async
    BY <1>1, <1>5, Orders DEF UnregisterEnd, Unwinding, Unwound
  <2>2. \A c \in Cpu : cpu[c] # <<>> => cpu[c].hook[1] # h
    BY Zenon, <1>5 DEF UnregisterEnd, Runs
  <2>3. TypeOK'
    BY <1>1, <2>1, Orders DEF TypeOK
  <2>4. Flagged' /\ Passed'
    BY <1>1, <1>2, <2>1 DEF Flagged, Passed
  <2>5. Running'
    BY <1>1, <2>1, <2>2 DEF Running, NotWaitedFor
  <2> QED  BY <1>1, <2>1, <2>3, <2>4, <2>5 DEF TablesUp, FamilyUp, Senders, NothingLeftBehind
<1>6. ASSUME tracepoint_synchronize_unregister  PROVE IInv'
  <2>1. /\ step = 7 /\ phase' = "unwind" /\ step' = 8 /\ flag' = flag /\ hooked' = hooked
        /\ net_uid' = net_uid /\ free_async' = free_async
    BY <1>1, <1>6, Orders DEF tracepoint_synchronize_unregister, Unwinding, Unwound
  <2>2. \A c \in Cpu : cpu[c] # <<>> => cpu[c].hook[1] \notin Synchronized
    BY Zenon, <1>6 DEF tracepoint_synchronize_unregister, Runs
  <2>3. TypeOK'
    BY <1>1, <2>1, Orders DEF TypeOK
  <2>4. Passed'
    BY <1>1, <2>1, AllNames, Orders DEF Passed, TypeOK
  <2>5. Running'
    BY <1>1, <2>1, <2>2 DEF Running, NotWaitedFor
  <2> QED  BY <1>1, <1>2, <2>1, <2>3, <2>4, <2>5
           DEF Flagged, TablesUp, FamilyUp, Senders, NothingLeftBehind
<1>7. ASSUME DestroyTable("free_async")  PROVE IInv'
  <2>1. /\ step = 9 /\ phase' = "unwind" /\ step' = 10 /\ flag' = flag /\ hooked' = hooked
    BY <1>1, <1>7, Orders DEF DestroyTable, Unwinding, Unwound
  <2>2. net_uid' /\ net_uid' \in BOOLEAN /\ free_async' \in BOOLEAN
    BY Zenon, <1>1, <1>7 DEF DestroyTable, TablesUp
  <2>3. TypeOK'
    BY <1>1, <2>1, <2>2, Orders DEF TypeOK
  <2>4. Passed'
    BY <1>1, <2>1, AllNames, Orders DEF Passed, TypeOK
  <2>5. TablesUp'
    BY Zenon, <2>1, <2>2 DEF TablesUp
  <2>6. Running'
    BY <1>1, <2>1 DEF Running, NotWaitedFor
  <2> QED  BY Zenon, <1>1, <1>2, <2>1, <2>3, <2>4, <2>5, <2>6
           DEF Flagged, FamilyUp, Senders, NothingLeftBehind
<1>8. ASSUME DestroyTable("net_uid")  PROVE IInv'
  <2>1. /\ step = 10 /\ phase' = "out" /\ step' = 1 /\ flag' = flag /\ hooked' = hooked
    BY <1>1, <1>8, Orders DEF DestroyTable, Unwinding, Unwound
  <2>2. flag = {}
    BY <1>1, <2>1, AllNames, Orders DEF Passed, TypeOK
  <2>3. hooked = {}
    BY Zenon, <1>2, <2>2
  <2>4. \A c \in Cpu : cpu[c] = <<>>
    BY <2>1, <2>3 DEF Running, NotWaitedFor
  <2>5. net_uid' \in BOOLEAN /\ free_async' \in BOOLEAN
    BY Zenon, <1>8 DEF DestroyTable
  <2>6. TypeOK'
    BY <1>1, <2>1, <2>5, Orders DEF TypeOK
  <2> QED  BY Zenon, <1>1, <2>1, <2>2, <2>3, <2>4, <2>6
           DEF Flagged, Passed, Running, TablesUp, FamilyUp, Senders, NothingLeftBehind
<1> QED  BY Zenon, <1>3, <1>4, <1>5, <1>6, <1>7, <1>8 DEF Unwind

(* Every step keeps the invariant. *)
LEMMA StepIInv == IInv /\ [Next]_vars => IInv'
<1> SUFFICES ASSUME IInv, [Next]_vars  PROVE IInv'
  BY Zenon
<1> USE DEF IInv
<1>1. CASE InitTables
  <2>1. /\ phase = "out" /\ phase' = "init" /\ step' = 1
        /\ flag' = flag /\ hooked' = hooked /\ cpu' = cpu
    BY Zenon, <1>1 DEF InitTables
  <2>2. net_uid' /\ free_async' /\ net_uid' \in BOOLEAN /\ free_async' \in BOOLEAN
    BY Zenon, <1>1 DEF InitTables
  <2>3. TypeOK'
    BY <2>1, <2>2, Orders DEF TypeOK
  <2>4. TablesUp'
    BY Zenon, <2>1, <2>2 DEF TablesUp
  <2>5. hooked = {} /\ flag = {} /\ \A c \in Cpu : cpu[c] = <<>>
    BY Zenon, <2>1 DEF NothingLeftBehind
  <2>6. Flagged' /\ FamilyUp' /\ Passed' /\ NothingLeftBehind'
    BY SMT, <2>1, <2>5 DEF Flagged, FamilyUp, Passed, NothingLeftBehind
  <2>7. Running' /\ Senders'
    BY Zenon, <2>1, <2>5 DEF Running, Senders
  <2>8. phase' = "init" => step' <= 7
    BY SMT, <2>1
  <2> QED  BY Zenon, <2>3, <2>4, <2>6, <2>7, <2>8
<1>2. CASE rkx_exit
  <2>1. /\ phase = "live" /\ phase' = "unwind" /\ step' = 1
        /\ UNCHANGED <<flag, hooked, net_uid, free_async, cpu>>
    BY Zenon, <1>2 DEF rkx_exit
  <2>2. TypeOK'
    BY <2>1, Orders DEF TypeOK
  <2> QED  BY <2>1, <2>2
           DEF Flagged, Passed, Running, NotWaitedFor, TablesUp, FamilyUp, Senders,
               NothingLeftBehind
<1>3. CASE Initialise
  BY Zenon, <1>3, InitialiseIInv
<1>4. CASE Unwind
  BY Zenon, <1>4, UnwindIInv
<1>5. CASE Restart
  BY Zenon, <1>5, OutIInv
<1>6. CASE \E c \in Cpu : Run(c) \/ \E h \in hooked : Enter(c, h)
  BY Zenon, <1>6, RunIInv
<1>7. CASE UNCHANGED vars
  BY Zenon, <1>7 DEF vars, TypeOK, Flagged, Passed, Running, NotWaitedFor, TablesUp, FamilyUp, Senders,
              NothingLeftBehind
<1> QED  BY Zenon, <1>1, <1>2, <1>3, <1>4, <1>5, <1>6, <1>7 DEF Next

-----------------------------------------------------------------------------

(* The inductive invariant: where in the unwinding a hook may still be     *)
(* registered, and where a call of it may still be running.                *)
THEOREM LifecycleInvariant == Spec => []IInv
BY OutIInv, StepIInv, PTL DEF Spec

(* When rkx_exit or a failed rkx_init returns, nothing is registered and   *)
(* no CPU is inside the module.                                            *)
THEOREM NothingStays == Spec => []NothingLeftBehind
<1>1. IInv => NothingLeftBehind
  BY Zenon DEF IInv
<1> QED  BY <1>1, LifecycleInvariant, PTL

(* No call of a hook and no command meets a table that rkx_init has not    *)
(* made or that rkx_exit has destroyed.                                    *)
THEOREM TablesOutlive == Spec => []TablesOutliveUsers
<1>1. IInv => TablesOutliveUsers
  <2> SUFFICES ASSUME IInv, NEW c \in Cpu, cpu[c] # <<>>
               PROVE  /\ net_uid
                      /\ "free_async" \in Tables(cpu[c].hook) => free_async
    BY Zenon DEF TablesOutliveUsers
  <2>1. phase # "out"
    BY Zenon DEF IInv, NothingLeftBehind
  <2>2. "free_async" \in Tables(cpu[c].hook) => cpu[c].hook[1] \in {"kp", "genl"}
    BY Zenon DEF Tables
  <2>3. phase = "unwind" /\ step = 10 => cpu[c].hook[1] \notin {"kp", "genl"}
    BY Drained
  <2> QED  BY Zenon, <2>1, <2>2, <2>3 DEF IInv, TablesUp
<1> QED  BY <1>1, LifecycleInvariant, PTL

(* The netlink family is registered whenever a hook sends, although        *)
(* rkx_netlink_ready was asked without a lock.                             *)
THEOREM FamilyOutlives == Spec => []FamilyOutlivesSenders
<1>1. IInv => FamilyOutlivesSenders
  BY Zenon DEF IInv, Senders, FamilyOutlivesSenders
<1> QED  BY <1>1, LifecycleInvariant, PTL

-----------------------------------------------------------------------------

(* Once a boot has gone down inserting, the next one has the marker up to  *)
(* the test for it, and then a script that inserts nothing.                *)
Guarded ==
  cut => /\ phase = "out"
         /\ pc \in {"off", "test", "touch_disable", "rm_boot", "done"}
         /\ pc \in {"off", "test"} => ".boot" \in dir

(* As long as boots end well the marker is there only between the commands *)
(* that make and remove it.                                                *)
Undisturbed ==
  clean => /\ "disable" \notin dir \cup disk
           /\ pc # "touch_disable"
           /\ ".boot" \in dir => pc \in {"insmod", "inserting", "rm_boot"}

(* Every step of a boot is a step of the module or none: post-fs-data.sh   *)
(* adds nothing to what insmod, rmmod, the hooks and a restart do to it.   *)
THEOREM ScriptRunsModule == BootSpec => Spec
<1>1. BootInit => Init
  BY Zenon DEF BootInit
<1>2. [BootNext]_allVars => [Next]_vars
  <2> SUFFICES ASSUME BootNext  PROVE [Next]_vars
    BY Zenon DEF allVars
  <2>1. CASE Boot
    BY Zenon, <2>1 DEF Boot, Idle
  <2>2. CASE Script
    BY Zenon, <2>2 DEF Script, TestMarker, TouchDisable, TouchBoot, RmBoot, Command, InsmodRefused,
                Insmod, InsmodReturns, Idle, Next
  <2>3. CASE ModuleStep
    BY Zenon, <2>3 DEF ModuleStep, Next
  <2>4. CASE Sync \/ Enable
    BY Zenon, <2>4 DEF Sync, Enable, Idle
  <2>5. CASE GoDown
    BY Zenon, <2>5 DEF GoDown, Next
  <2> QED  BY Zenon, <2>1, <2>2, <2>3, <2>4, <2>5 DEF BootNext
<1> QED  BY <1>1, <1>2, PTL DEF BootSpec, Spec

(* Over any number of boots nothing of the module is left behind when it   *)
(* is out, no table goes before its users and the family not before those  *)
(* that send.                                                              *)
THEOREM ModuleSafeOverBoots ==
  BootSpec => [](NothingLeftBehind /\ TablesOutliveUsers /\ FamilyOutlivesSenders)
BY ScriptRunsModule, NothingStays, TablesOutlive, FamilyOutlives, PTL

(* A module that took the machine down while post-fs-data.sh inserted it,  *)
(* with the marker on disk, is not inserted by the next boot.              *)
THEOREM BootLoopBroken == BootSpec => []NoBootLoop
<1>1. BootInit => Guarded
  BY Zenon DEF BootInit, Guarded
<1>2. Guarded /\ [BootNext]_allVars => Guarded'
  <2> SUFFICES ASSUME Guarded, [BootNext]_allVars  PROVE Guarded'
    BY Zenon
  <2>1. CASE Boot
    BY Zenon, <2>1 DEF Boot, Idle, Kept, vars, Guarded
  <2>2. CASE Script
    BY Zenon, <2>2 DEF Script, TestMarker, TouchDisable, TouchBoot, RmBoot, Command, InsmodRefused,
                Insmod, InsmodReturns, Idle, Kept, vars, Guarded
  <2>3. CASE ModuleStep
    <3>1. phase = "out" => phase' = "out"
      BY Zenon, <2>3 DEF ModuleStep, Initialise, RegisterHook, RegisterFails, RegisterNet,
                  RegisterNetDone, RegisterNetFails, UndoNetfilter, Registering,
                  Unwind, UnregisterHook, UnregisterBegin, UnregisterEnd,
                  tracepoint_synchronize_unregister, DestroyTable, Unwinding,
                  rkx_exit, Run, UseTables, AskReady, Sent, Enter
    <3> QED  BY Zenon, <2>3, <3>1 DEF ModuleStep, bootVars, Guarded
  <2>4. CASE Sync \/ Enable
    BY Zenon, <2>4 DEF Sync, Enable, Idle, Kept, vars, Guarded
  <2>5. CASE GoDown
    BY Zenon, <2>5 DEF GoDown, Restart, Guarded
  <2>6. CASE UNCHANGED allVars
    BY Zenon, <2>6 DEF allVars, bootVars, vars, Guarded
  <2> QED  BY Zenon, <2>1, <2>2, <2>3, <2>4, <2>5, <2>6 DEF BootNext
<1>3. Guarded => NoBootLoop
  BY Zenon DEF Guarded, NoBootLoop
<1> QED  BY <1>1, <1>2, <1>3, PTL DEF BootSpec

(* The guard disables no module whose boots all ended after the script,    *)
(* with its files written back, whatever insmod returned.                  *)
THEOREM GoodModuleKept == BootSpec => []GoodModuleStays
<1>1. BootInit => Undisturbed
  BY Zenon DEF BootInit, Undisturbed
<1>2. Undisturbed /\ [BootNext]_allVars => Undisturbed'
  <2> SUFFICES ASSUME Undisturbed, [BootNext]_allVars  PROVE Undisturbed'
    BY Zenon
  <2>1. CASE Boot
    BY Zenon, <2>1 DEF Boot, Kept, Undisturbed
  <2>2. CASE TestMarker \/ InsmodRefused \/ Insmod \/ InsmodReturns
    BY Zenon, <2>2 DEF TestMarker, InsmodRefused, Insmod, InsmodReturns, NextFile, Kept, Undisturbed
  <2>3. CASE TouchDisable \/ TouchBoot \/ RmBoot
    <3>1. clean' = clean /\ disk' = disk
      BY Zenon, <2>3 DEF TouchDisable, TouchBoot, RmBoot, Command, Kept
    <3>2. \/ pc = "touch_disable"
          \/ pc' = "insmod" /\ dir' = dir \cup {".boot"}
          \/ pc' = "done" /\ dir' = dir \ {".boot"}
      BY Zenon, <2>3 DEF TouchDisable, TouchBoot, RmBoot, Command
    <3> QED  BY <3>1, <3>2 DEF Undisturbed
  <2>4. CASE Sync \/ Enable
    BY Zenon, <2>4 DEF Sync, Enable, Kept, Undisturbed
  <2>5. CASE GoDown
    BY Zenon, <2>5 DEF GoDown, Undisturbed
  <2>6. CASE ModuleStep \/ UNCHANGED allVars
    BY Zenon, <2>6 DEF ModuleStep, allVars, bootVars, Undisturbed
  <2> QED  BY Zenon, <2>1, <2>2, <2>3, <2>4, <2>5, <2>6 DEF BootNext, Script
<1>3. Undisturbed => GoodModuleStays
  BY Zenon DEF Undisturbed, GoodModuleStays
<1> QED  BY <1>1, <1>2, <1>3, PTL DEF BootSpec
=============================================================================
