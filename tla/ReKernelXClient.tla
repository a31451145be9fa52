--------------------------- MODULE ReKernelXClient ---------------------------
(***************************************************************************)
(* The client library rkx_jni.cpp: application threads call connect,       *)
(* disconnect, the commands and setCallback while one thread runs          *)
(* pollEvent.  The globals are atomics that pollEvent and the commands     *)
(* read without a lock; g_conn_mutex orders connect, disconnect and the    *)
(* end of pollEvent.  Descriptor numbers are reused, also by other code of *)
(* the application.                                                        *)
(***************************************************************************)
EXTENDS Integers, FiniteSets

CONSTANTS
  Thread,     \* application threads
  Poller,     \* the thread that runs pollEvent
  Ops,        \* the operations the application threads use
  Callback,   \* callback objects
  MaxQueue,   \* room for events in the socket's receive buffer
  MaxFd,      \* descriptors are 1 .. MaxFd
  NULL

ASSUME BoundsAssumption == MaxQueue \in Nat \ {0} /\ MaxFd \in Nat \ {0}
ASSUME ThreadAssumption == Poller \notin Thread /\ IsFiniteSet(Thread)
ASSUME NullAssumption == NULL \notin Thread \cup {Poller} \cup Callback

VARIABLES
  at, lfd, ldfd, lcb,  \* per thread: its place and locals
  g_fd, g_disconnect_fd, g_family_id, g_conn_mutex, g_callback,
  file,       \* per descriptor: what it is open on
  signalled,  \* the eventfd is readable
  pending,    \* events in the socket
  overrun,    \* an event found no room: the next recv fails with ENOBUFS
  refs,       \* per callback object: JNI references
  linked,     \* history: connect returned TRUE and no disconnect was called since
  promised    \* history: linked when pollEvent was called

connVars == <<g_fd, g_disconnect_fd, g_family_id, g_conn_mutex>>
kernelVars == <<file, signalled, pending, overrun>>
cbVars == <<g_callback, refs>>
histVars == <<linked, promised>>
vars == <<at, lfd, ldfd, lcb, connVars, kernelVars, cbVars, histVars>>

All == Thread \cup {Poller}
Fd == 1 .. MaxFd
NONE == -1

Goto(t, l) == at' = [at EXCEPT ![t] = l]
Close(fds) == file' = [n \in Fd |-> IF n \in fds THEN "closed" ELSE file[n]]
\* The kernel hands out the lowest free number.
Open(n, kind) ==
  /\ file[n] = "closed" /\ \A m \in 1 .. n - 1 : file[m] # "closed"
  /\ file' = [file EXCEPT ![n] = kind]
Forget(t) == lfd' = [lfd EXCEPT ![t] = NONE] /\ ldfd' = [ldfd EXCEPT ![t] = NONE]
Lock(t) == g_conn_mutex = NULL /\ g_conn_mutex' = t
Unlock == g_conn_mutex' = NULL

-----------------------------------------------------------------------------
(* connect *)

\* An open connection is reported as connected.
ConnectBegin(t) ==
  /\ "connect" \in Ops /\ at[t] = "idle" /\ g_conn_mutex = NULL
  /\ IF g_fd >= 0
     THEN /\ linked' = TRUE
          /\ UNCHANGED <<at, g_conn_mutex>>
     ELSE /\ Lock(t) /\ Goto(t, "socket")
          /\ UNCHANGED linked
  /\ UNCHANGED <<lfd, ldfd, lcb, g_fd, g_disconnect_fd, g_family_id, kernelVars,
                 cbVars, promised>>

ConnectFail(t, fds) ==
  /\ Close(fds) /\ Unlock /\ Goto(t, "idle") /\ Forget(t)
  /\ UNCHANGED <<lcb, g_fd, g_disconnect_fd, g_family_id, signalled,
                 pending, overrun, cbVars, histVars>>

ConnectSocket(t) ==
  /\ at[t] = "socket"
  /\ \/ ConnectFail(t, {})
     \/ /\ \E n \in Fd : Open(n, "socket") /\ lfd' = [lfd EXCEPT ![t] = n]
        /\ Goto(t, "eventfd")
        /\ UNCHANGED <<ldfd, lcb, connVars, signalled, pending, overrun, cbVars, histVars>>

\* Faulty: the socket stays open.
KeepSocket(t) == {}

CloseOnEventfdError(t) == {lfd[t]}

ConnectEventfd(t) ==
  /\ at[t] = "eventfd"
  /\ \/ ConnectFail(t, CloseOnEventfdError(t))
     \/ /\ \E n \in Fd : Open(n, "eventfd") /\ ldfd' = [ldfd EXCEPT ![t] = n]
        /\ signalled' = FALSE
        /\ Goto(t, "resolve")
        /\ UNCHANGED <<lfd, lcb, connVars, pending, overrun, cbVars, histVars>>

StoreAt == <<"store1", "store2", "store3">>

\* bind, resolve_family_group (3 s timeout) and joining the group.
ConnectResolve(t) ==
  /\ at[t] = "resolve"
  /\ \/ ConnectFail(t, {lfd[t], ldfd[t]})
     \/ /\ pending' = 0 /\ overrun' = FALSE
        /\ Goto(t, StoreAt[1])
        /\ UNCHANGED <<lfd, ldfd, lcb, connVars, file, signalled, cbVars, histVars>>

\* Faulty: the descriptor is published before the family id.
StoreFdFirst == <<"fd", "disconnect_fd", "family">>

StoreOrder == <<"family", "disconnect_fd", "fd">>

\* The globals are published one by one.
ConnectStore(t, i) ==
  /\ at[t] = StoreAt[i]
  /\ g_family_id' = IF StoreOrder[i] = "family" THEN 1 ELSE g_family_id
  /\ g_disconnect_fd' = IF StoreOrder[i] = "disconnect_fd" THEN ldfd[t] ELSE g_disconnect_fd
  /\ g_fd' = IF StoreOrder[i] = "fd" THEN lfd[t] ELSE g_fd
  /\ \/ i < 3 /\ Goto(t, StoreAt[i + 1]) /\ UNCHANGED <<lfd, ldfd, g_conn_mutex, linked>>
     \/ i = 3 /\ Goto(t, "idle") /\ Forget(t) /\ Unlock /\ linked' = TRUE
  /\ UNCHANGED <<lcb, kernelVars, cbVars, promised>>

-----------------------------------------------------------------------------
(* disconnect, the four commands, setCallback *)

\* Faulty: the descriptor is read before the lock is taken.
DisconnectUnlocked(t) == UNCHANGED g_conn_mutex

DisconnectLock(t) == Lock(t)

DisconnectBegin(t) ==
  /\ "disconnect" \in Ops /\ at[t] = "idle"
  /\ DisconnectLock(t)
  /\ linked' = FALSE
  /\ ldfd' = [ldfd EXCEPT ![t] = g_disconnect_fd]
  /\ Goto(t, "write")
  /\ UNCHANGED <<lfd, lcb, g_fd, g_disconnect_fd, g_family_id, kernelVars, cbVars, promised>>

DisconnectWrite(t) ==
  /\ at[t] = "write"
  /\ signalled' = (signalled \/ ldfd[t] >= 0)
  /\ Unlock /\ Goto(t, "idle") /\ Forget(t)
  /\ UNCHANGED <<lcb, g_fd, g_disconnect_fd, g_family_id, file, pending,
                 overrun, cbVars, histVars>>

\* addMonitorNet, delMonitorNet, addFreeAsync, delFreeAsync: the family id is
\* read, then g_fd, and the request goes out on a socket of its own.
CommandBegin(t) ==
  /\ "command" \in Ops /\ at[t] = "idle" /\ g_family_id # 0
  /\ Goto(t, "check")
  /\ UNCHANGED <<lfd, ldfd, lcb, connVars, kernelVars, cbVars, histVars>>

CommandSocket(t) ==
  /\ at[t] = "check"
  /\ \/ Goto(t, "idle") /\ UNCHANGED <<file, lfd>>  \* not connected, or no socket
     \/ /\ g_fd >= 0
        /\ \E n \in Fd : Open(n, "command") /\ lfd' = [lfd EXCEPT ![t] = n]
        /\ Goto(t, "send")
  /\ UNCHANGED <<ldfd, lcb, connVars, signalled, pending, overrun, cbVars, histVars>>

CommandSend(t) ==
  /\ at[t] = "send"
  /\ Close({lfd[t]}) /\ Goto(t, "idle") /\ Forget(t)
  /\ UNCHANGED <<lcb, connVars, signalled, pending, overrun, cbVars, histVars>>

AddRef(cb, k) == refs' = [c \in Callback |-> IF c = cb THEN refs[c] + k ELSE refs[c]]

SetCallbackBegin(t) ==
  /\ "setCallback" \in Ops /\ at[t] = "idle"
  /\ \E cb \in Callback \cup {NULL} : lcb' = [lcb EXCEPT ![t] = cb] /\ AddRef(cb, 1)
  /\ Goto(t, "swap")
  /\ UNCHANGED <<lfd, ldfd, connVars, kernelVars, g_callback, histVars>>

SetCallbackSwap(t) ==
  /\ at[t] = "swap"
  /\ g_callback' = lcb[t]
  /\ lcb' = [lcb EXCEPT ![t] = g_callback]
  /\ Goto(t, "delete")
  /\ UNCHANGED <<lfd, ldfd, connVars, kernelVars, refs, histVars>>

SetCallbackDelete(t) ==
  /\ at[t] = "delete"
  /\ AddRef(lcb[t], -1)
  /\ lcb' = [lcb EXCEPT ![t] = NULL]
  /\ Goto(t, "idle")
  /\ UNCHANGED <<lfd, ldfd, connVars, kernelVars, g_callback, histVars>>

-----------------------------------------------------------------------------
(* pollEvent *)

Running == at[Poller] # "out"

PollBegin ==
  /\ ~ Running
  /\ promised' = linked
  /\ Goto(Poller, "load")
  /\ UNCHANGED <<lfd, ldfd, lcb, connVars, kernelVars, cbVars, linked>>

PollLoad ==
  /\ at[Poller] = "load"
  /\ lfd' = [lfd EXCEPT ![Poller] = g_fd]
  /\ Goto(Poller, "load_disconnect")
  /\ UNCHANGED <<ldfd, lcb, connVars, kernelVars, cbVars, histVars>>

PollLoadDisconnect ==
  /\ at[Poller] = "load_disconnect"
  /\ ldfd' = [ldfd EXCEPT ![Poller] = g_disconnect_fd]
  /\ Goto(Poller, IF lfd[Poller] < 0 \/ g_disconnect_fd < 0 THEN "break" ELSE "poll")
  /\ UNCHANGED <<lfd, lcb, connVars, kernelVars, cbVars, histVars>>

\* Faulty: events are served before the request to disconnect.
EventsFirst == IF pending > 0 \/ overrun THEN "recv" ELSE "read"

Ready == IF signalled THEN "read" ELSE "recv"

PollWait ==
  /\ at[Poller] = "poll"
  /\ signalled \/ pending > 0 \/ overrun
  /\ Goto(Poller, Ready)
  /\ UNCHANGED <<lfd, ldfd, lcb, connVars, kernelVars, cbVars, histVars>>

\* poll fails with EINTR.
PollInterrupted ==
  /\ at[Poller] = "poll"
  /\ Goto(Poller, "load") /\ Forget(Poller)
  /\ UNCHANGED <<lcb, connVars, kernelVars, cbVars, histVars>>

PollRead ==
  /\ at[Poller] = "read" /\ signalled
  /\ signalled' = FALSE
  /\ Goto(Poller, "break") /\ Forget(Poller)
  /\ UNCHANGED <<lcb, connVars, file, pending, overrun, cbVars, histVars>>

\* The pending socket error is reported, and cleared, before any data.
PollRecv ==
  /\ at[Poller] = "recv"
  /\ \/ /\ overrun /\ overrun' = FALSE
        /\ Goto(Poller, "load") /\ Forget(Poller) /\ UNCHANGED pending
     \/ /\ ~ overrun /\ pending > 0 /\ pending' = pending - 1
        /\ Goto(Poller, "take") /\ UNCHANGED <<overrun, lfd, ldfd>>
  /\ UNCHANGED <<lcb, connVars, file, signalled, cbVars, histVars>>

\* Faulty: the callback is called through the global reference.
NoLocalRef == UNCHANGED refs

NewLocalRef == AddRef(g_callback, 1)

PollTake ==
  /\ at[Poller] = "take"
  /\ lcb' = [lcb EXCEPT ![Poller] = g_callback]
  /\ NewLocalRef
  /\ Goto(Poller, IF g_callback = NULL THEN "load" ELSE "handle")
  /\ UNCHANGED <<lfd, ldfd, connVars, kernelVars, g_callback, histVars>>

\* handle_event drops a message that is not of family g_family_id.
PollHandle ==
  /\ at[Poller] = "handle"
  /\ AddRef(lcb[Poller], -1)
  /\ lcb' = [lcb EXCEPT ![Poller] = NULL]
  /\ Goto(Poller, "load") /\ Forget(Poller)
  /\ UNCHANGED <<connVars, kernelVars, g_callback, histVars>>

PollExchange ==
  /\ at[Poller] = "break"
  /\ Lock(Poller)
  /\ lfd' = [lfd EXCEPT ![Poller] = g_fd]
  /\ g_fd' = NONE
  /\ Goto(Poller, "close")
  /\ UNCHANGED <<ldfd, lcb, g_disconnect_fd, g_family_id, kernelVars, cbVars, histVars>>

PollClose ==
  /\ at[Poller] = "close"
  /\ Close({lfd[Poller], g_disconnect_fd})
  /\ g_disconnect_fd' = NONE /\ g_family_id' = 0
  /\ signalled' = FALSE /\ pending' = 0 /\ overrun' = FALSE
  /\ Unlock /\ Goto(Poller, "out") /\ Forget(Poller)
  /\ UNCHANGED <<lcb, g_fd, cbVars, histVars>>

-----------------------------------------------------------------------------
(* The kernel multicasts to a socket that joined the group; the rest of    *)
(* the application opens and closes descriptors of its own.                *)

Joined == g_fd >= 0 \/ \E t \in Thread, i \in 1 .. 3 : at[t] = StoreAt[i]

Multicast ==
  /\ Joined
  /\ \/ pending < MaxQueue /\ pending' = pending + 1 /\ UNCHANGED overrun
     \/ pending = MaxQueue /\ overrun' = TRUE /\ UNCHANGED pending
  /\ UNCHANGED <<at, lfd, ldfd, lcb, connVars, file, signalled, cbVars, histVars>>

OtherFile ==
  /\ \E n \in Fd : \/ Open(n, "other")
                   \/ file[n] = "other" /\ Close({n})
  /\ UNCHANGED <<at, lfd, ldfd, lcb, connVars, signalled, pending, overrun, cbVars, histVars>>

Init ==
  /\ at = [t \in All |-> IF t = Poller THEN "out" ELSE "idle"]
  /\ lfd = [t \in All |-> NONE] /\ ldfd = [t \in All |-> NONE]
  /\ lcb = [t \in All |-> NULL]
  /\ g_fd = NONE /\ g_disconnect_fd = NONE /\ g_family_id = 0
  /\ g_conn_mutex = NULL /\ g_callback = NULL
  /\ file = [n \in Fd |-> "closed"]
  /\ signalled = FALSE /\ pending = 0 /\ overrun = FALSE
  /\ refs = [c \in Callback |-> 0]
  /\ linked = FALSE /\ promised = FALSE

Finish(t) ==
  \/ ConnectSocket(t) \/ ConnectEventfd(t) \/ ConnectResolve(t)
  \/ \E i \in 1 .. 3 : ConnectStore(t, i)
  \/ DisconnectWrite(t)
  \/ CommandSocket(t) \/ CommandSend(t)
  \/ SetCallbackSwap(t) \/ SetCallbackDelete(t)

Call(t) ==
  ConnectBegin(t) \/ DisconnectBegin(t) \/ CommandBegin(t) \/ SetCallbackBegin(t)

Poll ==
  \/ PollLoad \/ PollLoadDisconnect \/ PollWait \/ PollRead \/ PollRecv
  \/ PollTake \/ PollHandle \/ PollExchange \/ PollClose

Next ==
  \/ \E t \in Thread : Call(t) \/ Finish(t)
  \/ PollBegin \/ Poll \/ PollInterrupted
  \/ Multicast \/ OtherFile

Spec == Init /\ [][Next]_vars

\* A call that was made goes on, the mutex is eventually given to pollEvent,
\* and signals do not interrupt every poll.
FairSpec ==
  /\ Spec
  /\ \A t \in Thread : WF_vars(Finish(t))
  /\ WF_vars(Poll) /\ SF_vars(PollWait) /\ SF_vars(PollExchange)

-----------------------------------------------------------------------------
(* Properties *)

InLoop == at[Poller] \in {"poll", "read", "recv", "take", "handle"}

\* Every descriptor that is about to be polled, read, written or closed is
\* open on the file the thread took it for, although pollEvent reads g_fd and
\* g_disconnect_fd without a lock and the numbers are reused.
DescriptorsLive ==
  /\ g_fd # NONE => file[g_fd] = "socket"
  /\ g_disconnect_fd # NONE => file[g_disconnect_fd] = "eventfd"
  /\ InLoop => file[lfd[Poller]] = "socket" /\ file[ldfd[Poller]] = "eventfd"
  /\ at[Poller] = "close" /\ lfd[Poller] # NONE => file[lfd[Poller]] = "socket"
  /\ \A t \in Thread :
       /\ at[t] = "write" /\ ldfd[t] # NONE => file[ldfd[t]] = "eventfd"
       /\ at[t] = "send" => file[lfd[t]] = "command"

\* With nobody inside connect or the end of pollEvent, the connection's open
\* files are exactly the published ones, so every failure path of connect and
\* every end of pollEvent closed what it opened.
NoDescriptorLeak ==
  g_conn_mutex = NULL =>
    {n \in Fd : file[n] \in {"socket", "eventfd"}} = {g_fd, g_disconnect_fd} \ {NONE}

\* The references to a callback object are g_callback's, those of setCallback
\* calls under way and the local one of the event being handled: setCallback
\* never frees the object pollEvent is calling, and leaks none.
ReferencesExact ==
  \A c \in Callback :
    refs[c] = (IF g_callback = c THEN 1 ELSE 0)
              + Cardinality({t \in Thread : at[t] \in {"swap", "delete"} /\ lcb[t] = c})
              + (IF at[Poller] = "handle" /\ lcb[Poller] = c THEN 1 ELSE 0)

\* An event that was received is handled while g_family_id is set, so
\* handle_event does not take it for a message of another family: connect
\* publishes the family before the descriptor.
FamilyKnown == at[Poller] = "handle" => g_family_id # 0

\* A disconnect that reached a running pollEvent makes it return, whatever
\* the rate of events.
DisconnectReturns == Running /\ signalled ~> ~ Running

\* Develop/README.md: pollEvent blocks until disconnect.  A call made on a
\* connection that connect reported, and that nobody disconnected since, does
\* not return before a disconnect.
BlocksUntilDisconnect ==
  [][at[Poller] = "close" /\ at'[Poller] = "out" => (promised => ~ linked)]_vars
=============================================================================
