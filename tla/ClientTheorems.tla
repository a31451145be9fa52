--------------------------- MODULE ClientTheorems ---------------------------
(***************************************************************************)
(* The safety invariants of ReKernelXClient for any threads, callback      *)
(* objects and number of descriptors.  The invariant says who owns each    *)
(* open file at every place in connect, disconnect, the commands and       *)
(* pollEvent: pollEvent is the only one that clears g_fd, so the           *)
(* descriptors it read without the mutex stay the published ones.          *)
(***************************************************************************)
EXTENDS ReKernelXClient, FiniteSetTheorems, TLAPS

Connecting == {"socket", "eventfd", "resolve", "store1", "store2", "store3"}
HasSocket == Connecting \ {"socket"}
HasEventfd == HasSocket \ {"eventfd"}
ThreadAt == Connecting \cup {"idle", "write", "check", "send", "swap", "delete"}
PollerAt == {"out", "load", "load_disconnect", "poll", "read", "recv", "take", "handle", "break",
             "close"}

Types ==
  /\ at \in [All -> ThreadAt \cup PollerAt] /\ at[Poller] \in PollerAt
  /\ \A t \in Thread : at[t] \in ThreadAt
  /\ lfd \in [All -> Fd \cup {NONE}] /\ ldfd \in [All -> Fd \cup {NONE}]
  /\ lcb \in [All -> Callback \cup {NULL}]
  /\ g_fd \in Fd \cup {NONE} /\ g_disconnect_fd \in Fd \cup {NONE}
  /\ g_family_id \in {0, 1} /\ g_callback \in Callback \cup {NULL}
  /\ file \in [Fd -> {"closed", "socket", "eventfd", "command", "other"}]
  /\ refs \in [Callback -> Int]

\* g_conn_mutex is held all through connect, disconnect and the end of
\* pollEvent.
Mutex ==
  /\ \A t \in Thread : at[t] \in Connecting \cup {"write"} <=> g_conn_mutex = t
  /\ at[Poller] = "close" <=> g_conn_mutex = Poller

\* What is published belongs together.
Published ==
  /\ g_fd # NONE => g_disconnect_fd # NONE /\ g_family_id = 1 /\ file[g_fd] = "socket"
  /\ g_disconnect_fd # NONE => file[g_disconnect_fd] = "eventfd"
  /\ (\A t \in Thread : at[t] \notin Connecting) /\ at[Poller] # "close" /\ g_fd = NONE =>
       g_disconnect_fd = NONE

\* The locals of the call that holds the mutex.
Locals ==
  /\ \A t \in Thread :
       /\ at[t] \in Connecting => g_fd = NONE
       /\ at[t] \in Connecting \ {"store3"} => g_disconnect_fd = NONE
       /\ at[t] = "store3" => g_disconnect_fd = ldfd[t]
       /\ at[t] \in {"store2", "store3"} => g_family_id = 1
       /\ at[t] \in HasSocket => lfd[t] # NONE /\ file[lfd[t]] = "socket"
       /\ at[t] \in HasEventfd => ldfd[t] # NONE /\ file[ldfd[t]] = "eventfd"
       /\ at[t] = "write" => ldfd[t] = g_disconnect_fd
  /\ at[Poller] = "close" =>
       /\ g_fd = NONE
       /\ lfd[Poller] # NONE => file[lfd[Poller]] = "socket"

\* pollEvent works on the published descriptors.
Polled ==
  /\ at[Poller] = "load_disconnect" /\ lfd[Poller] # NONE => lfd[Poller] = g_fd
  /\ InLoop => /\ lfd[Poller] # NONE /\ lfd[Poller] = g_fd
               /\ ldfd[Poller] # NONE /\ ldfd[Poller] = g_disconnect_fd

\* Every socket and eventfd of the connection has an owner.
Owned ==
  \A n \in Fd :
    /\ file[n] = "socket" => \/ n = g_fd
                             \/ at[Poller] = "close" /\ n = lfd[Poller]
                             \/ \E t \in Thread : at[t] \in HasSocket /\ n = lfd[t]
    /\ file[n] = "eventfd" => \/ n = g_disconnect_fd
                              \/ \E t \in Thread : at[t] \in HasEventfd /\ n = ldfd[t]

\* Every command has a socket of its own.
Commands ==
  /\ \A t \in Thread : at[t] = "send" => lfd[t] # NONE /\ file[lfd[t]] = "command"
  /\ \A t, u \in Thread : at[t] = "send" /\ at[u] = "send" /\ lfd[t] = lfd[u] => t = u

\* The inductive invariant.
CInv == Types /\ Mutex /\ Published /\ Locals /\ Polled /\ Owned /\ Commands

-----------------------------------------------------------------------------
(* Ownership of descriptors *)

(* Descriptors are numbers, and NONE is not one.                           *)
LEMMA FdFacts == NONE \notin Fd /\ \A n \in Fd \cup {NONE} : (n >= 0 <=> n # NONE) /\ (n < 0 <=> n = NONE)
  BY BoundsAssumption DEF NONE, Fd

(* Steps outside of the mutex that open and close nothing: the beginning   *)
(* of a command, one that finds no connection, and setCallback.            *)
LEMMA QuietCInv ==
  ASSUME CInv, NEW t \in Thread, NEW l \in {"idle", "check", "swap", "delete"},
         at[t] \in {"idle", "check", "swap", "delete"}, at' = [at EXCEPT ![t] = l],
         lcb' \in [All -> Callback \cup {NULL}], refs' \in [Callback -> Int],
         g_callback' \in Callback \cup {NULL}, UNCHANGED <<lfd, ldfd, connVars, file>>
  PROVE  CInv'
<1> USE DEF CInv
<1>1. t \in All /\ Poller \in All /\ t # Poller /\ Thread \subseteq All
  BY Zenon, ThreadAssumption DEF All
<1>2. UNCHANGED <<lfd, ldfd, g_fd, g_disconnect_fd, g_family_id, g_conn_mutex, file>>
  BY Zenon DEF connVars
<1>3. /\ \A u \in Thread : at'[u] = IF u = t THEN l ELSE at[u]
      /\ at'[Poller] = at[Poller]
  BY Zenon, <1>1 DEF Types
<1>4. /\ \A u \in Thread : at'[u] \in Connecting \cup {"write", "send"} <=> at[u] \in Connecting \cup {"write", "send"}
      /\ \A u \in Thread : at'[u] \in Connecting \cup {"write", "send"} => at'[u] = at[u]
  BY Zenon, <1>3 DEF Connecting
<1>5. Types'
  BY Zenon, <1>1, <1>2, <1>3 DEF Types, ThreadAt
<1>6. Mutex'
  BY Zenon, <1>2, <1>3, <1>4 DEF Mutex, Connecting
<1>7. Published'
  BY Zenon, <1>2, <1>3, <1>4 DEF Published, Connecting
<1>8. Locals'
  BY <1>2, <1>3, <1>4 DEF Locals, Connecting, HasSocket, HasEventfd
<1>9. Polled'
  BY Zenon, <1>2, <1>3 DEF Polled, InLoop
<1>10. Owned'
  BY <1>2, <1>3, <1>4 DEF Owned, HasSocket, HasEventfd, Connecting
<1>11. Commands'
  BY <1>2, <1>3, <1>4 DEF Commands
<1> QED  BY Zenon, <1>5, <1>6, <1>7, <1>8, <1>9, <1>10, <1>11

(* Steps of pollEvent before its end: it reads the published descriptors   *)
(* without the mutex, and opens and closes nothing.                        *)
LEMMA PollCInv ==
  ASSUME CInv, NEW l \in PollerAt \ {"close"}, at[Poller] # "close", at' = [at EXCEPT ![Poller] = l],
         lfd' \in [All -> Fd \cup {NONE}], ldfd' \in [All -> Fd \cup {NONE}],
         \A u \in Thread : lfd'[u] = lfd[u] /\ ldfd'[u] = ldfd[u],
         lcb' \in [All -> Callback \cup {NULL}], refs' \in [Callback -> Int],
         UNCHANGED <<connVars, file, g_callback>>,
         l = "load_disconnect" => lfd'[Poller] \in {g_fd, NONE},
         l \in {"poll", "read", "recv", "take", "handle"} =>
           lfd'[Poller] = g_fd /\ ldfd'[Poller] = g_disconnect_fd /\ g_fd # NONE /\ g_disconnect_fd # NONE
  PROVE  CInv'
<1> USE DEF CInv
<1>1. Poller \in All /\ Poller \notin Thread /\ Thread \subseteq All
  BY Zenon, ThreadAssumption DEF All
<1>2. UNCHANGED <<g_fd, g_disconnect_fd, g_family_id, g_conn_mutex, file, g_callback>>
  BY Zenon DEF connVars
<1>3. /\ \A u \in Thread : at'[u] = at[u] /\ lfd'[u] = lfd[u] /\ ldfd'[u] = ldfd[u]
      /\ at'[Poller] = l
  BY Zenon, <1>1 DEF Types
<1>4. Types'
  BY Zenon, <1>1, <1>2, <1>3 DEF Types
<1>5. Mutex' /\ Published'
  BY Zenon, <1>2, <1>3 DEF Mutex, Published
<1>6. Locals'
  BY <1>2, <1>3 DEF Locals
<1>7. Polled'
  BY Zenon, <1>2, <1>3 DEF Polled, InLoop
<1>8. Owned' /\ Commands'
  BY <1>2, <1>3 DEF Owned, Commands
<1> QED  BY Zenon, <1>4, <1>5, <1>6, <1>7, <1>8

(* Who holds g_conn_mutex is alone inside connect, disconnect and the end  *)
(* of pollEvent.                                                           *)
LEMMA Alone ==
  ASSUME CInv
  PROVE  /\ \A t, u \in Thread : at[t] \in Connecting \cup {"write"} /\ at[u] \in Connecting \cup {"write"} => t = u
         /\ \A t \in Thread : at[t] \in Connecting \cup {"write"} => at[Poller] # "close"
         /\ g_conn_mutex = NULL => /\ \A t \in Thread : at[t] \notin Connecting \cup {"write"}
                                   /\ at[Poller] # "close"
  BY Zenon, ThreadAssumption, NullAssumption DEF CInv, Mutex

(* The mutex is taken: connect on a closed connection, and disconnect,     *)
(* which loads the descriptor under it.                                    *)
LEMMA LockCInv ==
  ASSUME CInv, NEW t \in Thread, ConnectBegin(t) \/ DisconnectBegin(t)
  PROVE  CInv'
<1> USE DEF CInv
<1>1. t \in All /\ Poller \in All /\ t # Poller /\ Thread \subseteq All
  BY Zenon, ThreadAssumption DEF All
<1>2. CASE at' = at
  <2>1. UNCHANGED <<at, lfd, ldfd, lcb, g_fd, g_disconnect_fd, g_family_id, g_conn_mutex, g_callback, file, refs>>
    <3>1. ~DisconnectBegin(t)
      BY Zenon, <1>1, <1>2 DEF DisconnectBegin, Goto, Types
    <3>2. ~Goto(t, "socket") \/ at[t] # "idle"
      BY Zenon, <1>1, <1>2 DEF Goto, Types
    <3> QED  BY Zenon, <3>1, <3>2 DEF ConnectBegin, kernelVars, cbVars
  <2>2. Types' /\ Mutex' /\ Published'
    BY Zenon, <2>1 DEF Types, Mutex, Published
  <2>3. Locals' /\ Polled'
    BY Zenon, <2>1 DEF Locals, Polled, InLoop
  <2>4. Owned' /\ Commands'
    BY Zenon, <2>1 DEF Owned, Commands
  <2> QED  BY Zenon, <2>2, <2>3, <2>4
<1>3. ASSUME NEW l \in {"socket", "write"}, at[t] = "idle", Lock(t), at' = [at EXCEPT ![t] = l],
             NEW d \in Fd \cup {NONE}, ldfd' = [ldfd EXCEPT ![t] = d],
             l = "socket" => g_fd = NONE, l = "write" => d = g_disconnect_fd,
             UNCHANGED <<lfd, lcb, g_fd, g_disconnect_fd, g_family_id, g_callback, file, refs>>
      PROVE  CInv'
  <2>1. g_conn_mutex = NULL /\ g_conn_mutex' = t
    BY Zenon, <1>3 DEF Lock
  <2>2. /\ \A u \in Thread : at[u] \notin Connecting \cup {"write"}
        /\ at[Poller] # "close"
    BY Zenon, <2>1, Alone
  <2>3. /\ \A u \in Thread : at'[u] = (IF u = t THEN l ELSE at[u]) /\ ldfd'[u] = (IF u = t THEN d ELSE ldfd[u])
        /\ at'[Poller] = at[Poller] /\ ldfd'[Poller] = ldfd[Poller]
    BY Zenon, <1>1, <1>3 DEF Types
  <2>4. Types'
    BY Zenon, <1>1, <1>3, <2>3 DEF Types, ThreadAt, Connecting
  <2>5. Mutex'
    BY Zenon, <1>1, <1>3, <2>1, <2>2, <2>3 DEF Mutex, Connecting
  <2>6. l = "socket" => g_disconnect_fd = NONE
    BY Zenon, <1>3, <2>2 DEF Published
  <2>7. Published'
    BY Zenon, <1>3, <2>2, <2>3, <2>6 DEF Published, Connecting
  <2>8. Locals'
    BY <1>3, <2>2, <2>3, <2>6 DEF Locals, Connecting, HasSocket, HasEventfd
  <2>9. Polled'
    BY Zenon, <1>3, <2>3 DEF Polled, InLoop
  <2>10. Owned'
    BY Zenon, <1>3, <2>2, <2>3 DEF Owned, HasSocket, HasEventfd
  <2>11. Commands'
    BY <1>3, <2>3 DEF Commands
  <2> QED  BY Zenon, <2>4, <2>5, <2>7, <2>8, <2>9, <2>10, <2>11
<1>4. ldfd' = ldfd => ldfd' = [ldfd EXCEPT ![t] = ldfd[t]]
  BY Zenon, <1>1 DEF Types
<1>5. CASE ConnectBegin(t) /\ at' # at
  <2>1. /\ at[t] = "idle" /\ Lock(t) /\ at' = [at EXCEPT ![t] = "socket"] /\ ~(g_fd >= 0)
        /\ UNCHANGED <<lfd, ldfd, lcb, g_fd, g_disconnect_fd, g_family_id, g_callback, file, refs>>
    BY Zenon, <1>5 DEF ConnectBegin, Goto, kernelVars, cbVars
  <2>2. g_fd = NONE /\ ldfd[t] \in Fd \cup {NONE}
    BY Zenon, <1>1, <2>1, FdFacts DEF Types
  <2> QED  BY Zenon, <1>3, <1>4, <2>1, <2>2
<1>6. CASE DisconnectBegin(t)
  <2>1. /\ at[t] = "idle" /\ Lock(t) /\ at' = [at EXCEPT ![t] = "write"]
        /\ ldfd' = [ldfd EXCEPT ![t] = g_disconnect_fd]
        /\ UNCHANGED <<lfd, lcb, g_fd, g_disconnect_fd, g_family_id, g_callback, file, refs>>
    BY Zenon, <1>6 DEF DisconnectBegin, DisconnectLock, Goto, kernelVars, cbVars
  <2> QED  BY Zenon, <1>3, <2>1 DEF Types
<1> QED  BY Zenon, <1>2, <1>5, <1>6

(* The steps of connect on the way to a connection: a file is opened, the  *)
(* family is resolved.                                                     *)
LEMMA ConnectCInv ==
  ASSUME CInv, NEW t \in Thread, NEW n \in Fd, NEW kind \in {"socket", "eventfd"},
         file[n] = "closed", file' = [file EXCEPT ![n] = kind],
         \/ /\ kind = "socket" /\ at[t] = "socket" /\ at' = [at EXCEPT ![t] = "eventfd"]
            /\ lfd' = [lfd EXCEPT ![t] = n] /\ ldfd' = ldfd
         \/ /\ kind = "eventfd" /\ at[t] = "eventfd" /\ at' = [at EXCEPT ![t] = "resolve"]
            /\ ldfd' = [ldfd EXCEPT ![t] = n] /\ lfd' = lfd,
         UNCHANGED <<lcb, connVars, cbVars>>
  PROVE  CInv'
<1> USE DEF CInv
<1>1. t \in All /\ Poller \in All /\ t # Poller /\ Thread \subseteq All
  BY Zenon, ThreadAssumption DEF All
<1>2. UNCHANGED <<lcb, g_fd, g_disconnect_fd, g_family_id, g_conn_mutex, g_callback, refs>>
  BY Zenon DEF connVars, cbVars
<1>3. /\ \A u \in Thread : u # t => at'[u] = at[u] /\ lfd'[u] = lfd[u] /\ ldfd'[u] = ldfd[u]
      /\ at'[Poller] = at[Poller] /\ lfd'[Poller] = lfd[Poller] /\ ldfd'[Poller] = ldfd[Poller]
      /\ at[t] \in {"socket", "eventfd"} /\ at'[t] \in {"eventfd", "resolve"}
  BY Zenon, <1>1 DEF Types
<1>4. \A m \in Fd : file'[m] = IF m = n THEN kind ELSE file[m]
  BY Zenon DEF Types
<1>5. /\ \A u \in Thread : u # t => at[u] \notin Connecting \cup {"write"}
      /\ at[Poller] # "close" /\ g_fd = NONE /\ g_disconnect_fd = NONE
  BY Zenon, <1>3, Alone DEF Connecting, Locals
<1>6. \/ kind = "socket" /\ at[t] = "socket" /\ at'[t] = "eventfd" /\ lfd'[t] = n /\ ldfd'[t] = ldfd[t]
      \/ kind = "eventfd" /\ at[t] = "eventfd" /\ at'[t] = "resolve" /\ ldfd'[t] = n /\ lfd'[t] = lfd[t]
  BY Zenon, <1>1 DEF Types
<1>7. Types'
  BY <1>1, <1>2, <1>3 DEF Types, ThreadAt, Connecting
<1>8. Mutex'
  BY Zenon, <1>2, <1>3, <1>5 DEF Mutex, Connecting
<1>9. Published'
  BY Zenon, <1>2, <1>3, <1>5 DEF Published, Connecting
<1>10. NONE \notin Fd /\ \A u \in Thread : lfd[u] \in Fd \cup {NONE} /\ ldfd[u] \in Fd \cup {NONE}
  BY Zenon, <1>1, FdFacts DEF Types
<1>11. Locals'
  <2>1. \A u \in Thread : u # t => at'[u] \notin Connecting \cup {"write"}
    BY Zenon, <1>3, <1>5
  <2>2. /\ lfd'[t] # NONE /\ file'[lfd'[t]] = "socket"
        /\ at'[t] = "resolve" => ldfd'[t] # NONE /\ file'[ldfd'[t]] = "eventfd"
    BY <1>4, <1>6, <1>10 DEF Locals, HasSocket, Connecting
  <2> QED  BY <1>2, <1>3, <1>5, <2>1, <2>2 DEF Locals, Connecting, HasSocket, HasEventfd
<1>12. Polled'
  BY Zenon, <1>2, <1>3, <1>5 DEF Polled, InLoop
<1>13. Owned'
  BY <1>2, <1>3, <1>4, <1>5, <1>6 DEF Owned, HasSocket, HasEventfd, Connecting
<1>14. Commands'
  <2>1. \A u \in Thread : at'[u] = "send" => u # t /\ at[u] = "send" /\ lfd'[u] = lfd[u]
    BY Zenon, <1>3
  <2> QED  BY <1>4, <1>10, <2>1 DEF Commands
<1> QED  BY Zenon, <1>7, <1>8, <1>9, <1>11, <1>12, <1>13, <1>14

(* A failure path of connect closes what connect opened, and nothing else. *)
LEMMA FailCInv ==
  ASSUME CInv, NEW t \in Thread, NEW fds \in SUBSET Fd, ConnectFail(t, fds),
         at[t] \in {"socket", "eventfd", "resolve"},
         at[t] \in HasSocket => lfd[t] \in fds, at[t] \in HasEventfd => ldfd[t] \in fds,
         \A n \in fds : file[n] \in {"socket", "eventfd"}
  PROVE  CInv'
<1> USE DEF CInv
<1>1. t \in All /\ Poller \in All /\ t # Poller /\ Thread \subseteq All
  BY Zenon, ThreadAssumption DEF All
<1>2. /\ UNCHANGED <<lcb, g_fd, g_disconnect_fd, g_family_id, g_callback, refs>>
      /\ g_conn_mutex' = NULL /\ at' = [at EXCEPT ![t] = "idle"]
      /\ lfd' = [lfd EXCEPT ![t] = NONE] /\ ldfd' = [ldfd EXCEPT ![t] = NONE]
      /\ file' = [n \in Fd |-> IF n \in fds THEN "closed" ELSE file[n]]
  BY Zenon DEF ConnectFail, Close, Unlock, Goto, Forget, cbVars
<1>3. /\ \A u \in Thread : u # t => at'[u] = at[u] /\ lfd'[u] = lfd[u] /\ ldfd'[u] = ldfd[u]
      /\ at'[Poller] = at[Poller] /\ lfd'[Poller] = lfd[Poller] /\ ldfd'[Poller] = ldfd[Poller]
      /\ at'[t] = "idle"
  BY Zenon, <1>1, <1>2 DEF Types
<1>4. \A m \in Fd : file'[m] = IF m \in fds THEN "closed" ELSE file[m]
  BY Zenon, <1>2
<1>5. /\ \A u \in Thread : u # t => at[u] \notin Connecting \cup {"write"}
      /\ at[Poller] # "close" /\ g_fd = NONE /\ g_disconnect_fd = NONE
  BY Zenon, Alone DEF Connecting, Locals
<1>6. Types'
  BY Zenon, <1>1, <1>2, <1>3 DEF Types, ThreadAt
<1>7. \A u \in Thread : at'[u] \notin Connecting \cup {"write"}
  BY Zenon, <1>3, <1>5 DEF Connecting
<1>8. Mutex'
  BY Zenon, <1>2, <1>3, <1>5, <1>7, NullAssumption DEF Mutex
<1>9. Published'
  BY Zenon, <1>2, <1>5 DEF Published
<1>10. Locals'
  BY Zenon, <1>3, <1>5, <1>7 DEF Locals, HasSocket, HasEventfd, Connecting
<1>11. Polled'
  BY Zenon, <1>2, <1>3, <1>5 DEF Polled, InLoop
<1>12. Owned'
  BY <1>2, <1>4, <1>5 DEF Owned, HasSocket, HasEventfd
<1>13. Commands'
  <2>1. \A u \in Thread : at'[u] = "send" => u # t /\ at[u] = "send" /\ lfd'[u] = lfd[u] /\ lfd[u] \in Fd \cup {NONE}
    BY Zenon, <1>1, <1>3 DEF Types
  <2> QED  BY <1>4, <2>1 DEF Commands
<1> QED  BY Zenon, <1>6, <1>8, <1>9, <1>10, <1>11, <1>12, <1>13

(* The family is resolved, and the globals are published one by one, the   *)
(* descriptor last: before that nobody takes the connection for open.      *)
LEMMA StoreCInv ==
  ASSUME CInv, NEW t \in Thread,
         NEW l \in {"store1", "store2", "store3", "idle"}, at' = [at EXCEPT ![t] = l],
         UNCHANGED <<lcb, file, cbVars>>,
         \/ /\ at[t] = "resolve" /\ l = "store1" /\ UNCHANGED <<lfd, ldfd, connVars>>
         \/ /\ at[t] = "store1" /\ l = "store2" /\ g_family_id' = 1
            /\ UNCHANGED <<lfd, ldfd, g_fd, g_disconnect_fd, g_conn_mutex>>
         \/ /\ at[t] = "store2" /\ l = "store3" /\ g_disconnect_fd' = ldfd[t]
            /\ UNCHANGED <<lfd, ldfd, g_fd, g_family_id, g_conn_mutex>>
         \/ /\ at[t] = "store3" /\ l = "idle" /\ g_fd' = lfd[t] /\ g_conn_mutex' = NULL
            /\ lfd' = [lfd EXCEPT ![t] = NONE] /\ ldfd' = [ldfd EXCEPT ![t] = NONE]
            /\ UNCHANGED <<g_disconnect_fd, g_family_id>>
  PROVE  CInv'
<1> USE DEF CInv
<1>1. t \in All /\ Poller \in All /\ t # Poller /\ Thread \subseteq All
  BY Zenon, ThreadAssumption DEF All
<1>2. UNCHANGED <<lcb, file, g_callback, refs>>
  BY Zenon DEF cbVars
<1>3. /\ \A u \in Thread : u # t => at'[u] = at[u] /\ lfd'[u] = lfd[u] /\ ldfd'[u] = ldfd[u]
      /\ at'[Poller] = at[Poller] /\ lfd'[Poller] = lfd[Poller] /\ ldfd'[Poller] = ldfd[Poller]
      /\ at'[t] = l /\ at[t] \in HasEventfd
  BY Zenon, <1>1 DEF Types, HasEventfd, HasSocket, Connecting
<1>4. /\ \A u \in Thread : u # t => at[u] \notin Connecting \cup {"write"}
      /\ at[Poller] # "close" /\ g_fd = NONE /\ (at[t] # "store3" => g_disconnect_fd = NONE)
  BY Zenon, <1>3, Alone DEF Connecting, Locals, HasSocket, HasEventfd
<1>5. /\ lfd[t] # NONE /\ file[lfd[t]] = "socket" /\ ldfd[t] # NONE /\ file[ldfd[t]] = "eventfd"
      /\ lfd[t] \in Fd \cup {NONE} /\ ldfd[t] \in Fd \cup {NONE}
  BY Zenon, <1>1, <1>3 DEF Types, Locals, HasSocket, HasEventfd
<1>6. l # "idle" => lfd'[t] = lfd[t] /\ ldfd'[t] = ldfd[t]
  BY Zenon
<1>7. Types'
  BY <1>1, <1>2, <1>3, <1>5 DEF Types, ThreadAt, Connecting, connVars
<1>8. \A u \in Thread : u # t => at'[u] \notin Connecting \cup {"write"}
  BY Zenon, <1>3, <1>4
<1>9. Mutex'
  BY <1>3, <1>4, <1>8, NullAssumption DEF Mutex, Connecting, HasSocket, HasEventfd, connVars
<1>10. /\ g_fd' # NONE <=> l = "idle"
       /\ l = "idle" => g_fd' = lfd[t] /\ g_disconnect_fd' = ldfd[t] /\ g_family_id' = 1
       /\ l = "store3" => g_disconnect_fd' = ldfd[t] /\ g_family_id' = 1
       /\ l = "store2" => g_disconnect_fd' = NONE /\ g_family_id' = 1
       /\ l = "store1" => g_disconnect_fd' = NONE
  BY Zenon, <1>4, <1>5 DEF Locals, connVars
<1>11. Published' /\ Locals'
  <2>1. Published'
    BY Zenon, <1>2, <1>3, <1>5, <1>10 DEF Published, Connecting
  <2>2. ASSUME NEW u \in Thread
        PROVE  (/\ at[u] \in Connecting => g_fd = NONE
                /\ at[u] \in Connecting \ {"store3"} => g_disconnect_fd = NONE
                /\ at[u] = "store3" => g_disconnect_fd = ldfd[u]
                /\ at[u] \in {"store2", "store3"} => g_family_id = 1
                /\ at[u] \in HasSocket => lfd[u] # NONE /\ file[lfd[u]] = "socket"
                /\ at[u] \in HasEventfd => ldfd[u] # NONE /\ file[ldfd[u]] = "eventfd"
                /\ at[u] = "write" => ldfd[u] = g_disconnect_fd)'
    <3>1. CASE u = t
      <4>1. at'[u] \in {"store1", "store2", "store3", "idle"} /\ at'[u] = l
        BY Zenon, <1>3, <3>1
      <4> QED  BY Zenon, <1>2, <1>5, <1>6, <1>10, <3>1, <4>1 DEF Connecting, HasSocket, HasEventfd
    <3>2. CASE u # t
      BY Zenon, <1>8, <3>2 DEF Connecting, HasSocket, HasEventfd
    <3> QED  BY Zenon, <3>1, <3>2
  <2>3. at'[Poller] # "close"
    BY Zenon, <1>3, <1>4
  <2> QED  BY Zenon, <2>1, <2>2, <2>3 DEF Locals
<1>12. Polled'
  BY Zenon, <1>3, <1>4 DEF Polled, InLoop
<1>13. Owned'
  <2>1. \A n \in Fd : file[n] = "socket" => n = lfd[t]
    BY Zenon, <1>4, FdFacts DEF Owned, HasSocket
  <2>2. \A n \in Fd : file[n] = "eventfd" => n = ldfd[t]
    BY <1>3, <1>4, FdFacts DEF Owned, HasSocket, HasEventfd, Locals
  <2>3. l = "idle" => g_fd' = lfd[t] /\ g_disconnect_fd' = ldfd[t]
    BY Zenon DEF Locals
  <2> QED  BY <1>2, <1>3, <1>6, <2>1, <2>2, <2>3 DEF Owned, HasSocket, HasEventfd, Connecting
<1>14. Commands'
  <2>1. \A u \in Thread : at'[u] = "send" => u # t /\ at[u] = "send" /\ lfd'[u] = lfd[u]
    BY Zenon, <1>3
  <2> QED  BY <1>2, <2>1 DEF Commands
<1> QED  BY Zenon, <1>7, <1>9, <1>11, <1>12, <1>13, <1>14

(* disconnect writes to the eventfd and gives the mutex back.              *)
LEMMA WriteCInv ==
  ASSUME CInv, NEW t \in Thread, DisconnectWrite(t)
  PROVE  CInv'
<1> USE DEF CInv
<1>1. t \in All /\ Poller \in All /\ t # Poller /\ Thread \subseteq All
  BY Zenon, ThreadAssumption DEF All
<1>2. /\ UNCHANGED <<lcb, g_fd, g_disconnect_fd, g_family_id, file, g_callback, refs>>
      /\ at[t] = "write" /\ g_conn_mutex' = NULL /\ at' = [at EXCEPT ![t] = "idle"]
      /\ lfd' = [lfd EXCEPT ![t] = NONE] /\ ldfd' = [ldfd EXCEPT ![t] = NONE]
  BY Zenon DEF DisconnectWrite, Unlock, Goto, Forget, cbVars
<1>3. /\ \A u \in Thread : u # t => at'[u] = at[u] /\ lfd'[u] = lfd[u] /\ ldfd'[u] = ldfd[u]
      /\ at'[Poller] = at[Poller] /\ lfd'[Poller] = lfd[Poller] /\ ldfd'[Poller] = ldfd[Poller]
      /\ at'[t] = "idle"
  BY Zenon, <1>1, <1>2 DEF Types
<1>4. /\ \A u \in Thread : u # t => at[u] \notin Connecting \cup {"write"}
      /\ at[Poller] # "close"
  BY Zenon, <1>2, Alone
<1>5. /\ \A u \in Thread : at'[u] \notin Connecting \cup {"write"}
      /\ \A u \in Thread : at[u] \notin Connecting
  BY Zenon, <1>2, <1>3, <1>4 DEF Connecting
<1>6. Types'
  BY Zenon, <1>1, <1>2, <1>3 DEF Types, ThreadAt
<1>7. Mutex'
  BY Zenon, <1>2, <1>3, <1>4, <1>5, NullAssumption DEF Mutex
<1>8. Published'
  BY Zenon, <1>2, <1>4, <1>5 DEF Published
<1>9. Locals'
  BY Zenon, <1>3, <1>4, <1>5 DEF Locals, HasSocket, HasEventfd, Connecting
<1>10. Polled'
  BY Zenon, <1>2, <1>3 DEF Polled, InLoop
<1>11. Owned'
  BY Zenon, <1>2, <1>3, <1>5 DEF Owned, HasSocket, HasEventfd
<1>12. Commands'
  <2>1. \A u \in Thread : at'[u] = "send" => u # t /\ at[u] = "send" /\ lfd'[u] = lfd[u]
    BY Zenon, <1>3
  <2> QED  BY <1>2, <2>1 DEF Commands
<1> QED  BY Zenon, <1>6, <1>7, <1>8, <1>9, <1>10, <1>11, <1>12

(* The commands: a socket of their own, opened when connected and closed   *)
(* on every path.                                                          *)
LEMMA CommandCInv ==
  ASSUME CInv, NEW t \in Thread, CommandBegin(t) \/ CommandSocket(t) \/ CommandSend(t)
  PROVE  CInv'
<1> USE DEF CInv
<1>1. t \in All /\ Poller \in All /\ t # Poller /\ Thread \subseteq All
  BY Zenon, ThreadAssumption DEF All
<1>2. UNCHANGED <<lcb, g_fd, g_disconnect_fd, g_family_id, g_conn_mutex, g_callback, refs>>
  BY Zenon DEF CommandBegin, CommandSocket, CommandSend, connVars, cbVars
<1>3. CASE at[t] \in {"idle", "check"} /\ UNCHANGED <<lfd, ldfd, file>>
           /\ (Goto(t, "check") \/ Goto(t, "idle"))
  BY Zenon, <1>2, <1>3, QuietCInv DEF Goto, Types, connVars
<1>4. \A u \in Thread : lfd[u] \in Fd \cup {NONE} /\ ldfd[u] \in Fd \cup {NONE}
  BY Zenon, <1>1 DEF Types
<1>5. ASSUME NEW f \in Fd \cup {NONE}, lfd' = [lfd EXCEPT ![t] = f],
             NEW d \in Fd \cup {NONE}, ldfd' = [ldfd EXCEPT ![t] = d], NEW n \in Fd,
             \/ /\ at[t] = "check" /\ at' = [at EXCEPT ![t] = "send"]
                /\ file[n] = "closed" /\ file' = [file EXCEPT ![n] = "command"] /\ f = n
             \/ /\ at[t] = "send" /\ at' = [at EXCEPT ![t] = "idle"]
                /\ n = lfd[t] /\ file' = [file EXCEPT ![n] = "closed"]
      PROVE  CInv'
  <2>0. PICK l \in {"idle", "send"}, kind \in {"closed", "command"} :
          /\ at[t] \in {"check", "send"} /\ l # at[t] /\ at' = [at EXCEPT ![t] = l]
          /\ \A m \in Fd : file'[m] = IF m = n THEN kind ELSE file[m]
          /\ file' \in [Fd -> {"closed", "socket", "eventfd", "command", "other"}]
          /\ l = "send" => file[n] = "closed" /\ kind = "command" /\ f = n
          /\ l = "idle" => n = lfd[t] /\ kind = "closed" /\ at[t] = "send"
    BY Zenon, <1>5 DEF Types
  <2>1. /\ \A u \in Thread : u # t => at'[u] = at[u] /\ lfd'[u] = lfd[u] /\ ldfd'[u] = ldfd[u]
        /\ at'[Poller] = at[Poller] /\ lfd'[Poller] = lfd[Poller] /\ ldfd'[Poller] = ldfd[Poller]
        /\ at'[t] = l /\ lfd'[t] = f
    BY Zenon, <1>1, <1>5, <2>0 DEF Types
  <2>2. /\ \A u \in Thread : at'[u] \in Connecting \cup {"write"} <=> at[u] \in Connecting \cup {"write"}
        /\ \A u \in Thread : at'[u] \in Connecting \cup {"write"} =>
             u # t /\ at'[u] = at[u] /\ lfd'[u] = lfd[u] /\ ldfd'[u] = ldfd[u]
    BY Zenon, <1>5, <2>0, <2>1 DEF Connecting
  <2>3. file[n] \in {"closed", "command"}
    BY Zenon, <1>5, <2>0 DEF Commands
  <2>4. \A m \in Fd : file[m] \in {"socket", "eventfd"} \/ file'[m] \in {"socket", "eventfd"} => file'[m] = file[m]
    BY Zenon, <1>5, <2>0, <2>3
  <2>5. Types'
    BY Zenon, <1>1, <1>2, <1>5, <2>0, <2>1 DEF Types, ThreadAt
  <2>6. Mutex'
    BY Zenon, <1>2, <2>1, <2>2 DEF Mutex
  <2>7. Published'
    BY Zenon, <1>2, <2>1, <2>2, <2>4 DEF Published, Types
  <2>8. Locals'
    <3>1. at[Poller] = "close" /\ lfd[Poller] # NONE => lfd[Poller] \in Fd
      BY Zenon, <1>1 DEF Types
    <3> QED  BY <1>2, <1>4, <2>1, <2>2, <2>4, <3>1 DEF Locals, HasSocket, HasEventfd, Connecting
  <2>9. Polled'
    BY Zenon, <1>2, <2>1 DEF Polled, InLoop
  <2>10. Owned'
    <3>1. \A u \in Thread : at[u] \in HasSocket => at'[u] \in HasSocket /\ lfd'[u] = lfd[u]
      BY Zenon, <1>5, <2>0, <2>1 DEF HasSocket, Connecting
    <3>2. \A u \in Thread : at[u] \in HasEventfd => at'[u] \in HasEventfd /\ ldfd'[u] = ldfd[u]
      BY Zenon, <1>5, <2>0, <2>1 DEF HasEventfd, HasSocket, Connecting
    <3> QED  BY <1>2, <2>1, <2>4, <3>1, <3>2 DEF Owned
  <2>11. Commands'
    <3>1. \A u \in Thread : u # t /\ at[u] = "send" => lfd[u] # n
      BY <1>5, <2>0 DEF Commands
    <3>2. \A u \in Thread : at'[u] = "send" => lfd'[u] # NONE /\ file'[lfd'[u]] = "command"
      <4>1. ASSUME NEW u \in Thread, at'[u] = "send"  PROVE lfd'[u] # NONE /\ file'[lfd'[u]] = "command"
        <5>1. CASE u = t
          BY <1>5, <2>0, <2>1, <4>1, <5>1, FdFacts
        <5>2. CASE u # t
          BY <1>4, <1>5, <2>0, <2>1, <3>1, <4>1, <5>2 DEF Commands
        <5> QED  BY Zenon, <5>1, <5>2
      <4> QED  BY Zenon, <4>1
    <3>3. \A u, v \in Thread : at'[u] = "send" /\ at'[v] = "send" /\ lfd'[u] = lfd'[v] => u = v
      BY <1>5, <2>0, <2>1, <3>1 DEF Commands
    <3> QED  BY Zenon, <3>2, <3>3 DEF Commands
  <2> QED  BY Zenon, <2>5, <2>6, <2>7, <2>8, <2>9, <2>10, <2>11
<1>6. CASE CommandBegin(t)
  BY Zenon, <1>3, <1>6 DEF CommandBegin, kernelVars
<1>7. CASE CommandSocket(t)
  <2>1. CASE Goto(t, "idle") /\ UNCHANGED <<file, lfd>>
    BY Zenon, <1>3, <1>7, <2>1 DEF CommandSocket
  <2>2. ASSUME NEW n \in Fd, Open(n, "command"), lfd' = [lfd EXCEPT ![t] = n], Goto(t, "send")
        PROVE  CInv'
    <3>1. /\ at[t] = "check" /\ at' = [at EXCEPT ![t] = "send"] /\ ldfd' = ldfd
          /\ file[n] = "closed" /\ file' = [file EXCEPT ![n] = "command"]
      BY Zenon, <1>7, <2>2 DEF CommandSocket, Open, Goto
    <3>2. ldfd' = [ldfd EXCEPT ![t] = ldfd[t]] /\ ldfd[t] \in Fd \cup {NONE}
      BY Zenon, <1>1, <3>1 DEF Types
    <3> HIDE DEF CInv
    <3> QED  BY Zenon, <1>5, <2>2, <3>1, <3>2
  <2> QED  BY Zenon, <1>7, <2>1, <2>2 DEF CommandSocket
<1>8. CASE CommandSend(t)
  <2>1. /\ at[t] = "send" /\ at' = [at EXCEPT ![t] = "idle"]
        /\ lfd' = [lfd EXCEPT ![t] = NONE] /\ ldfd' = [ldfd EXCEPT ![t] = NONE]
        /\ file' = [n \in Fd |-> IF n \in {lfd[t]} THEN "closed" ELSE file[n]]
    BY Zenon, <1>8 DEF CommandSend, Close, Goto, Forget
  <2>2. lfd[t] \in Fd
    BY Zenon, <1>4, <2>1 DEF Commands
  <2>3. file' = [file EXCEPT ![lfd[t]] = "closed"]
    BY Zenon, <2>1, <2>2 DEF Types
  <2> QED  BY Zenon, <1>5, <2>1, <2>2, <2>3
<1> QED  BY Zenon, <1>6, <1>7, <1>8

(* The rest of the application opens what is closed and closes what it     *)
(* opened.                                                                 *)
LEMMA OtherCInv ==
  ASSUME CInv, OtherFile
  PROVE  CInv'
<1> USE DEF CInv
<1>1. UNCHANGED <<at, lfd, ldfd, lcb, g_fd, g_disconnect_fd, g_family_id, g_conn_mutex, g_callback, refs>>
  BY Zenon DEF OtherFile, connVars, cbVars
<1>2. PICK n \in Fd : Open(n, "other") \/ (file[n] = "other" /\ Close({n}))
  BY Zenon DEF OtherFile
<1>3. /\ file' \in [Fd -> {"closed", "socket", "eventfd", "command", "other"}]
      /\ \A m \in Fd : \/ file'[m] = file[m]
                       \/ file[m] \in {"closed", "other"} /\ file'[m] \in {"closed", "other"}
  BY Zenon, <1>2 DEF Open, Close, Types
<1>4. \A m \in Fd : /\ file'[m] \in {"socket", "eventfd", "command"} => file'[m] = file[m]
                    /\ file[m] \in {"socket", "eventfd", "command"} => file'[m] = file[m]
  BY Zenon, <1>3
<1>5. Poller \in All /\ Thread \subseteq All
  BY Zenon DEF All
<1>6. Types' /\ Mutex' /\ Polled'
  BY Zenon, <1>1, <1>3 DEF Types, Mutex, Polled, InLoop
<1>7. Published'
  BY Zenon, <1>1, <1>4 DEF Published, Types
<1>8. Locals'
  <2>1. \A u \in All : lfd[u] \in Fd \cup {NONE} /\ ldfd[u] \in Fd \cup {NONE}
    BY Zenon DEF Types
  <2> QED  BY <1>1, <1>4, <1>5, <2>1 DEF Locals
<1>9. Owned'
  BY <1>1, <1>4 DEF Owned
<1>10. Commands'
  BY <1>1, <1>4, <1>5 DEF Commands, Types
<1> QED  BY Zenon, <1>6, <1>7, <1>8, <1>9, <1>10

(* The end of pollEvent: g_fd is cleared under the mutex, then both files  *)
(* are closed.                                                             *)
LEMMA PollEndCInv ==
  ASSUME CInv, PollExchange \/ PollClose
  PROVE  CInv'
<1> USE DEF CInv
<1>1. Poller \in All /\ Poller \notin Thread /\ Thread \subseteq All
  BY Zenon, ThreadAssumption DEF All
<1>2. \A u \in All : lfd[u] \in Fd \cup {NONE} /\ ldfd[u] \in Fd \cup {NONE}
  BY Zenon DEF Types
<1>3. \A u \in Thread : at[u] \notin Connecting \cup {"write"}
  BY Zenon, Alone DEF PollExchange, PollClose, Lock
<1>4. CASE PollExchange
  <2>1. /\ UNCHANGED <<ldfd, lcb, g_disconnect_fd, g_family_id, file, g_callback, refs>>
        /\ at[Poller] = "break" /\ g_conn_mutex = NULL /\ g_conn_mutex' = Poller /\ g_fd' = NONE
        /\ at' = [at EXCEPT ![Poller] = "close"] /\ lfd' = [lfd EXCEPT ![Poller] = g_fd]
    BY Zenon, <1>4 DEF PollExchange, Lock, Goto, kernelVars, cbVars
  <2>2. /\ \A u \in Thread : at'[u] = at[u] /\ lfd'[u] = lfd[u]
        /\ at'[Poller] = "close" /\ lfd'[Poller] = g_fd
    BY Zenon, <1>1, <2>1 DEF Types
  <2>3. Types'
    BY Zenon, <1>1, <2>1, <2>2 DEF Types, PollerAt
  <2>4. Mutex'
    BY Zenon, <1>1, <1>3, <2>1, <2>2 DEF Mutex
  <2>5. Published'
    BY Zenon, <2>1, <2>2 DEF Published
  <2>6. Locals' /\ Polled'
    BY <1>3, <2>1, <2>2 DEF Locals, Polled, InLoop, Published, HasSocket, HasEventfd
  <2>7. Owned'
    BY <2>1, <2>2 DEF Owned
  <2>8. Commands'
    BY <2>1, <2>2 DEF Commands
  <2> QED  BY Zenon, <2>3, <2>4, <2>5, <2>6, <2>7, <2>8
<1>5. CASE PollClose
  <2>1. /\ UNCHANGED <<lcb, g_fd, g_callback, refs>>
        /\ at[Poller] = "close" /\ g_conn_mutex' = NULL /\ g_disconnect_fd' = NONE /\ g_family_id' = 0
        /\ at' = [at EXCEPT ![Poller] = "out"]
        /\ lfd' = [lfd EXCEPT ![Poller] = NONE] /\ ldfd' = [ldfd EXCEPT ![Poller] = NONE]
        /\ file' = [n \in Fd |-> IF n \in {lfd[Poller], g_disconnect_fd} THEN "closed" ELSE file[n]]
    BY Zenon, <1>5 DEF PollClose, Close, Unlock, Goto, Forget, cbVars
  <2>2. /\ \A u \in Thread : at'[u] = at[u] /\ lfd'[u] = lfd[u] /\ ldfd'[u] = ldfd[u]
        /\ at'[Poller] = "out" /\ lfd'[Poller] = NONE /\ ldfd'[Poller] = NONE /\ g_fd = NONE
    BY <1>1, <2>1 DEF Types, Locals
  <2>3. Types'
    BY Zenon, <1>1, <2>1, <2>2 DEF Types, PollerAt, NONE
  <2>4. Mutex'
    BY Zenon, <1>1, <1>3, <2>1, <2>2, NullAssumption DEF Mutex
  <2>5. Published' /\ Polled'
    BY Zenon, <2>1, <2>2 DEF Published, Polled, InLoop
  <2>6. Locals'
    BY <1>3, <2>1, <2>2 DEF Locals, HasSocket, HasEventfd, Connecting
  <2>7. \A n \in Fd : file'[n] \notin {"socket", "eventfd"}
    <3>1. \A n \in Fd : file[n] \in {"socket", "eventfd"} => n \in {lfd[Poller], g_disconnect_fd}
      BY Zenon, <1>3, <2>2, FdFacts DEF Owned, HasSocket, HasEventfd
    <3> QED  BY Zenon, <2>1, <3>1
  <2>8. Owned'
    BY Zenon, <2>7 DEF Owned
  <2>9. \A n \in Fd : file[n] = "command" => file'[n] = "command"
    <3>1. \A n \in Fd : n = lfd[Poller] => file[n] = "socket"
      BY Zenon, <2>1, FdFacts DEF Locals
    <3>2. \A n \in Fd : n = g_disconnect_fd => file[n] = "eventfd"
      BY Zenon, FdFacts DEF Published
    <3> QED  BY Zenon, <2>1, <3>1, <3>2
  <2>10. Commands'
    BY <1>1, <1>2, <2>2, <2>9 DEF Commands
  <2> QED  BY Zenon, <2>3, <2>4, <2>5, <2>6, <2>8, <2>10
<1> QED  BY Zenon, <1>4, <1>5

(* Every step of a thread keeps the invariant.                             *)
LEMMA ThreadCInv ==
  ASSUME CInv, NEW t \in Thread, Call(t) \/ Finish(t)
  PROVE  CInv'
<1>1. t \in All
  BY Zenon DEF All
<1>2. /\ lfd[t] \in Fd \cup {NONE} /\ ldfd[t] \in Fd \cup {NONE} /\ lcb[t] \in Callback \cup {NULL}
      /\ Locals
  BY Zenon, <1>1 DEF CInv, Types
<1>3. ASSUME ConnectBegin(t) \/ DisconnectBegin(t)  PROVE CInv'
  BY Zenon, <1>3, LockCInv
<1>4. ASSUME CommandBegin(t) \/ CommandSocket(t) \/ CommandSend(t)  PROVE CInv'
  BY Zenon, <1>4, CommandCInv
<1>5. ASSUME ConnectSocket(t)  PROVE CInv'
  <2>1. CASE ConnectFail(t, {})
    BY <1>5, <2>1, FailCInv DEF ConnectSocket, HasSocket, HasEventfd
  <2>2. CASE ~ConnectFail(t, {})
    BY Zenon, <1>5, <2>2, ConnectCInv DEF ConnectSocket, Open, Goto
  <2> QED  BY Zenon, <2>1, <2>2
<1>6. ASSUME ConnectEventfd(t)  PROVE CInv'
  <2>1. CASE ConnectFail(t, {lfd[t]})
    <3>1. at[t] = "eventfd" /\ at[t] \in HasSocket /\ at[t] \notin HasEventfd
      BY Zenon, <1>6 DEF ConnectEventfd, HasSocket, HasEventfd, Connecting
    <3>2. lfd[t] \in Fd /\ file[lfd[t]] = "socket"
      BY Zenon, <1>2, <3>1 DEF Locals
    <3> QED  BY Zenon, <2>1, <3>1, <3>2, FailCInv
  <2>2. CASE ~ConnectFail(t, {lfd[t]})
    BY Zenon, <1>6, <2>2, ConnectCInv DEF ConnectEventfd, CloseOnEventfdError, Open, Goto
  <2> QED  BY Zenon, <2>1, <2>2
<1>7. ASSUME ConnectResolve(t)  PROVE CInv'
  <2>1. CASE ConnectFail(t, {lfd[t], ldfd[t]})
    <3>1. at[t] = "resolve" /\ at[t] \in HasSocket /\ at[t] \in HasEventfd
      BY Zenon, <1>7 DEF ConnectResolve, HasSocket, HasEventfd, Connecting
    <3>2. lfd[t] \in Fd /\ file[lfd[t]] = "socket" /\ ldfd[t] \in Fd /\ file[ldfd[t]] = "eventfd"
      BY Zenon, <1>2, <3>1 DEF Locals
    <3> QED  BY Zenon, <2>1, <3>1, <3>2, FailCInv
  <2>2. CASE ~ConnectFail(t, {lfd[t], ldfd[t]})
    BY Zenon, <1>7, <2>2, StoreCInv DEF ConnectResolve, StoreAt, Goto
  <2> QED  BY Zenon, <2>1, <2>2
<1>8. ASSUME NEW i \in 1 .. 3, ConnectStore(t, i)  PROVE CInv'
  <2>1. CASE i = 1
    BY <1>8, <2>1, StoreCInv DEF ConnectStore, StoreAt, StoreOrder, Goto, kernelVars, cbVars
  <2>2. CASE i = 2
    BY <1>8, <2>2, StoreCInv DEF ConnectStore, StoreAt, StoreOrder, Goto, kernelVars, cbVars
  <2>3. CASE i = 3
    BY <1>8, <2>3, StoreCInv DEF ConnectStore, StoreAt, StoreOrder, Goto, kernelVars, cbVars, Forget, Unlock
  <2> QED  BY <2>1, <2>2, <2>3
<1>9. ASSUME DisconnectWrite(t)  PROVE CInv'
  BY Zenon, <1>9, WriteCInv
<1>10. ASSUME SetCallbackBegin(t) \/ SetCallbackSwap(t) \/ SetCallbackDelete(t)  PROVE CInv'
  <2>1. refs' \in [Callback -> Int] /\ g_callback' \in Callback \cup {NULL}
    BY <1>2, <1>10 DEF SetCallbackBegin, SetCallbackSwap, SetCallbackDelete, AddRef, CInv, Types
  <2>2. lcb' \in [All -> Callback \cup {NULL}]
    BY Zenon, <1>1, <1>10 DEF SetCallbackBegin, SetCallbackSwap, SetCallbackDelete, CInv, Types
  <2>3. UNCHANGED <<lfd, ldfd, connVars, file>>
    BY Zenon, <1>10 DEF SetCallbackBegin, SetCallbackSwap, SetCallbackDelete, kernelVars
  <2> QED  BY Zenon, <1>10, <2>1, <2>2, <2>3, QuietCInv DEF SetCallbackBegin, SetCallbackSwap, SetCallbackDelete, Goto
<1> QED  BY Zenon, <1>3, <1>4, <1>5, <1>6, <1>7, <1>8, <1>9, <1>10 DEF Call, Finish

(* Every step of pollEvent keeps the invariant.                            *)
LEMMA PollerCInv ==
  ASSUME CInv, PollBegin \/ Poll \/ PollInterrupted
  PROVE  CInv'
<1>1. Poller \in All
  BY Zenon DEF All
<1>2. /\ Types /\ Polled /\ Poller \notin Thread /\ Thread \subseteq All
      /\ g_fd \in Fd \cup {NONE} /\ g_disconnect_fd \in Fd \cup {NONE}
      /\ lfd \in [All -> Fd \cup {NONE}] /\ ldfd \in [All -> Fd \cup {NONE}]
      /\ lcb \in [All -> Callback \cup {NULL}] /\ refs \in [Callback -> Int]
      /\ g_callback \in Callback \cup {NULL}
  BY Zenon, <1>1, ThreadAssumption DEF CInv, Types, All
<1>3. ASSUME PollBegin  PROVE CInv'
  <2>1. /\ at[Poller] = "out" /\ at' = [at EXCEPT ![Poller] = "load"]
        /\ UNCHANGED <<lfd, ldfd, lcb, connVars, file, g_callback, refs>>
    BY Zenon, <1>3 DEF PollBegin, Running, Goto, kernelVars, cbVars
  <2> QED  BY Zenon, <1>2, <2>1, PollCInv DEF PollerAt
<1>4. ASSUME PollLoad  PROVE CInv'
  <2>1. /\ at[Poller] = "load" /\ at' = [at EXCEPT ![Poller] = "load_disconnect"]
        /\ UNCHANGED <<ldfd, lcb, connVars, file, g_callback, refs>>
    BY Zenon, <1>4 DEF PollLoad, Goto, kernelVars, cbVars
  <2>2. /\ lfd' \in [All -> Fd \cup {NONE}] /\ lfd'[Poller] = g_fd
        /\ \A u \in Thread : lfd'[u] = lfd[u]
    BY Zenon, <1>1, <1>2, <1>4 DEF PollLoad
  <2> QED  BY Zenon, <1>2, <2>1, <2>2, PollCInv DEF PollerAt
<1>5. ASSUME PollLoadDisconnect  PROVE CInv'
  <2>1. /\ at[Poller] = "load_disconnect"
        /\ UNCHANGED <<lfd, lcb, connVars, file, g_callback, refs>>
    BY Zenon, <1>5 DEF PollLoadDisconnect, kernelVars, cbVars
  <2>2. /\ ldfd' \in [All -> Fd \cup {NONE}] /\ ldfd'[Poller] = g_disconnect_fd
        /\ \A u \in Thread : ldfd'[u] = ldfd[u]
    BY Zenon, <1>1, <1>2, <1>5 DEF PollLoadDisconnect
  <2>3. CASE lfd[Poller] < 0 \/ g_disconnect_fd < 0
    <3>1. at' = [at EXCEPT ![Poller] = "break"]
      BY Zenon, <1>5, <2>3 DEF PollLoadDisconnect, Goto
    <3> QED  BY Zenon, <1>2, <2>1, <2>2, <3>1, PollCInv DEF PollerAt
  <2>4. CASE ~(lfd[Poller] < 0 \/ g_disconnect_fd < 0)
    <3>1. at' = [at EXCEPT ![Poller] = "poll"]
      BY Zenon, <1>5, <2>4 DEF PollLoadDisconnect, Goto
    <3>2. lfd[Poller] # NONE /\ g_disconnect_fd # NONE /\ lfd[Poller] = g_fd
      BY Zenon, <1>1, <1>2, <2>1, <2>4, FdFacts DEF Polled
    <3> QED  BY Zenon, <1>2, <2>1, <2>2, <3>1, <3>2, PollCInv DEF PollerAt
  <2> QED  BY Zenon, <2>3, <2>4
<1>6. ASSUME PollWait \/ (PollRecv /\ UNCHANGED <<lfd, ldfd>>) \/ PollTake  PROVE CInv'
  <2>1. UNCHANGED <<lfd, ldfd, connVars, file, g_callback>> /\ InLoop /\ at[Poller] # "close"
    BY Zenon, <1>6 DEF PollWait, PollRecv, PollTake, InLoop, kernelVars, cbVars
  <2>2. lcb' \in [All -> Callback \cup {NULL}] /\ refs' \in [Callback -> Int]
    BY <1>2, <1>6 DEF PollWait, PollRecv, PollTake, NewLocalRef, AddRef, cbVars
  <2>3. \E l \in {"read", "recv", "take", "handle", "load"} : at' = [at EXCEPT ![Poller] = l]
    BY Zenon, <1>6 DEF PollWait, PollRecv, PollTake, Ready, Goto, Forget
  <2>4. lfd[Poller] = g_fd /\ ldfd[Poller] = g_disconnect_fd /\ g_fd # NONE /\ g_disconnect_fd # NONE
    BY Zenon, <1>2, <2>1 DEF Polled
  <2> QED  BY Zenon, <1>2, <2>1, <2>2, <2>3, <2>4, PollCInv DEF PollerAt
<1>7. ASSUME PollInterrupted \/ PollRead \/ PollHandle \/ (PollRecv /\ ~UNCHANGED <<lfd, ldfd>>)  PROVE CInv'
  <2>1. UNCHANGED <<connVars, file, g_callback>> /\ at[Poller] # "close"
    BY Zenon, <1>7 DEF PollInterrupted, PollRead, PollHandle, PollRecv, kernelVars, cbVars
  <2>2. lcb' \in [All -> Callback \cup {NULL}] /\ refs' \in [Callback -> Int]
    BY <1>2, <1>7 DEF PollInterrupted, PollRead, PollHandle, PollRecv, AddRef, cbVars
  <2>3. \E l \in {"load", "break"} : at' = [at EXCEPT ![Poller] = l]
    BY Zenon, <1>7 DEF PollInterrupted, PollRead, PollHandle, PollRecv, Goto
  <2>4. Forget(Poller)
    BY Zenon, <1>7 DEF PollInterrupted, PollRead, PollHandle, PollRecv
  <2>5. /\ lfd' \in [All -> Fd \cup {NONE}] /\ ldfd' \in [All -> Fd \cup {NONE}]
        /\ \A u \in Thread : lfd'[u] = lfd[u] /\ ldfd'[u] = ldfd[u]
    BY Zenon, <1>2, <2>4 DEF Forget
  <2> QED  BY Zenon, <1>2, <2>1, <2>2, <2>3, <2>5, PollCInv DEF PollerAt
<1>8. ASSUME PollExchange \/ PollClose  PROVE CInv'
  BY Zenon, <1>8, PollEndCInv
<1> QED  BY Zenon, <1>3, <1>4, <1>5, <1>6, <1>7, <1>8 DEF Poll

(* What a multicast, or a step of nothing, leaves alone.                   *)
LEMMA FrameCInv ==
  ASSUME CInv, UNCHANGED <<at, lfd, ldfd, lcb, connVars, file, cbVars>>
  PROVE  CInv'
<1> USE DEF CInv
<1>1. UNCHANGED <<at, lfd, ldfd, lcb, g_fd, g_disconnect_fd, g_family_id, g_conn_mutex, file, g_callback, refs>>
  BY Zenon DEF connVars, cbVars
<1>2. Types' /\ Mutex' /\ Published' /\ Polled'
  BY Zenon, <1>1 DEF Types, Mutex, Published, Polled, InLoop
<1>3. Locals' /\ Owned' /\ Commands'
  BY <1>1 DEF Locals, Owned, Commands
<1> QED  BY Zenon, <1>2, <1>3

(* At first nothing is open and no call is under way.                      *)
LEMMA InitCInv == Init => CInv
<1> SUFFICES ASSUME Init  PROVE CInv
  BY Zenon
<1>1. Poller \in All /\ Poller \notin Thread /\ Thread \subseteq All
  BY Zenon, ThreadAssumption DEF All
<1>2. /\ \A t \in Thread : at[t] = "idle"
      /\ at[Poller] = "out" /\ lfd[Poller] = NONE
  BY Zenon, <1>1 DEF Init
<1>3. Types
  BY <1>1, <1>2 DEF Init, Types, ThreadAt, PollerAt
<1>4. Mutex /\ Published /\ Polled
  BY Zenon, <1>1, <1>2, NullAssumption DEF Init, Mutex, Published, Polled, InLoop, Connecting
<1>5. Locals /\ Owned /\ Commands
  BY Zenon, <1>1, <1>2 DEF Init, Locals, Owned, Commands, HasSocket, HasEventfd, Connecting
<1> QED  BY Zenon, <1>3, <1>4, <1>5 DEF CInv

(* Every reachable state of the client satisfies the invariant: who owns   *)
(* each open file is known at every place of every call.                   *)
THEOREM ClientInvariant == Spec => []CInv
<1>1. ASSUME CInv, [Next]_vars  PROVE CInv'
  <2>1. CASE UNCHANGED vars
    BY Zenon, <1>1, <2>1, FrameCInv DEF vars, kernelVars
  <2>2. CASE Multicast
    BY Zenon, <1>1, <2>2, FrameCInv DEF Multicast
  <2> QED  BY Zenon, <1>1, <2>1, <2>2, ThreadCInv, PollerCInv, OtherCInv DEF Next
<1> QED  BY <1>1, InitCInv, PTL DEF Spec

(* handle_event runs while g_family_id is set.                             *)
THEOREM ClientFamilyKnown == Spec => []FamilyKnown
<1>1. CInv => FamilyKnown
  BY DEF CInv, Polled, Published, InLoop, FamilyKnown
<1> QED  BY <1>1, ClientInvariant, PTL

(* Whatever descriptor a call is about to use is open on the file it took  *)
(* it for.                                                                 *)
THEOREM ClientDescriptorsLive == Spec => []DescriptorsLive
<1>1. CInv => DescriptorsLive
  BY Zenon DEF CInv, Polled, Published, Locals, Commands, InLoop, DescriptorsLive
<1> QED  BY <1>1, ClientInvariant, PTL

(* With the mutex free, the connection's open files are the published      *)
(* ones.                                                                   *)
THEOREM ClientNoDescriptorLeak == Spec => []NoDescriptorLeak
<1>1. CInv => NoDescriptorLeak
  <2> SUFFICES ASSUME CInv, g_conn_mutex = NULL
               PROVE  {n \in Fd : file[n] \in {"socket", "eventfd"}} = {g_fd, g_disconnect_fd} \ {NONE}
    BY Zenon DEF NoDescriptorLeak
  <2>1. at[Poller] # "close" /\ \A t \in Thread : at[t] \notin HasSocket /\ at[t] \notin HasEventfd
    BY Zenon, Alone DEF HasSocket, HasEventfd
  <2>2. \A n \in Fd : file[n] \in {"socket", "eventfd"} => n \in {g_fd, g_disconnect_fd}
    BY Zenon, <2>1 DEF CInv, Owned
  <2>3. \A n \in {g_fd, g_disconnect_fd} \ {NONE} : n \in Fd /\ file[n] \in {"socket", "eventfd"}
    BY DEF CInv, Published, Types
  <2> QED  BY Zenon, <2>2, <2>3, FdFacts
<1> QED  BY <1>1, ClientInvariant, PTL

-----------------------------------------------------------------------------
(* References to callback objects *)

(* The setCallback calls that hold a reference to c.                       *)
Holders(c) == {t \in Thread : at[t] \in {"swap", "delete"} /\ lcb[t] = c}

Global(c) == IF g_callback = c THEN 1 ELSE 0
Local(c) == IF at[Poller] = "handle" /\ lcb[Poller] = c THEN 1 ELSE 0

(* The property in these terms, the terms being numbers.                   *)
LEMMA RefsMeans ==
  /\ ReferencesExact <=> \A c \in Callback : refs[c] = Global(c) + Cardinality(Holders(c)) + Local(c)
  /\ \A c \in Callback : IsFiniteSet(Holders(c)) /\ Cardinality(Holders(c)) \in Nat
                         /\ Global(c) \in Nat /\ Local(c) \in Nat
<1>1. ReferencesExact <=> \A c \in Callback : refs[c] = Global(c) + Cardinality(Holders(c)) + Local(c)
  BY Zenon DEF ReferencesExact, Global, Local, Holders
<1>2. ASSUME NEW c \in Callback
      PROVE  IsFiniteSet(Holders(c)) /\ Cardinality(Holders(c)) \in Nat
  BY Zenon, ThreadAssumption, FS_Subset, FS_CardinalityType DEF Holders
<1> QED  BY Zenon, <1>1, <1>2 DEF Global, Local

(* A step counts right when every object's three numbers change as its     *)
(* count does.                                                             *)
LEMMA RefsChange ==
  ASSUME Types, Types', ReferencesExact,
         \A c \in Callback : refs'[c] - refs[c] =   (Global(c)' - Global(c))
                                                  + (Cardinality(Holders(c)') - Cardinality(Holders(c)))
                                                  + (Local(c)' - Local(c))
  PROVE  ReferencesExact'
<1>1. /\ ReferencesExact' <=> \A c \in Callback : refs'[c] = Global(c)' + Cardinality(Holders(c)') + Local(c)'
      /\ \A c \in Callback : Cardinality(Holders(c)') \in Nat /\ Global(c)' \in Nat /\ Local(c)' \in Nat
  <2>1. ReferencesExact' <=> \A c \in Callback : refs'[c] = Global(c)' + Cardinality(Holders(c)') + Local(c)'
    BY Zenon DEF ReferencesExact, Global, Local, Holders
  <2>2. ASSUME NEW c \in Callback
        PROVE  Cardinality(Holders(c)') \in Nat
    BY Zenon, ThreadAssumption, FS_Subset, FS_CardinalityType DEF Holders
  <2> QED  BY Zenon, <2>1, <2>2 DEF Global, Local
<1> QED
  <2>1. ASSUME NEW c \in Callback
        PROVE  refs'[c] = Global(c)' + Cardinality(Holders(c)') + Local(c)'
    <3>1. refs[c] \in Int /\ refs[c] = Global(c) + Cardinality(Holders(c)) + Local(c)
      BY Zenon, RefsMeans DEF Types
    <3>2. Cardinality(Holders(c)) \in Nat /\ Global(c) \in Nat /\ Local(c) \in Nat
      BY Zenon, RefsMeans
    <3>3. refs'[c] \in Int
      BY Zenon DEF Types
    <3> QED  BY <1>1, <3>1, <3>2, <3>3
  <2> QED  BY Zenon, <1>1, <2>1

(* Steps that neither take nor give up a reference.                        *)
LEMMA RefsQuiet ==
  ASSUME Types, Types', ReferencesExact, UNCHANGED <<refs, g_callback, lcb>>,
         \A t \in Thread : at'[t] \in {"swap", "delete"} <=> at[t] \in {"swap", "delete"},
         at'[Poller] = "handle" <=> at[Poller] = "handle"
  PROVE  ReferencesExact'
<1>1. ASSUME NEW c \in Callback
      PROVE  Holders(c)' = Holders(c) /\ Global(c)' = Global(c) /\ Local(c)' = Local(c)
  BY Zenon DEF Holders, Global, Local
<1>2. \A c \in Callback : refs[c] \in Int /\ refs'[c] = refs[c]
  BY Zenon DEF Types
<1> QED  BY <1>1, <1>2, RefsChange, RefsMeans

(* NewGlobalRef counts the new object for the calling thread.              *)
LEMMA RefsBegin ==
  ASSUME Types, Types', ReferencesExact, NEW t \in Thread, SetCallbackBegin(t)
  PROVE  ReferencesExact'
<1>1. t \in All /\ t # Poller /\ Poller \in All /\ Thread \subseteq All
  BY Zenon, ThreadAssumption DEF All
<1>2. PICK cb \in Callback \cup {NULL} : lcb' = [lcb EXCEPT ![t] = cb] /\ AddRef(cb, 1)
  BY Zenon DEF SetCallbackBegin
<1>3. at[t] = "idle" /\ at' = [at EXCEPT ![t] = "swap"] /\ g_callback' = g_callback
  BY Zenon DEF SetCallbackBegin, Goto
<1>4. /\ at'[t] = "swap" /\ lcb'[t] = cb /\ \A u \in All : u # t => at'[u] = at[u] /\ lcb'[u] = lcb[u]
  BY Zenon, <1>1, <1>2, <1>3 DEF Types
<1>5. ASSUME NEW c \in Callback
      PROVE  refs'[c] - refs[c] =   (Global(c)' - Global(c))
                                  + (Cardinality(Holders(c)') - Cardinality(Holders(c)))
                                  + (Local(c)' - Local(c))
  <2>1. Global(c)' = Global(c) /\ Local(c)' = Local(c) /\ t \notin Holders(c)
    BY Zenon, <1>1, <1>3, <1>4 DEF Global, Local, Holders
  <2>2. refs[c] \in Int /\ refs'[c] = IF c = cb THEN refs[c] + 1 ELSE refs[c]
    BY Zenon, <1>2 DEF AddRef, Types
  <2>3. Holders(c)' = IF c = cb THEN Holders(c) \cup {t} ELSE Holders(c)
    BY Zenon, <1>1, <1>3, <1>4 DEF Holders
  <2>4. Cardinality(Holders(c) \cup {t}) = Cardinality(Holders(c)) + 1
    BY Zenon, <2>1, RefsMeans, FS_AddElement
  <2> QED  BY <2>1, <2>2, <2>3, <2>4, RefsMeans
<1> QED  BY Zenon, <1>5, RefsChange

(* The exchange moves one reference into g_callback and another out.       *)
LEMMA RefsSwap ==
  ASSUME Types, Types', ReferencesExact, NEW t \in Thread, SetCallbackSwap(t)
  PROVE  ReferencesExact'
<1>1. t \in All /\ t # Poller /\ Poller \in All /\ Thread \subseteq All
  BY Zenon, ThreadAssumption DEF All
<1>2. /\ at[t] = "swap" /\ at' = [at EXCEPT ![t] = "delete"] /\ refs' = refs
      /\ g_callback' = lcb[t] /\ lcb' = [lcb EXCEPT ![t] = g_callback]
  BY Zenon DEF SetCallbackSwap, Goto
<1>3. /\ at'[t] = "delete" /\ lcb'[t] = g_callback
      /\ \A u \in All : u # t => at'[u] = at[u] /\ lcb'[u] = lcb[u]
  BY Zenon, <1>1, <1>2 DEF Types
<1>4. ASSUME NEW c \in Callback
      PROVE  refs'[c] - refs[c] =   (Global(c)' - Global(c))
                                  + (Cardinality(Holders(c)') - Cardinality(Holders(c)))
                                  + (Local(c)' - Local(c))
  <2>1. Local(c)' = Local(c) /\ refs[c] \in Int /\ refs'[c] = refs[c]
    BY Zenon, <1>1, <1>2, <1>3 DEF Local, Types
  <2>2. CASE lcb[t] = c /\ g_callback # c
    <3>1. Holders(c)' = Holders(c) \ {t} /\ t \in Holders(c)
      BY Zenon, <1>1, <1>2, <1>3, <2>2 DEF Holders
    <3>2. Cardinality(Holders(c) \ {t}) = Cardinality(Holders(c)) - 1
      BY Zenon, <3>1, RefsMeans, FS_RemoveElement
    <3>3. Global(c) = 0 /\ Global(c)' = 1
      BY Zenon, <1>2, <2>2 DEF Global
    <3> QED  BY <2>1, <3>1, <3>2, <3>3, RefsMeans
  <2>3. CASE lcb[t] # c /\ g_callback = c
    <3>1. Holders(c)' = Holders(c) \cup {t} /\ t \notin Holders(c)
      BY Zenon, <1>1, <1>2, <1>3, <2>3 DEF Holders
    <3>2. Cardinality(Holders(c) \cup {t}) = Cardinality(Holders(c)) + 1
      BY Zenon, <3>1, RefsMeans, FS_AddElement
    <3>3. Global(c) = 1 /\ Global(c)' = 0
      BY Zenon, <1>2, <2>3 DEF Global
    <3> QED  BY <2>1, <3>1, <3>2, <3>3, RefsMeans
  <2>4. CASE lcb[t] = c <=> g_callback = c
    <3>1. Holders(c)' = Holders(c)
      BY Zenon, <1>1, <1>2, <1>3, <2>4 DEF Holders
    <3>2. Global(c)' = Global(c)
      BY Zenon, <1>2, <2>4 DEF Global
    <3> QED  BY <2>1, <3>1, <3>2, RefsMeans
  <2> QED  BY Zenon, <2>2, <2>3, <2>4
<1> QED  BY Zenon, <1>4, RefsChange

(* DeleteGlobalRef gives up what the exchange took out.                    *)
LEMMA RefsDelete ==
  ASSUME Types, Types', ReferencesExact, NEW t \in Thread, SetCallbackDelete(t)
  PROVE  ReferencesExact'
<1>1. t \in All /\ t # Poller /\ Poller \in All /\ Thread \subseteq All
  BY Zenon, ThreadAssumption DEF All
<1>2. /\ at[t] = "delete" /\ at' = [at EXCEPT ![t] = "idle"] /\ g_callback' = g_callback
      /\ lcb' = [lcb EXCEPT ![t] = NULL] /\ AddRef(lcb[t], -1)
  BY Zenon DEF SetCallbackDelete, Goto
<1>3. /\ at'[t] = "idle"
      /\ \A u \in All : u # t => at'[u] = at[u] /\ lcb'[u] = lcb[u]
  BY Zenon, <1>1, <1>2 DEF Types
<1>4. ASSUME NEW c \in Callback
      PROVE  refs'[c] - refs[c] =   (Global(c)' - Global(c))
                                  + (Cardinality(Holders(c)') - Cardinality(Holders(c)))
                                  + (Local(c)' - Local(c))
  <2>1. Local(c)' = Local(c) /\ Global(c)' = Global(c)
    BY Zenon, <1>1, <1>2, <1>3 DEF Local, Global
  <2>2. refs[c] \in Int /\ refs'[c] = IF c = lcb[t] THEN refs[c] - 1 ELSE refs[c]
    BY Zenon, <1>2 DEF AddRef, Types
  <2>3. CASE c = lcb[t]
    <3>1. Holders(c)' = Holders(c) \ {t} /\ t \in Holders(c)
      BY Zenon, <1>1, <1>2, <1>3, <2>3 DEF Holders
    <3>2. Cardinality(Holders(c) \ {t}) = Cardinality(Holders(c)) - 1
      BY Zenon, <3>1, RefsMeans, FS_RemoveElement
    <3> QED  BY <2>1, <2>2, <2>3, <3>1, <3>2, RefsMeans
  <2>4. CASE c # lcb[t]
    <3>1. Holders(c)' = Holders(c)
      BY Zenon, <1>1, <1>2, <1>3, <2>4 DEF Holders
    <3> QED  BY <2>1, <2>2, <2>4, <3>1, RefsMeans
  <2> QED  BY Zenon, <2>3, <2>4
<1> QED  BY Zenon, <1>4, RefsChange

(* pollEvent takes a local reference for the call, and gives it up.        *)
LEMMA RefsPoll ==
  ASSUME Types, Types', ReferencesExact, PollTake \/ PollHandle
  PROVE  ReferencesExact'
<1>1. Poller \in All /\ Poller \notin Thread /\ Thread \subseteq All
  BY Zenon, ThreadAssumption DEF All
<1>2. \A u \in Thread : at'[u] = at[u] /\ lcb'[u] = lcb[u]
  BY Zenon, <1>1 DEF PollTake, PollHandle, Goto, Types
<1>3. g_callback' = g_callback
  BY Zenon DEF PollTake, PollHandle
<1>4. ASSUME NEW c \in Callback
      PROVE  refs'[c] - refs[c] =   (Global(c)' - Global(c))
                                  + (Cardinality(Holders(c)') - Cardinality(Holders(c)))
                                  + (Local(c)' - Local(c))
  <2>1. Holders(c)' = Holders(c) /\ Global(c)' = Global(c) /\ refs[c] \in Int
    BY Zenon, <1>2, <1>3 DEF Holders, Global, Types
  <2>2. CASE PollTake
    <3>1. /\ at[Poller] = "take" /\ lcb'[Poller] = g_callback
          /\ at'[Poller] = IF g_callback = NULL THEN "load" ELSE "handle"
      BY Zenon, <1>1, <2>2 DEF PollTake, Goto, Types
    <3>2. Local(c) = 0 /\ Local(c)' = IF c = g_callback THEN 1 ELSE 0
      BY Zenon, <3>1, NullAssumption DEF Local
    <3>3. refs'[c] = IF c = g_callback THEN refs[c] + 1 ELSE refs[c]
      BY Zenon, <2>2 DEF PollTake, NewLocalRef, AddRef
    <3> QED  BY <2>1, <3>2, <3>3, RefsMeans
  <2>3. CASE PollHandle
    <3>1. at[Poller] = "handle" /\ at'[Poller] = "load"
      BY Zenon, <1>1, <2>3 DEF PollHandle, Goto, Types
    <3>2. Local(c)' = 0 /\ Local(c) = IF c = lcb[Poller] THEN 1 ELSE 0
      BY Zenon, <3>1 DEF Local
    <3>3. refs'[c] = IF c = lcb[Poller] THEN refs[c] - 1 ELSE refs[c]
      BY Zenon, <2>3 DEF PollHandle, AddRef, Types
    <3> QED  BY <2>1, <3>2, <3>3, RefsMeans
  <2> QED  BY Zenon, <2>2, <2>3
<1> QED  BY Zenon, <1>4, RefsChange

(* The references to a callback object are exactly those of g_callback,    *)
(* the setCallback calls under way and the event being handled.            *)
THEOREM ClientReferencesExact == Spec => []ReferencesExact
<1>1. Init => ReferencesExact
  <2> SUFFICES ASSUME Init, NEW c \in Callback
               PROVE  refs[c] = Global(c) + Cardinality(Holders(c)) + Local(c)
    BY Zenon, RefsMeans
  <2>1. Holders(c) = {} /\ Global(c) = 0 /\ Local(c) = 0 /\ refs[c] = 0
    BY Zenon, NullAssumption, ThreadAssumption DEF Init, Holders, Global, Local, All
  <2> QED  BY <2>1, FS_EmptySet
<1>2. ASSUME CInv, CInv', ReferencesExact, [Next]_vars  PROVE ReferencesExact'
  <2>1. Types /\ Types' /\ ReferencesExact
    BY Zenon, <1>2 DEF CInv
  <2>2. Poller \in All /\ Poller \notin Thread /\ Thread \subseteq All
    BY Zenon, ThreadAssumption DEF All
  <2>3. ASSUME NEW t \in Thread, at[t] \notin {"swap", "delete"}, UNCHANGED <<refs, g_callback, lcb>>,
               NEW l \in ThreadAt \ {"swap", "delete"}, at' = [at EXCEPT ![t] = l]
        PROVE  ReferencesExact'
    <3>1. at'[Poller] = at[Poller] /\ \A u \in Thread : at'[u] = IF u = t THEN l ELSE at[u]
      BY Zenon, <2>1, <2>2, <2>3 DEF Types
    <3> QED  BY Zenon, <2>1, <2>3, <3>1, RefsQuiet
  <2>4. ASSUME at[Poller] # "handle", UNCHANGED <<refs, g_callback, lcb>>,
               NEW l \in PollerAt \ {"handle"}, at' = [at EXCEPT ![Poller] = l]
        PROVE  ReferencesExact'
    <3>1. at'[Poller] = l /\ \A u \in Thread : at'[u] = at[u]
      BY Zenon, <2>1, <2>2, <2>4 DEF Types
    <3> QED  BY Zenon, <2>1, <2>4, <3>1, RefsQuiet
  <2>5. ASSUME UNCHANGED <<at, refs, g_callback, lcb>>  PROVE ReferencesExact'
    BY Zenon, <2>1, <2>5, RefsQuiet
  <2>6. CASE UNCHANGED vars \/ Multicast \/ OtherFile
    BY Zenon, <2>5, <2>6 DEF vars, cbVars, Multicast, OtherFile
  <2>7. ASSUME NEW t \in Thread, Call(t)  PROVE ReferencesExact'
    <3>1. CASE ConnectBegin(t)
      BY Zenon, <2>3, <2>5, <3>1 DEF ConnectBegin, Goto, cbVars, ThreadAt, Connecting
    <3>2. CASE DisconnectBegin(t) \/ CommandBegin(t)
      BY Zenon, <2>3, <3>2 DEF DisconnectBegin, CommandBegin, Goto, cbVars, ThreadAt, Connecting
    <3> QED  BY Zenon, <2>1, <2>7, <3>1, <3>2, RefsBegin DEF Call
  <2>8. ASSUME NEW t \in Thread, Finish(t)  PROVE ReferencesExact'
    <3>1. ASSUME NEW fds, ConnectFail(t, fds), at[t] \in Connecting  PROVE ReferencesExact'
      BY Zenon, <2>3, <3>1 DEF ConnectFail, Goto, cbVars, ThreadAt, Connecting
    <3>2. CASE ConnectSocket(t)
      BY Zenon, <2>3, <3>1, <3>2 DEF ConnectSocket, Goto, cbVars, ThreadAt, Connecting
    <3>3. CASE ConnectEventfd(t)
      BY Zenon, <2>3, <3>1, <3>3 DEF ConnectEventfd, Goto, cbVars, ThreadAt, Connecting
    <3>4. CASE ConnectResolve(t)
      BY Zenon, <2>3, <3>1, <3>4 DEF ConnectResolve, StoreAt, Goto, cbVars, ThreadAt, Connecting
    <3>5. ASSUME NEW i \in 1 .. 3, ConnectStore(t, i)  PROVE ReferencesExact'
      <4>1. at[t] \in {"store1", "store2", "store3"} /\ UNCHANGED <<refs, g_callback, lcb>>
        BY <3>5 DEF ConnectStore, StoreAt, cbVars
      <4>2. \E l \in {"store2", "store3", "idle"} : at' = [at EXCEPT ![t] = l]
        BY <3>5 DEF ConnectStore, StoreAt, Goto
      <4> QED  BY Zenon, <2>3, <4>1, <4>2 DEF ThreadAt, Connecting
    <3>6. CASE DisconnectWrite(t) \/ CommandSocket(t) \/ CommandSend(t)
      BY Zenon, <2>3, <3>6 DEF DisconnectWrite, CommandSocket, CommandSend, Goto, cbVars, ThreadAt, Connecting
    <3> QED  BY Zenon, <2>1, <2>8, <3>2, <3>3, <3>4, <3>5, <3>6, RefsSwap, RefsDelete DEF Finish
  <2>9. CASE PollBegin \/ Poll \/ PollInterrupted
    <3>1. CASE PollBegin \/ PollLoad \/ PollInterrupted \/ PollRead \/ PollExchange \/ PollClose
      BY Zenon, <2>4, <3>1 DEF PollBegin, Running, PollLoad, PollInterrupted, PollRead, PollExchange, PollClose, Goto,
         cbVars, PollerAt
    <3>2. CASE PollLoadDisconnect \/ PollWait \/ PollRecv
      BY Zenon, <2>4, <3>2 DEF PollLoadDisconnect, PollWait, Ready, PollRecv, Goto, cbVars, PollerAt
    <3> QED  BY Zenon, <2>1, <2>9, <3>1, <3>2, RefsPoll DEF Poll
  <2> QED  BY Zenon, <1>2, <2>6, <2>7, <2>8, <2>9 DEF Next
<1> QED  BY <1>1, <1>2, ClientInvariant, PTL DEF Spec

=============================================================================
