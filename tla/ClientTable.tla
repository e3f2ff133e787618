---------------------------- MODULE ClientTable ----------------------------
(***************************************************************************)
(* The client slots of src/server.c and the threads that use them: the     *)
(* main thread (handle_new_connection, and global_cleanup at the end), one *)
(* detached handler thread per connection (secure_client_handler), and the *)
(* monitor thread (check_client_timeouts).  The array server.clients is    *)
(* shared by all of them without a lock, so a step here is one access, or  *)
(* a run of accesses that no other thread can tell apart.                  *)
(*                                                                         *)
(* Descriptors are the kernel's: close(d) closes whatever d refers to now, *)
(* and accept takes the lowest free number.  Time is abstracted to idle:   *)
(* "last_activity is more than CONNECTION_TIMEOUT ago".  Of a command the  *)
(* model keeps what it does to the table and which SSL objects it writes   *)
(* to: its own, one other (/msg, /send_enc) or all (broadcast_message).    *)
(***************************************************************************)
EXTENDS Integers, FiniteSets

CONSTANTS
    MaxClients,     \* MAX_CLIENTS
    Conns,          \* the connections made to the server, and their handler threads
    MaxFd,          \* descriptors are 0..MaxFd; the server's own are left out
    NoConn,         \* NULL, or a free descriptor
    Stdin,          \* what descriptor 0 refers to at the start
    Signals         \* bound: the signals the process is sent, of the three that stop it

ASSUME TableAssumption ==
    /\ MaxClients \in Nat /\ MaxClients >= 1
    /\ MaxFd \in Nat
    /\ NoConn \notin Conns /\ Stdin \notin Conns /\ NoConn # Stdin

VARIABLES
    running,        \* server.running
    fd,             \* server.clients[s].fd
    ssl,            \* server.clients[s].ssl, named by the connection it was made for
    idle,           \* the idle time of server.clients[s] exceeds CONNECTION_TIMEOUT
    authorized,     \* server.clients[s].authorized
    file,           \* the kernel's table: what a descriptor refers to
    sslFd,          \* the descriptor an SSL object was given (SSL_set_fd), -1 before
    sslState,       \* "none", "live" or "freed": the SSL object of a connection
    pc,             \* where a handler thread is
    slot,           \* the slot a handler thread was started for
    use,            \* the SSL object a handler handed to ssl_safe_read or ssl_safe_write
    todo,           \* the slots broadcast_message has still to visit
    main,           \* the main thread: [at, conn, slot]
    mon,            \* the monitor thread: [at, slot]
    died,           \* the process died of a dangling SSL object: the thread's "own" one,
                    \* or that of another client in a "delivery"
    tainted         \* history: somebody besides the slot's handler may write the slot

table == <<fd, ssl, idle, authorized>>
conns == <<file, sslFd, sslState>>
threads == <<pc, slot, use, todo, main, mon>>
vars == <<running, table, conns, threads, died, tainted>>

Slots == 0..(MaxClients - 1)
Fds == 0..MaxFd

\* A handler thread between pthread_create and its return.
Live == {c \in Conns : pc[c] \notin {"none", "done"}}
Bound(s) == {c \in Live : slot[c] = s}

\* The process exists.  Its threads end with it.
Up == died = "no" /\ main.at # "exited"

MainAt(l) == Up /\ main.at = l
HandlerAt(c, l) == Up /\ pc[c] = l
MonitorAt(l) == Up /\ mon.at = l

Init ==
    /\ running = TRUE
    /\ fd = [s \in Slots |-> 0]             \* static ultra_server_state_t server = {0}
    /\ ssl = [s \in Slots |-> NoConn]
    /\ idle = [s \in Slots |-> TRUE]        \* last_activity is 0
    /\ authorized = [s \in Slots |-> FALSE]
    /\ file = [d \in Fds |-> IF d = 0 THEN Stdin ELSE NoConn]
    /\ sslFd = [c \in Conns |-> -1]
    /\ sslState = [c \in Conns |-> "none"]
    /\ pc = [c \in Conns |-> "none"]
    /\ slot = [c \in Conns |-> 0]
    /\ use = [c \in Conns |-> NoConn]
    /\ todo = [c \in Conns |-> {}]
    /\ main = [at |-> "poll", conn |-> NoConn, slot |-> 0]
    /\ mon = [at |-> "scan", slot |-> 0]
    /\ died = "no"
    /\ tainted = [s \in Slots |-> FALSE]

-----------------------------------------------------------------------------
(***************************************************************************)
(* Steps on a slot that several threads share.                             *)
(***************************************************************************)
\* close(d): no effect when d is not an open descriptor.
Close(d) == file' = IF d \in Fds THEN [file EXCEPT ![d] = NoConn] ELSE file

Usable(o) == o \in Conns /\ sslState[o] = "live"

\* Undefined behaviour when o is NULL or freed: the process may die of it.
Touch(o, how) == died' \in IF Usable(o) THEN {died} ELSE {died, how}

\* ssl_safe_write, which writes only while the server is running.
Write(o, how) == IF running THEN Touch(o, how) ELSE UNCHANGED died

(* cleanup_client_resources, in the order of its writes. *)
FreeSsl(s) == /\ ssl[s] # NoConn
              /\ Touch(ssl[s], "own")
              /\ sslState' = [sslState EXCEPT ![ssl[s]] = "freed"]
              /\ UNCHANGED <<table, file, sslFd, tainted>>

\* Mutant: client->ssl = NULL is missing.
KeepSsl(s) == UNCHANGED <<table, conns, died, tainted>>

NullSsl(s) == /\ ssl' = [ssl EXCEPT ![s] = NoConn]
              /\ UNCHANGED <<fd, idle, authorized, conns, died, tainted>>

CloseFd(s) == /\ fd[s] >= 0
              /\ Close(fd[s])
              /\ UNCHANGED <<table, sslFd, sslState, died, tainted>>

UnsetFd(s) == /\ fd' = [fd EXCEPT ![s] = -1]
              /\ UNCHANGED <<ssl, idle, authorized, conns, died, tainted>>

Wipe(s) == /\ authorized' = [authorized EXCEPT ![s] = FALSE]
           /\ UNCHANGED <<fd, ssl, idle, conns, died, tainted>>

Nothing == UNCHANGED <<table, conns, died, tainted>>

\* The order of cleanup_client_resources: from label l to the next one.
CleanupStep(s, l, m) ==
    \/ l = "free"  /\ m = "null"  /\ FreeSsl(s)
    \/ l = "free"  /\ m = "close" /\ ssl[s] = NoConn /\ Nothing
    \/ l = "null"  /\ m = "close" /\ NullSsl(s)
    \/ l = "close" /\ m = "unset" /\ CloseFd(s)
    \/ l = "close" /\ m = "wipe"  /\ fd[s] < 0 /\ Nothing
    \/ l = "unset" /\ m = "wipe"  /\ UnsetFd(s)
    \/ l = "wipe"  /\ m = "done"  /\ Wipe(s)

CleanupLabels == {"free", "null", "close", "unset", "wipe"}

-----------------------------------------------------------------------------
(***************************************************************************)
(* The main thread: handle_new_connection.                                 *)
(***************************************************************************)
\* Mutant: the 0 of an untouched slot counts as free.
FreeSlotsZero == {s \in Slots : fd[s] <= 0}

FreeSlots == {s \in Slots : fd[s] < 0}
FreeFds == {d \in Fds : file[d] = NoConn}
IsLowest(x, S) == x \in S /\ \A y \in S : x <= y
MainFd == sslFd[main.conn]

\* handle_new_connection has returned, and the main loop tests server.running: on to
\* epoll_wait, or out of the loop and to global_cleanup.
Polling == [at |-> IF running THEN "poll" ELSE "pass", conn |-> NoConn, slot |-> 0]

\* epoll_wait reports a connection, also when the server is stopped during the wait.
\* The descriptor is the one SSL_set_fd gives the connection's SSL later.
Accept(c, d) ==
    /\ MainAt("poll")
    /\ sslFd[c] = -1
    /\ IsLowest(d, FreeFds)
    /\ file' = [file EXCEPT ![d] = c]
    /\ sslFd' = [sslFd EXCEPT ![c] = d]
    /\ main' = [main EXCEPT !.at = "scan", !.conn = c]
    /\ UNCHANGED <<running, table, sslState, pc, slot, use, todo, mon, died, tainted>>

\* The first slot whose fd is negative.
FindSlot(s) ==
    /\ MainAt("scan")
    /\ IsLowest(s, FreeSlots)
    /\ main' = [main EXCEPT !.at = "tls", !.slot = s]
    /\ UNCHANGED <<running, table, conns, pc, slot, use, todo, mon, died, tainted>>

\* "Maximum clients reached, rejecting connection"
Reject ==
    /\ MainAt("scan")
    /\ FreeSlots = {}
    /\ Close(MainFd)
    /\ main' = Polling
    /\ UNCHANGED <<running, table, sslFd, sslState, pc, slot, use, todo, mon, died, tainted>>

\* SSL_accept, on a descriptor that was made non-blocking, fails or succeeds.
HandshakeFails ==
    /\ MainAt("tls")
    /\ Close(MainFd)
    /\ main' = Polling
    /\ UNCHANGED <<running, table, sslFd, sslState, pc, slot, use, todo, mon, died, tainted>>

\* Mutant: the return after a failed SSL_accept is missing.
ZeroSlotUnshaken ==
    LET s == main.slot
    IN  /\ MainAt("tls")
        /\ sslState' = [sslState EXCEPT ![main.conn] = "freed"]
        /\ fd' = [fd EXCEPT ![s] = 0]
        /\ ssl' = [ssl EXCEPT ![s] = NoConn]
        /\ idle' = [idle EXCEPT ![s] = TRUE]
        /\ authorized' = [authorized EXCEPT ![s] = FALSE]
        /\ tainted' = [tainted EXCEPT ![s] =
                         Bound(s) # {} \/ (mon.at \in {"close", "set"} /\ mon.slot = s)]
        /\ main' = [main EXCEPT !.at = "fill"]
        /\ UNCHANGED <<running, file, sslFd, pc, slot, use, todo, mon, died>>

\* SSL_accept succeeds, and memset(client, 0, ...) makes the slot look as it did at
\* the start.  The tenancy is clean when no earlier handler and no monitor step is
\* left on the slot.
ZeroSlot ==
    LET s == main.slot
    IN  /\ MainAt("tls")
        /\ sslState' = [sslState EXCEPT ![main.conn] = "live"]
        /\ fd' = [fd EXCEPT ![s] = 0]
        /\ ssl' = [ssl EXCEPT ![s] = NoConn]
        /\ idle' = [idle EXCEPT ![s] = TRUE]
        /\ authorized' = [authorized EXCEPT ![s] = FALSE]
        /\ tainted' = [tainted EXCEPT ![s] =
                         Bound(s) # {} \/ (mon.at \in {"close", "set"} /\ mon.slot = s)]
        /\ main' = [main EXCEPT !.at = "fill"]
        /\ UNCHANGED <<running, file, sslFd, pc, slot, use, todo, mon, died>>

\* The slot's fields are set and its handler thread is created, or is not: the result
\* of pthread_create is not looked at.
FillSlot(created) ==
    LET s == main.slot
        c == main.conn
    IN  /\ MainAt("fill")
        /\ fd' = [fd EXCEPT ![s] = MainFd]
        /\ ssl' = [ssl EXCEPT ![s] = c]
        /\ idle' = [idle EXCEPT ![s] = FALSE]
        /\ authorized' = [authorized EXCEPT ![s] = FALSE]
        /\ IF created
           THEN /\ pc' = [pc EXCEPT ![c] = "init"]
                /\ slot' = [slot EXCEPT ![c] = s]
           ELSE UNCHANGED <<pc, slot>>
        /\ main' = Polling
        /\ UNCHANGED <<running, conns, use, todo, mon, died, tainted>>

(***************************************************************************)
(* The end of the main loop: global_cleanup over all slots, then the       *)
(* return from main ends the process.                                      *)
(***************************************************************************)
\* epoll_wait ends without a connection, and the server has been stopped.
StartCleanup ==
    /\ MainAt("poll") /\ ~running
    /\ main' = [main EXCEPT !.at = "pass", !.slot = 0]
    /\ UNCHANGED <<running, table, conns, pc, slot, use, todo, mon, died, tainted>>

\* The slot is in use: its resources are released under its handler's feet.
CleanSlot ==
    /\ MainAt("pass") /\ main.slot \in Slots
    /\ fd[main.slot] >= 0
    /\ main' = [main EXCEPT !.at = "free"]
    /\ tainted' = [tainted EXCEPT ![main.slot] = @ \/ Bound(main.slot) # {}]
    /\ UNCHANGED <<running, table, conns, pc, slot, use, todo, mon, died>>

\* Mutant: a loop that does not go on after an unused slot.
SkipNothing ==
    /\ MainAt("pass") /\ main.slot \in Slots
    /\ fd[main.slot] < 0
    /\ UNCHANGED vars

SkipSlot ==
    /\ MainAt("pass") /\ main.slot \in Slots
    /\ fd[main.slot] < 0
    /\ main' = [main EXCEPT !.slot = @ + 1]
    /\ UNCHANGED <<running, table, conns, pc, slot, use, todo, mon, died, tainted>>

MainCleanup(m) ==
    /\ Up /\ main.at \in CleanupLabels
    /\ CleanupStep(main.slot, main.at, m)
    /\ main' = IF m = "done" THEN [main EXCEPT !.at = "pass", !.slot = @ + 1]
                             ELSE [main EXCEPT !.at = m]
    /\ UNCHANGED <<running, pc, slot, use, todo, mon>>

Exit ==
    /\ MainAt("pass") /\ main.slot = MaxClients
    /\ main' = [main EXCEPT !.at = "exited"]
    /\ UNCHANGED <<running, table, conns, pc, slot, use, todo, mon, died, tainted>>

MainStep ==
    \/ \E c \in Conns, d \in Fds : Accept(c, d)
    \/ \E s \in Slots : FindSlot(s)
    \/ Reject \/ HandshakeFails \/ ZeroSlot
    \/ \E b \in BOOLEAN : FillSlot(b)
    \/ StartCleanup \/ CleanSlot \/ SkipSlot \/ Exit
    \/ \E m \in CleanupLabels \cup {"done"} : MainCleanup(m)

-----------------------------------------------------------------------------
(***************************************************************************)
(* A handler thread: secure_client_handler.                                *)
(***************************************************************************)
Go(c, l) == pc' = [pc EXCEPT ![c] = l]

\* cleanup: a client that was logged in is announced to the others first.
Leave(c) ==
    IF authorized[slot[c]]
    THEN Go(c, "leave") /\ todo' = [todo EXCEPT ![c] = Slots]
    ELSE Go(c, "free") /\ UNCHANGED todo

HandlerInitFails(c) ==
    /\ HandlerAt(c, "init")
    /\ Leave(c)
    /\ UNCHANGED <<running, table, conns, slot, use, main, mon, died, tainted>>

\* The Signal state is set up and the welcome message is written.
HandlerInit(c) ==
    /\ HandlerAt(c, "init")
    /\ Write(ssl[slot[c]], "own")
    /\ Go(c, "loop")
    /\ UNCHANGED <<running, table, conns, slot, use, todo, main, mon, tainted>>

\* while (server.running && client->fd >= 0): ssl_safe_read gets client->ssl by value.
LoopTest(c) ==
    LET s == slot[c]
    IN  /\ HandlerAt(c, "loop")
        /\ IF running /\ fd[s] >= 0
           THEN /\ Go(c, "read")
                /\ use' = [use EXCEPT ![c] = ssl[s]]
                /\ UNCHANGED todo
           ELSE Leave(c) /\ UNCHANGED use
        /\ UNCHANGED <<running, table, conns, slot, main, mon, died, tainted>>

\* A line, or what had come of it when the connection broke or the monitor closed
\* its descriptor: last_activity = now.
ReadLine(c) ==
    /\ HandlerAt(c, "read") /\ Usable(use[c])
    /\ Go(c, "command")
    /\ use' = [use EXCEPT ![c] = NoConn]
    /\ idle' = [idle EXCEPT ![slot[c]] = FALSE]
    /\ UNCHANGED <<running, fd, ssl, authorized, conns, slot, todo, main, mon, died, tainted>>

\* 0: nothing within the time limit, or the connection is closed or broken.
ReadNothing(c) ==
    /\ HandlerAt(c, "read") /\ Usable(use[c])
    /\ IF idle[slot[c]] THEN Leave(c) ELSE Go(c, "loop") /\ UNCHANGED todo
    /\ use' = [use EXCEPT ![c] = NoConn]
    /\ UNCHANGED <<running, table, conns, slot, main, mon, died, tainted>>

\* The object is NULL or was freed by another thread: -1, 0 or the end of the process.
ReadDangling(c) ==
    /\ HandlerAt(c, "read") /\ ~Usable(use[c])
    /\ Touch(use[c], "own")
    /\ Leave(c) \/ (Go(c, "loop") /\ UNCHANGED todo)
    /\ use' = [use EXCEPT ![c] = NoConn]
    /\ UNCHANGED <<running, table, conns, slot, main, mon, tainted>>

\* A command that is answered to the client itself (an error, /help, /online,
\* /register, a refused login, the rate limit), or that is dropped without an answer.
Reply(c, answered) ==
    /\ HandlerAt(c, "command")
    /\ IF answered THEN Write(ssl[slot[c]], "own") ELSE UNCHANGED died
    /\ Go(c, "loop")
    /\ UNCHANGED <<running, table, conns, slot, use, todo, main, mon, tainted>>

\* process_login succeeds: the client is told, then everybody is.
LogIn(c) ==
    LET s == slot[c]
    IN  /\ HandlerAt(c, "command") /\ ~authorized[s]
        /\ Write(ssl[s], "own")
        /\ authorized' = [authorized EXCEPT ![s] = TRUE]
        /\ todo' = [todo EXCEPT ![c] = Slots]
        /\ Go(c, "send")
        /\ UNCHANGED <<running, fd, ssl, idle, conns, slot, use, main, mon, tainted>>

\* handle_authorized_commands: a message to everybody.
Chat(c) ==
    /\ HandlerAt(c, "command") /\ authorized[slot[c]]
    /\ todo' = [todo EXCEPT ![c] = Slots]
    /\ Go(c, "send")
    /\ UNCHANGED <<running, table, conns, slot, use, main, mon, died, tainted>>

\* send_private_message, handle_encrypted_message: find_client_by_nick gave slot t.
Direct(c, t) ==
    /\ HandlerAt(c, "command") /\ authorized[slot[c]]
    /\ fd[t] >= 0 /\ authorized[t]
    /\ use' = [use EXCEPT ![c] = ssl[t]]
    /\ Go(c, "write")
    /\ UNCHANGED <<running, table, conns, slot, todo, main, mon, died, tainted>>

(***************************************************************************)
(* broadcast_message: the slots in turn.  A client that is connected and   *)
(* logged in gets a write on the SSL object its slot holds now.  "send"    *)
(* and "write" are the broadcast of a command, "leave" and "part" the one  *)
(* that announces the end of the session.                                  *)
(***************************************************************************)
\* Mutant: the announced handler does not leave its loop.
ResumeLoop(l, S) ==
    CASE l \in {"send", "write"} -> IF S = {} THEN "loop" ELSE "send"
      [] l \in {"leave", "part"} -> IF S = {} THEN "loop" ELSE "leave"

\* With the slots S left to visit: go on, or return from broadcast_message.
Resume(l, S) ==
    CASE l \in {"send", "write"} -> IF S = {} THEN "loop" ELSE "send"
      [] l \in {"leave", "part"} -> IF S = {} THEN "free" ELSE "leave"

BroadcastNext(c, t) ==
    LET rest == todo[c] \ {t}
    IN  /\ Up /\ pc[c] \in {"send", "leave"}
        /\ IsLowest(t, todo[c])
        /\ todo' = [todo EXCEPT ![c] = rest]
        /\ IF fd[t] >= 0 /\ authorized[t]
           THEN /\ use' = [use EXCEPT ![c] = ssl[t]]
                /\ Go(c, IF pc[c] = "send" THEN "write" ELSE "part")
           ELSE /\ UNCHANGED use
                /\ Go(c, Resume(pc[c], rest))
        /\ UNCHANGED <<running, table, conns, slot, main, mon, died, tainted>>

Deliver(c) ==
    /\ Up /\ pc[c] \in {"write", "part"}
    /\ Write(use[c], "delivery")
    /\ use' = [use EXCEPT ![c] = NoConn]
    /\ Go(c, Resume(pc[c], todo[c]))
    /\ UNCHANGED <<running, table, conns, slot, todo, main, mon, tainted>>

HandlerCleanup(c, m) ==
    /\ Up /\ pc[c] \in CleanupLabels
    /\ CleanupStep(slot[c], pc[c], m)
    /\ Go(c, m)
    /\ UNCHANGED <<running, slot, use, todo, main, mon>>

HandlerStep(c) ==
    \/ HandlerInitFails(c) \/ HandlerInit(c) \/ LoopTest(c)
    \/ ReadLine(c) \/ ReadNothing(c) \/ ReadDangling(c)
    \/ \E b \in BOOLEAN : Reply(c, b)
    \/ LogIn(c) \/ Chat(c) \/ \E t \in Slots : Direct(c, t) \/ BroadcastNext(c, t)
    \/ Deliver(c)
    \/ \E m \in CleanupLabels \cup {"done"} : HandlerCleanup(c, m)

-----------------------------------------------------------------------------
(***************************************************************************)
(* The monitor thread: security_monitor_thread, check_client_timeouts.     *)
(***************************************************************************)
\* On to slot i, or to the next pass (after a sleep, in which it looks at nothing).
ScanFrom(i) ==
    mon' = IF i < MaxClients THEN [at |-> "scan", slot |-> i]
                             ELSE [at |-> IF running THEN "scan" ELSE "exit", slot |-> 0]

\* Mutant: descriptor 0 is taken for "no descriptor".
ExpirePositive ==
    LET s == mon.slot
    IN  /\ MonitorAt("scan")
        /\ fd[s] > 0 /\ idle[s]
        /\ mon' = [mon EXCEPT !.at = "close"]
        /\ tainted' = [tainted EXCEPT ![s] =
              @ \/ Bound(s) # {} \/ (main.at = "fill" /\ main.slot = s)]
        /\ UNCHANGED <<running, table, conns, pc, slot, use, todo, main, died>>

\* "Disconnecting inactive client": the monitor has decided to close the slot.
Expire ==
    LET s == mon.slot
    IN  /\ MonitorAt("scan")
        /\ fd[s] >= 0 /\ idle[s]
        /\ mon' = [mon EXCEPT !.at = "close"]
        /\ tainted' = [tainted EXCEPT ![s] =
              @ \/ Bound(s) # {} \/ (main.at = "fill" /\ main.slot = s)]
        /\ UNCHANGED <<running, table, conns, pc, slot, use, todo, main, died>>

KeepSlot ==
    /\ MonitorAt("scan")
    /\ ~(fd[mon.slot] >= 0 /\ idle[mon.slot])
    /\ ScanFrom(mon.slot + 1)
    /\ UNCHANGED <<running, table, conns, pc, slot, use, todo, main, died, tainted>>

ExpireClose ==
    /\ MonitorAt("close")
    /\ Close(fd[mon.slot])
    /\ mon' = [mon EXCEPT !.at = "set"]
    /\ UNCHANGED <<running, table, sslFd, sslState, pc, slot, use, todo, main, died, tainted>>

ExpireSet ==
    /\ MonitorAt("set")
    /\ fd' = [fd EXCEPT ![mon.slot] = -1]
    /\ ScanFrom(mon.slot + 1)
    /\ UNCHANGED <<running, ssl, idle, authorized, conns, pc, slot, use, todo, main, died, tainted>>

MonitorStep == Expire \/ KeepSlot \/ ExpireClose \/ ExpireSet

-----------------------------------------------------------------------------
(***************************************************************************)
(* Time, clients and signals.                                              *)
(***************************************************************************)
\* CONNECTION_TIMEOUT seconds go by without a line (of a slot somebody looks at).
TimePasses(s) ==
    /\ Up /\ ~idle[s]
    /\ fd[s] >= 0 \/ Bound(s) # {}
    /\ idle' = [idle EXCEPT ![s] = TRUE]
    /\ UNCHANGED <<running, fd, ssl, authorized, conns, threads, died, tainted>>

\* signal_handler
Signal(sig) ==
    /\ Up /\ running
    /\ running' = FALSE
    /\ UNCHANGED <<table, conns, threads, died, tainted>>

Next ==
    \/ MainStep
    \/ \E c \in Conns : HandlerStep(c)
    \/ MonitorStep
    \/ \E s \in Slots : TimePasses(s)
    \/ \E sig \in Signals : Signal(sig)

Spec == Init /\ [][Next]_vars

\* ssl_safe_read and ssl_safe_write come back by themselves only from an object whose
\* descriptor is closed: a client may keep back the end of a line, or not take what it
\* is sent, for as long as it likes (and a write is given up when the server stops).
Connected(o) == Usable(o) /\ file[sslFd[o]] # NoConn

MayStall(c) ==
    \/ pc[c] = "read" /\ Connected(use[c])
    \/ running /\ pc[c] \in {"write", "part"} /\ Connected(use[c])
    \/ running /\ pc[c] \in {"init", "command"} /\ Connected(ssl[slot[c]])

\* Threads run unless a client holds them up, and time passes.
Fairness ==
    /\ WF_vars(MainStep)
    /\ WF_vars(MonitorStep)
    /\ \A c \in Conns : WF_vars(HandlerStep(c) /\ ~MayStall(c))
    /\ \A s \in Slots : WF_vars(TimePasses(s))

FairSpec == Spec /\ Fairness

-----------------------------------------------------------------------------
\* Every variable keeps its type.
TypeOK ==
    /\ running \in BOOLEAN
    /\ fd \in [Slots -> Fds \cup {-1}]
    /\ ssl \in [Slots -> Conns \cup {NoConn}]
    /\ idle \in [Slots -> BOOLEAN]
    /\ authorized \in [Slots -> BOOLEAN]
    /\ file \in [Fds -> Conns \cup {NoConn, Stdin}]
    /\ sslFd \in [Conns -> Fds \cup {-1}]
    /\ sslState \in [Conns -> {"none", "live", "freed"}]
    /\ pc \in [Conns -> {"none", "init", "loop", "read", "command", "done",
                         "send", "write", "leave", "part"}
                        \cup CleanupLabels]
    /\ slot \in [Conns -> Slots]
    /\ use \in [Conns -> Conns \cup {NoConn}]
    /\ todo \in [Conns -> SUBSET Slots]
    /\ main \in [at : {"poll", "scan", "tls", "fill", "pass", "exited"}
                        \cup CleanupLabels,
                 conn : Conns \cup {NoConn},
                 slot : 0..MaxClients]
    /\ mon \in [at : {"scan", "close", "set", "exit"}, slot : Slots]
    /\ died \in {"no", "own", "delivery"}
    /\ tainted \in [Slots -> BOOLEAN]

\* handle_new_connection looks for a free slot, runs a TLS handshake, and overwrites
\* the slot, without a lock: the slot it found is still free when it is overwritten,
\* whatever the handlers and the monitor did in between.
ChosenSlotStaysFree ==
    main.at = "tls" => fd[main.slot] = -1

\* Handler c has its slot to itself: it is alone on it, the slot holds its own
\* descriptor and SSL object, and cleanup_client_resources takes them down once.
OwnsSlot(c) ==
    LET s == slot[c]
    IN  /\ Bound(s) = {c}
        /\ sslState[c] = IF pc[c] \in {"null", "close", "unset", "wipe"}
                         THEN "freed" ELSE "live"
        /\ ssl[s] = IF pc[c] \in {"close", "unset", "wipe"} THEN NoConn ELSE c
        /\ fd[s] = IF pc[c] = "wipe" THEN -1 ELSE sslFd[c]
        /\ pc[c] = "read" => use[c] = c
        /\ pc[c] \in {"unset", "wipe"} => \A d \in Fds : file[d] # c

\* As long as neither check_client_timeouts nor global_cleanup writes the slot of a
\* running handler, and it was not handed out before its last handler returned, the
\* handler owns it at each of its steps, whatever happens on the other slots.
CleanTenancy ==
    \A c \in Live : ~tainted[slot[c]] => OwnsSlot(c)

\* A handler's own reads, answers and clean-up, and global_cleanup, use a dangling SSL
\* object only after somebody besides the slot's own handler wrote a slot:
\* check_client_timeouts or global_cleanup under a handler, or a new connection put
\* into a slot whose old handler had not returned.
CrashNeedsReclaim ==
    died = "own" => \E s \in Slots : tainted[s]

\* A slot that stays inactive becomes free (or the server stops): check_client_timeouts
\* comes by, at the start too, where every slot looks like an inactive client.
IdleSlotReleased ==
    \A s \in Slots :
       (fd[s] >= 0 /\ idle[s]) ~> (fd[s] < 0 \/ ~idle[s] \/ ~running \/ ~Up)

\* The slot or the descriptor number of handler c went to another connection, or the
\* monitor, seeing the slot between memset and its filling, emptied it without closing
\* the descriptor of c.
Displaced(c) ==
    \/ ssl[slot[c]] \notin {c, NoConn}
    \/ file[sslFd[c]] \in Conns \ {c}
    \/ fd[slot[c]] < 0 /\ file[sslFd[c]] = c

\* A handler does not stay on a connection that has gone silent, not even in the middle
\* of a line: it ends by the idle time, or check_client_timeouts closes the descriptor
\* and thereby ends its read.  Only another client that does not take a message can
\* hold it, or the loss of its slot or its descriptor number.
SilentHandlerEnds ==
    \A c \in Conns :
       (c \in Live /\ idle[slot[c]]) ~>
          \/ c \notin Live \/ ~idle[slot[c]] \/ ~Up
          \/ pc[c] \in {"write", "part"} /\ use[c] # c
          \/ Displaced(c)

\* After a signal the main thread leaves its loop, cleans up and ends the process.
ShutdownCompletes == ~running ~> ~Up

-----------------------------------------------------------------------------
(* Statements of the repository that the code does not keep.                *)

\* "Maximum clients reached, rejecting connection": said only when every slot
\* belongs to a client.
RejectOnlyWhenFull ==
    (main.at = "scan" /\ FreeSlots = {}) => \A s \in Slots : Bound(s) # {}

\* "Запуск обработчика клиента в отдельном потоке" (the client's handler runs in a thread
\* of its own): no two handler threads are in the main loop on one slot.
OneHandlerPerSlot ==
    \A s \in Slots :
       Cardinality({c \in Bound(s) : pc[c] \in {"loop", "read", "command"}}) <= 1

\* "Client disconnected normally": the end of a session, with nobody interfering with a
\* slot, does not bring the server down.  broadcast_message and send_private_message
\* do not know that cleanup_client_resources has freed the SSL object of a slot whose
\* fd and authorized are still set.
DisconnectIsHarmless ==
    died = "delivery" => \E s \in Slots : tainted[s]
=============================================================================
