---------------------------- MODULE FormerServer ----------------------------
(***************************************************************************)
(* The former server, trash/server2.c, inside its C++ lifecycle wrapper    *)
(* (MeshServer.hpp, trash/main.cpp).  Threads: the main program, the       *)
(* server thread that runs start_mesh_server, the monitor and one handler  *)
(* per accepted connection.  They share server.running, the client slots   *)
(* and server.mutex, a default (not recursive) pthread mutex: a thread     *)
(* that locks it twice waits for itself for ever.                          *)
(***************************************************************************)
EXTENDS Integers, FiniteSets

CONSTANTS Conns,        \* connections clients may open
          NSlots,       \* MAX_CLIENTS, the length of server.clients
          Nicks,        \* nicknames clients may use
          Seeded,       \* nicknames whose row was put in the database with a short token
          None          \* fd < 0, no target, no owner

ASSUME FormerAssumption ==
  /\ NSlots \in Nat \ {0}
  /\ Seeded \subseteq Nicks
  /\ None \notin Conns /\ None \notin Nicks /\ None \notin {"server", "monitor"} /\ None \notin 1..NSlots
  /\ "server" \notin Conns /\ "monitor" \notin Conns

Slots == 1..NSlots

VARIABLES
  main,       \* main.cpp: "init" "watch" "join" "done", or "gone" when the process crashed or exited
  signalled,  \* shutdown_requested
  running,    \* server.running
  server,     \* the server thread: where it is in start_mesh_server
  monitor,    \* the monitor thread: "none" "head" "scan" "stuck" "ended"
  mutex,      \* the thread that holds server.mutex
  freed,      \* cleanup_resources has freed server.clients
  fd,         \* the connection in each slot
  authorized, nick,             \* the client_t of each slot
  users,      \* the users table: the kind of token each nickname has
  peer_count, \* p2p_net.peer_count
  pc, at,     \* of each handler: its step, and the slot of its client_t *
  tgt, to,    \* of each handler: the slot it looked up, and for which nickname
  cur         \* of each handler: the next slot of its broadcast

life == <<main, signalled, running, server, monitor>>
table == <<fd, authorized, nick>>
handlers == <<pc, at, tgt, to, cur>>
vars == <<life, mutex, freed, table, users, peer_count, handlers>>

Tokens == {"none", "short", "full"}
ServerSteps == {"none", "created", "init", "accept", "place", "closing", "cleanup", "stuck", "exited"}
HandlerSteps == {"none", "lost", "new", "loop", "select", "read", "joined", "joinwrite", "add", "text", "textwrite",
                 "private", "privwrite", "raw", "leave", "disc", "ended"}

\* Types of the state.
TypeOK ==
  /\ main \in {"init", "watch", "join", "done", "gone"}
  /\ signalled \in BOOLEAN /\ running \in BOOLEAN /\ freed \in BOOLEAN
  /\ server \in ServerSteps
  /\ monitor \in {"none", "head", "scan", "stuck", "ended"}
  /\ mutex \in Conns \cup {"server", "monitor", None}
  /\ fd \in [Slots -> Conns \cup {None}]
  /\ authorized \in [Slots -> BOOLEAN]
  /\ nick \in [Slots -> Nicks \cup {None}]
  /\ users \in [Nicks -> Tokens]
  /\ peer_count \in 0..NSlots
  /\ pc \in [Conns -> HandlerSteps]
  /\ at \in [Conns -> Slots \cup {None}]
  /\ tgt \in [Conns -> Slots \cup {None}]
  /\ to \in [Conns -> Nicks \cup {None}]
  /\ cur \in [Conns -> 1..(NSlots + 1)]

Init ==
  /\ main = "init" /\ signalled = FALSE /\ running = FALSE
  /\ server = "none" /\ monitor = "none" /\ mutex = None /\ freed = FALSE
  /\ fd = [s \in Slots |-> None]
  /\ authorized = [s \in Slots |-> FALSE]
  /\ nick = [s \in Slots |-> None]
  /\ users = [n \in Nicks |-> IF n \in Seeded THEN "short" ELSE "none"]
  /\ peer_count = 0
  /\ pc = [c \in Conns |-> "none"]
  /\ at = [c \in Conns |-> None]
  /\ tgt = [c \in Conns |-> None]
  /\ to = [c \in Conns |-> None]
  /\ cur = [c \in Conns |-> 1]

Alive == main \notin {"done", "gone"}

\* The sockets the server has open; the clients that are logged in, by slot.
Open == {s \in Slots : fd[s] # None}
Online == {s \in Open : authorized[s]}

-----------------------------------------------------------------------------
(* main.cpp and MeshServer *)

\* start(): the thread exists, it has not yet run a line of start_mesh_server.
MainStart ==
  /\ main = "init"
  /\ main' = "watch" /\ server' = "created"
  /\ UNCHANGED <<signalled, running, monitor, mutex, freed, table, users, peer_count, handlers>>

\* The handler of SIGINT and SIGTERM only sets a flag, which is read until stop().
Signal ==
  /\ main \in {"init", "watch"} /\ ~signalled
  /\ signalled' = TRUE
  /\ UNCHANGED <<main, running, server, monitor, mutex, freed, table, users, peer_count, handlers>>

\* The loop of main() ends, stop() clears the flag and joins the thread.
MainStop ==
  /\ main = "watch"
  /\ signalled \/ ~running
  /\ running' = FALSE
  /\ main' = "join"
  /\ UNCHANGED <<signalled, server, monitor, mutex, freed, table, users, peer_count, handlers>>

MainJoin ==
  /\ main = "join" /\ server = "exited"
  /\ main' = "done"
  /\ UNCHANGED <<signalled, running, server, monitor, mutex, freed, table, users, peer_count, handlers>>

-----------------------------------------------------------------------------
(* start_mesh_server *)

\* memset(&server, 0) and running = 1.
ServerBoot ==
  /\ Alive /\ server = "created"
  /\ running' = TRUE /\ server' = "init"
  /\ UNCHANGED <<main, signalled, monitor, mutex, freed, table, users, peer_count, handlers>>

\* Mutex, table, TLS context, Signal context, database, socket: a step that fails
\* returns at once, calls exit(1), or returns through cleanup_resources.  (The
\* pthread_detach of a monitor that could not be created may end the process too.)
ServerInitFails ==
  /\ Alive /\ server = "init"
  /\ \/ server' \in {"exited", "closing"} /\ UNCHANGED main
     \/ main' = "gone" /\ UNCHANGED server
  /\ UNCHANGED <<signalled, running, monitor, mutex, freed, table, users, peer_count, handlers>>

\* The socket listens and the monitor is created, if pthread_create does not fail
\* unnoticed; setup_epoll and epoll_ctl may still fail.
ServerInit ==
  /\ Alive /\ server = "init"
  /\ monitor' \in {"head", "none"}
  /\ server' \in {"accept", "closing"}
  /\ UNCHANGED <<main, signalled, running, mutex, freed, table, users, peer_count, handlers>>

\* epoll_wait without its timeout: the flag is looked at after an event only.
ServerLeavesAfterEvent ==
  /\ Alive /\ server = "place" /\ ~running
  /\ server' = "closing"
  /\ UNCHANGED <<main, signalled, running, monitor, mutex, freed, table, users, peer_count, handlers>>

\* The accept loop sees running = 0 within the second epoll_wait waits.
ServerLeaves ==
  /\ Alive /\ server = "accept" /\ ~running
  /\ server' = "closing"
  /\ UNCHANGED <<main, signalled, running, monitor, mutex, freed, table, users, peer_count, handlers>>

\* epoll_wait fails.
EpollFails ==
  /\ Alive /\ server = "accept" /\ running
  /\ server' = "closing"
  /\ UNCHANGED <<main, signalled, running, monitor, mutex, freed, table, users, peer_count, handlers>>

\* A connection is accepted; the slot needs the lock.
ServerAccepts ==
  /\ Alive /\ server = "accept" /\ running
  /\ server' = "place"
  /\ UNCHANGED <<main, signalled, running, monitor, mutex, freed, table, users, peer_count, handlers>>

\* No slot is free, or SSL_accept on the non-blocking socket fails.
ServerRefuses ==
  /\ Alive /\ server = "place" /\ mutex = None
  /\ server' = "accept"
  /\ UNCHANGED <<main, signalled, running, monitor, mutex, freed, table, users, peer_count, handlers>>

\* The first free slot is filled in and its handler is created.  A pthread_create
\* that fails goes unnoticed: the slot is open and nobody works on it, and the
\* pthread_detach of an id that was never set may end the process.
ServerPlaces(c) ==
  /\ Alive /\ server = "place" /\ mutex = None
  /\ pc[c] = "none"
  /\ \E s \in Slots \ Open :
       /\ \A r \in Slots \ Open : s <= r
       /\ fd' = [fd EXCEPT ![s] = c]
       /\ authorized' = [authorized EXCEPT ![s] = FALSE]
       /\ nick' = [nick EXCEPT ![s] = None]
       /\ at' = [at EXCEPT ![c] = s]
  /\ \/ pc' = [pc EXCEPT ![c] = "new"] /\ UNCHANGED main
     \/ pc' = [pc EXCEPT ![c] = "lost"] /\ main' \in {main, "gone"}
  /\ server' = "accept"
  /\ UNCHANGED <<signalled, running, monitor, mutex, freed, users, peer_count, tgt, to, cur>>

\* cleanup_resources clears the flag, then wants the lock.
CleanupBegins ==
  /\ Alive /\ server = "closing"
  /\ running' = FALSE /\ server' = "cleanup"
  /\ UNCHANGED <<main, signalled, monitor, mutex, freed, table, users, peer_count, handlers>>

\* A cleanup that leaves the clients to their handlers.
CleanupFreesAtOnce ==
  /\ Alive /\ server = "cleanup" /\ mutex = None
  /\ freed' = TRUE /\ server' = "exited"
  /\ UNCHANGED <<main, signalled, running, monitor, mutex, table, users, peer_count, handlers>>

\* With a slot still open, disconnect_client locks the mutex its caller holds;
\* with none, the table is freed and the mutex destroyed.
CleanupScans ==
  /\ Alive /\ server = "cleanup" /\ mutex = None
  /\ IF Open # {}
     THEN mutex' = "server" /\ server' = "stuck" /\ UNCHANGED freed
     ELSE freed' = TRUE /\ server' = "exited" /\ UNCHANGED mutex
  /\ UNCHANGED <<main, signalled, running, monitor, table, users, peer_count, handlers>>

-----------------------------------------------------------------------------
(* The monitor thread *)

\* The head of the loop; the 30 s of sleep are spent at "scan".
MonitorLoops ==
  /\ Alive /\ monitor = "head"
  /\ monitor' = IF running THEN "scan" ELSE "ended"
  /\ UNCHANGED <<main, signalled, running, server, mutex, freed, table, users, peer_count, handlers>>

\* With a recursive mutex the slot of an idle client is closed.
MonitorScansRecursive ==
  /\ Alive /\ monitor = "scan" /\ mutex = None
  /\ \E s \in Open :
       /\ fd' = [fd EXCEPT ![s] = None]
       /\ authorized' = [authorized EXCEPT ![s] = FALSE]
       /\ nick' = [nick EXCEPT ![s] = None]
  /\ monitor' = "head"
  /\ UNCHANGED <<main, signalled, running, server, mutex, freed, users, peer_count, handlers>>

\* A client was silent for CONNECTION_TIMEOUT, which depends on time alone and may
\* be any of them, or none: disconnect_client locks the mutex the monitor holds.  With
\* none, the lock is released.  Once the table is freed the scan reads freed
\* memory and may end the process.
MonitorScans ==
  /\ Alive /\ monitor = "scan" /\ mutex = None
  /\ \/ /\ ~freed /\ Open # {}
        /\ mutex' = "monitor" /\ monitor' = "stuck" /\ UNCHANGED main
     \/ /\ monitor' = "head"
        /\ UNCHANGED <<main, mutex>>
     \/ /\ freed
        /\ main' = "gone" /\ UNCHANGED <<mutex, monitor>>
  /\ UNCHANGED <<signalled, running, server, freed, table, users, peer_count, handlers>>

-----------------------------------------------------------------------------
(* client_handler *)

Step(c, from, next) == Alive /\ pc[c] = from /\ pc' = [pc EXCEPT ![c] = next]

\* What most steps of a handler leave alone.
KeepRest == UNCHANGED <<life, freed, users, peer_count>>

\* The limit per address never refuses: ip_limits has no unique address, so the
\* UPSERT of update_ip_limit cannot be prepared and no count is ever stored.
\* init_client_signal_protocol may fail.
HandlerStarts(c) ==
  /\ \E next \in {"loop", "disc"} : Step(c, "new", next)
  /\ KeepRest /\ UNCHANGED <<mutex, table, at, tgt, to, cur>>

\* The test of the loop; ssl_safe_read then waits up to five seconds in select.
LoopTest(c) ==
  /\ Step(c, "loop", "select") /\ running /\ fd[at[c]] # None
  /\ KeepRest /\ UNCHANGED <<mutex, table, at, tgt, to, cur>>

SelectTimesOut(c) ==
  /\ Step(c, "select", "loop")
  /\ KeepRest /\ UNCHANGED <<mutex, table, at, tgt, to, cur>>

\* select sees data, and ssl_safe_read waits for the end of the line, whatever
\* becomes, or has become, of running.
DataArrives(c) ==
  /\ Step(c, "select", "read")
  /\ KeepRest /\ UNCHANGED <<mutex, table, at, tgt, to, cur>>

\* ssl_safe_read answers 0 for a closed connection and for an error, as for a
\* timeout, and the loop goes on; so it does after a line without effect.
NothingRead(c) ==
  /\ Step(c, "read", "loop")
  /\ KeepRest /\ UNCHANGED <<mutex, table, at, tgt, to, cur>>

\* A whole line was read, from a client that is logged in or is not.
From(c, known) == authorized[at[c]] = known

\* /register: a new row with a token of 64 characters.
Register(c, n) ==
  /\ Step(c, "read", "loop") /\ From(c, FALSE)
  /\ users[n] = "none"
  /\ users' = [users EXCEPT ![n] = "full"]
  /\ UNCHANGED <<life, mutex, freed, table, peer_count, at, tgt, to, cur>>

\* /login reads at most 63 characters of the token.
ReadToken(t) == IF t = "full" THEN "cut" ELSE t

\* A login that does not ask whether the client is logged in already.
LoginAgain(c, n, t) ==
  /\ Step(c, "read", "joined")
  /\ users[n] = ReadToken(t)
  /\ authorized' = [authorized EXCEPT ![at[c]] = TRUE]
  /\ nick' = [nick EXCEPT ![at[c]] = n]
  /\ KeepRest /\ UNCHANGED <<mutex, fd, at, tgt, to, cur>>

Login(c, n, t) ==
  /\ Step(c, "read", "joined") /\ From(c, FALSE)
  /\ users[n] = ReadToken(t)
  /\ authorized' = [authorized EXCEPT ![at[c]] = TRUE]
  /\ nick' = [nick EXCEPT ![at[c]] = n]
  /\ KeepRest /\ UNCHANGED <<mutex, fd, at, tgt, to, cur>>

\* Any other line of a logged-in client is broadcast.
Text(c) ==
  /\ Step(c, "read", "text") /\ From(c, TRUE)
  /\ KeepRest /\ UNCHANGED <<mutex, table, at, tgt, to, cur>>

\* broadcast_message holds the mutex while it writes to every client.
BroadcastLocks(c) ==
  /\ \/ Step(c, "joined", "joinwrite")
     \/ Step(c, "text", "textwrite")
  /\ mutex = None /\ mutex' = c
  /\ KeepRest /\ UNCHANGED <<table, at, tgt, to, cur>>

\* ssl_safe_write retries a full socket for as long as the server runs: a write
\* ends when the client takes the data, and without it once the server stops.
WriteEnds(c) ==
  /\ Alive /\ pc[c] \in {"joinwrite", "textwrite"} /\ cur[c] <= NSlots
  /\ cur' = [cur EXCEPT ![c] = @ + 1]
  /\ KeepRest /\ UNCHANGED <<mutex, table, pc, at, tgt, to>>

BroadcastUnlocks(c) ==
  /\ \/ Step(c, "joinwrite", "add")
     \/ Step(c, "textwrite", "loop")
  /\ cur[c] = NSlots + 1
  /\ cur' = [cur EXCEPT ![c] = 1]
  /\ mutex' = None
  /\ KeepRest /\ UNCHANGED <<table, at, tgt, to>>

\* add_peer_to_network; then the statement of the login is finalised a second
\* time, which may end the process.
AddPeer(c) ==
  /\ Alive /\ pc[c] = "add"
  /\ \/ /\ Step(c, "add", "loop")
        /\ peer_count' = IF peer_count >= NSlots THEN peer_count ELSE peer_count + 1
        /\ UNCHANGED main
     \/ main' = "gone" /\ UNCHANGED <<pc, peer_count>>
  /\ UNCHANGED <<signalled, running, server, monitor, mutex, freed, table, users, at, tgt, to, cur>>

\* find_client_by_nick: the first slot, found under the lock, used after it.
\* /msg writes under the lock again, /send_enc and /p2p_connect without it.
Find(c, n, op) ==
  /\ Step(c, "read", op) /\ From(c, TRUE)
  /\ mutex = None
  /\ \E s \in Online :
       /\ nick[s] = n
       /\ \A r \in Online : nick[r] = n => s <= r
       /\ tgt' = [tgt EXCEPT ![c] = s]
       /\ to' = [to EXCEPT ![c] = n]
  /\ KeepRest /\ UNCHANGED <<mutex, table, at, cur>>

Forget(c) == tgt' = [tgt EXCEPT ![c] = None] /\ to' = [to EXCEPT ![c] = None]

\* send_private_message checks that the slot is still a logged-in client.
PrivateLocks(c) ==
  /\ mutex = None
  /\ IF tgt[c] \in Online
     THEN Step(c, "private", "privwrite") /\ mutex' = c /\ UNCHANGED <<tgt, to>>
     ELSE Step(c, "private", "loop") /\ Forget(c) /\ UNCHANGED mutex
  /\ KeepRest /\ UNCHANGED <<table, at, cur>>

PrivateWriteEnds(c) ==
  /\ Step(c, "privwrite", "loop")
  /\ mutex' = None /\ Forget(c)
  /\ KeepRest /\ UNCHANGED <<table, at, cur>>

\* The reply of encrypt_message_for_user, or the four of establish_p2p_connection.
RawWriteEnds(c) ==
  /\ Step(c, "raw", "loop")
  /\ Forget(c)
  /\ KeepRest /\ UNCHANGED <<mutex, table, at, cur>>

\* The client takes the data.
Delivers(c) == running /\ (WriteEnds(c) \/ PrivateWriteEnds(c) \/ RawWriteEnds(c))

\* A loop that a closed connection ends.
HandlerLeavesOnClose(c) ==
  /\ Step(c, "loop", IF authorized[at[c]] THEN "leave" ELSE "disc")
  /\ KeepRest /\ UNCHANGED <<mutex, table, at, tgt, to, cur>>

\* ssl_safe_write sees that the server stops; one that only looks at the socket
\* gives up never.
GivesUpNever(c) == Delivers(c)
GivesUp(c) == ~running /\ (WriteEnds(c) \/ PrivateWriteEnds(c) \/ RawWriteEnds(c))

\* The loop ends: the server stops, or the slot was closed.
HandlerLeaves(c) ==
  /\ Step(c, "loop", IF authorized[at[c]] THEN "leave" ELSE "disc")
  /\ ~running \/ fd[at[c]] = None
  /\ KeepRest /\ UNCHANGED <<mutex, table, at, tgt, to, cur>>

\* The broadcast of "left the chat" takes the lock and writes nothing: the server
\* no longer runs.
LeaveBroadcast(c) ==
  /\ Step(c, "leave", "disc") /\ mutex = None
  /\ KeepRest /\ UNCHANGED <<mutex, table, at, tgt, to, cur>>

\* The nickname of a client that left stays in its slot.
DisconnectKeepsNick(c) ==
  /\ Step(c, "disc", "ended") /\ mutex = None
  /\ fd' = [fd EXCEPT ![at[c]] = None]
  /\ authorized' = [authorized EXCEPT ![at[c]] = FALSE]
  /\ KeepRest /\ UNCHANGED <<mutex, nick, at, tgt, to, cur>>

\* disconnect_client: an already closed slot is left alone.
Disconnect(c) ==
  /\ Step(c, "disc", "ended")
  /\ \/ fd[at[c]] = None /\ UNCHANGED table
     \/ /\ fd[at[c]] # None /\ mutex = None
        /\ fd' = [fd EXCEPT ![at[c]] = None]
        /\ authorized' = [authorized EXCEPT ![at[c]] = FALSE]
        /\ nick' = [nick EXCEPT ![at[c]] = None]
  /\ KeepRest /\ UNCHANGED <<mutex, at, tgt, to, cur>>

-----------------------------------------------------------------------------
(* The threads together *)

\* The connection has a handler.
Live(c) == pc[c] \notin {"none", "lost", "ended"}

HandlerStep(c) ==
  \/ HandlerStarts(c) \/ LoopTest(c) \/ SelectTimesOut(c) \/ BroadcastLocks(c) \/ BroadcastUnlocks(c)
  \/ AddPeer(c) \/ PrivateLocks(c) \/ GivesUp(c)
  \/ HandlerLeaves(c) \/ LeaveBroadcast(c) \/ Disconnect(c)

Command(c) ==
  \/ DataArrives(c) \/ NothingRead(c)
  \/ \E n \in Nicks : Register(c, n)
  \/ \E n \in Nicks, t \in {"short", "full"} : Login(c, n, t)
  \/ Text(c)
  \/ \E n \in Nicks, op \in {"private", "raw"} : Find(c, n, op)

ServerStep ==
  \/ ServerBoot \/ ServerInitFails \/ ServerInit \/ ServerLeaves \/ ServerRefuses
  \/ (\E c \in Conns : ServerPlaces(c)) \/ CleanupBegins \/ CleanupScans

MonitorStep == MonitorLoops \/ MonitorScans
MainStep == MainStart \/ MainStop \/ MainJoin

Next ==
  \/ MainStep \/ Signal \/ ServerStep \/ EpollFails \/ ServerAccepts \/ MonitorStep
  \/ \E c \in Conns : HandlerStep(c) \/ Command(c) \/ Delivers(c)

Spec == Init /\ [][Next]_vars

\* The threads are scheduled; a client need not take what is written to it, nor
\* send anything, nor end a line it began; signals and new connections promise
\* nothing either.
Fairness ==
  /\ WF_vars(MainStep) /\ WF_vars(ServerStep) /\ WF_vars(MonitorStep)
  /\ \A c \in Conns : WF_vars(HandlerStep(c))

FairSpec == Spec /\ Fairness

-----------------------------------------------------------------------------
(* Properties *)

\* A thread waits for the mutex it holds itself (disconnect_client called by the
\* monitor or by cleanup_resources).
Stuck == server = "stuck" \/ monitor = "stuck"

\* As long as a handler works on its slot, the slot is open and holds the handler's
\* connection: no other thread ever closes a slot, because the two that try
\* (monitor_thread, cleanup_resources) wait for themselves first.
SlotIsHandlers ==
  \A c \in Conns : Live(c) => at[c] \in Slots /\ fd[at[c]] = c

\* While the server runs, the slot that find_client_by_nick returned still belongs
\* to that nickname when the text is written, although the lock was released in
\* between and only the slot is checked again.
LookupStaysTrue ==
  running => \A c \in Conns : to[c] # None => tgt[c] \in Online /\ nick[tgt[c]] = to[c]

\* cleanup_resources frees the client table only when no handler can use it again.
FreedAfterHandlers == freed => \A c \in Conns : ~Live(c)

\* Every login has its one entry of the peer table, or is about to make it; the
\* table, which nothing is ever removed from, cannot overflow while the server runs.
PeerPerLogin ==
  running => peer_count + Cardinality({c \in Conns : pc[c] \in {"joined", "joinwrite", "add"}})
               = Cardinality(Online)

\* The client table as the other threads see it: who has which slot under which name.
Dir == INSTANCE Directory WITH
  Names <- Nicks, Nobody <- None, serving <- running, lease <- fd, name <- nick,
  left <- {c \in Conns : pc[c] = "ended"}

\* The table is a directory: handlers alone give slots back, each its own and once, and
\* disconnect_client is not reached by a client that logged in until the server stops.
ImplementsDirectory == Dir!DirSpec

\* Once the server stops, the handlers end, the writer to a client that does not read
\* and a broadcast in progress included, unless a thread waits for itself.  Only a
\* handler in the middle of a line may stay for ever, also when the line began after
\* the stop: ssl_safe_read looks at neither running nor a clock while it waits for
\* the rest.
HandlersEnd ==
  ~running ~> (Stuck \/ ~Alive \/ \A c \in Conns : Live(c) => pc[c] = "read")

\* MeshServer::stop() returns, unless a thread waits for itself (a client was still
\* connected, or idle), or the stop came before the new thread had set the flag,
\* which start_mesh_server then sets again.
StopReturns == (main = "join" /\ ~running /\ server # "created") ~> (~Alive \/ Stuck)
=============================================================================
