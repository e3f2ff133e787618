-------------------------- MODULE FormerServerProof --------------------------
(***************************************************************************)
(* The former server for any number of slots, connections and nicknames:   *)
(* what its one mutex protects, and what stays true of the client table    *)
(* although most of its readers do not take it.                            *)
(***************************************************************************)
EXTENDS FormerServer, FiniteSetTheorems, TLAPS

-----------------------------------------------------------------------------
(* Types *)

LEMMA TypeInit == Init => TypeOK
<1> SUFFICES ASSUME Init PROVE TypeOK
  OBVIOUS
<1>1. /\ peer_count \in 0..NSlots
      /\ cur \in [Conns -> 1..(NSlots + 1)]
  BY FormerAssumption DEF Init
<1>2. users \in [Nicks -> Tokens]
  BY DEF Init, Tokens
<1> QED BY <1>1, <1>2 DEF Init, TypeOK, ServerSteps, HandlerSteps

LEMMA TypeMain == TypeOK /\ (MainStep \/ Signal) => TypeOK'
BY DEF TypeOK, MainStep, MainStart, MainStop, MainJoin, Signal, table, handlers, ServerSteps

LEMMA TypeServer ==
  ASSUME TypeOK,
         \/ ServerBoot \/ ServerInitFails \/ ServerInit \/ ServerLeaves \/ EpollFails
         \/ ServerAccepts \/ ServerRefuses \/ CleanupBegins \/ CleanupScans
  PROVE  TypeOK'
<1>1. CASE ServerBoot \/ ServerInitFails \/ ServerInit
  BY <1>1 DEF TypeOK, ServerBoot, ServerInitFails, ServerInit, table, handlers, ServerSteps
<1>2. CASE ServerLeaves \/ EpollFails \/ ServerAccepts \/ ServerRefuses \/ CleanupBegins
  BY <1>2 DEF TypeOK, ServerLeaves, EpollFails, ServerAccepts, ServerRefuses, CleanupBegins,
              table, handlers, ServerSteps
<1>3. CASE CleanupScans
  BY <1>3 DEF TypeOK, CleanupScans, table, handlers, ServerSteps
<1> QED BY <1>1, <1>2, <1>3

LEMMA TypePlaces == ASSUME NEW c \in Conns, TypeOK, ServerPlaces(c) PROVE TypeOK'
BY DEF TypeOK, ServerPlaces, ServerSteps, HandlerSteps

LEMMA TypeMonitor == TypeOK /\ MonitorStep => TypeOK'
BY DEF TypeOK, MonitorStep, MonitorLoops, MonitorScans, table, handlers

\* The steps of a handler that change neither the table nor its counters.
LEMMA TypeHandler ==
  ASSUME NEW c \in Conns, TypeOK,
         \/ HandlerStarts(c) \/ LoopTest(c) \/ SelectTimesOut(c) \/ DataArrives(c) \/ NothingRead(c)
         \/ Text(c) \/ BroadcastLocks(c) \/ HandlerLeaves(c) \/ LeaveBroadcast(c)
  PROVE  TypeOK'
<1>1. CASE HandlerStarts(c)
  BY <1>1 DEF TypeOK, HandlerStarts, Step, KeepRest, life, table, HandlerSteps
<1>2. CASE LoopTest(c) \/ SelectTimesOut(c) \/ DataArrives(c) \/ NothingRead(c)
  BY <1>2 DEF TypeOK, LoopTest, SelectTimesOut, DataArrives, NothingRead, Step, KeepRest, life, table,
         HandlerSteps
<1>3. CASE Text(c) \/ HandlerLeaves(c) \/ LeaveBroadcast(c)
  BY <1>3 DEF TypeOK, Text, HandlerLeaves, LeaveBroadcast, Step, KeepRest, life, table, HandlerSteps
<1>4. CASE BroadcastLocks(c)
  BY <1>4 DEF TypeOK, BroadcastLocks, Step, KeepRest, life, table, HandlerSteps
<1> QED BY <1>1, <1>2, <1>3, <1>4

LEMMA TypeCommand == ASSUME NEW c \in Conns, TypeOK, Command(c) PROVE TypeOK'
<1>1. ASSUME NEW n \in Nicks, Register(c, n) PROVE TypeOK'
  BY <1>1 DEF TypeOK, Register, Step, life, table, HandlerSteps, Tokens
<1>2. ASSUME NEW n \in Nicks, NEW t \in {"short", "full"}, Login(c, n, t) PROVE TypeOK'
  BY <1>2 DEF TypeOK, Login, Step, KeepRest, life, HandlerSteps
<1>3. ASSUME NEW n \in Nicks, NEW op \in {"private", "raw"}, Find(c, n, op) PROVE TypeOK'
  BY <1>3 DEF TypeOK, Find, Online, Open, Step, KeepRest, life, table, HandlerSteps
<1> QED BY <1>1, <1>2, <1>3, TypeHandler DEF Command

LEMMA TypeWrites ==
  ASSUME NEW c \in Conns, TypeOK,
         \/ WriteEnds(c) \/ BroadcastUnlocks(c) \/ AddPeer(c) \/ PrivateLocks(c)
         \/ PrivateWriteEnds(c) \/ RawWriteEnds(c)
  PROVE  TypeOK'
<1>1. CASE WriteEnds(c)
  <2>1. cur' \in [Conns -> 1..(NSlots + 1)]
    BY <1>1, FormerAssumption DEF WriteEnds, TypeOK, FormerAssumption
  <2> QED BY <1>1, <2>1 DEF TypeOK, WriteEnds, KeepRest, life, table
<1>2. CASE BroadcastUnlocks(c)
  <2>1. cur' \in [Conns -> 1..(NSlots + 1)]
    BY <1>2, FormerAssumption DEF BroadcastUnlocks, TypeOK, FormerAssumption
  <2> QED BY <1>2, <2>1 DEF TypeOK, BroadcastUnlocks, Step, KeepRest, life, table, HandlerSteps
<1>3. CASE AddPeer(c)
  <2>1. peer_count' \in 0..NSlots
    BY <1>3, FormerAssumption DEF AddPeer, TypeOK, FormerAssumption
  <2> QED BY <1>3, <2>1 DEF TypeOK, AddPeer, Step, table, HandlerSteps
<1>4. CASE PrivateLocks(c) \/ PrivateWriteEnds(c) \/ RawWriteEnds(c)
  BY <1>4 DEF TypeOK, PrivateLocks, PrivateWriteEnds, RawWriteEnds, Forget, Step, KeepRest, life,
         table, HandlerSteps
<1> QED BY <1>1, <1>2, <1>3, <1>4

LEMMA TypeDisconnect == ASSUME NEW c \in Conns, TypeOK, Disconnect(c) PROVE TypeOK'
BY DEF TypeOK, Disconnect, Step, KeepRest, life, table, HandlerSteps

LEMMA TypeNext == TypeOK /\ [Next]_vars => TypeOK'
<1> SUFFICES ASSUME TypeOK, [Next]_vars PROVE TypeOK'
  OBVIOUS
<1>1. CASE UNCHANGED vars
  BY <1>1 DEF TypeOK, vars, life, table, handlers
<1>2. ASSUME NEW c \in Conns, HandlerStep(c) \/ Command(c) \/ Delivers(c) PROVE TypeOK'
  BY <1>2, TypeHandler, TypeCommand, TypeWrites, TypeDisconnect DEF HandlerStep, GivesUp, Delivers
<1> QED BY <1>1, <1>2, TypeMain, TypeServer, TypePlaces, TypeMonitor DEF Next, ServerStep

\* Every variable of the former server keeps its type.
THEOREM TypeCorrect == Spec => []TypeOK
BY TypeInit, TypeNext, PTL DEF Spec

-----------------------------------------------------------------------------
(* The inductive invariant *)

\* Before start_mesh_server is past its initialisation nobody has used the table.
Fresh ==
  main = "init" \/ server \in {"none", "created", "init"} =>
    /\ main = "init" => server = "none"
    /\ monitor = "none" /\ ~freed /\ peer_count = 0
    /\ \A c \in Conns : pc[c] = "none" /\ to[c] = None

\* An open slot belongs to the handler of its connection, or to a connection whose
\* handler could not be created.
Holds(c) == Live(c) \/ pc[c] = "lost"
Owned == \A s \in Open : Holds(fd[s]) /\ at[fd[s]] = s

\* The mutex is held by a handler exactly while it writes under it, and by the server
\* thread or the monitor only when they wait for themselves.
LockHeld ==
  /\ \A c \in Conns : mutex = c <=> pc[c] \in {"joinwrite", "textwrite", "privwrite"}
  /\ mutex = "server" <=> server = "stuck"
  /\ mutex = "monitor" <=> monitor = "stuck"

\* While the server runs nobody leaves who has logged in.
NobodyLeaves ==
  running => \A c \in Conns : /\ pc[c] # "leave"
                              /\ pc[c] \in {"new", "disc"} => ~authorized[at[c]]

\* The table is freed on the way out of start_mesh_server.
FreedLast == freed => server = "exited"

IInv == TypeOK /\ Fresh /\ SlotIsHandlers /\ Owned /\ LockHeld /\ NobodyLeaves /\ FreedLast

LEMMA InvInit == Init => IInv
<1> SUFFICES ASSUME Init PROVE IInv
  OBVIOUS
<1>1. TypeOK
  BY TypeInit
<1>2. Fresh /\ SlotIsHandlers /\ Owned /\ NobodyLeaves /\ FreedLast
  BY DEF Init, Fresh, SlotIsHandlers, Owned, Holds, NobodyLeaves, FreedLast, Live, Open
<1>3. LockHeld
  BY FormerAssumption DEF Init, LockHeld, FormerAssumption
<1> QED BY <1>1, <1>2, <1>3 DEF IInv

\* Steps of the other threads: the table, the handlers and the lock stay as they are.
LEMMA InvMain == IInv /\ (MainStep \/ Signal) => IInv'
<1> SUFFICES ASSUME IInv, MainStep \/ Signal PROVE IInv'
  OBVIOUS
<1>1. TypeOK'
  BY TypeMain DEF IInv
<1>2. UNCHANGED <<mutex, freed, table, users, peer_count, handlers, monitor>>
  BY DEF MainStep, MainStart, MainStop, MainJoin, Signal
<1>3. SlotIsHandlers' /\ Owned'
  BY <1>2 DEF IInv, SlotIsHandlers, Owned, Holds, Live, Open, table, handlers
<1>4. Fresh' /\ FreedLast'
  BY <1>2 DEF IInv, Fresh, FreedLast, MainStep, MainStart, MainStop, MainJoin, Signal, handlers
<1>5. LockHeld'
  <2>1. server' = server \/ (server' = "created" /\ server # "stuck")
    BY DEF IInv, Fresh, MainStep, MainStart, MainStop, MainJoin, Signal
  <2> QED BY <1>2, <2>1 DEF IInv, LockHeld, handlers
<1>6. NobodyLeaves'
  BY <1>2 DEF IInv, NobodyLeaves, MainStep, MainStart, MainStop, MainJoin, Signal, table, handlers
<1> QED BY <1>1, <1>3, <1>4, <1>5, <1>6 DEF IInv

LEMMA InvServer ==
  ASSUME IInv,
         \/ ServerBoot \/ ServerInitFails \/ ServerInit \/ ServerLeaves \/ EpollFails
         \/ ServerAccepts \/ ServerRefuses \/ CleanupBegins
  PROVE  IInv'
<1> USE DEF ServerBoot, ServerInitFails, ServerInit, ServerLeaves, EpollFails, ServerAccepts,
            ServerRefuses, CleanupBegins
<1>1. TypeOK'
  BY TypeServer DEF IInv
<1>2. UNCHANGED <<mutex, freed, table, users, peer_count, handlers>>
  OBVIOUS
<1>3. SlotIsHandlers' /\ Owned'
  BY <1>2 DEF IInv, SlotIsHandlers, Owned, Holds, Live, Open, table, handlers
<1>4. Fresh' /\ FreedLast'
  BY <1>2 DEF IInv, Fresh, FreedLast, handlers
<1>5. LockHeld'
  <2>1. server # "stuck" /\ server' # "stuck"
    OBVIOUS
  <2>2. monitor' = "stuck" <=> monitor = "stuck"
    BY DEF IInv, Fresh
  <2> QED BY <1>2, <2>1, <2>2 DEF IInv, LockHeld, handlers
<1>6. NobodyLeaves'
  <2>1. running' => running \/ server = "created"
    OBVIOUS
  <2>2. server = "created" => \A c \in Conns : pc[c] = "none"
    BY DEF IInv, Fresh
  <2> QED BY <1>2, <2>1, <2>2 DEF IInv, NobodyLeaves, table, handlers
<1> QED BY <1>1, <1>3, <1>4, <1>5, <1>6 DEF IInv

\* A slot that is still open is some handler's, which then lives: with none open
\* every handler has ended, and the table may be freed.
LEMMA InvCleanup == IInv /\ CleanupScans => IInv'
<1> SUFFICES ASSUME IInv, CleanupScans PROVE IInv'
  OBVIOUS
<1>1. TypeOK'
  BY TypeServer DEF IInv
<1>2. UNCHANGED <<main, running, monitor, table, users, peer_count, handlers>>
  BY DEF CleanupScans
<1>3. SlotIsHandlers' /\ Owned'
  BY <1>2 DEF IInv, SlotIsHandlers, Owned, Holds, Live, Open, table, handlers
<1>4. Fresh' /\ FreedLast'
  BY <1>2 DEF IInv, Fresh, FreedLast, CleanupScans, handlers
<1>5. LockHeld'
  BY <1>2, FormerAssumption DEF IInv, LockHeld, CleanupScans, handlers, FormerAssumption
<1>6. NobodyLeaves'
  BY <1>2 DEF IInv, NobodyLeaves, table, handlers
<1> QED BY <1>1, <1>3, <1>4, <1>5, <1>6 DEF IInv

LEMMA InvMonitor == IInv /\ MonitorStep => IInv'
<1> SUFFICES ASSUME IInv, MonitorStep PROVE IInv'
  OBVIOUS
<1>1. TypeOK'
  BY TypeMonitor DEF IInv
<1>2. UNCHANGED <<running, server, freed, table, users, peer_count, handlers>>
  BY DEF MonitorStep, MonitorLoops, MonitorScans
<1>3. SlotIsHandlers' /\ Owned'
  BY <1>2 DEF IInv, SlotIsHandlers, Owned, Holds, Live, Open, table, handlers
<1>4. Fresh' /\ FreedLast' /\ NobodyLeaves'
  BY <1>2 DEF IInv, Fresh, FreedLast, NobodyLeaves, MonitorStep, MonitorLoops, MonitorScans, table,
         handlers
<1>5. LockHeld'
  BY <1>2, FormerAssumption DEF IInv, LockHeld, MonitorStep, MonitorLoops, MonitorScans, handlers,
         FormerAssumption
<1> QED BY <1>1, <1>3, <1>4, <1>5 DEF IInv

\* The new connection's slot was free, so it is no other handler's.
LEMMA InvPlaces == ASSUME NEW c \in Conns, IInv, ServerPlaces(c) PROVE IInv'
<1>1. TypeOK'
  BY TypePlaces DEF IInv
<1>2. PICK s \in Slots \ Open :
        /\ fd' = [fd EXCEPT ![s] = c]
        /\ authorized' = [authorized EXCEPT ![s] = FALSE]
        /\ at' = [at EXCEPT ![c] = s]
  BY DEF ServerPlaces
<1>3. PICK next \in {"new", "lost"} : pc[c] = "none" /\ pc' = [pc EXCEPT ![c] = next]
  BY DEF ServerPlaces
<1>4. /\ fd'[s] = c /\ ~authorized'[s] /\ at'[c] = s /\ pc'[c] \in {"new", "lost"}
      /\ \A r \in Slots \ {s} : fd'[r] = fd[r] /\ authorized'[r] = authorized[r]
      /\ \A d \in Conns \ {c} : at'[d] = at[d] /\ pc'[d] = pc[d]
  BY <1>2, <1>3 DEF IInv, TypeOK
<1>5. \A d \in Conns : Live(d) => d # c /\ at[d] \in Slots \ {s} /\ fd[at[d]] = d
  BY <1>2, <1>3, FormerAssumption DEF IInv, SlotIsHandlers, Live, Open, FormerAssumption
<1>6. SlotIsHandlers'
  BY <1>2, <1>4, <1>5 DEF SlotIsHandlers, Live
<1>7. Owned'
  <2> SUFFICES ASSUME NEW r \in Open' PROVE (Holds(fd[r]) /\ at[fd[r]] = r)'
    BY DEF Owned
  <2>1. CASE r = s
    BY <2>1, <1>4 DEF Holds, Live
  <2>2. CASE r # s
    <3>1. r \in Slots /\ fd'[r] = fd[r] /\ fd[r] # None
      BY <2>2, <1>4 DEF Open
    <3>2. fd[r] \in Conns /\ Holds(fd[r]) /\ at[fd[r]] = r
      BY <3>1 DEF IInv, Owned, Holds, Open, TypeOK
    <3>3. fd[r] # c
      BY <3>2, <1>3 DEF Holds, Live
    <3> QED BY <3>1, <3>2, <3>3, <1>4 DEF Holds, Live
  <2> QED BY <2>1, <2>2
<1>8. Fresh' /\ FreedLast'
  BY DEF IInv, Fresh, FreedLast, ServerPlaces
<1>9. LockHeld'
  BY <1>3, <1>4 DEF IInv, LockHeld, ServerPlaces
<1>10. NobodyLeaves'
  <2> SUFFICES ASSUME running', NEW d \in Conns
               PROVE  pc'[d] # "leave" /\ (pc'[d] \in {"new", "disc"} => ~authorized'[at'[d]])
    BY DEF NobodyLeaves
  <2>1. running
    BY DEF ServerPlaces
  <2>2. CASE d = c
    BY <2>2, <1>4
  <2>3. CASE d # c
    BY <2>1, <2>3, <1>4, <1>5 DEF IInv, NobodyLeaves, Live
  <2> QED BY <2>2, <2>3
<1> QED BY <1>1, <1>6, <1>7, <1>8, <1>9, <1>10 DEF IInv

-----------------------------------------------------------------------------
(* The steps of a handler *)

\* The steps at which broadcast_message and send_private_message hold the mutex.
Writing == {"joinwrite", "textwrite", "privwrite"}

\* A step of a handler that goes on with its loop leaves its slot to it.
LEMMA StaysOnSlot ==
  ASSUME NEW c \in Conns, NEW next, IInv, Live(c), next \notin {"none", "lost", "ended"},
         pc' = [pc EXCEPT ![c] = next], main' = main \/ main' = "gone",
         UNCHANGED <<server, freed, fd, at>>
  PROVE  SlotIsHandlers' /\ Owned' /\ Fresh' /\ FreedLast'
<1>1. \A d \in Conns : (Live(d)' <=> Live(d)) /\ (pc[d] = "lost" => pc'[d] = "lost")
  BY DEF IInv, TypeOK, Live
<1>2. SlotIsHandlers'
  BY <1>1 DEF IInv, SlotIsHandlers
<1>3. Owned'
  <2>1. \A s \in Open : fd[s] \in Conns
    BY DEF IInv, TypeOK, Open
  <2> QED BY <1>1, <2>1 DEF IInv, Owned, Holds, Open
<1>4. Fresh' /\ FreedLast'
  BY DEF IInv, Fresh, FreedLast, Live
<1> QED BY <1>2, <1>3, <1>4

\* A step that neither takes nor releases the mutex.
LEMMA LockKept ==
  ASSUME NEW c \in Conns, NEW next, IInv, pc[c] \in Writing <=> next \in Writing,
         pc' = [pc EXCEPT ![c] = next], UNCHANGED <<mutex, server, monitor>>
  PROVE  LockHeld'
BY DEF IInv, TypeOK, LockHeld, Writing

LEMMA LockTaken ==
  ASSUME NEW c \in Conns, NEW next \in Writing, IInv, mutex = None, mutex' = c,
         pc' = [pc EXCEPT ![c] = next], UNCHANGED <<server, monitor>>
  PROVE  LockHeld'
<1>1. \A d \in Conns : pc[d] \notin Writing
  BY FormerAssumption DEF IInv, LockHeld, Writing, FormerAssumption
<1>2. server # "stuck" /\ monitor # "stuck"
  BY FormerAssumption DEF IInv, LockHeld, FormerAssumption
<1>3. c # "server" /\ c # "monitor"
  BY FormerAssumption DEF FormerAssumption
<1> QED BY <1>1, <1>2, <1>3 DEF IInv, TypeOK, LockHeld, Writing

LEMMA LockReleased ==
  ASSUME NEW c \in Conns, NEW next, next \notin Writing, IInv, pc[c] \in Writing, mutex' = None,
         pc' = [pc EXCEPT ![c] = next], UNCHANGED <<server, monitor>>
  PROVE  LockHeld'
<1>1. mutex = c
  BY DEF IInv, LockHeld, Writing
<1>2. \A d \in Conns \ {c} : pc[d] \notin Writing
  BY <1>1 DEF IInv, LockHeld, Writing
<1>3. server # "stuck" /\ monitor # "stuck"
  BY <1>1, FormerAssumption DEF IInv, LockHeld, FormerAssumption
<1> QED BY <1>2, <1>3, FormerAssumption DEF IInv, TypeOK, LockHeld, Writing, FormerAssumption

\* A step that does not lead out of the loop, and closes or opens no slot.
LEMMA LeavesNobody ==
  ASSUME NEW c \in Conns, NEW next, IInv, next \notin {"new", "disc", "leave"},
         pc' = [pc EXCEPT ![c] = next], UNCHANGED <<running, authorized, at>>
  PROVE  NobodyLeaves'
BY DEF IInv, TypeOK, NobodyLeaves

\* The steps of a handler that change its place in the code only.
LEMMA InvHandler ==
  ASSUME NEW c \in Conns, IInv,
         \/ HandlerStarts(c) \/ LoopTest(c) \/ SelectTimesOut(c) \/ DataArrives(c) \/ NothingRead(c)
         \/ Text(c) \/ HandlerLeaves(c)
         \/ LeaveBroadcast(c)
  PROVE  IInv'
<1>1. TypeOK'
  BY TypeHandler DEF IInv
<1>2. UNCHANGED <<life, freed, mutex, table, at, tgt, to, cur>>
  BY DEF HandlerStarts, LoopTest, SelectTimesOut, DataArrives, NothingRead, Text, HandlerLeaves,
         LeaveBroadcast, KeepRest
<1>3. PICK next \in {"loop", "select", "read", "text", "leave", "disc"} :
        /\ pc' = [pc EXCEPT ![c] = next]
        /\ pc[c] \in {"new", "loop", "select", "read", "leave"}
        /\ \/ next \in {"loop", "select", "read", "text"}
           \/ running => pc[c] = "new" /\ next = "disc"
  <2>1. running /\ pc[c] = "loop" => ~HandlerLeaves(c)
    BY FormerAssumption DEF HandlerLeaves, IInv, SlotIsHandlers, Live, FormerAssumption
  <2>2. running => ~LeaveBroadcast(c)
    BY DEF LeaveBroadcast, Step, IInv, NobodyLeaves
  <2> QED BY <2>1, <2>2 DEF HandlerStarts, LoopTest, SelectTimesOut, DataArrives, NothingRead, Text,
         HandlerLeaves, LeaveBroadcast, Step
<1>4. SlotIsHandlers' /\ Owned' /\ Fresh' /\ FreedLast'
  BY <1>2, <1>3, StaysOnSlot DEF Live, life, table
<1>5. LockHeld'
  BY <1>2, <1>3, LockKept DEF life, Writing
<1>6. NobodyLeaves'
  BY <1>2, <1>3 DEF IInv, TypeOK, NobodyLeaves, life, table
<1> QED BY <1>1, <1>4, <1>5, <1>6 DEF IInv

\* The steps of a handler inside its loop that touch neither its slot nor a login.
LEMMA InvLoop ==
  ASSUME NEW c \in Conns, IInv,
         \/ \E n \in Nicks : Register(c, n)
         \/ \E n \in Nicks, op \in {"private", "raw"} : Find(c, n, op)
         \/ BroadcastLocks(c) \/ BroadcastUnlocks(c) \/ PrivateLocks(c)
         \/ PrivateWriteEnds(c) \/ RawWriteEnds(c)
  PROVE  IInv'
<1>1. TypeOK'
  BY TypeHandler, TypeCommand, TypeWrites DEF IInv, Command
<1>2. UNCHANGED <<life, freed, table, at>>
  BY DEF Register, Find, BroadcastLocks, BroadcastUnlocks, PrivateLocks, PrivateWriteEnds, RawWriteEnds,
         KeepRest
<1>3. PICK next \in {"loop", "joinwrite", "add", "textwrite", "private", "privwrite", "raw"} :
        /\ pc' = [pc EXCEPT ![c] = next]
        /\ pc[c] \in {"read", "joined", "text", "joinwrite", "textwrite", "private", "privwrite", "raw"}
        /\ \/ UNCHANGED mutex /\ pc[c] \notin Writing /\ next \notin Writing
           \/ mutex = None /\ mutex' = c /\ next \in Writing
           \/ mutex' = None /\ pc[c] \in Writing /\ next \notin Writing
  BY DEF Register, Find, BroadcastLocks, BroadcastUnlocks, PrivateLocks, PrivateWriteEnds, RawWriteEnds,
         Step, Writing
<1>4. SlotIsHandlers' /\ Owned' /\ Fresh' /\ FreedLast'
  BY <1>2, <1>3, StaysOnSlot DEF Live, life, table
<1>5. LockHeld'
  BY <1>2, <1>3, LockKept, LockTaken, LockReleased DEF life
<1>6. NobodyLeaves'
  BY <1>2, <1>3, LeavesNobody DEF life, table
<1> QED BY <1>1, <1>4, <1>5, <1>6 DEF IInv

\* The slot of a login is its own handler's, so no other handler's client logs in.
LEMMA InvLogin ==
  ASSUME NEW c \in Conns, NEW n \in Nicks, NEW t \in {"short", "full"}, IInv, Login(c, n, t)
  PROVE  IInv'
<1>1. TypeOK'
  BY TypeCommand DEF IInv, Command
<1>2. /\ UNCHANGED <<life, freed, mutex, fd, at>>
      /\ pc[c] = "read" /\ pc' = [pc EXCEPT ![c] = "joined"]
      /\ authorized' = [authorized EXCEPT ![at[c]] = TRUE]
  BY DEF Login, Step, KeepRest
<1>3. SlotIsHandlers' /\ Owned' /\ Fresh' /\ FreedLast'
  BY <1>2, StaysOnSlot DEF Live, life
<1>4. LockHeld'
  BY <1>2, LockKept DEF life, Writing
<1>5. NobodyLeaves'
  <2> SUFFICES ASSUME running', NEW d \in Conns
               PROVE  pc'[d] # "leave" /\ (pc'[d] \in {"new", "disc"} => ~authorized'[at'[d]])
    BY DEF NobodyLeaves
  <2>1. CASE d = c
    BY <2>1, <1>2 DEF IInv, TypeOK
  <2>2. CASE d # c
    <3>1. pc'[d] = pc[d]
      BY <1>2, <2>2 DEF IInv, TypeOK
    <3>2. pc[d] \in {"new", "disc"} => at[d] # at[c] /\ at[d] \in Slots
      BY <1>2, <2>2 DEF IInv, SlotIsHandlers, Live
    <3> QED BY <1>2, <3>1, <3>2 DEF IInv, TypeOK, NobodyLeaves, life
  <2> QED BY <2>1, <2>2
<1> QED BY <1>1, <1>3, <1>4, <1>5 DEF IInv

LEMMA InvWrite == ASSUME NEW c \in Conns, IInv, WriteEnds(c) PROVE IInv'
<1>1. TypeOK'
  BY TypeWrites DEF IInv
<1> QED BY <1>1 DEF IInv, WriteEnds, KeepRest, life, table, Fresh, SlotIsHandlers, Owned, Holds, LockHeld,
                    NobodyLeaves, FreedLast, Live, Open

LEMMA InvAddPeer == ASSUME NEW c \in Conns, IInv, AddPeer(c) PROVE IInv'
<1>1. TypeOK'
  BY TypeWrites DEF IInv
<1>2. PICK next \in {"add", "loop"} :
        /\ pc' = [pc EXCEPT ![c] = next] /\ pc[c] = "add"
        /\ main' = main \/ main' = "gone"
  BY DEF AddPeer, Step, IInv, TypeOK
<1>3. UNCHANGED <<running, server, monitor, mutex, freed, table, at>>
  BY DEF AddPeer
<1>4. SlotIsHandlers' /\ Owned' /\ Fresh' /\ FreedLast'
  BY <1>2, <1>3, StaysOnSlot DEF Live, table
<1>5. LockHeld' /\ NobodyLeaves'
  BY <1>2, <1>3, LockKept, LeavesNobody DEF Writing, table
<1> QED BY <1>1, <1>4, <1>5 DEF IInv

\* The handler that closes a slot is the only one that works on it.
LEMMA InvDisconnect == ASSUME NEW c \in Conns, IInv, Disconnect(c) PROVE IInv'
<1>1. TypeOK'
  BY TypeDisconnect DEF IInv
<1>2. UNCHANGED <<life, freed, mutex, at>> /\ pc[c] = "disc" /\ pc' = [pc EXCEPT ![c] = "ended"]
  BY DEF Disconnect, Step, KeepRest
<1>3. at[c] \in Slots /\ fd[at[c]] = c /\ c # None
  BY <1>2, FormerAssumption DEF IInv, SlotIsHandlers, Live, FormerAssumption
<1>4. fd' = [fd EXCEPT ![at[c]] = None] /\ authorized' = [authorized EXCEPT ![at[c]] = FALSE]
  BY <1>3 DEF Disconnect
<1>5. \A d \in Conns : Live(d)' <=> Live(d) /\ d # c
  BY <1>2 DEF IInv, TypeOK, Live
<1>6. \A d \in Conns : Live(d) /\ d # c => at[d] \in Slots \ {at[c]} /\ fd[at[d]] = d
  BY <1>3 DEF IInv, SlotIsHandlers
<1>7. SlotIsHandlers'
  BY <1>2, <1>4, <1>5, <1>6 DEF IInv, TypeOK, SlotIsHandlers
<1>8. Owned'
  <2> SUFFICES ASSUME NEW r \in Open' PROVE (Holds(fd[r]) /\ at[fd[r]] = r)'
    BY DEF Owned
  <2>1. r \in Open /\ r # at[c] /\ fd'[r] = fd[r]
    BY <1>3, <1>4 DEF IInv, TypeOK, Open
  <2>2. fd[r] \in Conns /\ Holds(fd[r]) /\ at[fd[r]] = r
    BY <2>1 DEF IInv, TypeOK, Owned, Holds, Open
  <2>3. fd[r] # c
    BY <2>1, <2>2
  <2>4. pc'[fd[r]] = pc[fd[r]]
    BY <1>2, <2>2, <2>3 DEF IInv, TypeOK
  <2> QED BY <1>2, <2>1, <2>2, <2>4 DEF Holds, Live
<1>9. Fresh' /\ FreedLast'
  BY <1>2 DEF IInv, Fresh, FreedLast, life
<1>10. LockHeld'
  BY <1>2, LockKept DEF life, Writing
<1>11. NobodyLeaves'
  BY <1>2, <1>4, <1>6 DEF IInv, TypeOK, NobodyLeaves, life, Live
<1> QED BY <1>1, <1>7, <1>8, <1>9, <1>10, <1>11 DEF IInv

LEMMA InvNext == IInv /\ [Next]_vars => IInv'
<1> SUFFICES ASSUME IInv, [Next]_vars PROVE IInv'
  OBVIOUS
<1>1. CASE UNCHANGED vars
  <2>1. TypeOK'
    BY TypeNext DEF IInv
  <2> QED BY <1>1, <2>1 DEF IInv, vars, life, table, handlers, Fresh, SlotIsHandlers, Owned, Holds,
         LockHeld,
                            NobodyLeaves, FreedLast, Live, Open
<1>2. ASSUME NEW c \in Conns, HandlerStep(c) PROVE IInv'
  BY <1>2, InvHandler, InvLoop, InvAddPeer, InvWrite, InvDisconnect DEF HandlerStep, GivesUp
<1>3. ASSUME NEW c \in Conns, Command(c) PROVE IInv'
  BY <1>3, InvHandler, InvLoop, InvLogin DEF Command
<1>4. ASSUME NEW c \in Conns, Delivers(c) PROVE IInv'
  BY <1>4, InvLoop, InvWrite DEF Delivers
<1> QED BY <1>1, <1>2, <1>3, <1>4, InvMain, InvServer, InvPlaces, InvCleanup, InvMonitor DEF Next,
       ServerStep

LEMMA InvHolds == Spec => []IInv
BY InvInit, InvNext, PTL DEF Spec

-----------------------------------------------------------------------------
(* What follows for the client table *)

\* Every handler works on a slot that holds its own connection: monitor_thread and
\* cleanup_resources, which would close it, wait for themselves first.
THEOREM SlotIsHandlersHolds == Spec => []SlotIsHandlers
<1>1. IInv => SlotIsHandlers
  BY DEF IInv
<1> QED BY <1>1, InvHolds, PTL

\* The table is freed when the last slot is closed, hence after the last handler; and
\* no handler is created later, because the server thread that would do it has exited.
THEOREM FreedAfterHandlersHolds == Spec => []FreedAfterHandlers
<1>1. Init => FreedAfterHandlers
  BY DEF Init, FreedAfterHandlers
<1>2. IInv /\ FreedAfterHandlers /\ [Next]_vars => FreedAfterHandlers'
  <2> SUFFICES ASSUME IInv, FreedAfterHandlers, [Next]_vars, freed', NEW d \in Conns
               PROVE  ~Live(d)'
    BY DEF FreedAfterHandlers
  <2>1. CASE freed
    <3>1. \A c \in Conns : ~Live(c)
      BY <2>1 DEF FreedAfterHandlers
    <3>2. server = "exited"
      BY <2>1 DEF IInv, FreedLast
    <3>3. ASSUME NEW c \in Conns, HandlerStep(c) \/ Command(c) \/ Delivers(c) PROVE FALSE
      BY <3>1, <3>3 DEF Live, HandlerStep, Command, Delivers, GivesUp, HandlerStarts, BroadcastLocks,
           BroadcastUnlocks, AddPeer, PrivateLocks, HandlerLeaves, LeaveBroadcast, Disconnect, WriteEnds,
           PrivateWriteEnds, RawWriteEnds, LoopTest, SelectTimesOut, DataArrives, NothingRead,
           Register, Login, Text, Find, Step
    <3>4. UNCHANGED pc
      BY <3>2, <3>3 DEF Next, MainStep, MainStart, MainStop, MainJoin, Signal, ServerStep, ServerBoot,
           ServerInitFails, ServerInit, ServerLeaves, ServerRefuses, ServerPlaces, CleanupBegins,
           CleanupScans, EpollFails, ServerAccepts, MonitorStep, MonitorLoops, MonitorScans, vars,
           handlers
    <3> QED BY <3>1, <3>4 DEF Live
  <2>2. CASE ~freed
    <3>1. CleanupScans /\ Open = {}
      <4>1. ASSUME NEW c \in Conns, HandlerStep(c) \/ Command(c) \/ Delivers(c) PROVE UNCHANGED freed
        BY <4>1 DEF HandlerStep, Command, Delivers, GivesUp, HandlerStarts, BroadcastLocks,
             BroadcastUnlocks, AddPeer, PrivateLocks, HandlerLeaves, LeaveBroadcast, Disconnect,
             WriteEnds,
             PrivateWriteEnds, RawWriteEnds, LoopTest, SelectTimesOut, DataArrives, NothingRead,
             Register, Login, Text, Find, KeepRest
      <4> QED BY <2>2, <4>1 DEF Next, MainStep, MainStart, MainStop, MainJoin, Signal, ServerStep,
             ServerBoot,
             ServerInitFails, ServerInit, ServerLeaves, ServerRefuses, ServerPlaces, CleanupBegins,
             CleanupScans, EpollFails, ServerAccepts, MonitorStep, MonitorLoops, MonitorScans, vars
    <3>2. ~Live(d)
      BY <3>1, FormerAssumption DEF IInv, SlotIsHandlers, Open, FormerAssumption
    <3> QED BY <3>1, <3>2 DEF CleanupScans, handlers, Live
  <2> QED BY <2>1, <2>2
<1> QED BY <1>1, <1>2, InvHolds, PTL DEF Spec

\* While the server runs, a client that is logged in stays so under its nickname:
\* it is enough that the step keeps the slots in use and makes no new lookup.
LEMMA LookupKept ==
  ASSUME IInv, LookupStaysTrue, running' => running,
         \A s \in Online : s \in Online' /\ nick'[s] = nick[s],
         \A c \in Conns : to'[c] # None => to'[c] = to[c] /\ tgt'[c] = tgt[c]
  PROVE  LookupStaysTrue'
BY DEF LookupStaysTrue

LEMMA LookupNext == IInv /\ LookupStaysTrue /\ [Next]_vars => LookupStaysTrue'
<1> SUFFICES ASSUME IInv, LookupStaysTrue, [Next]_vars PROVE LookupStaysTrue'
  OBVIOUS
<1>1. ASSUME UNCHANGED <<table, tgt, to>>, running' => running PROVE LookupStaysTrue'
  BY <1>1, LookupKept DEF Online, Open, table
<1>2. CASE MainStep \/ Signal \/ EpollFails \/ ServerAccepts \/ MonitorStep \/ UNCHANGED vars
  BY <1>1, <1>2 DEF MainStep, MainStart, MainStop, MainJoin, Signal, EpollFails, ServerAccepts,
         MonitorStep,
       MonitorLoops, MonitorScans, handlers, vars, life
<1>3. CASE ServerInitFails \/ ServerInit \/ ServerLeaves \/ ServerRefuses \/ CleanupBegins \/ CleanupScans
  BY <1>1, <1>3 DEF ServerInitFails, ServerInit, ServerLeaves, ServerRefuses, CleanupBegins, CleanupScans,
       handlers
<1>4. CASE ServerBoot
  BY <1>4 DEF ServerBoot, IInv, Fresh, LookupStaysTrue, handlers
<1>5. ASSUME NEW c \in Conns, ServerPlaces(c) PROVE LookupStaysTrue'
  <2>1. PICK s \in Slots \ Open :
          /\ fd' = [fd EXCEPT ![s] = c]
          /\ authorized' = [authorized EXCEPT ![s] = FALSE]
          /\ nick' = [nick EXCEPT ![s] = None]
    BY <1>5 DEF ServerPlaces
  <2>2. \A r \in Online : r \in Online' /\ nick'[r] = nick[r]
    BY <2>1 DEF IInv, TypeOK, Online, Open
  <2> QED BY <1>5, <2>2, LookupKept DEF ServerPlaces
<1>6. ASSUME NEW c \in Conns,
             \/ HandlerStarts(c) \/ BroadcastLocks(c) \/ BroadcastUnlocks(c) \/ AddPeer(c)
             \/ HandlerLeaves(c)
             \/ LeaveBroadcast(c) \/ WriteEnds(c) \/ LoopTest(c) \/ SelectTimesOut(c)
             \/ DataArrives(c) \/ NothingRead(c) \/ Text(c) \/ \E n \in Nicks : Register(c, n)
      PROVE  LookupStaysTrue'
  BY <1>1, <1>6 DEF HandlerStarts, BroadcastLocks, BroadcastUnlocks, AddPeer, HandlerLeaves,
         LeaveBroadcast,
       WriteEnds, LoopTest, SelectTimesOut, DataArrives, NothingRead, Text, Register, KeepRest, life
<1>7. ASSUME NEW c \in Conns, PrivateLocks(c) \/ PrivateWriteEnds(c) \/ RawWriteEnds(c)
      PROVE  LookupStaysTrue'
  <2>1. UNCHANGED <<table, running>> /\ (Forget(c) \/ UNCHANGED <<tgt, to>>)
    BY <1>7 DEF PrivateLocks, PrivateWriteEnds, RawWriteEnds, KeepRest, life
  <2>2. \A d \in Conns : to'[d] # None => to'[d] = to[d] /\ tgt'[d] = tgt[d]
    BY <2>1 DEF Forget, IInv, TypeOK
  <2> QED BY <2>1, <2>2, LookupKept DEF Online, Open, table
<1>8. ASSUME NEW c \in Conns, NEW n \in Nicks, NEW t \in {"short", "full"}, Login(c, n, t)
      PROVE  LookupStaysTrue'
  <2>1. at[c] \notin Online
    BY <1>8 DEF Login, From, Online
  <2>2. \A r \in Online : r \in Online' /\ nick'[r] = nick[r]
    BY <1>8, <2>1 DEF Login, IInv, TypeOK, Online, Open
  <2> QED BY <1>8, <2>2, LookupKept DEF Login, KeepRest, life
<1>9. ASSUME NEW c \in Conns, NEW n \in Nicks, NEW op \in {"private", "raw"}, Find(c, n, op)
      PROVE  LookupStaysTrue'
  <2>1. PICK s \in Online : nick[s] = n /\ tgt' = [tgt EXCEPT ![c] = s] /\ to' = [to EXCEPT ![c] = n]
    BY <1>9 DEF Find
  <2>2. UNCHANGED <<table, running>>
    BY <1>9 DEF Find, KeepRest, life
  <2> QED BY <2>1, <2>2 DEF LookupStaysTrue, IInv, TypeOK, Online, Open, table
<1>10. ASSUME NEW c \in Conns, Disconnect(c) PROVE LookupStaysTrue'
  <2>1. UNCHANGED <<running, tgt, to>> /\ pc[c] = "disc"
    BY <1>10 DEF Disconnect, Step, KeepRest, life
  <2>2. CASE running
    <3>1. at[c] \notin Online
      BY <2>1, <2>2 DEF IInv, NobodyLeaves, Online
    <3>2. \A r \in Online : r \in Online' /\ nick'[r] = nick[r]
      BY <1>10, <3>1 DEF Disconnect, IInv, TypeOK, Online, Open, table
    <3> QED BY <2>1, <3>2, LookupKept
  <2>3. CASE ~running
    BY <2>1, <2>3 DEF LookupStaysTrue
  <2> QED BY <2>2, <2>3
<1> QED BY <1>2, <1>3, <1>4, <1>5, <1>6, <1>7, <1>8, <1>9, <1>10
        DEF Next, ServerStep, HandlerStep, Command, Delivers, GivesUp

\* find_client_by_nick returns a bare slot, which is used after the lock was released:
\* as long as the server runs it still is the slot of that nickname, because no client
\* that has logged in leaves before the server stops.
THEOREM LookupStaysTrueHolds == Spec => []LookupStaysTrue
<1>1. Init => LookupStaysTrue
  BY DEF Init, LookupStaysTrue
<1> QED BY <1>1, InvHolds, LookupNext, PTL DEF Spec

-----------------------------------------------------------------------------
(* The peer table *)

\* The logins that have not yet called add_peer_to_network.
Joining == {c \in Conns : pc[c] \in {"joined", "joinwrite", "add"}}

\* There are no more logins than slots, and no more handlers on the way than slots.
LEMMA PeersFinite ==
  ASSUME IInv
  PROVE  /\ IsFiniteSet(Online) /\ Cardinality(Online) \in Nat /\ Cardinality(Online) <= NSlots
         /\ IsFiniteSet(Joining) /\ Cardinality(Joining) \in Nat
<1>1. IsFiniteSet(Slots) /\ Cardinality(Slots) = NSlots
  BY FormerAssumption, FS_Interval DEF Slots, FormerAssumption
<1>2. Online \in SUBSET Slots
  BY DEF Online, Open
<1>3. IsFiniteSet(Online) /\ Cardinality(Online) <= NSlots
  BY <1>1, <1>2, FS_Subset
<1>4. IsFiniteSet(Joining)
  <2> DEFINE place == [c \in Joining |-> at[c]]
  <2>1. \A c \in Joining : at[c] \in Slots /\ fd[at[c]] = c
    BY DEF Joining, IInv, SlotIsHandlers, Live
  <2>2. \A c, d \in Joining : place[c] = place[d] => c = d
    BY <2>1
  <2>3. place \in [Joining -> Slots]
    BY <2>1
  <2>4. place \in Injection(Joining, Slots)
    BY <2>2, <2>3 DEF Injection, IsInjective
  <2> QED BY <1>1, <2>4, FS_Injection
<1> QED BY <1>3, <1>4, FS_CardinalityType

\* A step that takes no part in a login.
LEMMA PeersKept ==
  ASSUME PeerPerLogin, running' => running, UNCHANGED peer_count, Joining' = Joining, Online' = Online
  PROVE  PeerPerLogin'
BY DEF PeerPerLogin, Joining

\* A login adds its slot to the clients that are online, and itself to those that
\* still owe the peer table an entry.
LEMMA PeersLogin ==
  ASSUME NEW c \in Conns, NEW n \in Nicks, NEW t \in {"short", "full"}, IInv, PeerPerLogin, Login(c, n, t)
  PROVE  PeerPerLogin'
<1>1. at[c] \in Open /\ at[c] \notin Online /\ c \notin Joining
  <2>1. pc[c] = "read" /\ authorized[at[c]] = FALSE
    BY DEF Login, Step, From
  <2>2. at[c] \in Slots /\ fd[at[c]] # None
    BY <2>1, FormerAssumption DEF IInv, SlotIsHandlers, Live, FormerAssumption
  <2> QED BY <2>1, <2>2 DEF Open, Online, Joining
<1>2. Online' = Online \cup {at[c]}
  BY <1>1 DEF Login, IInv, TypeOK, Online, Open
<1>3. Joining' = Joining \cup {c}
  BY DEF Login, Step, IInv, TypeOK, Joining
<1>4. UNCHANGED <<running, peer_count>>
  BY DEF Login, KeepRest, life
<1>5. /\ Cardinality(Online') = Cardinality(Online) + 1
      /\ Cardinality(Joining') = Cardinality(Joining) + 1
  BY <1>1, <1>2, <1>3, PeersFinite, FS_AddElement
<1>6. peer_count \in Int /\ Cardinality(Joining) \in Int /\ Cardinality(Online) \in Int
  BY PeersFinite DEF IInv, TypeOK
<1>7. running => peer_count + Cardinality(Joining) = Cardinality(Online)
  BY DEF PeerPerLogin, Joining
<1>8. running' => peer_count' + Cardinality(Joining') = Cardinality(Online')
  BY <1>4, <1>5, <1>6, <1>7
<1> QED BY <1>8 DEF PeerPerLogin, Joining

\* The entry is made: the table has room, because it holds fewer than the clients online.
LEMMA PeersAdd == ASSUME NEW c \in Conns, IInv, PeerPerLogin, AddPeer(c) PROVE PeerPerLogin'
<1>1. UNCHANGED <<running, table>>
  BY DEF AddPeer
<1>2. Online' = Online
  BY <1>1 DEF Online, Open, table
<1>3. CASE UNCHANGED <<pc, peer_count>>
  BY <1>1, <1>2, <1>3, PeersKept DEF Joining
<1>4. CASE Step(c, "add",
       "loop") /\ peer_count' = IF peer_count >= NSlots THEN peer_count ELSE peer_count + 1
  <2>1. c \in Joining /\ Joining' = Joining \ {c}
    BY <1>4 DEF Step, IInv, TypeOK, Joining
  <2>2. Cardinality(Joining') = Cardinality(Joining) - 1
    BY <2>1, PeersFinite, FS_RemoveElement
  <2>3. Cardinality(Joining) # 0
    BY <2>1, PeersFinite, FS_EmptySet
  <2>4. /\ peer_count \in Int /\ Cardinality(Joining) \in Nat /\ Cardinality(Online) \in Nat
        /\ NSlots \in Nat /\ Cardinality(Online) <= NSlots
    BY PeersFinite, FormerAssumption DEF IInv, TypeOK, FormerAssumption
  <2>5. running => peer_count + Cardinality(Joining) = Cardinality(Online)
    BY DEF PeerPerLogin, Joining
  <2>6. running' => peer_count' + Cardinality(Joining') = Cardinality(Online)
    BY <1>1, <1>4, <2>2, <2>3, <2>4, <2>5
  <2> QED BY <1>2, <2>6 DEF PeerPerLogin, Joining
<1> QED BY <1>3, <1>4 DEF AddPeer

LEMMA PeersNext == IInv /\ PeerPerLogin /\ [Next]_vars => PeerPerLogin'
<1> SUFFICES ASSUME IInv, PeerPerLogin, [Next]_vars PROVE PeerPerLogin'
  OBVIOUS
<1>1. ASSUME UNCHANGED <<table, pc, peer_count>>, running' => running PROVE PeerPerLogin'
  BY <1>1, PeersKept DEF Online, Open, Joining, table
<1>2. CASE MainStep \/ Signal \/ EpollFails \/ ServerAccepts \/ MonitorStep \/ UNCHANGED vars
  BY <1>1, <1>2 DEF MainStep, MainStart, MainStop, MainJoin, Signal, EpollFails, ServerAccepts,
         MonitorStep,
       MonitorLoops, MonitorScans, handlers, vars, life
<1>3. CASE ServerInitFails \/ ServerInit \/ ServerLeaves \/ ServerRefuses \/ CleanupBegins \/ CleanupScans
  BY <1>1, <1>3 DEF ServerInitFails, ServerInit, ServerLeaves, ServerRefuses, CleanupBegins, CleanupScans,
       handlers
<1>4. CASE ServerBoot
  <2>1. peer_count' = 0 /\ \A c \in Conns : pc[c] = "none"
    BY <1>4 DEF ServerBoot, IInv, Fresh
  <2>2. Open = {}
    BY <2>1 DEF IInv, TypeOK, Owned, Holds, Open, Live
  <2>3. Joining' = {} /\ Online' = {}
    BY <1>4, <2>1, <2>2 DEF ServerBoot, Joining, Online, Open, table, handlers
  <2> QED BY <2>1, <2>3, FS_EmptySet DEF PeerPerLogin, Joining
<1>5. ASSUME NEW c \in Conns, ServerPlaces(c) PROVE PeerPerLogin'
  <2>1. PICK s \in Slots \ Open :
          /\ fd' = [fd EXCEPT ![s] = c]
          /\ authorized' = [authorized EXCEPT ![s] = FALSE]
    BY <1>5 DEF ServerPlaces
  <2>2. Online' = Online
    BY <2>1 DEF IInv, TypeOK, Online, Open
  <2>3. Joining' = Joining
    BY <1>5 DEF ServerPlaces, IInv, TypeOK, Joining
  <2> QED BY <1>5, <2>2, <2>3, PeersKept DEF ServerPlaces
<1>6. ASSUME NEW c \in Conns,
             \/ HandlerStarts(c) \/ BroadcastLocks(c) \/ BroadcastUnlocks(c) \/ HandlerLeaves(c)
             \/ LeaveBroadcast(c) \/ WriteEnds(c) \/ LoopTest(c) \/ SelectTimesOut(c)
             \/ DataArrives(c) \/ NothingRead(c) \/ Text(c)
             \/ PrivateLocks(c) \/ PrivateWriteEnds(c) \/ RawWriteEnds(c)
             \/ \E n \in Nicks : Register(c, n)
             \/ \E n \in Nicks, op \in {"private", "raw"} : Find(c, n, op)
      PROVE  PeerPerLogin'
  <2>1. UNCHANGED <<table, running, peer_count>>
    BY <1>6 DEF HandlerStarts, BroadcastLocks, BroadcastUnlocks, HandlerLeaves, LeaveBroadcast,
           WriteEnds, LoopTest, SelectTimesOut, DataArrives, NothingRead, Text,
         PrivateLocks, PrivateWriteEnds, RawWriteEnds, Register, Find, KeepRest, life
  <2>2. Joining' = Joining
    BY <1>6 DEF HandlerStarts, BroadcastLocks, BroadcastUnlocks, HandlerLeaves, LeaveBroadcast,
           WriteEnds, LoopTest, SelectTimesOut, DataArrives, NothingRead, Text,
         PrivateLocks, PrivateWriteEnds, RawWriteEnds, Register, Find, Step, IInv, TypeOK, Joining
  <2> QED BY <2>1, <2>2, PeersKept DEF Online, Open, table
<1>7. ASSUME NEW c \in Conns, Disconnect(c) PROVE PeerPerLogin'
  <2>1. UNCHANGED <<running, peer_count>> /\ pc[c] = "disc" /\ pc' = [pc EXCEPT ![c] = "ended"]
    BY <1>7 DEF Disconnect, Step, KeepRest, life
  <2>2. Joining' = Joining
    BY <2>1 DEF IInv, TypeOK, Joining
  <2>3. running => Online' = Online
    <3> SUFFICES ASSUME running PROVE Online' = Online
      OBVIOUS
    <3>1. ~authorized[at[c]]
      BY <2>1 DEF IInv, NobodyLeaves
    <3> QED BY <1>7, <3>1 DEF Disconnect, IInv, TypeOK, Online, Open, table
  <2> QED BY <2>1, <2>2, <2>3, PeersKept DEF PeerPerLogin
<1> QED BY <1>2, <1>3, <1>4, <1>5, <1>6, <1>7, PeersLogin, PeersAdd
        DEF Next, ServerStep, HandlerStep, Command, Delivers, GivesUp

\* Every login has its one entry of the peer table, so the table, which nothing is
\* ever removed from, has room for every client that can log in.
THEOREM PeerPerLoginHolds == Spec => []PeerPerLogin
<1>1. Init => PeerPerLogin
  BY DEF Init, PeerPerLogin
<1> QED BY <1>1, InvHolds, PeersNext, PTL DEF Spec

-----------------------------------------------------------------------------
(* The lock *)

\* The mutex is held only by a handler in the middle of a write, or by a thread that
\* waits for itself.
THEOREM LockDiscipline == Spec => []LockHeld
<1>1. IInv => LockHeld
  BY DEF IInv
<1> QED BY <1>1, InvHolds, PTL

\* A thread that waits for the mutex it holds waits for ever: no step of any thread
\* ends it, and after it no thread but the waiting one holds the lock again.
THEOREM StuckForEver == Spec => [][Stuck => Stuck' /\ mutex' = mutex]_vars
<1>1. IInv /\ [Next]_vars => [Stuck => Stuck' /\ mutex' = mutex]_vars
  <2> SUFFICES ASSUME IInv, Next, Stuck PROVE Stuck' /\ mutex' = mutex
    OBVIOUS
  <2>1. mutex # None /\ \A c \in Conns : mutex # c /\ pc[c] \notin Writing
    BY FormerAssumption DEF IInv, LockHeld, Stuck, Writing, FormerAssumption
  <2>2. ASSUME NEW c \in Conns, HandlerStep(c) \/ Command(c) \/ Delivers(c)
        PROVE UNCHANGED <<mutex, server, monitor>>
    BY <2>1, <2>2 DEF HandlerStep, Command, Delivers, GivesUp, HandlerStarts, BroadcastLocks,
         BroadcastUnlocks, AddPeer, PrivateLocks, HandlerLeaves, LeaveBroadcast, Disconnect, WriteEnds,
         PrivateWriteEnds, RawWriteEnds, LoopTest, SelectTimesOut, DataArrives, NothingRead, Register,
         Login, Text, Find, KeepRest, Step, life, Writing
  <2>3. CASE MonitorStep
    BY <2>1, <2>3 DEF MonitorStep, MonitorLoops, MonitorScans, Stuck
  <2>4. CASE MainStep \/ Signal
    BY <2>4 DEF MainStep, MainStart, MainStop, MainJoin, Signal, Stuck, IInv, Fresh
  <2>5. CASE ServerStep \/ EpollFails \/ ServerAccepts
    BY <2>1, <2>5 DEF ServerStep, ServerBoot, ServerInitFails, ServerInit, ServerLeaves, ServerRefuses,
         ServerPlaces, CleanupBegins, CleanupScans, EpollFails, ServerAccepts, Stuck, IInv, Fresh
  <2> QED BY <2>2, <2>3, <2>4, <2>5 DEF Next, Stuck
<1> QED BY <1>1, InvHolds, PTL DEF Spec

-----------------------------------------------------------------------------
(* Refinement: the client table implements Directory *)

\* A free slot has no name, and neither has one whose client has not logged in.
Cleared == \A s \in Slots : fd[s] = None \/ ~authorized[s] => nick[s] = None

LEMMA ClearedNext == IInv /\ Cleared /\ [Next]_vars => Cleared'
<1> SUFFICES ASSUME IInv, Cleared, [Next]_vars PROVE Cleared'
  OBVIOUS
<1>1. ASSUME UNCHANGED table PROVE Cleared'
  BY <1>1 DEF Cleared, table
<1>2. CASE MainStep \/ Signal \/ EpollFails \/ ServerAccepts \/ MonitorStep \/ UNCHANGED vars
  BY <1>1, <1>2 DEF MainStep, MainStart, MainStop, MainJoin, Signal, EpollFails, ServerAccepts,
         MonitorStep,
       MonitorLoops, MonitorScans, vars
<1>3. CASE \/ ServerBoot \/ ServerInitFails \/ ServerInit \/ ServerLeaves \/ ServerRefuses \/ CleanupBegins
           \/ CleanupScans
  BY <1>1, <1>3 DEF ServerBoot, ServerInitFails, ServerInit, ServerLeaves, ServerRefuses, CleanupBegins,
       CleanupScans
<1>4. ASSUME NEW c \in Conns, ServerPlaces(c) PROVE Cleared'
  BY <1>4 DEF ServerPlaces, Cleared, IInv, TypeOK
<1>5. ASSUME NEW c \in Conns, NEW n \in Nicks, NEW t \in {"short", "full"}, Login(c, n, t) PROVE Cleared'
  <2>1. at[c] \in Slots /\ fd[at[c]] # None
    BY <1>5, FormerAssumption DEF Login, Step, IInv, SlotIsHandlers, Live, FormerAssumption
  <2> QED BY <1>5, <2>1 DEF Login, Cleared, IInv, TypeOK
<1>6. ASSUME NEW c \in Conns, Disconnect(c) PROVE Cleared'
  BY <1>6 DEF Disconnect, Cleared, IInv, TypeOK, table
<1>7. ASSUME NEW c \in Conns,
             \/ HandlerStarts(c) \/ BroadcastLocks(c) \/ BroadcastUnlocks(c) \/ HandlerLeaves(c)
             \/ AddPeer(c)
             \/ LeaveBroadcast(c) \/ WriteEnds(c) \/ LoopTest(c) \/ SelectTimesOut(c)
             \/ DataArrives(c) \/ NothingRead(c) \/ Text(c)
             \/ PrivateLocks(c) \/ PrivateWriteEnds(c) \/ RawWriteEnds(c)
             \/ \E n \in Nicks : Register(c, n)
             \/ \E n \in Nicks, op \in {"private", "raw"} : Find(c, n, op)
      PROVE  Cleared'
  BY <1>1, <1>7 DEF HandlerStarts, BroadcastLocks, BroadcastUnlocks, HandlerLeaves, AddPeer,
         LeaveBroadcast,
       WriteEnds, LoopTest, SelectTimesOut, DataArrives, NothingRead, Text, PrivateLocks,
       PrivateWriteEnds, RawWriteEnds, Register, Find
<1> QED BY <1>2, <1>3, <1>4, <1>5, <1>6, <1>7 DEF Next, ServerStep, HandlerStep, Command, Delivers,
       GivesUp

LEMMA ClearedHolds == Spec => []Cleared
<1>1. Init => Cleared
  BY DEF Init, Cleared
<1> QED BY <1>1, InvHolds, ClearedNext, PTL DEF Spec

\* Dir!left, the connections whose handler has ended.
Left == {c \in Conns : pc[c] = "ended"}

\* The three steps of the table.
LEMMA PlacesTakes ==
  ASSUME NEW c \in Conns, IInv, Cleared, ServerPlaces(c)
  PROVE  \E s \in Slots : Dir!Take(c, s)
<1>1. PICK s \in Slots \ Open :
        fd' = [fd EXCEPT ![s] = c] /\ nick' = [nick EXCEPT ![s] = None]
  BY DEF ServerPlaces
<1>2. fd[s] = None /\ nick[s] = None
  BY <1>1 DEF Open, Cleared
<1>3. nick' = nick
  BY <1>1, <1>2 DEF IInv, TypeOK
<1>4. PICK next \in {"new", "lost"} :
        pc[c] = "none" /\ pc' = [pc EXCEPT ![c] = next] /\ running' = running
  BY DEF ServerPlaces
<1>5. Left' = Left /\ c \notin Left
  BY <1>4 DEF IInv, TypeOK, Left
<1>6. \A r \in Slots : fd[r] # c
  BY <1>4, FormerAssumption DEF IInv, Owned, Holds, Open, Live, FormerAssumption
<1>7. Dir!Take(c, s)
  BY <1>1, <1>2, <1>3, <1>4, <1>5, <1>6 DEF Dir!Take, Left
<1> QED BY <1>1, <1>7

LEMMA LoginSignsOn ==
  ASSUME NEW c \in Conns, NEW n \in Nicks, NEW t \in {"short", "full"}, IInv, Cleared, Login(c, n, t)
  PROVE  at[c] \in Slots /\ Dir!SignOn(at[c], n)
<1>1. /\ pc[c] = "read" /\ pc' = [pc EXCEPT ![c] = "joined"]
      /\ ~authorized[at[c]]
      /\ nick' = [nick EXCEPT ![at[c]] = n] /\ fd' = fd /\ running' = running
  BY DEF Login, Step, From, KeepRest, life
<1>2. at[c] \in Slots /\ fd[at[c]] # None
  BY <1>1, FormerAssumption DEF IInv, SlotIsHandlers, Live, FormerAssumption
<1>3. nick[at[c]] = None
  BY <1>1, <1>2 DEF Cleared
<1>4. Left' = Left
  BY <1>1 DEF IInv, TypeOK, Left
<1> QED BY <1>1, <1>2, <1>3, <1>4 DEF Dir!SignOn, Left

LEMMA DisconnectGivesBack ==
  ASSUME NEW c \in Conns, IInv, Cleared, Disconnect(c)
  PROVE  \E s \in Slots : Dir!GiveBack(c, s)
<1>1. pc[c] = "disc" /\ pc' = [pc EXCEPT ![c] = "ended"] /\ running' = running
  BY DEF Disconnect, Step, KeepRest, life
<1>2. PICK s \in Slots : s = at[c] /\ fd[s] = c /\ c # None
  BY <1>1, FormerAssumption DEF IInv, SlotIsHandlers, Live, FormerAssumption
<1>3. fd' = [fd EXCEPT ![s] = None] /\ nick' = [nick EXCEPT ![s] = None]
  BY <1>2 DEF Disconnect
<1>4. running => nick[s] = None
  BY <1>1, <1>2 DEF IInv, NobodyLeaves, Cleared
<1>5. Left' = Left \cup {c}
  BY <1>1 DEF IInv, TypeOK, Left
<1>6. Dir!GiveBack(c, s)
  BY <1>1, <1>2, <1>3, <1>4, <1>5 DEF Dir!GiveBack, Left
<1> QED BY <1>6

LEMMA BootServes == IInv /\ Cleared /\ ServerBoot => Dir!Serve
<1> SUFFICES ASSUME IInv, Cleared, ServerBoot PROVE Dir!Serve
  OBVIOUS
<1>1. \A c \in Conns : pc[c] = "none"
  BY DEF ServerBoot, IInv, Fresh
<1>2. \A s \in Slots : fd[s] = None /\ nick[s] = None
  BY <1>1 DEF IInv, TypeOK, Owned, Holds, Open, Live, Cleared
<1>3. Left = {} /\ UNCHANGED <<fd, nick, pc>> /\ running' = TRUE
  BY <1>1 DEF ServerBoot, Left, table, handlers
<1> QED BY <1>2, <1>3 DEF Dir!Serve, Left

LEMMA DirStep == IInv /\ Cleared /\ [Next]_vars => [Dir!DirNext]_(Dir!dirVars)
<1> SUFFICES ASSUME IInv, Cleared, [Next]_vars PROVE [Dir!DirNext]_(Dir!dirVars)
  OBVIOUS
<1>1. ASSUME UNCHANGED <<running, fd, nick>>, Left' = Left PROVE UNCHANGED Dir!dirVars
  BY <1>1 DEF Dir!dirVars, Left
<1>2. CASE \/ MainStart \/ MainJoin \/ Signal \/ EpollFails \/ ServerAccepts \/ MonitorStep \/ UNCHANGED vars
           \/ ServerInitFails \/ ServerInit \/ ServerLeaves \/ ServerRefuses \/ CleanupScans
  <2>1. UNCHANGED <<running, fd, nick, pc>>
    BY <1>2 DEF MainStart, MainJoin, Signal, EpollFails, ServerAccepts, MonitorStep, MonitorLoops,
           MonitorScans,
         ServerInitFails, ServerInit, ServerLeaves, ServerRefuses, CleanupScans, vars, life, table,
         handlers
  <2> QED BY <1>1, <2>1 DEF Left
<1>3. CASE MainStop \/ CleanupBegins
  <2>1. running' = FALSE /\ UNCHANGED <<fd, nick, pc>>
    BY <1>3 DEF MainStop, CleanupBegins, table, handlers
  <2>2. Dir!Close
    BY <2>1 DEF Dir!Close
  <2> QED BY <2>2 DEF Dir!DirNext
<1>4. CASE ServerBoot
  BY <1>4, BootServes DEF Dir!DirNext
<1>5. ASSUME NEW c \in Conns, ServerPlaces(c) PROVE Dir!DirNext
  BY <1>5, PlacesTakes DEF Dir!DirNext
<1>6. ASSUME NEW c \in Conns, NEW n \in Nicks, NEW t \in {"short", "full"}, Login(c, n,
       t) PROVE Dir!DirNext
  <2>1. at[c] \in Slots /\ Dir!SignOn(at[c], n)
    BY <1>6, LoginSignsOn
  <2> QED BY <2>1 DEF Dir!DirNext
<1>7. ASSUME NEW c \in Conns, Disconnect(c) PROVE Dir!DirNext
  <2>1. \E s \in Slots : Dir!GiveBack(c, s)
    BY <1>7, DisconnectGivesBack
  <2> QED BY <2>1 DEF Dir!DirNext
<1>8. ASSUME NEW c \in Conns,
             \/ HandlerStarts(c) \/ BroadcastLocks(c) \/ BroadcastUnlocks(c) \/ HandlerLeaves(c)
             \/ AddPeer(c)
             \/ LeaveBroadcast(c) \/ WriteEnds(c) \/ LoopTest(c) \/ SelectTimesOut(c)
             \/ DataArrives(c) \/ NothingRead(c) \/ Text(c)
             \/ PrivateLocks(c) \/ PrivateWriteEnds(c) \/ RawWriteEnds(c)
             \/ \E n \in Nicks : Register(c, n)
             \/ \E n \in Nicks, op \in {"private", "raw"} : Find(c, n, op)
      PROVE  UNCHANGED Dir!dirVars
  <2>1. UNCHANGED <<running, fd, nick>>
    BY <1>8 DEF HandlerStarts, BroadcastLocks, BroadcastUnlocks, HandlerLeaves, AddPeer, LeaveBroadcast,
         WriteEnds, LoopTest, SelectTimesOut, DataArrives, NothingRead, Text, PrivateLocks,
         PrivateWriteEnds, RawWriteEnds, Register, Find, KeepRest, life, table
  <2>2. Left' = Left
    BY <1>8 DEF HandlerStarts, BroadcastLocks, BroadcastUnlocks, HandlerLeaves, AddPeer, LeaveBroadcast,
         WriteEnds, LoopTest, SelectTimesOut, DataArrives, NothingRead, Text, PrivateLocks,
         PrivateWriteEnds, RawWriteEnds, Register, Find, Step, IInv, TypeOK, Left
  <2> QED BY <1>1, <2>1, <2>2
<1> QED BY <1>2, <1>3, <1>4, <1>5, <1>6, <1>7, <1>8
        DEF Next, MainStep, ServerStep, HandlerStep, Command, Delivers, GivesUp

\* The client table implements Directory: a slot is given back by its own handler only,
\* once, and while the server runs no nickname in it changes or goes.
THEOREM ImplementsDirectoryHolds == Spec => ImplementsDirectory
<1>1. Init => Dir!DirInit
  BY DEF Init, Dir!DirInit
<1> QED BY <1>1, InvHolds, ClearedHolds, DirStep, PTL DEF Spec, ImplementsDirectory, Dir!DirSpec
=============================================================================
