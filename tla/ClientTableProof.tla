-------------------------- MODULE ClientTableProof --------------------------
(***************************************************************************)
(* Proofs about ClientTable, for every number of slots, connections and    *)
(* descriptors.                                                            *)
(***************************************************************************)
EXTENDS ClientTable, TLAPS

(***************************************************************************)
(* The inductive invariant.  CleanTenancy is about the handlers that run;  *)
(* to be kept it needs what the other two threads are about to write:      *)
(* the connection main is bringing in, the slot it is cleaning, and the    *)
(* slot the monitor has decided to close.                                  *)
(***************************************************************************)
\* A connection that was not accepted yet has left no trace.
Unseen ==
    \A c \in Conns : sslFd[c] = -1 => pc[c] = "none" /\ sslState[c] = "none"

\* The connection main is bringing in, and the slot it has chosen for it.
Incoming ==
    main.at \in {"scan", "tls", "fill"} =>
       /\ main.conn \in Conns
       /\ pc[main.conn] = "none"
       /\ sslFd[main.conn] \in Fds
       /\ main.at # "scan" => main.slot \in Slots
       /\ main.at = "fill" => sslState[main.conn] = "live"
       /\ main.at = "fill" /\ ~tainted[main.slot] => Bound(main.slot) = {}

\* An SSL object is in no slot but the one its handler was started for.
SslPlaced ==
    \A s \in Slots, c \in Conns : ssl[s] = c =>
       /\ c \in Live => slot[c] = s
       /\ sslFd[c] # -1
       /\ main.at \in {"scan", "tls", "fill"} => c # main.conn
       /\ \A t \in Slots : ssl[t] = c => t = s

\* What a slot without a handler may still hold was never freed (its handler could
\* not be started), unless global_cleanup is freeing it now.
LeftSsl ==
    \A s \in Slots :
       /\ ~tainted[s] /\ Bound(s) = {} /\ ssl[s] # NoConn
       /\ ~(main.at = "null" /\ main.slot = s)
       => sslState[ssl[s]] = "live"

\* A connection is at no descriptor but the one it was accepted at.
FilePlaced ==
    \A d \in Fds, c \in Conns : file[d] = c => sslFd[c] = d

\* The slot the monitor is closing is nobody's, or known to be written by it.
MonitorKnown ==
    mon.at \in {"close", "set"} =>
       \/ tainted[mon.slot]
       \/ /\ Bound(mon.slot) = {}
          /\ ~(main.at = "fill" /\ main.slot = mon.slot)

\* The slot global_cleanup is cleaning is nobody's, or known to be written by it.
CleanerKnown ==
    main.at \in CleanupLabels =>
       /\ main.slot \in Slots
       /\ tainted[main.slot] \/ Bound(main.slot) = {}

IInv ==
    /\ TypeOK /\ ChosenSlotStaysFree /\ CleanTenancy /\ CrashNeedsReclaim
    /\ Unseen /\ Incoming /\ SslPlaced /\ LeftSsl /\ FilePlaced /\ MonitorKnown /\ CleanerKnown

-----------------------------------------------------------------------------
(***************************************************************************)
(* Every action preserves the invariant, one lemma per action.             *)
(***************************************************************************)
\* Ranges of slot numbers and descriptors.
LEMMA SlotFacts ==
    /\ 0 \in 0..MaxClients /\ 0 \in Slots
    /\ \A s \in Slots : s \in 0..MaxClients /\ s + 1 \in 0..MaxClients
    /\ \A s \in Slots : s + 1 < MaxClients => s + 1 \in Slots
    /\ 0 \in Fds /\ -1 \notin Fds
    /\ \A d \in Fds : d \in Int /\ d >= 0
BY TableAssumption DEF Slots, Fds

USE TableAssumption, SlotFacts DEF IInv, OwnsSlot, table, conns, Live, Bound, Up, CleanupLabels

\* accept: the new connection has left no trace, so nothing is said of it yet.
LEMMA AcceptIInv ==
    ASSUME IInv, NEW c \in Conns, NEW d \in Fds, Accept(c, d)
    PROVE  IInv'
<1> USE DEF Accept, IsLowest, FreeFds, MainAt
<1>1. TypeOK' BY DEF TypeOK
<1>2. ChosenSlotStaysFree' BY DEF ChosenSlotStaysFree
<1>3. CleanTenancy' BY DEF TypeOK, CleanTenancy, Unseen
<1>4. CrashNeedsReclaim' BY DEF CrashNeedsReclaim
<1>5. Unseen' BY DEF Unseen
<1>6. Incoming' BY DEF TypeOK, Incoming, Unseen
<1>7. SslPlaced' BY DEF SslPlaced
<1>8. LeftSsl' BY DEF LeftSsl
<1>9. FilePlaced' BY DEF TypeOK, FilePlaced
<1>10. MonitorKnown' BY DEF MonitorKnown
<1>11. CleanerKnown' BY DEF CleanerKnown
<1> QED BY <1>1, <1>2, <1>3, <1>4, <1>5, <1>6, <1>7, <1>8, <1>9, <1>10, <1>11

\* The search of handle_new_connection ends at a free slot.
LEMMA FindSlotIInv ==
    ASSUME IInv, NEW s \in Slots, FindSlot(s)
    PROVE  IInv'
<1> USE DEF FindSlot, IsLowest, FreeSlots, MainAt
<1>1. TypeOK' BY DEF TypeOK
<1>2. ChosenSlotStaysFree' BY DEF TypeOK, ChosenSlotStaysFree
<1>3. CleanTenancy' BY DEF CleanTenancy
<1>4. CrashNeedsReclaim' BY DEF CrashNeedsReclaim
<1>5. Unseen' BY DEF Unseen
<1>6. Incoming' BY DEF Incoming
<1>7. SslPlaced' BY DEF SslPlaced
<1>8. LeftSsl' BY DEF LeftSsl
<1>9. FilePlaced' BY DEF FilePlaced
<1>10. MonitorKnown' BY DEF MonitorKnown
<1>11. CleanerKnown' BY DEF CleanerKnown
<1> QED BY <1>1, <1>2, <1>3, <1>4, <1>5, <1>6, <1>7, <1>8, <1>9, <1>10, <1>11

\* No slot: the descriptor is closed again.
LEMMA RejectIInv ==
    ASSUME IInv, Reject
    PROVE  IInv'
<1> USE DEF Reject, Close, MainFd, Polling, MainAt
<1>1. TypeOK' BY DEF TypeOK
<1>2. ChosenSlotStaysFree' BY DEF ChosenSlotStaysFree
<1>3. CleanTenancy' BY DEF CleanTenancy
<1>4. CrashNeedsReclaim' BY DEF CrashNeedsReclaim
<1>5. Unseen' BY DEF Unseen
<1>6. Incoming' BY DEF Incoming
<1>7. SslPlaced' BY DEF SslPlaced
<1>8. LeftSsl' BY DEF LeftSsl
<1>9. FilePlaced' BY DEF FilePlaced
<1>10. MonitorKnown' BY DEF MonitorKnown
<1>11. CleanerKnown' BY DEF CleanerKnown
<1> QED BY <1>1, <1>2, <1>3, <1>4, <1>5, <1>6, <1>7, <1>8, <1>9, <1>10, <1>11

\* SSL_accept fails: the descriptor is closed again.
LEMMA HandshakeFailsIInv ==
    ASSUME IInv, HandshakeFails
    PROVE  IInv'
<1> USE DEF HandshakeFails, Close, MainFd, Polling, MainAt
<1>1. TypeOK' BY DEF TypeOK
<1>2. ChosenSlotStaysFree' BY DEF ChosenSlotStaysFree
<1>3. CleanTenancy' BY DEF CleanTenancy
<1>4. CrashNeedsReclaim' BY DEF CrashNeedsReclaim
<1>5. Unseen' BY DEF Unseen
<1>6. Incoming' BY DEF Incoming
<1>7. SslPlaced' BY DEF SslPlaced
<1>8. LeftSsl' BY DEF LeftSsl
<1>9. FilePlaced' BY DEF FilePlaced
<1>10. MonitorKnown' BY DEF MonitorKnown
<1>11. CleanerKnown' BY DEF CleanerKnown
<1> QED BY <1>1, <1>2, <1>3, <1>4, <1>5, <1>6, <1>7, <1>8, <1>9, <1>10, <1>11

\* memset on the slot: handlers that are left on it make its tenancy tainted.
LEMMA ZeroSlotIInv ==
    ASSUME IInv, ZeroSlot
    PROVE  IInv'
<1> USE DEF ZeroSlot, MainAt
<1>1. TypeOK' BY DEF TypeOK
<1>2. ChosenSlotStaysFree' BY DEF ChosenSlotStaysFree
<1>3. CleanTenancy'
  <2> SUFFICES ASSUME NEW k \in Live', ~tainted'[slot'[k]]
               PROVE  OwnsSlot(k)'
    BY DEF CleanTenancy
  <2>1. k \in Live /\ slot[k] \in Slots /\ slot[k] # main.slot
    BY DEF TypeOK, Incoming
  <2>2. ~tainted[slot[k]] /\ OwnsSlot(k)
    BY <2>1 DEF TypeOK, CleanTenancy
  <2>3. k # main.conn
    BY <2>1 DEF Incoming
  <2> QED
    BY <2>1, <2>2, <2>3 DEF TypeOK, Incoming
<1>4. CrashNeedsReclaim' BY DEF CrashNeedsReclaim
<1>5. Unseen' BY DEF TypeOK, Unseen, Incoming
<1>6. Incoming' BY DEF TypeOK, Incoming
<1>7. SslPlaced' BY DEF SslPlaced
<1>8. LeftSsl' BY DEF TypeOK, LeftSsl
<1>9. FilePlaced' BY DEF FilePlaced
<1>10. MonitorKnown' BY DEF TypeOK, MonitorKnown
<1>11. CleanerKnown' BY DEF CleanerKnown
<1> QED BY <1>1, <1>2, <1>3, <1>4, <1>5, <1>6, <1>7, <1>8, <1>9, <1>10, <1>11

\* The slot is filled, and its handler started: the tenancy begins.
LEMMA FillSlotIInv ==
    ASSUME IInv, NEW b \in BOOLEAN, FillSlot(b)
    PROVE  IInv'
<1> USE DEF FillSlot, MainFd, Polling, MainAt
<1>1. TypeOK' BY DEF TypeOK, Incoming
<1>2. ChosenSlotStaysFree' BY DEF ChosenSlotStaysFree
<1>3. CleanTenancy' BY DEF TypeOK, CleanTenancy, Incoming
<1>4. CrashNeedsReclaim' BY DEF CrashNeedsReclaim
<1>5. Unseen' BY DEF TypeOK, Unseen, Incoming
<1>6. Incoming' BY DEF Incoming
<1>7. SslPlaced' BY DEF TypeOK, SslPlaced, Incoming
<1>8. LeftSsl' BY DEF TypeOK, LeftSsl, Incoming
<1>9. FilePlaced' BY DEF FilePlaced
<1>10. MonitorKnown' BY DEF TypeOK, MonitorKnown
<1>11. CleanerKnown' BY DEF CleanerKnown
<1> QED BY <1>1, <1>2, <1>3, <1>4, <1>5, <1>6, <1>7, <1>8, <1>9, <1>10, <1>11

\* global_cleanup begins.
LEMMA StartCleanupIInv ==
    ASSUME IInv, StartCleanup
    PROVE  IInv'
<1> USE DEF StartCleanup, MainAt
<1>1. TypeOK' BY DEF TypeOK
<1>2. ChosenSlotStaysFree' BY DEF ChosenSlotStaysFree
<1>3. CleanTenancy' BY DEF CleanTenancy
<1>4. CrashNeedsReclaim' BY DEF CrashNeedsReclaim
<1>5. Unseen' BY DEF Unseen
<1>6. Incoming' BY DEF Incoming
<1>7. SslPlaced' BY DEF SslPlaced
<1>8. LeftSsl' BY DEF LeftSsl
<1>9. FilePlaced' BY DEF FilePlaced
<1>10. MonitorKnown' BY DEF MonitorKnown
<1>11. CleanerKnown' BY DEF CleanerKnown
<1> QED BY <1>1, <1>2, <1>3, <1>4, <1>5, <1>6, <1>7, <1>8, <1>9, <1>10, <1>11

\* global_cleanup turns to a slot in use, which taints a running handler's.
LEMMA CleanSlotIInv ==
    ASSUME IInv, CleanSlot
    PROVE  IInv'
<1> USE DEF CleanSlot, MainAt
<1>1. TypeOK' BY DEF TypeOK
<1>2. ChosenSlotStaysFree' BY DEF ChosenSlotStaysFree
<1>3. CleanTenancy' BY DEF TypeOK, CleanTenancy
<1>4. CrashNeedsReclaim' BY DEF CrashNeedsReclaim
<1>5. Unseen' BY DEF Unseen
<1>6. Incoming' BY DEF Incoming
<1>7. SslPlaced' BY DEF SslPlaced
<1>8. LeftSsl' BY DEF TypeOK, LeftSsl
<1>9. FilePlaced' BY DEF FilePlaced
<1>10. MonitorKnown' BY DEF TypeOK, MonitorKnown
<1>11. CleanerKnown' BY DEF TypeOK, CleanerKnown
<1> QED BY <1>1, <1>2, <1>3, <1>4, <1>5, <1>6, <1>7, <1>8, <1>9, <1>10, <1>11

\* global_cleanup passes over a slot.
LEMMA SkipSlotIInv ==
    ASSUME IInv, SkipSlot
    PROVE  IInv'
<1> USE DEF SkipSlot, MainAt
<1>1. TypeOK' BY DEF TypeOK
<1>2. ChosenSlotStaysFree' BY DEF ChosenSlotStaysFree
<1>3. CleanTenancy' BY DEF CleanTenancy
<1>4. CrashNeedsReclaim' BY DEF CrashNeedsReclaim
<1>5. Unseen' BY DEF Unseen
<1>6. Incoming' BY DEF Incoming
<1>7. SslPlaced' BY DEF SslPlaced
<1>8. LeftSsl' BY DEF LeftSsl
<1>9. FilePlaced' BY DEF FilePlaced
<1>10. MonitorKnown' BY DEF MonitorKnown
<1>11. CleanerKnown' BY DEF CleanerKnown
<1> QED BY <1>1, <1>2, <1>3, <1>4, <1>5, <1>6, <1>7, <1>8, <1>9, <1>10, <1>11

\* cleanup_client_resources, called by global_cleanup.
LEMMA MainCleanupIInv ==
    ASSUME IInv, NEW m \in CleanupLabels \cup {"done"}, MainCleanup(m)
    PROVE  IInv'
<1> USE DEF MainCleanup, CleanupStep, FreeSsl, NullSsl, CloseFd, UnsetFd, Wipe, Nothing,
            Touch, Usable, Close
<1>1. TypeOK'
  <2>1. main.slot \in Slots /\ main'.slot \in 0..MaxClients
    BY DEF TypeOK, CleanerKnown
  <2>2. main' \in [at : {"poll", "scan", "tls", "fill", "pass", "exited"} \cup CleanupLabels,
                   conn : Conns \cup {NoConn}, slot : 0..MaxClients]
    BY <2>1 DEF TypeOK
  <2>3. /\ fd' \in [Slots -> Fds \cup {-1}] /\ ssl' \in [Slots -> Conns \cup {NoConn}]
        /\ authorized' \in [Slots -> BOOLEAN]
        /\ file' \in [Fds -> Conns \cup {NoConn, Stdin}]
        /\ sslState' \in [Conns -> {"none", "live", "freed"}]
        /\ died' \in {"no", "own", "delivery"}
        /\ UNCHANGED <<running, idle, sslFd, pc, slot, use, todo, mon, tainted>>
    BY <2>1 DEF TypeOK
  <2> QED
    BY <2>2, <2>3 DEF TypeOK
<1>2. ChosenSlotStaysFree' BY DEF ChosenSlotStaysFree
<1>3. CleanTenancy' BY DEF TypeOK, CleanTenancy, SslPlaced, CleanerKnown
<1>4. CrashNeedsReclaim' BY DEF TypeOK, CrashNeedsReclaim, LeftSsl, CleanerKnown
<1>5. Unseen' BY DEF TypeOK, Unseen, SslPlaced, CleanerKnown
<1>6. Incoming' BY DEF Incoming
<1>7. SslPlaced' BY DEF TypeOK, SslPlaced
<1>8. LeftSsl' BY DEF TypeOK, LeftSsl, SslPlaced, CleanerKnown
<1>9. FilePlaced' BY DEF TypeOK, FilePlaced
<1>10. MonitorKnown' BY DEF MonitorKnown
<1>11. CleanerKnown' BY DEF CleanerKnown
<1> QED BY <1>1, <1>2, <1>3, <1>4, <1>5, <1>6, <1>7, <1>8, <1>9, <1>10, <1>11

\* The return from main.
LEMMA ExitIInv ==
    ASSUME IInv, Exit
    PROVE  IInv'
<1> USE DEF Exit, MainAt
<1>1. TypeOK' BY DEF TypeOK
<1>2. ChosenSlotStaysFree' BY DEF ChosenSlotStaysFree
<1>3. CleanTenancy' BY DEF CleanTenancy
<1>4. CrashNeedsReclaim' BY DEF CrashNeedsReclaim
<1>5. Unseen' BY DEF Unseen
<1>6. Incoming' BY DEF Incoming
<1>7. SslPlaced' BY DEF SslPlaced
<1>8. LeftSsl' BY DEF LeftSsl
<1>9. FilePlaced' BY DEF FilePlaced
<1>10. MonitorKnown' BY DEF MonitorKnown
<1>11. CleanerKnown' BY DEF CleanerKnown
<1> QED BY <1>1, <1>2, <1>3, <1>4, <1>5, <1>6, <1>7, <1>8, <1>9, <1>10, <1>11

\* A handler gives up before its loop.
LEMMA HandlerInitFailsIInv ==
    ASSUME IInv, NEW c \in Conns, HandlerInitFails(c)
    PROVE  IInv'
<1> USE DEF HandlerInitFails, Leave, Go, HandlerAt
<1>1. TypeOK'
  <2>1. pc' \in [Conns -> {"none", "init", "loop", "read", "command", "done",
                         "send", "write", "leave", "part"} \cup CleanupLabels]
    BY DEF TypeOK
  <2>2. todo' \in [Conns -> SUBSET Slots]
    BY DEF TypeOK
  <2>3. use' \in [Conns -> Conns \cup {NoConn}]
    BY DEF TypeOK
  <2> QED
    BY <2>1, <2>2, <2>3 DEF TypeOK
<1>2. ChosenSlotStaysFree' BY DEF ChosenSlotStaysFree
<1>3. CleanTenancy' BY DEF TypeOK, CleanTenancy
<1>4. CrashNeedsReclaim' BY DEF CrashNeedsReclaim
<1>5. Unseen' BY DEF TypeOK, Unseen
<1>6. Incoming' BY DEF TypeOK, Incoming
<1>7. SslPlaced' BY DEF TypeOK, SslPlaced
<1>8. LeftSsl' BY DEF TypeOK, LeftSsl
<1>9. FilePlaced' BY DEF FilePlaced
<1>10. MonitorKnown' BY DEF TypeOK, MonitorKnown
<1>11. CleanerKnown' BY DEF TypeOK, CleanerKnown
<1> QED BY <1>1, <1>2, <1>3, <1>4, <1>5, <1>6, <1>7, <1>8, <1>9, <1>10, <1>11

\* A handler writes the welcome message to its own object.
LEMMA HandlerInitIInv ==
    ASSUME IInv, NEW c \in Conns, HandlerInit(c)
    PROVE  IInv'
<1> USE DEF HandlerInit, Go, Write, Touch, Usable, HandlerAt
<1>1. TypeOK' BY DEF TypeOK
<1>2. ChosenSlotStaysFree' BY DEF ChosenSlotStaysFree
<1>3. CleanTenancy' BY DEF CleanTenancy
<1>4. CrashNeedsReclaim' BY DEF TypeOK, CrashNeedsReclaim, CleanTenancy
<1>5. Unseen' BY DEF Unseen
<1>6. Incoming' BY DEF Incoming
<1>7. SslPlaced' BY DEF SslPlaced
<1>8. LeftSsl' BY DEF LeftSsl
<1>9. FilePlaced' BY DEF FilePlaced
<1>10. MonitorKnown' BY DEF MonitorKnown
<1>11. CleanerKnown' BY DEF CleanerKnown
<1> QED BY <1>1, <1>2, <1>3, <1>4, <1>5, <1>6, <1>7, <1>8, <1>9, <1>10, <1>11

\* The handler's loop condition.
LEMMA LoopTestIInv ==
    ASSUME IInv, NEW c \in Conns, LoopTest(c)
    PROVE  IInv'
<1> USE DEF LoopTest, Leave, Go, HandlerAt
<1>1. TypeOK'
  <2>1. pc' \in [Conns -> {"none", "init", "loop", "read", "command", "done",
                         "send", "write", "leave", "part"} \cup CleanupLabels]
    BY DEF TypeOK
  <2>2. todo' \in [Conns -> SUBSET Slots]
    BY DEF TypeOK
  <2>3. use' \in [Conns -> Conns \cup {NoConn}]
    BY DEF TypeOK
  <2> QED
    BY <2>1, <2>2, <2>3 DEF TypeOK
<1>2. ChosenSlotStaysFree' BY DEF ChosenSlotStaysFree
<1>3. CleanTenancy' BY DEF TypeOK, CleanTenancy
<1>4. CrashNeedsReclaim' BY DEF CrashNeedsReclaim
<1>5. Unseen' BY DEF TypeOK, Unseen
<1>6. Incoming' BY DEF TypeOK, Incoming
<1>7. SslPlaced' BY DEF TypeOK, SslPlaced
<1>8. LeftSsl' BY DEF TypeOK, LeftSsl
<1>9. FilePlaced' BY DEF FilePlaced
<1>10. MonitorKnown' BY DEF TypeOK, MonitorKnown
<1>11. CleanerKnown' BY DEF TypeOK, CleanerKnown
<1> QED BY <1>1, <1>2, <1>3, <1>4, <1>5, <1>6, <1>7, <1>8, <1>9, <1>10, <1>11

\* A line was read.
LEMMA ReadLineIInv ==
    ASSUME IInv, NEW c \in Conns, ReadLine(c)
    PROVE  IInv'
<1> USE DEF ReadLine, Go, HandlerAt
<1>1. TypeOK' BY DEF TypeOK
<1>2. ChosenSlotStaysFree' BY DEF ChosenSlotStaysFree
<1>3. CleanTenancy' BY DEF TypeOK, CleanTenancy
<1>4. CrashNeedsReclaim' BY DEF CrashNeedsReclaim
<1>5. Unseen' BY DEF Unseen
<1>6. Incoming' BY DEF Incoming
<1>7. SslPlaced' BY DEF SslPlaced
<1>8. LeftSsl' BY DEF LeftSsl
<1>9. FilePlaced' BY DEF FilePlaced
<1>10. MonitorKnown' BY DEF MonitorKnown
<1>11. CleanerKnown' BY DEF CleanerKnown
<1> QED BY <1>1, <1>2, <1>3, <1>4, <1>5, <1>6, <1>7, <1>8, <1>9, <1>10, <1>11

\* Nothing was read.
LEMMA ReadNothingIInv ==
    ASSUME IInv, NEW c \in Conns, ReadNothing(c)
    PROVE  IInv'
<1> USE DEF ReadNothing, Leave, Go, HandlerAt
<1>1. TypeOK' BY DEF TypeOK
<1>2. ChosenSlotStaysFree' BY DEF ChosenSlotStaysFree
<1>3. CleanTenancy' BY DEF TypeOK, CleanTenancy
<1>4. CrashNeedsReclaim' BY DEF CrashNeedsReclaim
<1>5. Unseen' BY DEF TypeOK, Unseen
<1>6. Incoming' BY DEF TypeOK, Incoming
<1>7. SslPlaced' BY DEF TypeOK, SslPlaced
<1>8. LeftSsl' BY DEF TypeOK, LeftSsl
<1>9. FilePlaced' BY DEF FilePlaced
<1>10. MonitorKnown' BY DEF TypeOK, MonitorKnown
<1>11. CleanerKnown' BY DEF TypeOK, CleanerKnown
<1> QED BY <1>1, <1>2, <1>3, <1>4, <1>5, <1>6, <1>7, <1>8, <1>9, <1>10, <1>11

\* A read of a freed object: in a clean tenancy there is none.
LEMMA ReadDanglingIInv ==
    ASSUME IInv, NEW c \in Conns, ReadDangling(c)
    PROVE  IInv'
<1> USE DEF ReadDangling, Leave, Go, Touch, Usable, HandlerAt
<1>1. TypeOK' BY DEF TypeOK
<1>2. ChosenSlotStaysFree' BY DEF ChosenSlotStaysFree
<1>3. CleanTenancy' BY DEF TypeOK, CleanTenancy
<1>4. CrashNeedsReclaim' BY DEF TypeOK, CrashNeedsReclaim, CleanTenancy
<1>5. Unseen' BY DEF TypeOK, Unseen
<1>6. Incoming' BY DEF TypeOK, Incoming
<1>7. SslPlaced' BY DEF TypeOK, SslPlaced
<1>8. LeftSsl' BY DEF TypeOK, LeftSsl
<1>9. FilePlaced' BY DEF FilePlaced
<1>10. MonitorKnown' BY DEF TypeOK, MonitorKnown
<1>11. CleanerKnown' BY DEF TypeOK, CleanerKnown
<1> QED BY <1>1, <1>2, <1>3, <1>4, <1>5, <1>6, <1>7, <1>8, <1>9, <1>10, <1>11

\* A command is answered on the handler's own object.
LEMMA ReplyIInv ==
    ASSUME IInv, NEW c \in Conns, NEW b \in BOOLEAN, Reply(c, b)
    PROVE  IInv'
<1> USE DEF Reply, Go, Write, Touch, Usable, HandlerAt
<1>1. TypeOK' BY DEF TypeOK
<1>2. ChosenSlotStaysFree' BY DEF ChosenSlotStaysFree
<1>3. CleanTenancy' BY DEF CleanTenancy
<1>4. CrashNeedsReclaim' BY DEF TypeOK, CrashNeedsReclaim, CleanTenancy
<1>5. Unseen' BY DEF Unseen
<1>6. Incoming' BY DEF Incoming
<1>7. SslPlaced' BY DEF SslPlaced
<1>8. LeftSsl' BY DEF LeftSsl
<1>9. FilePlaced' BY DEF FilePlaced
<1>10. MonitorKnown' BY DEF MonitorKnown
<1>11. CleanerKnown' BY DEF CleanerKnown
<1> QED BY <1>1, <1>2, <1>3, <1>4, <1>5, <1>6, <1>7, <1>8, <1>9, <1>10, <1>11

\* A successful login.
LEMMA LogInIInv ==
    ASSUME IInv, NEW c \in Conns, LogIn(c)
    PROVE  IInv'
<1> USE DEF LogIn, Go, Write, Touch, Usable, HandlerAt
<1>1. TypeOK' BY DEF TypeOK
<1>2. ChosenSlotStaysFree' BY DEF ChosenSlotStaysFree
<1>3. CleanTenancy' BY DEF CleanTenancy
<1>4. CrashNeedsReclaim' BY DEF TypeOK, CrashNeedsReclaim, CleanTenancy
<1>5. Unseen' BY DEF Unseen
<1>6. Incoming' BY DEF Incoming
<1>7. SslPlaced' BY DEF SslPlaced
<1>8. LeftSsl' BY DEF LeftSsl
<1>9. FilePlaced' BY DEF FilePlaced
<1>10. MonitorKnown' BY DEF MonitorKnown
<1>11. CleanerKnown' BY DEF CleanerKnown
<1> QED BY <1>1, <1>2, <1>3, <1>4, <1>5, <1>6, <1>7, <1>8, <1>9, <1>10, <1>11

\* A message to everybody.
LEMMA ChatIInv ==
    ASSUME IInv, NEW c \in Conns, Chat(c)
    PROVE  IInv'
<1> USE DEF Chat, Go, HandlerAt
<1>1. TypeOK' BY DEF TypeOK
<1>2. ChosenSlotStaysFree' BY DEF ChosenSlotStaysFree
<1>3. CleanTenancy' BY DEF CleanTenancy
<1>4. CrashNeedsReclaim' BY DEF CrashNeedsReclaim
<1>5. Unseen' BY DEF Unseen
<1>6. Incoming' BY DEF Incoming
<1>7. SslPlaced' BY DEF SslPlaced
<1>8. LeftSsl' BY DEF LeftSsl
<1>9. FilePlaced' BY DEF FilePlaced
<1>10. MonitorKnown' BY DEF MonitorKnown
<1>11. CleanerKnown' BY DEF CleanerKnown
<1> QED BY <1>1, <1>2, <1>3, <1>4, <1>5, <1>6, <1>7, <1>8, <1>9, <1>10, <1>11

\* A message to one other client.
LEMMA DirectIInv ==
    ASSUME IInv, NEW c \in Conns, NEW t \in Slots, Direct(c, t)
    PROVE  IInv'
<1> USE DEF Direct, Go, HandlerAt
<1>1. TypeOK' BY DEF TypeOK
<1>2. ChosenSlotStaysFree' BY DEF ChosenSlotStaysFree
<1>3. CleanTenancy' BY DEF CleanTenancy
<1>4. CrashNeedsReclaim' BY DEF CrashNeedsReclaim
<1>5. Unseen' BY DEF Unseen
<1>6. Incoming' BY DEF Incoming
<1>7. SslPlaced' BY DEF SslPlaced
<1>8. LeftSsl' BY DEF LeftSsl
<1>9. FilePlaced' BY DEF FilePlaced
<1>10. MonitorKnown' BY DEF MonitorKnown
<1>11. CleanerKnown' BY DEF CleanerKnown
<1> QED BY <1>1, <1>2, <1>3, <1>4, <1>5, <1>6, <1>7, <1>8, <1>9, <1>10, <1>11

\* broadcast_message looks at the next slot.
LEMMA BroadcastNextIInv ==
    ASSUME IInv, NEW c \in Conns, NEW t \in Slots, BroadcastNext(c, t)
    PROVE  IInv'
<1> USE DEF BroadcastNext, Resume, Go
<1>1. TypeOK' BY DEF TypeOK
<1>2. ChosenSlotStaysFree' BY DEF ChosenSlotStaysFree
<1>3. CleanTenancy' BY DEF TypeOK, CleanTenancy
<1>4. CrashNeedsReclaim' BY DEF CrashNeedsReclaim
<1>5. Unseen' BY DEF TypeOK, Unseen
<1>6. Incoming' BY DEF TypeOK, Incoming
<1>7. SslPlaced' BY DEF TypeOK, SslPlaced
<1>8. LeftSsl' BY DEF TypeOK, LeftSsl
<1>9. FilePlaced' BY DEF FilePlaced
<1>10. MonitorKnown' BY DEF TypeOK, MonitorKnown
<1>11. CleanerKnown' BY DEF TypeOK, CleanerKnown
<1> QED BY <1>1, <1>2, <1>3, <1>4, <1>5, <1>6, <1>7, <1>8, <1>9, <1>10, <1>11

\* A write to another client's object, which takes part in no tenancy.
LEMMA DeliverIInv ==
    ASSUME IInv, NEW c \in Conns, Deliver(c)
    PROVE  IInv'
<1> USE DEF Deliver, Resume, Write, Touch, Usable, Go
<1>1. TypeOK' BY DEF TypeOK
<1>2. ChosenSlotStaysFree' BY DEF ChosenSlotStaysFree
<1>3. CleanTenancy' BY DEF CleanTenancy
<1>4. CrashNeedsReclaim' BY DEF CrashNeedsReclaim
<1>5. Unseen' BY DEF Unseen
<1>6. Incoming' BY DEF Incoming
<1>7. SslPlaced' BY DEF SslPlaced
<1>8. LeftSsl' BY DEF LeftSsl
<1>9. FilePlaced' BY DEF FilePlaced
<1>10. MonitorKnown' BY DEF MonitorKnown
<1>11. CleanerKnown' BY DEF CleanerKnown
<1> QED BY <1>1, <1>2, <1>3, <1>4, <1>5, <1>6, <1>7, <1>8, <1>9, <1>10, <1>11

\* cleanup_client_resources, called by the slot's own handler.
LEMMA HandlerCleanupIInv ==
    ASSUME IInv, NEW c \in Conns, NEW m \in CleanupLabels \cup {"done"}, HandlerCleanup(c, m)
    PROVE  IInv'
<1> USE DEF HandlerCleanup, Go, CleanupStep, FreeSsl, NullSsl, CloseFd, UnsetFd, Wipe,
            Nothing, Touch, Usable, Close
<1>1. TypeOK' BY DEF TypeOK
<1>2. ChosenSlotStaysFree' BY DEF TypeOK, ChosenSlotStaysFree, Incoming
<1>3. CleanTenancy'
  <2> SUFFICES ASSUME NEW k \in Live', ~tainted'[slot'[k]]
               PROVE  OwnsSlot(k)'
    BY DEF CleanTenancy
  <2>1. /\ c \in Live /\ k \in Live
        /\ UNCHANGED <<slot, use, sslFd, tainted>>
        /\ OwnsSlot(k)
    BY DEF TypeOK, CleanTenancy
  <2>2. CASE k = c
    <3>1. CASE m = "null" BY <2>1, <2>2, <3>1 DEF TypeOK
    <3>2. CASE m = "close" BY <2>1, <2>2, <3>2 DEF TypeOK
    <3>3. CASE m = "unset" BY <2>1, <2>2, <3>3 DEF TypeOK, FilePlaced
    <3>4. CASE m = "wipe" BY <2>1, <2>2, <3>4 DEF TypeOK, Unseen
    <3> QED
      BY <2>2, <3>1, <3>2, <3>3, <3>4 DEF TypeOK
  <2>3. CASE k # c
    <3>1. slot[k] # slot[c]
      BY <2>1, <2>3
    <3>2. ssl[slot[c]] # k
      BY <2>1, <3>1 DEF TypeOK, SslPlaced
    <3>3. /\ fd'[slot[k]] = fd[slot[k]] /\ ssl'[slot[k]] = ssl[slot[k]]
          /\ sslState'[k] = sslState[k] /\ pc'[k] = pc[k]
      BY <2>3, <3>1, <3>2 DEF TypeOK
    <3>4. Bound(slot[k])' = {k}
      BY <2>1, <2>3, <3>1 DEF TypeOK
    <3>5. \A d \in Fds : file[d] # k => file'[d] # k
      BY DEF TypeOK
    <3> QED
      BY <2>1, <3>3, <3>4, <3>5
  <2> QED
    BY <2>2, <2>3
<1>4. CrashNeedsReclaim' BY DEF TypeOK, CrashNeedsReclaim, CleanTenancy
<1>5. Unseen' BY DEF TypeOK, Unseen, SslPlaced
<1>6. Incoming' BY DEF TypeOK, Incoming, SslPlaced
<1>7. SslPlaced' BY DEF TypeOK, SslPlaced
<1>8. LeftSsl' BY DEF TypeOK, LeftSsl, SslPlaced, CleanTenancy
<1>9. FilePlaced' BY DEF TypeOK, FilePlaced
<1>10. MonitorKnown' BY DEF MonitorKnown
<1>11. CleanerKnown' BY DEF CleanerKnown
<1> QED BY <1>1, <1>2, <1>3, <1>4, <1>5, <1>6, <1>7, <1>8, <1>9, <1>10, <1>11

\* The monitor decides to close a slot, which taints a running handler's.
LEMMA ExpireIInv ==
    ASSUME IInv, Expire
    PROVE  IInv'
<1> USE DEF Expire, MonitorAt
<1>1. TypeOK' BY DEF TypeOK
<1>2. ChosenSlotStaysFree' BY DEF ChosenSlotStaysFree
<1>3. CleanTenancy' BY DEF TypeOK, CleanTenancy
<1>4. CrashNeedsReclaim' BY DEF CrashNeedsReclaim
<1>5. Unseen' BY DEF Unseen
<1>6. Incoming' BY DEF TypeOK, Incoming
<1>7. SslPlaced' BY DEF SslPlaced
<1>8. LeftSsl' BY DEF TypeOK, LeftSsl
<1>9. FilePlaced' BY DEF FilePlaced
<1>10. MonitorKnown' BY DEF TypeOK, MonitorKnown
<1>11. CleanerKnown' BY DEF TypeOK, CleanerKnown
<1> QED BY <1>1, <1>2, <1>3, <1>4, <1>5, <1>6, <1>7, <1>8, <1>9, <1>10, <1>11

\* The monitor passes over a slot.
LEMMA KeepSlotIInv ==
    ASSUME IInv, KeepSlot
    PROVE  IInv'
<1> USE DEF KeepSlot, ScanFrom, MonitorAt
<1>1. TypeOK' BY DEF TypeOK
<1>2. ChosenSlotStaysFree' BY DEF ChosenSlotStaysFree
<1>3. CleanTenancy' BY DEF CleanTenancy
<1>4. CrashNeedsReclaim' BY DEF CrashNeedsReclaim
<1>5. Unseen' BY DEF Unseen
<1>6. Incoming' BY DEF Incoming
<1>7. SslPlaced' BY DEF SslPlaced
<1>8. LeftSsl' BY DEF LeftSsl
<1>9. FilePlaced' BY DEF FilePlaced
<1>10. MonitorKnown' BY DEF MonitorKnown
<1>11. CleanerKnown' BY DEF CleanerKnown
<1> QED BY <1>1, <1>2, <1>3, <1>4, <1>5, <1>6, <1>7, <1>8, <1>9, <1>10, <1>11

\* The monitor closes the descriptor it finds in the slot now.
LEMMA ExpireCloseIInv ==
    ASSUME IInv, ExpireClose
    PROVE  IInv'
<1> USE DEF ExpireClose, Close, MonitorAt
<1>1. TypeOK' BY DEF TypeOK
<1>2. ChosenSlotStaysFree' BY DEF ChosenSlotStaysFree
<1>3. CleanTenancy' BY DEF CleanTenancy
<1>4. CrashNeedsReclaim' BY DEF CrashNeedsReclaim
<1>5. Unseen' BY DEF Unseen
<1>6. Incoming' BY DEF Incoming
<1>7. SslPlaced' BY DEF SslPlaced
<1>8. LeftSsl' BY DEF LeftSsl
<1>9. FilePlaced' BY DEF FilePlaced
<1>10. MonitorKnown' BY DEF MonitorKnown
<1>11. CleanerKnown' BY DEF CleanerKnown
<1> QED BY <1>1, <1>2, <1>3, <1>4, <1>5, <1>6, <1>7, <1>8, <1>9, <1>10, <1>11

\* The monitor marks the slot free.
LEMMA ExpireSetIInv ==
    ASSUME IInv, ExpireSet
    PROVE  IInv'
<1> USE DEF ExpireSet, ScanFrom, MonitorAt
<1>1. TypeOK' BY DEF TypeOK
<1>2. ChosenSlotStaysFree' BY DEF ChosenSlotStaysFree
<1>3. CleanTenancy' BY DEF TypeOK, CleanTenancy, MonitorKnown
<1>4. CrashNeedsReclaim' BY DEF CrashNeedsReclaim
<1>5. Unseen' BY DEF Unseen
<1>6. Incoming' BY DEF Incoming
<1>7. SslPlaced' BY DEF SslPlaced
<1>8. LeftSsl' BY DEF LeftSsl
<1>9. FilePlaced' BY DEF FilePlaced
<1>10. MonitorKnown' BY DEF MonitorKnown
<1>11. CleanerKnown' BY DEF CleanerKnown
<1> QED BY <1>1, <1>2, <1>3, <1>4, <1>5, <1>6, <1>7, <1>8, <1>9, <1>10, <1>11

\* Time only makes a slot idle.
LEMMA TimePassesIInv ==
    ASSUME IInv, NEW s \in Slots, TimePasses(s)
    PROVE  IInv'
<1> USE DEF TimePasses, threads
<1>1. TypeOK' BY DEF TypeOK
<1>2. ChosenSlotStaysFree' BY DEF ChosenSlotStaysFree
<1>3. CleanTenancy' BY DEF CleanTenancy
<1>4. CrashNeedsReclaim' BY DEF CrashNeedsReclaim
<1>5. Unseen' BY DEF Unseen
<1>6. Incoming' BY DEF Incoming
<1>7. SslPlaced' BY DEF SslPlaced
<1>8. LeftSsl' BY DEF LeftSsl
<1>9. FilePlaced' BY DEF FilePlaced
<1>10. MonitorKnown' BY DEF MonitorKnown
<1>11. CleanerKnown' BY DEF CleanerKnown
<1> QED BY <1>1, <1>2, <1>3, <1>4, <1>5, <1>6, <1>7, <1>8, <1>9, <1>10, <1>11

\* A signal only clears running.
LEMMA SignalIInv ==
    ASSUME IInv, NEW sig \in Signals, Signal(sig)
    PROVE  IInv'
<1> USE DEF Signal, threads
<1>1. TypeOK' BY DEF TypeOK
<1>2. ChosenSlotStaysFree' BY DEF ChosenSlotStaysFree
<1>3. CleanTenancy' BY DEF CleanTenancy
<1>4. CrashNeedsReclaim' BY DEF CrashNeedsReclaim
<1>5. Unseen' BY DEF Unseen
<1>6. Incoming' BY DEF Incoming
<1>7. SslPlaced' BY DEF SslPlaced
<1>8. LeftSsl' BY DEF LeftSsl
<1>9. FilePlaced' BY DEF FilePlaced
<1>10. MonitorKnown' BY DEF MonitorKnown
<1>11. CleanerKnown' BY DEF CleanerKnown
<1> QED BY <1>1, <1>2, <1>3, <1>4, <1>5, <1>6, <1>7, <1>8, <1>9, <1>10, <1>11

-----------------------------------------------------------------------------
(***************************************************************************)
(* The theorems.                                                           *)
(***************************************************************************)
\* At the start there are no handlers and no SSL objects.
LEMMA InitIInv == Init => IInv
<1> SUFFICES ASSUME Init PROVE IInv
  OBVIOUS
<1> USE DEF Init
<1>1. TypeOK BY DEF TypeOK
<1> QED
  BY <1>1 DEF ChosenSlotStaysFree, CleanTenancy, CrashNeedsReclaim, Unseen, Incoming,
     SslPlaced, LeftSsl, FilePlaced, MonitorKnown, CleanerKnown

\* A step of the main thread keeps the invariant.
LEMMA MainStepIInv == IInv /\ MainStep => IInv'
BY AcceptIInv, FindSlotIInv, RejectIInv, HandshakeFailsIInv, ZeroSlotIInv, FillSlotIInv,
   StartCleanupIInv, CleanSlotIInv, SkipSlotIInv, ExitIInv, MainCleanupIInv DEF MainStep

\* A step of a handler thread keeps the invariant.
LEMMA HandlerStepIInv == ASSUME IInv, NEW c \in Conns, HandlerStep(c) PROVE IInv'
BY HandlerInitFailsIInv, HandlerInitIInv, LoopTestIInv, ReadLineIInv, ReadNothingIInv,
   ReadDanglingIInv, ReplyIInv, LogInIInv, ChatIInv, DirectIInv, BroadcastNextIInv,
   DeliverIInv, HandlerCleanupIInv DEF HandlerStep

\* A step of the monitor thread keeps the invariant.
LEMMA MonitorStepIInv == IInv /\ MonitorStep => IInv'
BY ExpireIInv, KeepSlotIInv, ExpireCloseIInv, ExpireSetIInv DEF MonitorStep

\* Every step keeps the invariant.
LEMMA NextIInv == IInv /\ [Next]_vars => IInv'
<1> SUFFICES ASSUME IInv, [Next]_vars PROVE IInv'
  OBVIOUS
<1>1. CASE UNCHANGED vars
  BY <1>1 DEF vars, threads, TypeOK, ChosenSlotStaysFree, CleanTenancy, CrashNeedsReclaim,
     Unseen, Incoming, SslPlaced, LeftSsl, FilePlaced, MonitorKnown, CleanerKnown
<1> QED
  BY <1>1, MainStepIInv, HandlerStepIInv, MonitorStepIInv, TimePassesIInv, SignalIInv DEF Next

\* The invariant holds in every reachable state.
THEOREM InvariantHolds == Spec => []IInv
BY InitIInv, NextIInv, PTL DEF Spec

\* The threads keep every variable of its type, whatever they do to each other's slots.
THEOREM TypeCorrect == Spec => []TypeOK
<1>1. IInv => TypeOK
  OBVIOUS
<1> QED
  BY <1>1, InvariantHolds, PTL

\* The slot handle_new_connection found is still free when it takes it, for any number of
\* slots, connections and descriptors.
THEOREM ChosenSlotStaysFreeHolds == Spec => []ChosenSlotStaysFree
<1>1. IInv => ChosenSlotStaysFree
  OBVIOUS
<1> QED
  BY <1>1, InvariantHolds, PTL

\* A handler whose slot only it writes owns the slot at each of its steps.
THEOREM CleanTenancyHolds == Spec => []CleanTenancy
<1>1. IInv => CleanTenancy
  OBVIOUS
<1> QED
  BY <1>1, InvariantHolds, PTL

\* A thread's own use of an SSL object is of a live one, unless a slot was reclaimed.
THEOREM CrashNeedsReclaimHolds == Spec => []CrashNeedsReclaim
<1>1. IInv => CrashNeedsReclaim
  OBVIOUS
<1> QED
  BY <1>1, InvariantHolds, PTL
=============================================================================
