# Verification of the mesh server

TLA+ models of the mesh messenger, the TLC runs that check them on small
instances, and the TLAPS proofs of their main properties for every instance.
The subject is the program as it is written: the server `src/src/server.c`, the
former server `src/src/trash/server2.c` with its C++ wrapper, the terminal
messenger `src/p2p_messenger/` and the Qt client `src/src/assets/`. Paths
below are relative to the directory that holds `src/` and `tla/`.

    tlc -workers 2 -config Accounts.cfg MCAccounts      # a run
    tlapm AccountsProof.tla                             # the proofs of a module

## 1. Inventory

| Part | State it keeps | Operations | Interacts through |
|---|---|---|---|
| Accounts (`server.c`) | table `secure_users`; `nick`, `authorized` of a slot; `server.p2p.peers` | `/register`, `/login`, end of session | one shared SQLite connection, the slots |
| Client slots and threads (`server.c`) | `server.clients[]`, `server.running`, kernel descriptors, OpenSSL objects | `handle_new_connection`, `secure_client_handler`, `broadcast_message`, `send_private_message`, `check_client_timeouts`, `cleanup_client_resources`, `global_cleanup`, `signal_handler` | the unlocked array `server.clients`, shared by the main thread, one handler per client and the monitor |
| Audit log (`server.c`) | ring `server.audit_logs`, `audit_log_count`, table `audit_logs` | `log_security_event`, `save_audit_log_to_db`, `rotate_audit_logs` | `audit_mutex`, SQLite |
| Rate limit (`server.c`) | `rate_limit` of a slot | the test in `secure_client_handler` | the handler only |
| Messaging (`server.c`) | table `secure_messages` | `broadcast_message`, `send_private_message`, `handle_encrypted_message`, `/online` | slots, SQLite |
| Start and database (`server.c`) | `server.running`, `server.db`, the tables in the database file | `init_secure_database`, `start_ultra_secure_server`, `signal_handler`, `global_cleanup` | SQLite |
| Input rules (`server.c`) | none | `validate_nickname`, `validate_message`, `sanitize_input` | called by the handlers |
| Crypto provider, Signal stores (both servers) | what a call has acquired | callbacks | OpenSSL, libsignal |
| Former server (`trash/server2.c`) | a client table under a mutex, `users`, the peer table | `start_mesh_server`, `client_handler`, `monitor_thread`, `cleanup_resources` | `server.mutex`, `server.running` |
| Lifecycle wrapper (`MeshServer.hpp`, `trash/main.cpp`, `main_c.c`) | a thread and a flag | start, stop, join | `server.running` |
| `p2p_messenger/` | users, groups, windows, Signal store, `messenger.db` | `run_client`, the receiver thread, `send_direct_message` | `is_running`, sockets |
| Qt client (`assets/`) | socket, timer, session, window, open message boxes | clicks, socket and timer events | the server's text protocol |
| `meshctl.py` | PID file | start, stop, status, build | the server process |
| `mesh_tester.py`, `test_client.py`, `brootfrouce.py` | none of their own | drivers, a source rewriter | |

What is hard in this code, and why the properties are about it:

- `server.clients` is read and written by three kinds of threads without a lock.
  A slot can be emptied, cleaned up and refilled while its handler still works
  on it; an SSL object can be freed while another handler writes to it.
- Descriptor numbers are reused by the kernel, and a slot's `fd` is its only
  mark of being in use. The array starts as zeroes, and 0 is a valid descriptor.
- Registration is a SELECT and a later INSERT, and other handlers run in between.
- Log entries are saved from a ring after the mutex that protects it was released.
- A client decides how long a read or a write takes.
- A signal can arrive at any moment, and the clean-up does not wait for the
  handlers.
- The database outlives the process, and a start may end between any two of the
  statements that create its tables.
- The former server has one mutex, which is not recursive, and two places lock it twice.
- A stop, a quit or a timeout waits for something another thread, a peer or
  the network has to do.
- A Qt message box runs an event loop inside the slot that opened it, so slots
  are suspended half way and go on in a different state.

The complete list, with lines, is `hazards` in `PROJECT.json`.

Two facts about the source that shape the models. From line 2134 on, `server.c`
defines functions a second time, so the file does not compile as it stands; the
models follow the first definitions, which `main` and the prototypes belong to.
`generate_secure_token` writes past its buffer before it cuts the token to
`TOKEN_LENGTH`; the models take the outcome of a build in which that does no
harm: a token of `TOKEN_LENGTH` characters.

Facts of the same kind about the other parts. Every build links plain SQLite (`src/Makefile:6`, `src/CMakeLists.txt:25,42`), not the
SQLCipher the comments speak of: the database file is never encrypted. And `PRAGMA key = 'x'<hex>''` (server.c:798)
is quoted in a way no SQLite parses, so that as written every start ends there (the run `startup_key`, section 4). All other modules
describe the server past that statement, as it runs once the statement is accepted. `p2p_messenger/` names libsignal functions with other
signatures than the library's, and its Makefile builds a skeleton (`p2p_messenger.c`) with `client.c`; the
model takes the two programs the sources spell out, `main.c` with `network.c` and `client.c`. In the former server
the token of an account has 64 characters and `/login` reads 63 and compares whole strings, so only
rows put into the database by other means can log in (`Seeded`); and the limit per address never
applies, its UPSERT naming a column without a unique index.

## 2. Modules

### Registry, Accounts, MCAccounts, AccountsProof

`Registry` is the abstract specification: a partial function from nicknames (up to
letter case) to tokens that only grows, and who is signed in under which of them.

`Accounts` is the code: the slots, a handler per connection that has one by a pointer, `secure_users` with its UNIQUE
and NOCASE columns, and the peer table. A SQL statement is one step, since SQLite
serializes statements on a shared connection. A registration is
`RegisterFree` (the SELECT found nothing, or could not be prepared: the code treats
the two alike), then `SaveUser` or `SaveUserFails` or `TokenFails`, then
`RegisterReply`, which may be lost with the connection. A login is `Login`, the SELECT, and `Enter`, which fills in the slot;
`Login` keeps the truncation `sscanf` makes (63 of 64 characters) and the comparison over the length of
what was typed. The nickname rules are the constant `Valid`, the collation the constant
`Canon`.

The clean-up of a slot is three steps, in the order of `cleanup_client_resources`: `CloseSlot` (`fd = -1`), `WipeNick`, `ClearAuthorized`. The
monitor may close the slot under its handler at any moment (`Expire`), and `Connect` may then give it to another connection; `shared[s]` remembers that
a slot was handed out while a handler still had it. `SessionHasAccount` is about what `send_online_users`, `broadcast_message` and
`find_client_by_nick` test: a slot with `fd >= 0` and `authorized` set. An authorized slot without a name does occur, between
the wipe and the last assignment, but `fd` is unset by then. The exception is the shared slot, where the late wipe of the first handler hits the second
client. (The test and the reading of the name are several instructions, and a slot that is cleaned up in between is read half wiped; the property
is about the test.)

The refinement maps a row of `secure_users` to an account, and a slot that passes the test and is not shared to a session (`ownerBar`, `signedInBar`).

### ClientTable, MCClientTable, ClientTableProof

The table, the kernel's descriptor table (`file`), the life of the SSL objects
(`sslState`, named by the connection they were made for), and the threads. A step is
one access to shared state, or several that no other thread can tell apart.

| Code | Model |
|---|---|
| `handle_new_connection` | `Accept`, `FindSlot` or `Reject`, `HandshakeFails` or `ZeroSlot` (handshake and `memset`), `FillSlot` (fields and `pthread_create`, which may fail unnoticed) |
| `secure_client_handler` | `HandlerInit`/`HandlerInitFails`, `LoopTest`, `ReadLine`/`ReadNothing`/`ReadDangling`, the commands, `Leave`, `HandlerCleanup` |
| commands | `Reply` (answered to the client itself, or dropped), `LogIn`, `Chat`, `Direct` |
| `broadcast_message` | `BroadcastNext` (test the next slot) and `Deliver` (write), slot by slot |
| `cleanup_client_resources` | `CleanupStep`: free, null, close, unset, wipe, in the order of the code; run by handlers and by `global_cleanup` |
| `global_cleanup` | `StartCleanup`, `CleanSlot`/`SkipSlot`, `MainCleanup`, `Exit` |
| `check_client_timeouts` | `Expire`/`KeepSlot`, `ExpireClose`, `ExpireSet` |
| `signal_handler` | `Signal` |

Time is one bit per slot, `idle`. Use of a freed or NULL SSL object is undefined
behaviour: the process may die of it or go on (`Touch`); `died` says whether the
dying thread used the object of its own slot or another client's in a delivery.
`tainted[s]` is a history variable: somebody besides the slot's handler (the monitor,
`global_cleanup`, or an earlier handler that had not returned when the slot was
handed out) writes the slot during this tenancy.

Abstractions: two calls on one live SSL object at the same moment are taken one after
the other (what OpenSSL does otherwise is not described by this code); the socket is
non-blocking when `SSL_accept` is called, so the handshake may succeed or fail; reads of several
fields of one slot within one `if` are one step; the listening socket, SQLite
and the certificate files keep their descriptors throughout and are left out of `Fds`.

### Mailbox, Messaging, MCMessaging, MessagingProof

The senders' handlers over slots that change hands. A command is several steps, as in the code:
`/msg` is `Private` (lookup), `SaveMessage` or `SaveMessageFails`, `TestFound` (the second
look at `fd` and `authorized`) and `WriteFound`; `/send_enc` is `Encrypt` (first
lookup), `LookUp` or `LookUpFails`, `WriteFound`; a chat line, a login and the end of a
session are `SaveMessage` and then `BroadcastNext` and `WriteFound` slot by slot.
`WriteFound` gives the text to whoever is the slot's tenant at that moment. `got` counts writes that were begun: `ssl_safe_write` may return -1, or give up when the
server stops, and its callers do not look.

Entering and leaving a slot are one step each here; their inner order, and what a write to a freed
SSL object does, are the subject of `ClientTable`. The scan of
`find_client_by_nick` is one step. Texts are numbers; the history variables `letter`, `got`,
`owed`, `arrival`, `name` and `lost` remember what the properties compare. `/online` only
reads the table and is left out.

`Mailbox` is what all this is to promise, without slots and lookups. A client comes once, takes at most one name, has at
most one text on its desk, and leaves for good with an empty desk. A text that is not encrypted is kept or lost before its first copy, and once; nobody
gets a copy twice, or of a text that is on no desk, so that the texts of one sender reach everybody in their order. A text for everybody is put aside when all who
were there by name and have not left have it, a private one when the client that was found for it has it or has left; of a text for
one there is one copy at most, and it goes to the addressee or to somebody who came later. `Messaging` implements it with the text of a handler between its first
step and its return to `idle` as the desk, `owed` as who is still to get it, the rows that are not of `System` as what
was kept, and `got` as the copies. Of an encrypted text nothing more is promised: its addressee is looked up twice.

### AuditLog, MCResources, ResourcesProof

The ring, its counter, the mutex and the table `audit_logs`. Events are numbers in
the order in which they took their entries; the fields of an entry are abstracted to two, the ones
written and read first (`head`) and the ones after them (`tail`), which is enough to
tell a mixture of two events from an event. `SaveHead` and `InsertRow` read the ring without the
mutex. `rows` remembers for every row the event it was meant for, and
whether the ring had gone round when it was inserted.

### RateLimit, MCResources, ResourcesProof

The window and the counter of one client, with time in ticks of `time()`, and the
history `stamps`: the ticks at which lines were processed, in their order. A line is processed (`Pass`,
which may begin a window) or refused (`Refuse`). Its specification is `RateSpec`; the names carry a prefix because one
module, `ResourcesProof`, proves about it, about the ring and about `CryptoProvider`, and one, `MCResources`, checks the three, which share no state, in one
run: in each behaviour one of them moves.

### Startup, MCStartup, StartupProof

`main` and `start_ultra_secure_server` around one database file, over several launches. `stage` is the
next call that may fail; `Fails` is the early return every one of them has, `Crash` the death of the process at any
point, `PowerLoss` that of the machine, which with `journal_mode = WAL` and `synchronous = NORMAL` may take the last commits with it. `tables` is what the
file holds, `next` the index of the loop over the CREATE TABLE statements, each a commit of its own.

`SetKey` is the PRAGMA that sets the key. The constant `KeyAnswers` says what the library makes of it: `"refused"`, a syntax error, is what SQLite
answers to the statement as written; `"ignored"` is its answer to one that parses. The run `startup` has both, so that what comes after the
statement is covered, `startup_key` the first alone.

### CryptoProvider, MCResources, ResourcesProof

The nineteen functions of both servers that acquire several resources in a row, each as the sequence of its
calls: what a call acquires when it succeeds and what its error path frees. (`identity_key_store_get_identity_key_pair` of the former server allocates
two buffers before it tests either and is there twice, for the two ways that can go.) The state machine runs
one after the other and lets every call fail. A change of an error path in
the code is a change of one record here.

### Directory, FormerServer, MCFormerServer, FormerServerProof

The former server in the thread `MeshServer` makes for it. `mutex` names the thread that holds `server.mutex`;
a thread that locks it again is `"stuck"`, which is what a default pthread mutex does.

| Code | Model |
|---|---|
| `main.cpp`, `MeshServer::start`, `stop` | `MainStart`, `Signal`, `MainStop` (loop left, flag cleared), `MainJoin` |
| `start_mesh_server` | `ServerBoot` (`memset`, `running = 1`), `ServerInit` or `ServerInitFails` (return, `exit`, or clean-up), `ServerAccepts`, `ServerPlaces` or `ServerRefuses`, `ServerLeaves`, `EpollFails` |
| `cleanup_resources` | `CleanupBegins`, `CleanupScans` |
| `monitor_thread` | `MonitorLoops`, `MonitorScans` |
| `client_handler` | `HandlerStarts`, `LoopTest`, `SelectTimesOut` or `DataArrives`, the commands or `NothingRead`, `HandlerLeaves`, `LeaveBroadcast`, `Disconnect` |
| `broadcast_message` | `BroadcastLocks`, `WriteEnds` per slot with the mutex held, `BroadcastUnlocks` |
| `/msg` | `Find`, `PrivateLocks`, `PrivateWriteEnds` |
| `/send_enc`, `/p2p_connect` | `Find`, `RawWriteEnds` (no lock) |

`ssl_safe_read` waits five seconds for a first byte, and then, at `"read"`, for the end of the line, for as long as the client likes and whatever becomes
of `running`; only a whole line, an error or a closed connection ends that. A `pthread_create` that fails goes unnoticed: the slot is open and nobody works on it (`"lost"`), or
the monitor does not exist, or the `pthread_detach` that follows ends the process. A write ends when the client takes the data (`Delivers`) or the server stops (`GivesUp`). Time is
left out of the monitor: any client may have been idle long enough. After `cleanup_resources` has freed the table, a scan by the monitor may end the
process; a second `sqlite3_finalize` of the login's statement (server2.c:1311) may too.

`Directory` is what the client table promises to threads that read it without the lock: a slot is leased to one connection,
which never had another and alone gives it back, and while the server serves a name neither changes nor goes. `FormerServer`
implements it with `fd` as the leases, `nick` as the names, `running` as the time of service and the ended handlers as
those that left.

### P2PMessenger, MCP2PMessenger, P2PMessengerProof

Both programs in one module (`build`): the user-interface thread (`ui`), the receiver (`rcv`), and peers that
connect, send and close. A message goes to the only address there is in `users`, the program's own port, so its
own receiver may be the one that gets it (`own`). Contents are left out: a connection is silent, has sent a length, a whole message, or
is gone. `Dies` is the null pre-key bundle of `send_direct_message`, and SIGPIPE in a `send` to a socket that was reset. Every `send` may fail; the code does not look, so
`SendFirst` and `SendRest` go on, and `lost` remembers it. `reported` counts the messages the user was told were sent, `sent` those among them of
which every send succeeded, `rows` those in the history. Everything but these is lost when the process ends. `PeerGroups` are groups that users of other machines
created, which nothing ever tells this program about.

### ChatClient, MCChatClient, ChatClientProof

One thread; `frames` is the stack of slots that wait for their message box. Clicks need an empty stack (the boxes
are modal), socket and timer events do not. A slot is split where its box opens:
`onTimeout` tests the state and opens the box, `ResumeTimeout` aborts the socket after it; `onReadyRead` stops at
the first line that opens a box and goes on in `ResumeRead`; `onError` calls `disconnectFromHost` in `ResumeError`.
A repeated timeout opens another box on top of the first, up to `MaxBoxes`. The timer is a flag: that every click on Connect starts its ten seconds anew is not visible in it. Lines are classified by what the client does with them: a login, a line whose slot
opens a box, and the rest. What `QSslSocket` does is taken from Qt's documentation and marked external.

## 3. Runs

| Run | Instance | Result |
|---|---|---|
| `accounts` | 2 handlers, 2 slots, 4 nicknames (two spellings of one, another, an invalid one), tokens of 2 characters out of 2, peer table of 1 | passes: `TypeOK`, `OneOwner`, `IssuedTokenLogsIn`, `SessionHasAccount`, `ImplementsRegistry` |
| `client_table` | 2 connections, 2 slots, descriptors 0 and 1, no signal | passes: `ChosenSlotStaysFree`, `CleanTenancy`, `CrashNeedsReclaim` |
| `client_table_live` | 1 connection, 2 slots, descriptors 0 to 2, a signal | passes: `IdleSlotReleased`, `SilentHandlerEnds`, `ShutdownCompletes` |
| `table_disconnect` | as `client_table` | `DisconnectIsHarmless` is violated |
| `resources` | the ring: 3 threads, ring of 2, 6 events; the rate limit: limit 2, window 3, 10 ticks; all crypto functions | passes: `TypeOK`, `EntryIntact`, `PromptRowsAreTrue`, `SlidingBound`, `RefusedOnlyWhenBusy`, `GivesBack`, `FreesOnlyHeld` |
| `messaging` | 3 clients, 2 slots, 2 nicknames, 1 text | passes: `EveryoneOnce`, `StrangersAreNewcomers`, `ReceivedIsStored`, `ImplementsMailbox` |
| `startup` | 4 launches, 3 tables | passes: `ServesAllTables`, `RestartServes`, `SignalStops` |
| `startup_key` | 1 launch, all 7 tables, the PRAGMA refused | `KeyIsSet` is violated |
| `former_server` | 2 connections, 2 slots, 3 nicknames of which 2 can log in | passes: `SlotIsHandlers`, `LookupStaysTrue`, `FreedAfterHandlers`, `PeerPerLogin`, `ImplementsDirectory`, `HandlersEnd`, `StopReturns` |
| `p2p_messenger` | both builds, 2 connections, tables of 2, 3 group names, 2 messages | passes: `TypeOK`, `ReceiverHasMemory`, `HistoryWasReported`, `QuitEnds` |
| `p2p_join` | as `p2p_messenger`, one group of a peer | `JoinsExisting` is violated |
| `chat_client` | 2 nicknames, 4 nested boxes, 2 buffered lines | passes: `ConnectingIsTimed`, `WindowShowsUser`, `ConnectingEnds` |

Why the bounds are enough. *Accounts*: two handlers and two spellings are what the
race needs; four possible tokens make both equal and different tokens, and equal prefixes, happen;
a peer table of 1 is full after one login; two slots are enough for one to be given away while both handlers live, and the handlers and the characters of tokens are symmetric. *ClientTable*: two connections and two
slots give a reused slot, a reused descriptor, a slot that is still untouched while
another is in use, and a client that leaves while the other sends; descriptor 0
starts as standard input, as it does in the process, and with two connections a third
number is never needed. The signal multiplies the states by
twenty, so the run with a signal has one connection, which may be taken on before or after
the signal (`server.running` is tested before `epoll_wait`); what the safety properties say about a signal with any number of connections is proved. *AuditLog*: a ring of 2 goes round three times and three threads hold a
saved entry, a taken one and a waiting one at once. *Messaging*: three clients and two slots
give a sender, an addressee and a successor in its slot; a text meets every interleaving
of logins, departures and system broadcasts, and several texts meet only in their numbers (that a sender's texts keep
their order, which one text cannot show, is part of what is proved).
*RateLimit*: three windows, and five lines
across their borders, fit in 10 ticks. *Startup*: four launches give a stopped, a crashed and a failed start before
one that serves, and with three tables a start ends before, between and after them. *FormerServer*: two handlers hold and wait for the mutex, one of them
looked up by the other, and one may be left without a thread; a third changes only who waits. *P2PMessenger*: one connection is served while another
waits, a third group does not fit, and of two messages one may be lost and the other not. *ChatClient*: four boxes hold one of each kind of
suspended slot. The safety properties are proved for every value of the constants
(section 5). The liveness run has one connection: with two, the graph
is beyond what the temporal check finishes.

Deadlock is not checked for `ClientTable`, `FormerServer` and `Startup`, where the process may end, for `Messaging`,
where the clients may all have left, and for `P2PMessenger` and `ChatClient`, whose bounds on messages and
boxes can be reached.

What the liveness properties of the other parts say. `SignalStops`: a signal in the middle of the start still ends the
program; only the interval between `signal()` and `running = 1` loses one. `RestartServes`: whatever part of the tables earlier starts left behind, a
start that comes to them serves, unless a call of its own fails or it dies. `HandlersEnd`: once the former server stops, a handler ends, unless it stays in
`ssl_safe_read` with a line begun for ever, or waits for a mutex that is lost in a self-deadlock. `StopReturns`: a stop returns, unless it ran into one of the two
self-deadlocks (a slot still open at the clean-up, or a client idle at the monitor's scan) or came before `start_mesh_server` had set the flag; the properties name these
exceptions, and there is no other.
`QuitEnds`: leaving the messenger waits for the receiver, and that ends unless the receiver waits for a peer for ever: in both builds for one that connected and sends nothing or half a
message, with the blocking `accept` also for one to connect. `ConnectingEnds`: no attempt to connect hangs.

Fairness (`FairSpec`). *ClientTable*. The main thread and the monitor are scheduled (`WF` on
`MainStep`, `MonitorStep`); neither waits for a client, the handshake being non-blocking. Time
passes (`WF` on `TimePasses`). A handler is scheduled too, but `ssl_safe_read` and
`ssl_safe_write` repeat a call that would block for as long as the client lets them,
so its fairness is `WF(HandlerStep(c) /\ ~MayStall(c))`: no progress is assumed from a
handler in a read or a write on an open connection. Nothing is assumed about
clients and signals beyond that: `Accept` is part of `MainStep`, and the properties do
not depend on a connection being made.

*Startup*: the main thread is scheduled; nobody need launch or signal. *FormerServer*: the
threads are scheduled, each with weak fairness; `ServerAccepts`, commands, the end of a line (`NothingRead` and the commands) and `Delivers` have none, so a client may be silent, stop in
the middle of a line or refuse to read for ever. *P2PMessenger*: the receiver is scheduled, and so is the main thread once the user has quit; no peer promises anything (`recv` has no time
limit, and any program may connect), and a user may type nothing. *ChatClient*: the event loop delivers the timer's timeouts, a user closes the boxes, and does not
click Connect again within every ten seconds for ever; the network promises nothing.

## 4. What the code does not keep

Nine statements of the repository are refuted. Three have runs of their own (`table_disconnect`, `startup_key`, `p2p_join`), and their
findings in `PROJECT.json` quote the lines; the others are definitions of their modules, and adding one to the `INVARIANTS` of
the module's configuration shows the counterexample (`LoggedInIsPeer` with `MaxPeers` 2, `RowsAreTrue` in `Resources.cfg`):

1. *A connection is rejected because all slots are taken* (`RejectOnlyWhenFull`): slots start
   with `fd` 0, and the search looks for a negative one. Until the monitor's first pass
   every connection is rejected.
2. *A client's handler has a thread of its own* (`OneHandlerPerSlot`): the monitor frees the slot of a
   running handler, and the next client's handler joins the old one there.
3. *A client disconnects normally* (`DisconnectIsHarmless`): the clean-up frees the SSL
   object before it unsets `fd` and `authorized`, so a broadcast in between writes to
   the freed object. Nobody else interferes with a slot in this scenario.
4. *A login adds the client to the P2P network* (`LoggedInIsPeer`): entries are
   never removed, and a full table is ignored.
5. *A logged event is saved* (`RowsAreTrue`): after the ring went round, a slow save
   stores another event or a mixture.
6. *`/msg <user>` sends a private message* (`PrivateToAddressee`): the slot found for a nickname
   is used after a SQL statement, without another look at the nickname.
7. *The database is encrypted* (`KeyIsSet`): the statement that sets the key does not parse, and every start ends at it, with exit status 1. With the statement
   repaired the linked library would ignore it.
8. *The message was sent* (`ReportedWasSent`; "[Sent to %s]", `main.c:61`, "[Encrypted to %s]", `client.c:221`): neither program looks at what `send`
   returned (`network.c:190,191`, `client.c:219`); the message is shown as sent, and `network.c` saves it.
9. *`/join_group` joins an existing group* (`JoinsExisting`): it finds only groups of the local table, which the local user has created and is in.

More divergences were met on the way. In the first pass
over the slots the monitor may close a connection that was given descriptor 0 and belongs to
another slot; a text may reach a client that moved into a slot and has not logged in; and `find_client_by_nick`
compares with `strcmp` what the database compares without case, so that a user
is found only under the spelling it logged in with. In the former server, `private_sent` with "success" is answered also when
nobody was found (server2.c:1343), and a start that fails early leaves `running` set. A login compares as many characters of the token as the client typed
(server.c:1367, 397), so that its first character alone is enough; `IssuedTokenLogsIn` needs that for the 63 of 64 characters `sscanf` keeps. In the Qt client, a timeout whose box was open while the connection
came about aborts the connection, buffered lines of a dead connection can still log in, a window keeps
showing a user the server has dropped, and the text typed is cleared although it was not sent.

`CleanTenancy`, `CrashNeedsReclaim`, `PromptRowsAreTrue`, `StrangersAreNewcomers`, `SessionHasAccount` and `HistoryWasReported` (and `HandlersEnd`, `StopReturns` and `QuitEnds`, with the exceptions they name) are the counterparts that
do hold: they say exactly which interference it takes.

## 5. Proofs

All are invariance or refinement proofs: an inductive invariant `IInv`, one lemma per
action, then one theorem per property.

**AccountsProof** (from `NickAssumption`, `LengthAssumption`, `SlotAssumption`). `OneOwner` is about replies, and
replies come two steps after the table was changed. `IInv` adds that rows
are distinct up to collation (`RowsDistinct`), that what was issued is in the table (`IssuedAreRows`), and that a handler
about to reply has its row (`PendingHasRow`). `IssuedTokenLogsInHolds` rests on the lemma
`ScannedTokenMatches`: whatever `sscanf` keeps of a token is a prefix of it, for every `TokenLength` from 2 on.
`SessionHasAccountHolds` needs to know that a handler which is about to wipe or clear its slot has closed it, unless the slot is shared (`WipedIsClosed`), and
that the account a handler is about to enter exists (part of `PendingHasRow`). For the refinement, an open slot that is not shared has one handler
(`OneHandler`), so that it is still not signed in when `process_login` sets `authorized` (`EnterIsFresh`).
`ImplementsRegistryHolds` is the refinement: `SaveUser` is `Claim`, `Enter` is
`SignIn` (a stutter on a slot that was closed or is shared), `CloseSlot`, `Expire` and `Connect` are `SignOut` or stutter, everything else is a stutter.

**ClientTableProof** (from `TableAssumption`). `CleanTenancy` says that a handler owns its
slot; to be inductive it needs to know what the other two threads are about to write.
`IInv` adds: a connection not yet accepted has left no trace (`Unseen`); the
connection being brought in has no handler, and its slot no other tenant unless tainted
(`Incoming`); an SSL object is in one slot only, the one of its handler (`SslPlaced`); what
a slot without a handler holds was not freed (`LeftSsl`); a connection is at
one descriptor only (`FilePlaced`); the slot the monitor is closing, and the one `global_cleanup` is
cleaning, is nobody's or tainted (`MonitorKnown`, `CleanerKnown`). The results hold for
every number of slots, connections and descriptors.

**ResourcesProof** (from `AuditAssumption`, `RateAssumption`). The audit ring: `EntryIntact` needs to know where an event sits: `EntryPlaced` relates
an entry's index, the counter and the number of events since, so that the next
`RingSize - 1` entries cannot be the same one. `MutexHeld` gives that at most one
entry is half written, `HeadIntact` that what was copied is the event's own.
The rate limit: `SlidingBound` relates lines of three windows, of which the state keeps one. `LinesByWindow` says what is left of
the others: the last `count` lines are of the current window, the lines before them were processed before it began, and those more than
`MaxRate` before them even before the previous window began, which was over more than `Window` ticks ago. A line that begins a window moves the second group
into the third because `count` never passed `MaxRate` (`PlacedLater`). `RefusedOnlyWhenBusyHolds` needs the first part alone.
The crypto provider: while a function runs it holds what its calls so far have got (`Acquired`), so what it holds when it returns follows from the sequence of its
calls. `Sound` (it frees only what it has got, and in the end all but what it promises) and `Tidy` (an error path frees everything) are conditions on that
sequence, proved for each function; the three that are not tidy are the ones `Lossy` names. The rest of the proof does not look at the table, so that a new function costs one line.

**MessagingProof** (from `MessagingAssumption`). The properties are about what was received; the invariant
says what each sender is about to write. `Placed` and `Named` tie clients, slots and nicknames
together; `Numbered` and `OneSender` give every text one sender, so that nobody else's
write changes its count; `Sending`, `Visiting` and `Stored` describe a command halfway; `OwedPresent`
says that whoever is still owed a text is in its slot, and `FoundKnown` that the tenant
of a looked-up slot is the addressee or came after the text.

`ImplementsMailboxHolds` is the refinement: `Connect` is `Come`, `LogIn` is `TakeName`, `Clean` is `Depart`, `Chat`, `Private` and `Encrypt` are `Start`,
`SaveMessage` and its failure are `File`, `WriteFound` is `Hand` if there is a client to write to, and the step that makes a handler idle again is `Finish` (or the
end of that `Hand`); all others stutter, and so does everything that is done with a text of `System`. `IInv` does not say that a
write is the first of its kind. `MInv` does: only a broadcast has been read before it is finished, and its loop is past the slots of its readers (`Fresh`), which a client
that moves into a slot ahead of it does not contradict, having read nothing (`Unread`); and a text gets its one row, or is lost, in its sender's only `save_message` (`Unfiled`).
That the desk is not cleared too early is `EveryoneOnce` of the next state. `ReadOnce` draws the conclusion for the readers: no text twice, and no two
readers of a private or encrypted one.

**FormerServerProof** (from `FormerAssumption`; neither connections nor nicknames need be finite). Most properties here hold although the code takes no lock for
them, and the reasons are in the invariant. `SlotIsHandlers` says that a living handler has its slot, `Owned` that an open slot is a living handler's or that of a connection whose handler could not be created. `LockHeld` says who
holds the mutex at which step; from it `LockDiscipline`, and `StuckForEver`: no step ends a wait of a thread for itself, which is why the monitor and the clean-up never close a slot. `NobodyLeaves` is
the odd one: while the server runs, no client that logged in gets to `disconnect_client`, because a closed connection reads like a
timeout. `LookupStaysTrueHolds` rests on it. `Fresh` describes the time before `start_mesh_server` is past its
initialisation, `FreedLast` the time after. `PeerPerLoginHolds` counts: a login adds one slot to `Online` and one handler to `Joining`, `AddPeer` moves
it from `Joining` to the counter, which is below `NSlots` as long as a handler is on its way; `Joining` is finite because `at` maps it one
to one into the slots (`PeersFinite`). `ImplementsDirectoryHolds` is the refinement: `ServerPlaces` is `Take`, `Login` is `SignOn`, `Disconnect` is
`GiveBack`, `ServerBoot` is `Serve`, `MainStop` and `CleanupBegins` are `Close`, all other steps stutter; it needs `Cleared`, that a free slot has no name.

**StartupProof** (from `StartsAssumption`; any number of launches and tables, either answer to the PRAGMA). `ServesAllTables` is about the end of the loop; `IInv` says
what is true in its middle: the tables the index has passed exist, found or created (`PassedExist`), and the loop begins at the first (`LoopStarts`). A power loss takes tables
away, but it takes the process with them.

**P2PMessengerProof** (from `MessengerAssumption`). `Lifetimes` says where the main thread is while the receiver exists and what
exists at each place; `Counted` that a message becomes a row only in the step that reports it, and that there is room for one in hand; `GroupType` bounds the table.
`join_group` is the identity on every reachable table (`JoinGroupKeeps`), because every group has the local user as its one member (`GroupsAreOfSelf`): this is the reason behind the
violation of `JoinsExisting`, for every sequence of commands.

**ChatClientProof** (from `ClientAssumption`). `TypeOK`, `ConnectingIsTimed` and `WindowShowsUser` are inductive together; the work is in the
stack (`PushKeeps`, `BelowKeeps`) and in `ReadKeeps`, what a suspended `onReadyRead` leaves behind for any buffer.

Only model-checked: the liveness properties (the prover has no ENABLED and no
fairness), and the violations.

## 6. Not modelled

- What the ciphers compute, and the Signal store callbacks that keep nothing: their subject is OpenSSL's and libsignal's.
- The parts of `server.c` without effect on state: statistics, IP reputation, the honeypot,
  anti-debugging, logging to the terminal.
- `validate_nickname`, `validate_message`, `sanitize_input`: pure functions on strings; the constant `Valid` of `Accounts` stands for them.
- Of the former server, the reconnection of the monitor to the database and the wording of replies; of the messenger,
  `send_group_message`, which nothing calls, and the printing of the history.
- `trash/test.c`, a draft of `server.c` with the same parts.
- `meshctl.py`, `brootfrouce.py`, `mesh_tester.py`, `test_client.py`: process control, a text rewriter and two drivers.
- Files generated by CMake.

## 7. Plan

In this order:

1. **Sessions**: the composition of `Accounts` with the slots of `ClientTable` and `Messaging`,
   including two sessions of one nickname, the nickname wiped by an earlier handler, and names compared with and without case.
2. **InputRules**: the three string functions and the token encoding as operators, checked against reference definitions.
3. **Meshctl**: the PID file: stale files, a reused PID, start racing start.

The runs stay few: what a new module promises goes into one passing run, and a
violation gets a run only when it says something that no checked property says.
