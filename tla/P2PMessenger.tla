---------------------------- MODULE P2PMessenger ----------------------------
(***************************************************************************)
(* The terminal messenger of p2p_messenger/: a user-interface thread       *)
(* (run_client), a receiver thread, and the peers that connect to it.      *)
(* Two builds of it exist: "accept" is main.c with network.c, whose        *)
(* receiver blocks in accept; "select" is client.c, whose receiver wakes   *)
(* up every second.  The process may be started again and again; only the  *)
(* message history in messenger.db outlives it.                            *)
(***************************************************************************)
EXTENDS Naturals, Sequences

CONSTANTS
  Self,       \* the user name on the command line
  Names,      \* names a user may type after /msg
  Groups,     \* names a user may type after /create_group and /join_group
  PeerGroups, \* the groups among them that users of other machines have created
  MaxUsers,   \* MAX_USERS, the size of the users, groups and members arrays
  Conns,      \* TCP connections that may exist at once
  None,       \* no connection
  MaxSent     \* bound: messages reported as sent over the whole behaviour

ASSUME MessengerAssumption ==
  /\ Self \in Names /\ PeerGroups \subseteq Groups /\ None \notin Conns
  /\ MaxUsers \in Nat \ {0} /\ MaxSent \in Nat

VARIABLES
  build,       \* which of the two programs this is
  ui,          \* where the main thread is
  rcv,         \* where the receiver thread is
  is_running,  \* state->is_running, read by both threads without a lock
  windows,     \* the curses windows exist
  net,         \* the database handle and the Signal store exist
  port,        \* the receiver listens on the announced port
  users,       \* net->users, names only
  groups,      \* net->groups: name and members
  conn,        \* every connection: what its peer has done so far
  serving,     \* client_fd / new_socket
  own,         \* the socket of a /msg in progress
  lost,        \* a send of the message in hand has failed
  reported,    \* messages the user was told were sent
  sent,        \* messages among them of which every send succeeded
  rows,        \* rows of messages in messenger.db
  turnedAway   \* history: somebody was refused by a group that lacks him

vars == <<build, ui, rcv, is_running, windows, net, port, users, groups, conn,
          serving, own, lost, reported, sent, rows, turnedAway>>
store == <<users, groups>>
wire == <<conn, serving, own>>
history == <<reported, sent, rows>>
tally == <<lost, history, turnedAway>>
memory == <<windows, net>>

Pending == {c \in Conns : conn[c] # "none" /\ c # serving}

\* Types, and the arrays never outgrow MAX_USERS.
TypeOK ==
  /\ build \in {"accept", "select"}
  /\ ui \in {"off", "init", "windows", "input", "connect", "length", "body", "join", "free"}
  /\ rcv \in {"none", "listen", "top", "wait", "recv", "body", "show", "done"}
  /\ is_running \in BOOLEAN /\ windows \in BOOLEAN /\ net \in BOOLEAN /\ port \in BOOLEAN
  /\ users \in Seq({Self}) /\ Len(users) <= MaxUsers
  /\ groups \in Seq([name : Groups, members : Seq({Self})]) /\ Len(groups) <= MaxUsers
  /\ \A i \in DOMAIN groups : Len(groups[i].members) <= MaxUsers
  /\ conn \in [Conns -> {"none", "silent", "length", "whole", "gone"}]
  /\ serving \in Conns \cup {None} /\ own \in Conns \cup {None}
  /\ lost \in BOOLEAN /\ turnedAway \in BOOLEAN
  /\ reported \in 0..MaxSent /\ sent \in 0..MaxSent /\ rows \in 0..MaxSent

Init ==
  /\ build \in {"accept", "select"}
  /\ ui = "off" /\ rcv = "none" /\ is_running = FALSE
  /\ windows = FALSE /\ net = FALSE /\ port = FALSE
  /\ users = <<>> /\ groups = <<>>
  /\ conn = [c \in Conns |-> "none"] /\ serving = None /\ own = None
  /\ lost = FALSE /\ turnedAway = FALSE
  /\ reported = 0 /\ sent = 0 /\ rows = 0

-----------------------------------------------------------------------------
(* The tables of network.c *)

\* add_user: refresh the entry, or append one while there is room.
add_user(us, name) ==
  IF (\E i \in DOMAIN us : us[i] = name) \/ Len(us) >= MaxUsers THEN us ELSE Append(us, name)

find_user(name) == \E i \in DOMAIN users : users[i] = name

\* create_group with an off-by-one in the test of group_count.
CreateGroupOffByOne(gs, name) ==
  IF (\E i \in DOMAIN gs : gs[i].name = name) \/ Len(gs) > MaxUsers
  THEN gs
  ELSE Append(gs, [name |-> name, members |-> <<Self>>])

\* create_group: a new name, room for it; the creator is its first member.
create_group(gs, name) ==
  IF (\E i \in DOMAIN gs : gs[i].name = name) \/ Len(gs) >= MaxUsers
  THEN gs
  ELSE Append(gs, [name |-> name, members |-> <<Self>>])

\* The group of this name that join_group can add user to: one that lacks the
\* user and has room.  A group the user is already in ends the search.
Joinable(gs, name, user) ==
  {i \in DOMAIN gs :
     /\ gs[i].name = name
     /\ \A j \in DOMAIN gs[i].members : gs[i].members[j] # user
     /\ Len(gs[i].members) < MaxUsers}

join_group(gs, name, user) ==
  [i \in DOMAIN gs |->
     IF i \in Joinable(gs, name, user)
     THEN [gs[i] EXCEPT !.members = Append(@, user)]
     ELSE gs[i]]

-----------------------------------------------------------------------------
(* The main thread *)

\* main: zeroed state, init_network, add_user.  (Without a database the process
\* ends here, as if it had not been started.)
Launch ==
  /\ ui = "off" /\ ui' = "init"
  /\ net' = TRUE /\ is_running' = FALSE /\ windows' = FALSE /\ port' = FALSE
  /\ users' = add_user(<<>>, Self) /\ groups' = <<>>
  /\ rcv' = "none"
  /\ UNCHANGED <<build, wire, tally>>

\* run_client: the windows, and (in main.c) the history of every message.
MakeWindows ==
  /\ ui = "init" /\ ui' = "windows" /\ windows' = TRUE
  /\ UNCHANGED <<build, rcv, is_running, net, port, store, wire, tally>>

\* is_running is set before the receiver is created.
StartReceiver ==
  /\ ui = "windows" /\ ui' = "input"
  /\ is_running' = TRUE /\ rcv' = "listen"
  /\ UNCHANGED <<build, memory, port, store, wire, tally>>

\* The loops of both threads look at is_running.  ESC and /quit clear it.
Quit ==
  /\ ui = "input" /\ ui' = "join" /\ is_running' = FALSE
  /\ UNCHANGED <<build, rcv, memory, port, store, wire, tally>>

CreateGroup ==
  /\ ui = "input"
  /\ \E name \in Groups : groups' = create_group(groups, name)
  /\ UNCHANGED <<build, ui, rcv, is_running, memory, port, users, wire, tally>>

\* A group of this name exists, here or on another machine, without the user.
ExistsWithout(name, user) ==
  /\ name \in PeerGroups \cup {groups[i].name : i \in DOMAIN groups}
  /\ \A i \in DOMAIN groups : groups[i].name = name =>
       \A j \in DOMAIN groups[i].members : groups[i].members[j] # user

\* /join_group always joins the local user, and only a group of the local table.
JoinGroup ==
  /\ ui = "input"
  /\ \E name \in Groups :
       /\ groups' = join_group(groups, name, Self)
       /\ turnedAway' = (turnedAway \/ (/\ ExistsWithout(name, Self)
                                       /\ Joinable(groups, name, Self) = {}))
  /\ UNCHANGED <<build, ui, rcv, is_running, memory, port, users, wire, lost, history>>

\* /msg to a known name (to any other, "Failed to send" and no change).
Message ==
  /\ ui = "input" /\ reported < MaxSent
  /\ \E name \in Names : find_user(name)
  /\ ui' = "connect" /\ lost' = FALSE
  /\ UNCHANGED <<build, rcv, is_running, memory, port, store, wire, history, turnedAway>>

\* The other end of the socket of a /msg no longer exists, or is not this program.
Abandoned == own \notin {c \in Conns : conn[c] # "none"}

\* session_builder_process_pre_key_bundle is given a null bundle, and what
\* session_cipher_encrypt leaves behind when it fails is read: the process may die.
\* So it may in a send to a socket that was reset: nothing ignores SIGPIPE.
Dies ==
  /\ \/ build = "accept" /\ ui = "connect"
     \/ (ui = "length" \/ (build = "accept" /\ ui = "body")) /\ Abandoned
  /\ ui' = "off" /\ rcv' = "none" /\ port' = FALSE /\ is_running' = FALSE
  /\ windows' = FALSE /\ net' = FALSE /\ users' = <<>> /\ groups' = <<>>
  /\ conn' = [c \in Conns |-> "none"] /\ serving' = None /\ own' = None
  /\ UNCHANGED <<build, tally>>

\* send_direct_message that saves the message before it has connected.
SavesUnsent ==
  /\ ui = "connect" /\ ui' = "input"
  /\ rows < MaxSent /\ rows' = rows + 1
  /\ UNCHANGED <<build, rcv, is_running, memory, port, store, wire, lost, reported, sent,
                 turnedAway>>

\* socket or connect failed: nothing is written, nothing is saved, "Failed to send".
ConnectFails ==
  /\ ui = "connect" /\ ui' = "input"
  /\ UNCHANGED <<build, rcv, is_running, memory, port, store, wire, tally>>

\* The only known address is this program's own port: the connection reaches its
\* own receiver, or, when that one does not listen there, some other program.
Connects ==
  /\ ui = "connect" /\ ui' = "length"
  /\ \/ /\ port
        /\ \E c \in Conns : /\ conn[c] = "none"
                            /\ conn' = [conn EXCEPT ![c] = "silent"]
                            /\ own' = c
     \/ ~port /\ UNCHANGED <<conn, own>>
  /\ UNCHANGED <<build, rcv, is_running, memory, port, store, serving, tally>>

\* The first send: the length in network.c, the message itself in client.c.  Its
\* result is not looked at.
SendFirst ==
  /\ ui = "length" /\ ui' = "body"
  /\ \/ /\ UNCHANGED lost
        /\ IF Abandoned
           THEN UNCHANGED conn
           ELSE conn' = [conn EXCEPT ![own] = IF build = "accept" THEN "length" ELSE "whole"]
     \/ lost' = TRUE /\ UNCHANGED conn
  /\ UNCHANGED <<build, rcv, is_running, memory, port, store, serving, own, history, turnedAway>>

\* save_message of network.c: a row, unless its statement fails.
save_message == IF build = "accept" THEN rows' \in {rows, rows + 1} ELSE UNCHANGED rows

\* network.c sends the rest, without looking at the result either, closes and
\* saves the message; client.c only closes.  Both say that the message was sent.
SendRest ==
  /\ ui = "body" /\ ui' = "input" /\ own' = None
  /\ lost' \in IF build = "accept" THEN {lost, TRUE} ELSE {lost}
  /\ IF Abandoned
     THEN UNCHANGED conn
     ELSE conn' = [conn EXCEPT ![own] = IF lost' THEN "gone" ELSE "whole"]
  /\ reported' = reported + 1
  /\ sent' = IF lost' THEN sent ELSE sent + 1
  /\ save_message
  /\ UNCHANGED <<build, rcv, is_running, memory, port, store, serving, turnedAway>>

\* run_client that leaves the receiver running.
LeavesWithoutJoin ==
  /\ ui = "join"
  /\ ui' = "free" /\ windows' = FALSE
  /\ UNCHANGED <<build, rcv, is_running, net, port, store, wire, tally>>

\* pthread_join, then delwin and endwin.
JoinReceiver ==
  /\ ui = "join" /\ rcv = "done"
  /\ ui' = "free" /\ windows' = FALSE
  /\ UNCHANGED <<build, rcv, is_running, net, port, store, wire, tally>>

\* cleanup_network and the end of the process.
cleanup_network ==
  /\ ui = "free" /\ ui' = "off"
  /\ net' = FALSE /\ users' = <<>> /\ groups' = <<>>
  /\ conn' = [c \in Conns |-> "none"]
  /\ UNCHANGED <<build, rcv, is_running, windows, port, serving, own, tally>>

-----------------------------------------------------------------------------
(* The receiver thread *)

KeepOthers == UNCHANGED <<build, ui, is_running, memory, store, own, tally>>

\* bind and listen.  network.c ignores a failed bind, and listen then picks some
\* other port; client.c gives up, and the user is not told.
Listen ==
  /\ rcv = "listen"
  /\ \/ port' = TRUE /\ rcv' = "top"
     \/ build = "accept" /\ port' = FALSE /\ rcv' = "top"
     \/ build = "select" /\ port' = FALSE /\ rcv' = "done"
  /\ UNCHANGED <<conn, serving>> /\ KeepOthers

\* while (is_running); the listening socket is closed on the way out.
LoopTop ==
  /\ rcv = "top"
  /\ IF is_running
     THEN rcv' = "wait" /\ UNCHANGED <<port, conn>>
     ELSE rcv' = "done" /\ port' = FALSE /\ conn' = [c \in Conns |-> "none"]
  /\ UNCHANGED serving /\ KeepOthers

Accept ==
  /\ rcv = "wait" /\ rcv' = "recv"
  /\ \E c \in Pending : serving' = c
  /\ UNCHANGED <<port, conn>> /\ KeepOthers

\* accept reports an error for the connection that was waiting.
AcceptFails ==
  /\ rcv = "wait" /\ Pending # {} /\ rcv' = "top"
  /\ UNCHANGED <<port, conn, serving>> /\ KeepOthers

\* A select without a time limit.
SelectForever ==
  /\ build = "select" /\ rcv = "wait" /\ Pending # {} /\ rcv' = "top"
  /\ UNCHANGED <<port, conn, serving>> /\ KeepOthers

\* The second of select has passed without a connection.
SelectTimesOut ==
  /\ build = "select" /\ rcv = "wait" /\ rcv' = "top"
  /\ UNCHANGED <<port, conn, serving>> /\ KeepOthers

CloseServed ==
  /\ conn' = [conn EXCEPT ![serving] = "none"] /\ serving' = None
  /\ rcv' = "top"

\* network.c, the length: recv waits for the peer.  When the peer has closed, or
\* sent a length of its own choice, msg_len may hold any value.
ReceiveLength ==
  /\ build = "accept" /\ rcv = "recv" /\ conn[serving] # "silent"
  /\ \/ rcv' = "body" /\ UNCHANGED <<conn, serving>>
     \/ CloseServed
  /\ UNCHANGED port /\ KeepOthers

\* network.c, the body: recv, then a decryption with net.store that may fail.
ReceiveBody ==
  /\ build = "accept" /\ rcv = "body" /\ conn[serving] \in {"whole", "gone"}
  /\ \/ rcv' = "show" /\ UNCHANGED <<conn, serving>>
     \/ CloseServed
  /\ UNCHANGED port /\ KeepOthers

\* client.c: one recv of the whole structure; whatever came, if its type is 1.
ReceiveMessage ==
  /\ build = "select" /\ rcv = "recv" /\ conn[serving] # "silent"
  /\ \/ conn[serving] # "gone" /\ rcv' = "show" /\ UNCHANGED <<conn, serving>>
     \/ CloseServed
  /\ UNCHANGED port /\ KeepOthers

\* wprintw and wrefresh on chat_win, then close.
Show ==
  /\ rcv = "show" /\ CloseServed
  /\ UNCHANGED port /\ KeepOthers

-----------------------------------------------------------------------------
(* Peers: the same program elsewhere, which connects, sends and closes *)

KeepProgram ==
  UNCHANGED <<build, ui, rcv, is_running, memory, port, store, serving, own, tally>>

PeerConnects ==
  /\ port
  /\ \E c \in Conns \ {own} : conn[c] = "none" /\ conn' = [conn EXCEPT ![c] = "silent"]
  /\ KeepProgram

PeerSends(c) ==
  /\ c # own
  /\ \/ conn[c] = "silent" /\ conn' = [conn EXCEPT ![c] = IF build = "accept" THEN "length" ELSE "whole"]
     \/ conn[c] = "length" /\ conn' = [conn EXCEPT ![c] = "whole"]
  /\ KeepProgram

\* A peer that stops before it has sent everything.
PeerCloses(c) ==
  /\ c # own /\ conn[c] \in {"silent", "length"}
  /\ conn' = [conn EXCEPT ![c] = "gone"]
  /\ KeepProgram

-----------------------------------------------------------------------------
Sending == Connects \/ ConnectFails \/ SendFirst \/ SendRest
Leaving == JoinReceiver \/ cleanup_network
UIStep == Launch \/ MakeWindows \/ StartReceiver \/ Quit \/ CreateGroup \/ JoinGroup
          \/ Message \/ Dies \/ Sending \/ Leaving
ReceiverStep == Listen \/ LoopTop \/ Accept \/ AcceptFails \/ SelectTimesOut
                \/ ReceiveLength \/ ReceiveBody \/ ReceiveMessage \/ Show
PeerStep(c) == PeerSends(c) \/ PeerCloses(c)

Next == UIStep \/ ReceiverStep \/ PeerConnects \/ \E c \in Conns : PeerStep(c)

Spec == Init /\ [][Next]_vars

\* Both threads are scheduled.  A user may type anything or nothing, and a peer,
\* which may be any program, may keep silent: no recv has a time limit.
FairSpec == Spec /\ WF_vars(ReceiverStep) /\ WF_vars(Leaving)

-----------------------------------------------------------------------------
\* As long as the receiver thread exists it may write to chat_win and decrypt
\* with net.store: neither is freed before run_client has joined it.
ReceiverHasMemory == rcv \notin {"none", "done"} => windows /\ net

\* A message the user was told had failed is not in the history: save_message
\* comes after the last error return of send_direct_message, in every order of
\* failures, crashes and restarts.  (The opposite, that the message was sent, is
\* not so: see ReportedWasSent.)
HistoryWasReported == rows <= reported

\* "[Sent to %s]" of main.c and "[Encrypted to %s]" of client.c appear for
\* messages that were sent.  Does not hold: neither program looks at what send
\* returned.
ReportedWasSent == reported <= sent

\* "/join_group <name> - Join existing group": a user who is not in an existing
\* group is not refused.  Does not hold: the only groups in the table are those
\* the local user created, and he is in all of them.
JoinsExisting == ~turnedAway

\* The receiver waits in accept or recv for something a peer has not done.
WaitsForPeer ==
  \/ build = "accept" /\ rcv = "wait" /\ Pending = {}
  \/ rcv = "recv" /\ conn[serving] = "silent"
  \/ rcv = "body" /\ conn[serving] = "length"

\* A user who quits gets the terminal back, unless the receiver waits for a peer
\* for ever: with select only for one that connected and says nothing, with the
\* blocking accept also for one to connect.
QuitEnds == (ui = "join") ~> (ui = "off" \/ []WaitsForPeer)
=============================================================================
