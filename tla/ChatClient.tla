----------------------------- MODULE ChatClient -----------------------------
(***************************************************************************)
(* The Qt client (assets/chatclient.cpp, assets/mainwindow.cpp): one       *)
(* thread, one event loop.  What makes it hard is that every message box   *)
(* runs an event loop of its own inside the slot that opened it: socket    *)
(* and timer events are handled there, and the slot goes on with what it   *)
(* had in hand once the box is closed.  frames is that stack of slots.     *)
(* While a box is open the window takes no clicks.                         *)
(***************************************************************************)
EXTENDS Naturals, Sequences

CONSTANTS
  Nicks,      \* nicknames
  None,       \* the empty QString
  MaxBoxes,   \* bound: message boxes open at once
  MaxLines    \* bound: lines in the read buffer

ASSUME ClientAssumption ==
  /\ None \notin Nicks
  /\ MaxBoxes \in Nat \ {0} /\ MaxLines \in Nat \ {0}

VARIABLES
  sock,         \* m_socket->state()
  encrypted,    \* the TLS handshake is over
  closeLater,   \* the socket was told to close before it could
  timer,        \* m_timeoutTimer is active; it fires every ten seconds
  loggedIn,     \* m_loggedIn
  nick,         \* m_nick
  currentUser,  \* MainWindow::m_currentUser
  status,       \* what the status label says
  lines,        \* lines received and not read yet
  frames        \* slots waiting for their message box, innermost last

vars == <<sock, encrypted, closeLater, timer, loggedIn, nick, currentUser, status, lines, frames>>
link == <<sock, encrypted, closeLater>>
session == <<loggedIn, nick>>
window == <<currentUser, status>>

\* Lines by what the client does with them: a login, any other line whose slot
\* opens a box (register, online, help, p2p_initiated, a refusal), and the lines
\* that are appended to the chat area or ignored.
Lines == [type : {"login"}, nick : Nicks] \cup [type : {"boxed", "quiet"}]

\* Slots that may wait for a box: one with nothing left to do, onError, onTimeout,
\* onReadyRead.
Slots == {"notice", "error", "timeout", "read"}

\* Types of the state.
TypeOK ==
  /\ sock \in {"unconnected", "connecting", "connected", "closing"}
  /\ encrypted \in BOOLEAN /\ closeLater \in BOOLEAN
  /\ timer \in BOOLEAN /\ loggedIn \in BOOLEAN
  /\ nick \in Nicks \cup {None} /\ currentUser \in Nicks \cup {None}
  /\ status \in {"", "connecting", "disconnected", "loggedIn"}
  /\ lines \in Seq(Lines) /\ Len(lines) <= MaxLines
  /\ frames \in Seq(Slots) /\ Len(frames) <= MaxBoxes

Init ==
  /\ sock = "unconnected" /\ encrypted = FALSE /\ closeLater = FALSE
  /\ timer = FALSE /\ loggedIn = FALSE /\ nick = None
  /\ currentUser = None /\ status = "" /\ lines = <<>> /\ frames = <<>>

-----------------------------------------------------------------------------
(* Message boxes *)

Room == Len(frames) < MaxBoxes
Opens(slot) == Room /\ frames' = Append(frames, slot)
Idle == frames = <<>>

\* onReadyRead is on the stack: Qt does not emit readyRead again below it.
Reading == \E i \in DOMAIN frames : frames[i] = "read"

-----------------------------------------------------------------------------
(* QSslSocket *)

\* disconnectFromHost: a socket that is still connecting stays so and closes once
\* it is through; a connected one begins to close.
disconnectFromHost ==
  CASE sock = "unconnected" -> UNCHANGED link
    [] sock = "connecting" -> closeLater' = TRUE /\ UNCHANGED <<sock, encrypted>>
    [] sock = "connected" -> sock' = "closing" /\ UNCHANGED <<encrypted, closeLater>>
    [] sock = "closing" -> UNCHANGED link

\* abort: at once, and the read buffer with it.
abort ==
  /\ sock' = "unconnected" /\ encrypted' = FALSE /\ closeLater' = FALSE
  /\ lines' = <<>>

-----------------------------------------------------------------------------
(* Clicks: only while no box is open *)

\* onConnectClicked and connectToServer.  connectToHostEncrypted does nothing on a
\* socket that is not unconnected; the timer is started anew in every case, with its
\* ten seconds, so that clicks in quick succession put the timeout off.
onConnectClicked ==
  /\ Idle
  /\ IF sock = "unconnected"
     THEN sock' = "connecting" /\ encrypted' = FALSE /\ closeLater' = FALSE /\ lines' = <<>>
     ELSE UNCHANGED <<link, lines>>
  /\ timer' = TRUE /\ status' = "connecting"
  /\ UNCHANGED <<session, currentUser, frames>>

\* disconnectFromServer that forgets to log out.
ForgetsToLogOut == UNCHANGED session

\* disconnectFromServer, the session.
logOut == loggedIn' = FALSE /\ nick' = None

\* disconnectFromServer that also stops the timer, whatever the socket does.
DisconnectStopsTimer ==
  /\ Idle
  /\ disconnectFromHost /\ logOut
  /\ status' = "disconnected" /\ currentUser' = None /\ timer' = FALSE
  /\ UNCHANGED <<lines, frames>>

\* onDisconnectClicked and disconnectFromServer: the timer is left alone.
onDisconnectClicked ==
  /\ Idle
  /\ disconnectFromHost /\ logOut
  /\ status' = "disconnected" /\ currentUser' = None
  /\ UNCHANGED <<timer, lines, frames>>

\* Register, Login, Send, Private, Encrypted, Online, Help, P2P with a field left
\* empty: a box says so.
EmptyField ==
  /\ Idle /\ Opens("notice")
  /\ UNCHANGED <<link, timer, session, window, lines>>

\* The same with their fields filled in: on a connected socket the command is
\* written (the server may answer, see LinesArrive); on any other a box says so,
\* and the text typed is cleared in both cases.
NotConnected ==
  /\ Idle /\ sock # "connected" /\ Opens("notice")
  /\ UNCHANGED <<link, timer, session, window, lines>>

-----------------------------------------------------------------------------
(* Socket and timer events, handled by the innermost event loop *)

\* The TCP connection stands: onConnected, and its box.
onConnected ==
  /\ sock = "connecting"
  /\ sock' = "connected" /\ timer' = FALSE
  /\ Opens("notice")
  /\ UNCHANGED <<encrypted, closeLater, session, window, lines>>

\* The handshake is over; a close asked for meanwhile is carried out.
Encrypted ==
  /\ sock = "connected" /\ ~encrypted
  /\ encrypted' = TRUE /\ closeLater' = FALSE
  /\ sock' = IF closeLater THEN "closing" ELSE "connected"
  /\ UNCHANGED <<timer, session, window, lines, frames>>

\* onError of an attempt that failed: the socket is unconnected again, the timer
\* is stopped, a box is opened; disconnectFromHost follows in Resume.
ConnectFails ==
  /\ sock = "connecting"
  /\ sock' = "unconnected" /\ closeLater' = FALSE
  /\ timer' = FALSE /\ Opens("error")
  /\ UNCHANGED <<encrypted, session, window, lines>>

\* onError on a connection: the handshake failed or the server closed it.
ConnectionFails ==
  /\ sock \in {"connected", "closing"}
  /\ timer' = FALSE /\ Opens("error")
  /\ UNCHANGED <<link, session, window, lines>>

\* onDisconnected, and its box.  What was received stays readable.
onDisconnected ==
  /\ sock = "closing"
  /\ sock' = "unconnected" /\ encrypted' = FALSE /\ closeLater' = FALSE
  /\ logOut
  /\ Opens("notice")
  /\ UNCHANGED <<timer, window, lines>>

\* onReadyRead over the lines in, called from the slots in below: up to the first
\* line that opens a box.  The window's slot runs within the emit.
onReadyRead(in, below) ==
  LET loud == {i \in DOMAIN in : in[i].type # "quiet"} IN
  IF loud = {}
  THEN lines' = <<>> /\ frames' = below /\ UNCHANGED <<session, window>>
  ELSE \E i \in loud :
    /\ \A j \in loud : i <= j
    /\ lines' = SubSeq(in, i + 1, Len(in))
    /\ frames' = Append(below, "read")
    /\ IF in[i].type = "login"
       THEN nick' = in[i].nick /\ loggedIn' = TRUE /\ currentUser' = in[i].nick /\ status' = "loggedIn"
       ELSE UNCHANGED <<session, window>>

\* The server sends lines, several in one go perhaps.  Below an onReadyRead that
\* waits for a box they stay in the buffer.
LinesArrive ==
  /\ sock \in {"connected", "closing"} /\ encrypted /\ Room
  /\ \E n \in 1..(MaxLines - Len(lines)) : \E batch \in [1..n -> Lines] :
       IF Reading
       THEN lines' = lines \o batch /\ UNCHANGED <<session, window, frames>>
       ELSE onReadyRead(lines \o batch, frames)
  /\ UNCHANGED <<link, timer>>

\* onTimeout: the state is tested here, abort follows in Resume.  On a connected
\* socket the timeout is without effect.
onTimeout ==
  /\ timer /\ sock # "connected"
  /\ Opens("timeout")
  /\ UNCHANGED <<link, timer, session, window, lines>>

-----------------------------------------------------------------------------
(* The user closes the innermost box and the slot below it goes on *)

Below == SubSeq(frames, 1, Len(frames) - 1)

\* Slots that had nothing left to do.
ResumeNotice ==
  /\ frames # <<>> /\ frames[Len(frames)] = "notice"
  /\ frames' = Below
  /\ UNCHANGED <<link, timer, session, window, lines>>

\* onError ends with disconnectFromHost.
ResumeError ==
  /\ frames # <<>> /\ frames[Len(frames)] = "error"
  /\ frames' = Below /\ disconnectFromHost
  /\ UNCHANGED <<timer, session, window, lines>>

\* onTimeout that only reports.
TimeoutReports ==
  /\ frames # <<>> /\ frames[Len(frames)] = "timeout"
  /\ frames' = Below
  /\ UNCHANGED <<link, timer, session, window, lines>>

\* onTimeout ends with abort, whatever has become of the socket meanwhile; a socket
\* that was connected or closing then also emits disconnected.
ResumeTimeout ==
  /\ frames # <<>> /\ frames[Len(frames)] = "timeout"
  /\ abort
  /\ IF sock \in {"connected", "closing"}
     THEN logOut /\ frames' = Append(Below, "notice")
     ELSE UNCHANGED session /\ frames' = Below
  /\ UNCHANGED <<timer, window>>

\* onReadyRead goes on with the lines that are left, even of a dead connection.
ResumeRead ==
  /\ frames # <<>> /\ frames[Len(frames)] = "read"
  /\ onReadyRead(lines, Below)
  /\ UNCHANGED <<link, timer>>

-----------------------------------------------------------------------------
Resume == ResumeNotice \/ ResumeError \/ ResumeTimeout \/ ResumeRead
Clicks == onConnectClicked \/ onDisconnectClicked \/ EmptyField \/ NotConnected
Events == onConnected \/ Encrypted \/ ConnectFails \/ ConnectionFails \/ onDisconnected
          \/ LinesArrive \/ onTimeout

Next == Clicks \/ Events \/ Resume

Spec == Init /\ [][Next]_vars

\* The event loop delivers the timer's timeouts and a user closes the boxes and does
\* not click Connect for ever before ten seconds are over; the network promises
\* nothing.
FairSpec == Spec /\ WF_vars(onTimeout) /\ WF_vars(Resume)

-----------------------------------------------------------------------------
\* A connection attempt is never left without a limit: the timer runs as long as
\* the socket is connecting, whatever boxes are open and whatever was clicked.
ConnectingIsTimed == sock = "connecting" => timer

\* The client and its window agree on who is logged in: when ChatClient says that
\* someone is, MainWindow shows that nickname.  (The converse does not hold: the
\* window keeps showing a user the server has dropped.)
WindowShowsUser == loggedIn => currentUser = nick /\ nick # None

\* No attempt to connect hangs: it succeeds, fails or is aborted.
ConnectingEnds == sock = "connecting" ~> sock # "connecting"
=============================================================================
