--------------------------- MODULE ChatClientProof ---------------------------
(***************************************************************************)
(* For any number of nested message boxes and buffered lines: an attempt   *)
(* to connect is always timed, and window and client agree on the user.    *)
(***************************************************************************)
EXTENDS ChatClient, SequenceTheorems, TLAPS

IInv == TypeOK /\ ConnectingIsTimed /\ WindowShowsUser

LEMMA Bounds == MaxBoxes \in Nat /\ MaxLines \in Nat /\ MaxBoxes > 0 /\ MaxLines > 0
BY ClientAssumption DEF ClientAssumption

\* The empty sequence is within every bound.
LEMMA EmptyFits ==
  /\ <<>> \in Seq(Lines) /\ Len(<<>>) <= MaxLines
  /\ <<>> \in Seq(Slots) /\ Len(<<>>) <= MaxBoxes
<1>1. Len(<<>>) = 0
  OBVIOUS
<1> QED BY <1>1, Bounds

LEMMA InitOK == Init => IInv
<1> SUFFICES ASSUME Init PROVE IInv
  OBVIOUS
<1>1. TypeOK
  BY EmptyFits DEF Init, TypeOK
<1> QED BY <1>1 DEF Init, IInv, ConnectingIsTimed, WindowShowsUser

-----------------------------------------------------------------------------
(* The stack of slots and the buffer *)

LEMMA PushKeeps ==
  ASSUME TypeOK, NEW slot \in Slots, Opens(slot)
  PROVE  frames' \in Seq(Slots) /\ Len(frames') <= MaxBoxes
<1>1. frames \in Seq(Slots) /\ Len(frames) < MaxBoxes /\ frames' = Append(frames, slot)
  BY DEF TypeOK, Opens, Room
<1> QED BY <1>1, Bounds

LEMMA BelowKeeps ==
  ASSUME TypeOK, frames # <<>>
  PROVE  Below \in Seq(Slots) /\ Len(Below) = Len(frames) - 1 /\ Len(Below) < MaxBoxes
<1>1. frames \in Seq(Slots) /\ Len(frames) <= MaxBoxes
  BY DEF TypeOK
<1>2. Len(frames) \in Nat /\ Len(frames) > 0
  BY <1>1
<1> DEFINE last == Len(frames) - 1
<1>3. last \in Int /\ 1 \in Int /\ \A i \in 1..last : frames[i] \in Slots
  BY <1>1, <1>2
<1>4. /\ Below \in Seq(Slots)
      /\ Len(Below) = IF 1 <= last THEN last - 1 + 1 ELSE 0
  BY <1>3, SubSeqProperties DEF Below
<1>5. Len(Below) = last
  <2> HIDE DEF last
  <2>1. last >= 0
    BY <1>2 DEF last
  <2>2. CASE 1 <= last
    BY <1>3, <1>4, <2>2
  <2>3. CASE last = 0
    BY <1>4, <2>3
  <2> QED BY <1>3, <2>1, <2>2, <2>3
<1>6. last < MaxBoxes
  BY <1>1, <1>2, Bounds
<1> QED BY <1>4, <1>5, <1>6

\* What onReadyRead leaves behind: at most one more slot, a shorter buffer, and a
\* session that is the old one or the one of a nickname it has just shown.
LEMMA ReadKeeps ==
  ASSUME NEW in \in Seq(Lines), NEW below \in Seq(Slots), Len(in) <= MaxLines,
         Len(below) < MaxBoxes, onReadyRead(in, below)
  PROVE  /\ lines' \in Seq(Lines) /\ Len(lines') <= MaxLines
         /\ frames' \in Seq(Slots) /\ Len(frames') <= MaxBoxes
         /\ \/ UNCHANGED <<session, window>>
            \/ /\ nick' \in Nicks /\ currentUser' = nick'
               /\ loggedIn' = TRUE /\ status' = "loggedIn"
<1> DEFINE loud == {i \in DOMAIN in : in[i].type # "quiet"}
<1>1. CASE loud = {}
  <2>1. lines' = <<>> /\ frames' = below /\ UNCHANGED <<session, window>>
    BY <1>1 DEF onReadyRead
  <2> QED BY <2>1, ClientAssumption DEF ClientAssumption
<1>2. CASE loud # {}
  <2>1. PICK i \in loud :
          /\ lines' = SubSeq(in, i + 1, Len(in))
          /\ frames' = Append(below, "read")
          /\ IF in[i].type = "login"
             THEN nick' = in[i].nick /\ loggedIn' = TRUE /\ currentUser' = in[i].nick /\ status' = "loggedIn"
             ELSE UNCHANGED <<session, window>>
    BY <1>2 DEF onReadyRead
  <2>2. i \in 1..Len(in) /\ in[i] \in Lines
    OBVIOUS
  <2>3. lines' \in Seq(Lines) /\ Len(lines') <= MaxLines
    BY <2>1, <2>2, ClientAssumption DEF ClientAssumption
  <2>4. frames' \in Seq(Slots) /\ Len(frames') <= MaxBoxes
    BY <2>1, ClientAssumption DEF ClientAssumption, Slots
  <2>5. in[i].type = "login" => in[i].nick \in Nicks
    BY <2>2 DEF Lines
  <2> QED BY <2>1, <2>3, <2>4, <2>5
<1> QED BY <1>1, <1>2

-----------------------------------------------------------------------------
(* The steps *)

LEMMA ConnectOK == IInv /\ onConnectClicked => IInv'
<1> SUFFICES ASSUME IInv, onConnectClicked PROVE IInv'
  OBVIOUS
<1>1. lines' \in Seq(Lines) /\ Len(lines') <= MaxLines
  <2>1. CASE lines' = <<>>
    BY <2>1, EmptyFits
  <2>2. CASE lines' = lines
    BY <2>2 DEF IInv, TypeOK
  <2> QED BY <2>1, <2>2 DEF onConnectClicked
<1>2. TypeOK'
  BY <1>1 DEF IInv, TypeOK, onConnectClicked, link, session
<1> QED BY <1>2 DEF IInv, ConnectingIsTimed, WindowShowsUser, onConnectClicked, session

LEMMA DisconnectOK == IInv /\ onDisconnectClicked => IInv'
<1> SUFFICES ASSUME IInv, onDisconnectClicked PROVE IInv'
  OBVIOUS
<1>1. /\ sock' \in {"unconnected", "connecting", "connected", "closing"}
      /\ closeLater' \in BOOLEAN /\ encrypted' = encrypted
      /\ sock' = "connecting" => sock = "connecting"
  BY DEF IInv, TypeOK, onDisconnectClicked, disconnectFromHost, link
<1>2. TypeOK'
  BY <1>1 DEF IInv, TypeOK, onDisconnectClicked, logOut
<1>3. ConnectingIsTimed'
  BY <1>1 DEF IInv, ConnectingIsTimed, onDisconnectClicked
<1>4. WindowShowsUser'
  BY DEF WindowShowsUser, onDisconnectClicked, logOut
<1> QED BY <1>2, <1>3, <1>4 DEF IInv

\* The steps that do no more than open a box.
LEMMA BoxOK == IInv /\ (EmptyField \/ NotConnected \/ onTimeout) => IInv'
<1> SUFFICES ASSUME IInv, EmptyField \/ NotConnected \/ onTimeout PROVE IInv'
  OBVIOUS
<1>1. /\ Opens("notice") \/ Opens("timeout")
      /\ UNCHANGED <<link, timer, session, window, lines>>
  BY DEF EmptyField, NotConnected, onTimeout
<1>2. frames' \in Seq(Slots) /\ Len(frames') <= MaxBoxes
  BY <1>1, PushKeeps DEF IInv, Slots
<1> QED BY <1>1, <1>2 DEF IInv, TypeOK, ConnectingIsTimed, WindowShowsUser, link, session, window

LEMMA SocketOK == IInv /\ (onConnected \/ ConnectFails \/ ConnectionFails) => IInv'
<1> SUFFICES ASSUME IInv, onConnected \/ ConnectFails \/ ConnectionFails PROVE IInv'
  OBVIOUS
<1>1. /\ Opens("notice") \/ Opens("error")
      /\ UNCHANGED <<encrypted, session, window, lines>>
      /\ sock' \in {"unconnected", "connected", "closing"}
      /\ closeLater' \in BOOLEAN /\ timer' = FALSE
  BY DEF IInv, TypeOK, onConnected, ConnectFails, ConnectionFails, link
<1>2. frames' \in Seq(Slots) /\ Len(frames') <= MaxBoxes
  BY <1>1, PushKeeps DEF IInv, Slots
<1> QED BY <1>1, <1>2 DEF IInv, TypeOK, ConnectingIsTimed, WindowShowsUser, session, window

LEMMA EncryptedOK == IInv /\ Encrypted => IInv'
<1> SUFFICES ASSUME IInv, Encrypted PROVE IInv'
  OBVIOUS
<1>1. /\ sock' \in {"connected", "closing"} /\ encrypted' = TRUE /\ closeLater' = FALSE
      /\ UNCHANGED <<timer, session, window, lines, frames>>
  BY DEF Encrypted
<1>2. TypeOK'
  BY <1>1 DEF IInv, TypeOK, session, window
<1>3. ConnectingIsTimed' /\ WindowShowsUser'
  BY <1>1 DEF IInv, ConnectingIsTimed, WindowShowsUser, session, window
<1> QED BY <1>2, <1>3 DEF IInv

LEMMA DisconnectedOK == IInv /\ onDisconnected => IInv'
<1> SUFFICES ASSUME IInv, onDisconnected PROVE IInv'
  OBVIOUS
<1>1. frames' \in Seq(Slots) /\ Len(frames') <= MaxBoxes
  BY PushKeeps DEF IInv, Slots, onDisconnected
<1> QED BY <1>1 DEF IInv, TypeOK, ConnectingIsTimed, WindowShowsUser, onDisconnected, logOut,
           window

\* The invariant after onReadyRead, wherever it was called from.
LEMMA ReadOK ==
  ASSUME IInv, NEW in \in Seq(Lines), NEW below \in Seq(Slots), Len(in) <= MaxLines,
         Len(below) < MaxBoxes, onReadyRead(in, below), UNCHANGED <<link, timer>>
  PROVE  IInv'
<1>1. /\ lines' \in Seq(Lines) /\ Len(lines') <= MaxLines
      /\ frames' \in Seq(Slots) /\ Len(frames') <= MaxBoxes
      /\ \/ UNCHANGED <<session, window>>
         \/ /\ nick' \in Nicks /\ currentUser' = nick'
            /\ loggedIn' = TRUE /\ status' = "loggedIn"
  BY ReadKeeps
<1>2. CASE UNCHANGED <<session, window>>
  BY <1>1, <1>2 DEF IInv, TypeOK, ConnectingIsTimed, WindowShowsUser, link, session, window
<1>3. CASE /\ nick' \in Nicks /\ currentUser' = nick'
           /\ loggedIn' = TRUE /\ status' = "loggedIn"
  BY <1>1, <1>3, ClientAssumption DEF IInv, TypeOK, ConnectingIsTimed, WindowShowsUser, link,
     ClientAssumption
<1> QED BY <1>1, <1>2, <1>3

LEMMA ArriveOK == IInv /\ LinesArrive => IInv'
<1> SUFFICES ASSUME IInv, LinesArrive PROVE IInv'
  OBVIOUS
<1>0. PICK n \in 1..(MaxLines - Len(lines)) : \E batch \in [1..n -> Lines] :
        IF Reading
        THEN lines' = lines \o batch /\ UNCHANGED <<session, window, frames>>
        ELSE onReadyRead(lines \o batch, frames)
  BY DEF LinesArrive
<1>1. PICK batch \in [1..n -> Lines] :
        IF Reading
        THEN lines' = lines \o batch /\ UNCHANGED <<session, window, frames>>
        ELSE onReadyRead(lines \o batch, frames)
  BY <1>0
<1>2. lines \in Seq(Lines) /\ Len(lines) \in Nat /\ Len(lines) <= MaxLines /\ MaxLines \in Nat
  <2>1. lines \in Seq(Lines) /\ Len(lines) <= MaxLines
    BY DEF IInv, TypeOK
  <2> QED BY <2>1, Bounds
<1>3. batch \in Seq(Lines) /\ Len(batch) = n
  BY <1>2
<1>4. lines \o batch \in Seq(Lines) /\ Len(lines \o batch) <= MaxLines
  BY <1>2, <1>3
<1>5. frames \in Seq(Slots) /\ Len(frames) < MaxBoxes /\ UNCHANGED <<link, timer>>
  BY DEF IInv, TypeOK, Slots, LinesArrive, Room
<1>6. CASE Reading
  BY <1>1, <1>4, <1>5, <1>6 DEF IInv, TypeOK, ConnectingIsTimed, WindowShowsUser, link,
     session, window
<1>7. CASE ~Reading
  BY <1>1, <1>4, <1>5, <1>7, ReadOK
<1> QED BY <1>6, <1>7

LEMMA ResumeNoticeOK == IInv /\ ResumeNotice => IInv'
<1> SUFFICES ASSUME IInv, ResumeNotice PROVE IInv'
  OBVIOUS
<1>1. frames' \in Seq(Slots) /\ Len(frames') <= MaxBoxes
  BY BelowKeeps, ClientAssumption DEF IInv, ResumeNotice, ClientAssumption
<1> QED BY <1>1 DEF IInv, TypeOK, ConnectingIsTimed, WindowShowsUser, ResumeNotice, link,
           session, window

LEMMA ResumeErrorOK == IInv /\ ResumeError => IInv'
<1> SUFFICES ASSUME IInv, ResumeError PROVE IInv'
  OBVIOUS
<1>1. frames' \in Seq(Slots) /\ Len(frames') <= MaxBoxes
  BY BelowKeeps, ClientAssumption DEF IInv, ResumeError, ClientAssumption
<1>2. /\ sock' \in {"unconnected", "connecting", "connected", "closing"}
      /\ closeLater' \in BOOLEAN /\ encrypted' = encrypted
      /\ sock' = "connecting" => sock = "connecting"
  BY DEF IInv, TypeOK, ResumeError, disconnectFromHost, link
<1> QED BY <1>1, <1>2 DEF IInv, TypeOK, ConnectingIsTimed, WindowShowsUser, ResumeError,
           session, window

LEMMA ResumeTimeoutOK == IInv /\ ResumeTimeout => IInv'
<1> SUFFICES ASSUME IInv, ResumeTimeout PROVE IInv'
  OBVIOUS
<1>1. frames' \in Seq(Slots) /\ Len(frames') <= MaxBoxes
  BY BelowKeeps, ClientAssumption DEF IInv, ResumeTimeout, ClientAssumption, Slots
<1>2. lines' \in Seq(Lines) /\ Len(lines') <= MaxLines
  BY EmptyFits DEF ResumeTimeout, abort
<1>3. (loggedIn' = FALSE /\ nick' = None) \/ UNCHANGED session
  BY DEF ResumeTimeout, logOut
<1>4. /\ sock' = "unconnected" /\ encrypted' = FALSE /\ closeLater' = FALSE
      /\ UNCHANGED <<timer, window>>
  BY DEF ResumeTimeout, abort
<1>5. TypeOK'
  BY <1>1, <1>2, <1>3, <1>4 DEF IInv, TypeOK, session, window
<1>6. ConnectingIsTimed'
  BY <1>4 DEF ConnectingIsTimed
<1>7. WindowShowsUser'
  BY <1>3, <1>4 DEF IInv, WindowShowsUser, session, window
<1> QED BY <1>5, <1>6, <1>7 DEF IInv

LEMMA ResumeReadOK == IInv /\ ResumeRead => IInv'
<1> SUFFICES ASSUME IInv, ResumeRead PROVE IInv'
  OBVIOUS
<1>1. Below \in Seq(Slots) /\ Len(Below) < MaxBoxes
  BY BelowKeeps DEF IInv, ResumeRead
<1>2. lines \in Seq(Lines) /\ Len(lines) <= MaxLines
  BY DEF IInv, TypeOK
<1>3. onReadyRead(lines, Below) /\ UNCHANGED <<link, timer>>
  BY DEF ResumeRead
<1> QED BY <1>1, <1>2, <1>3, ReadOK

LEMMA StutterOK == IInv /\ UNCHANGED vars => IInv'
<1> SUFFICES ASSUME IInv, UNCHANGED vars PROVE IInv'
  OBVIOUS
<1>1. TypeOK'
  BY DEF IInv, TypeOK, vars
<1>2. ConnectingIsTimed' /\ WindowShowsUser'
  BY DEF IInv, ConnectingIsTimed, WindowShowsUser, vars
<1> QED BY <1>1, <1>2 DEF IInv

LEMMA Inductive == Spec => []IInv
<1>1. IInv /\ [Next]_vars => IInv'
  BY ConnectOK, DisconnectOK, BoxOK, SocketOK, EncryptedOK, DisconnectedOK, ArriveOK,
     ResumeNoticeOK, ResumeErrorOK, ResumeTimeoutOK, ResumeReadOK, StutterOK
  DEF Next, Clicks, Events, Resume
<1> QED BY InitOK, <1>1, PTL DEF Spec

-----------------------------------------------------------------------------
\* Types, for any depth of nested boxes.
THEOREM TypeCorrect == Spec => []TypeOK
<1>1. IInv => TypeOK
  BY DEF IInv
<1> QED BY Inductive, <1>1, PTL

\* m_timeoutTimer runs as long as the socket is connecting.
THEOREM ConnectingIsTimedHolds == Spec => []ConnectingIsTimed
<1>1. IInv => ConnectingIsTimed
  BY DEF IInv
<1> QED BY Inductive, <1>1, PTL

\* Whoever ChatClient says is logged in, MainWindow shows.
THEOREM WindowShowsUserHolds == Spec => []WindowShowsUser
<1>1. IInv => WindowShowsUser
  BY DEF IInv
<1> QED BY Inductive, <1>1, PTL
=============================================================================
