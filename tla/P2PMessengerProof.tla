-------------------------- MODULE P2PMessengerProof --------------------------
(***************************************************************************)
(* For any number of connections, names, groups and messages: the receiver *)
(* never outlives what it uses, the arrays keep within MAX_USERS, and the  *)
(* history holds only messages that the user was told were sent.           *)
(***************************************************************************)
EXTENDS P2PMessenger, TLAPS

\* What exists at each place of the main thread, and where it is while the
\* receiver thread exists: between pthread_create and pthread_join.
Lifetimes ==
  /\ ui \notin {"off", "init", "free"} => windows
  /\ ui # "off" => net
  /\ rcv \notin {"none", "done"} => ui \in {"input", "connect", "length", "body", "join"}

\* A message in hand is not counted yet; it becomes a row when it is reported.
Counted ==
  /\ reported \in Nat /\ sent \in Nat /\ rows \in Nat
  /\ rows <= reported /\ sent <= reported /\ reported <= MaxSent
  /\ ui \in {"connect", "length", "body"} => reported < MaxSent

\* Group names are distinct and every group has exactly the local user as its
\* member: create_group puts the creator in, and /join_group, which always names
\* the same user, never adds anyone.
GroupsAreOfSelf ==
  /\ \A i, j \in DOMAIN groups : groups[i].name = groups[j].name => i = j
  /\ \A i \in DOMAIN groups : groups[i].members = <<Self>>

GroupType == groups \in Seq([name : Groups, members : Seq({Self})]) /\ Len(groups) <= MaxUsers

IInv == Lifetimes /\ Counted /\ GroupType /\ GroupsAreOfSelf

LEMMA InitOK == Init => IInv
<1> SUFFICES ASSUME Init PROVE IInv
  OBVIOUS
<1>1. Lifetimes
  BY DEF Init, Lifetimes
<1>2. Counted
  BY MessengerAssumption DEF Init, Counted, MessengerAssumption
<1>3. GroupType /\ GroupsAreOfSelf
  BY MessengerAssumption DEF Init, GroupType, GroupsAreOfSelf, MessengerAssumption
<1> QED BY <1>1, <1>2, <1>3 DEF IInv

-----------------------------------------------------------------------------
(* The group table *)

\* create_group returns the table it was given, or one more group of its creator.
LEMMA CreateGroupKeeps ==
  ASSUME NEW name \in Groups, GroupType, GroupsAreOfSelf, groups' = create_group(groups, name)
  PROVE  GroupType' /\ GroupsAreOfSelf'
<1> DEFINE g == [name |-> name, members |-> <<Self>>]
<1>1. CASE groups' = groups
  BY <1>1 DEF GroupType, GroupsAreOfSelf
<1>2. CASE /\ groups' = Append(groups, g) /\ Len(groups) < MaxUsers
           /\ \A i \in DOMAIN groups : groups[i].name # name
  <2>1. g \in [name : Groups, members : Seq({Self})] /\ g.name = name /\ g.members = <<Self>>
    OBVIOUS
  <2> HIDE DEF g
  <2>2. GroupType'
    BY <1>2, <2>1, MessengerAssumption DEF GroupType, MessengerAssumption
  <2>3. /\ DOMAIN groups' = DOMAIN groups \cup {Len(groups) + 1}
        /\ \A i \in DOMAIN groups : groups'[i] = groups[i]
        /\ groups'[Len(groups) + 1] = g
    BY <1>2, <2>1 DEF GroupType
  <2>4. GroupsAreOfSelf'
    BY <1>2, <2>1, <2>3 DEF GroupsAreOfSelf
  <2> QED BY <2>2, <2>4
<1>3. Len(groups) \in Nat /\ MaxUsers \in Nat
  BY MessengerAssumption DEF GroupType, MessengerAssumption
<1> QED BY <1>1, <1>2, <1>3 DEF create_group

\* A group whose only member is the local user cannot be joined by that user.
LEMMA JoinGroupKeeps ==
  ASSUME NEW name \in Groups, GroupType, GroupsAreOfSelf, groups' = join_group(groups, name, Self)
  PROVE  groups' = groups
<1>1. \A i \in DOMAIN groups : i \notin Joinable(groups, name, Self)
  <2> SUFFICES ASSUME NEW i \in DOMAIN groups, i \in Joinable(groups, name, Self) PROVE FALSE
    OBVIOUS
  <2>1. groups[i].members = <<Self>>
    BY DEF GroupsAreOfSelf
  <2>2. 1 \in DOMAIN groups[i].members /\ groups[i].members[1] = Self
    BY <2>1
  <2> QED BY <2>2 DEF Joinable
<1>2. groups' = [i \in DOMAIN groups |-> groups[i]]
  BY <1>1 DEF join_group
<1> QED BY <1>2 DEF GroupType

-----------------------------------------------------------------------------
(* The steps *)

LEMMA LaunchOK == IInv /\ Launch => IInv'
<1> SUFFICES ASSUME IInv, Launch PROVE IInv'
  OBVIOUS
<1>1. Lifetimes'
  BY DEF Launch, Lifetimes
<1>2. Counted'
  BY DEF IInv, Launch, Counted, tally, history
<1>3. GroupType' /\ GroupsAreOfSelf'
  BY MessengerAssumption DEF Launch, GroupType, GroupsAreOfSelf, MessengerAssumption
<1> QED BY <1>1, <1>2, <1>3 DEF IInv

LEMMA StartOK == IInv /\ (MakeWindows \/ StartReceiver \/ Quit) => IInv'
BY DEF IInv, Lifetimes, Counted, GroupType, GroupsAreOfSelf, MakeWindows, StartReceiver,
   Quit, memory, store, tally, history

LEMMA CreateGroupOK == IInv /\ CreateGroup => IInv'
<1> SUFFICES ASSUME IInv, CreateGroup PROVE IInv'
  OBVIOUS
<1>1. GroupType' /\ GroupsAreOfSelf'
  BY CreateGroupKeeps DEF IInv, CreateGroup
<1>2. Lifetimes' /\ Counted'
  BY DEF IInv, Lifetimes, Counted, CreateGroup, memory, tally, history
<1> QED BY <1>1, <1>2 DEF IInv

LEMMA JoinGroupOK == IInv /\ JoinGroup => IInv'
<1> SUFFICES ASSUME IInv, JoinGroup PROVE IInv'
  OBVIOUS
<1>1. groups' = groups
  BY JoinGroupKeeps DEF IInv, JoinGroup
<1>2. Lifetimes' /\ Counted'
  BY DEF IInv, Lifetimes, Counted, JoinGroup, memory, tally, history
<1> QED BY <1>1, <1>2 DEF IInv, GroupType, GroupsAreOfSelf

LEMMA DiesOK == IInv /\ Dies => IInv'
<1> SUFFICES ASSUME IInv, Dies PROVE IInv'
  OBVIOUS
<1>1. Lifetimes'
  BY DEF Dies, Lifetimes
<1>2. Counted'
  BY DEF IInv, Dies, Counted, tally, history
<1>3. GroupType' /\ GroupsAreOfSelf'
  BY MessengerAssumption DEF Dies, GroupType, GroupsAreOfSelf, MessengerAssumption
<1> QED BY <1>1, <1>2, <1>3 DEF IInv

LEMMA SendingOK == IInv /\ (Message \/ Sending) => IInv'
<1> SUFFICES ASSUME IInv, Message \/ Sending PROVE IInv'
  OBVIOUS
<1>1. Lifetimes' /\ GroupType' /\ GroupsAreOfSelf'
  BY DEF IInv, Lifetimes, GroupType, GroupsAreOfSelf, Message, Sending, Connects,
     ConnectFails, SendFirst, SendRest, memory, store
<1>2. Counted'
  <2>1. CASE Message \/ Connects \/ ConnectFails
    BY <2>1, MessengerAssumption DEF IInv, Counted, Message, Connects, ConnectFails, tally, history,
       MessengerAssumption
  <2>2. CASE SendFirst
    BY <2>2 DEF IInv, Counted, SendFirst, tally, history
  <2>3. CASE SendRest
    <3>1. /\ reported' = reported + 1 /\ ui' = "input"
          /\ sent' = sent \/ sent' = sent + 1
          /\ rows' = rows \/ rows' = rows + 1
      BY <2>3 DEF SendRest, save_message
    <3>2. /\ reported \in Nat /\ sent \in Nat /\ rows \in Nat
          /\ rows <= reported /\ sent <= reported /\ reported < MaxSent
      BY <2>3 DEF IInv, Counted, SendRest
    <3> QED BY <3>1, <3>2, MessengerAssumption DEF Counted, MessengerAssumption
  <2> QED BY <2>1, <2>2, <2>3 DEF Sending
<1> QED BY <1>1, <1>2 DEF IInv

LEMMA LeavingOK == IInv /\ Leaving => IInv'
<1> SUFFICES ASSUME IInv, Leaving PROVE IInv'
  OBVIOUS
<1>1. Lifetimes'
  BY DEF IInv, Lifetimes, Leaving, JoinReceiver, cleanup_network
<1>2. Counted'
  BY DEF IInv, Counted, Leaving, JoinReceiver, cleanup_network, tally, history
<1>3. groups' = groups \/ groups' = <<>>
  BY DEF Leaving, JoinReceiver, cleanup_network, store
<1>4. GroupType' /\ GroupsAreOfSelf'
  <2>1. CASE groups' = groups
    BY <2>1 DEF IInv, GroupType, GroupsAreOfSelf
  <2>2. CASE groups' = <<>>
    BY <2>2, MessengerAssumption DEF GroupType, GroupsAreOfSelf, MessengerAssumption
  <2> QED BY <1>3, <2>1, <2>2
<1> QED BY <1>1, <1>2, <1>4 DEF IInv

\* The receiver moves on only from a place where it exists.
LEMMA ReceiverOK == IInv /\ ReceiverStep => IInv'
<1> SUFFICES ASSUME IInv, ReceiverStep PROVE IInv'
  OBVIOUS
<1>1. rcv \notin {"none", "done"} /\ KeepOthers
  BY DEF ReceiverStep, Listen, LoopTop, Accept, AcceptFails, SelectTimesOut, ReceiveLength,
     ReceiveBody, ReceiveMessage, Show
<1> QED BY <1>1 DEF IInv, Lifetimes, Counted, GroupType, GroupsAreOfSelf, KeepOthers, memory,
           store, tally, history

LEMMA PeerOK == IInv /\ (PeerConnects \/ \E c \in Conns : PeerStep(c)) => IInv'
<1> SUFFICES ASSUME IInv, KeepProgram PROVE IInv'
  BY DEF PeerConnects, PeerStep, PeerSends, PeerCloses
<1> QED BY DEF IInv, Lifetimes, Counted, GroupType, GroupsAreOfSelf, KeepProgram, memory,
           store, tally, history

LEMMA StutterOK == IInv /\ UNCHANGED vars => IInv'
BY DEF IInv, Lifetimes, Counted, GroupType, GroupsAreOfSelf, vars

LEMMA Inductive == Spec => []IInv
<1>1. IInv /\ [Next]_vars => IInv'
  BY LaunchOK, StartOK, CreateGroupOK, JoinGroupOK, DiesOK, SendingOK, LeavingOK, ReceiverOK,
     PeerOK, StutterOK
  DEF Next, UIStep
<1> QED BY InitOK, <1>1, PTL DEF Spec

-----------------------------------------------------------------------------
(* Types: what is left of TypeOK once the invariant is known *)

Rest ==
  /\ build \in {"accept", "select"}
  /\ ui \in {"off", "init", "windows", "input", "connect", "length", "body", "join", "free"}
  /\ rcv \in {"none", "listen", "top", "wait", "recv", "body", "show", "done"}
  /\ is_running \in BOOLEAN /\ windows \in BOOLEAN /\ net \in BOOLEAN /\ port \in BOOLEAN
  /\ users \in {<<>>, <<Self>>}
  /\ conn \in [Conns -> {"none", "silent", "length", "whole", "gone"}]
  /\ serving \in Conns \cup {None} /\ own \in Conns \cup {None}

LEMMA RestInit == Init => Rest
BY DEF Init, Rest

\* The first user of an empty table is the local one.
LEMMA AddSelf == add_user(<<>>, Self) = <<Self>>
BY MessengerAssumption DEF add_user, MessengerAssumption

LEMMA RestUI == Rest /\ UIStep => Rest'
<1> SUFFICES ASSUME Rest, UIStep PROVE Rest'
  OBVIOUS
<1>1. CASE Launch
  BY <1>1, AddSelf DEF Rest, Launch, wire
<1>2. CASE MakeWindows \/ StartReceiver \/ Quit
  BY <1>2 DEF Rest, MakeWindows, StartReceiver, Quit, memory, store, wire
<1>3. CASE CreateGroup \/ JoinGroup \/ Message
  BY <1>3 DEF Rest, CreateGroup, JoinGroup, Message, memory, store, wire
<1>4. CASE Dies
  BY <1>4 DEF Rest, Dies
<1>5. CASE Connects \/ ConnectFails
  BY <1>5 DEF Rest, Connects, ConnectFails, memory, store, wire
<1>6. CASE SendFirst
  BY <1>6 DEF Rest, SendFirst, Abandoned, memory, store
<1>7. CASE SendRest
  BY <1>7 DEF Rest, SendRest, Abandoned, memory, store
<1>8. CASE Leaving
  BY <1>8 DEF Rest, Leaving, JoinReceiver, cleanup_network, store, wire
<1> QED BY <1>1, <1>2, <1>3, <1>4, <1>5, <1>6, <1>7, <1>8 DEF UIStep, Sending

LEMMA RestReceiver == Rest /\ ReceiverStep => Rest'
<1> SUFFICES ASSUME Rest, ReceiverStep PROVE Rest'
  OBVIOUS
<1> USE DEF Rest, KeepOthers, memory, store
<1>1. CASE Listen \/ LoopTop
  BY <1>1 DEF Listen, LoopTop
<1>2. CASE Accept \/ AcceptFails \/ SelectTimesOut
  BY <1>2 DEF Accept, AcceptFails, SelectTimesOut, Pending
<1>3. CASE ReceiveLength \/ ReceiveBody
  BY <1>3 DEF ReceiveLength, ReceiveBody, CloseServed
<1>4. CASE ReceiveMessage \/ Show
  BY <1>4 DEF ReceiveMessage, Show, CloseServed
<1> QED BY <1>1, <1>2, <1>3, <1>4 DEF ReceiverStep

LEMMA RestPeer == Rest /\ (PeerConnects \/ \E c \in Conns : PeerStep(c)) => Rest'
BY DEF Rest, PeerConnects, PeerStep, PeerSends, PeerCloses, KeepProgram, memory, store

LEMMA RestStutter == Rest /\ UNCHANGED vars => Rest'
BY DEF Rest, vars

LEMMA RestHolds == Spec => []Rest
<1>1. Rest /\ [Next]_vars => Rest'
  BY RestUI, RestReceiver, RestPeer, RestStutter DEF Next
<1> QED BY RestInit, <1>1, PTL DEF Spec

\* The two flags, which only /msg and /join_group write.
Flags == lost \in BOOLEAN /\ turnedAway \in BOOLEAN

LEMMA FlagsHold == Spec => []Flags
<1>1. Init => Flags
  BY DEF Init, Flags
<1>2. Flags /\ [Next]_vars => Flags'
  <2> SUFFICES ASSUME Flags, [Next]_vars PROVE Flags'
    OBVIOUS
  <2>1. CASE JoinGroup
    BY <2>1 DEF Flags, JoinGroup
  <2>2. CASE Message
    BY <2>2 DEF Flags, Message
  <2>3. CASE SendFirst
    BY <2>3 DEF Flags, SendFirst
  <2>4. CASE SendRest
    BY <2>4 DEF Flags, SendRest
  <2>5. CASE UNCHANGED <<lost, turnedAway>>
    BY <2>5 DEF Flags
  <2>6. ReceiverStep => UNCHANGED <<lost, turnedAway>>
    BY DEF ReceiverStep, Listen, LoopTop, Accept, AcceptFails, SelectTimesOut, ReceiveLength,
       ReceiveBody, ReceiveMessage, Show, KeepOthers, tally
  <2>7. PeerConnects \/ (\E c \in Conns : PeerStep(c)) => UNCHANGED <<lost, turnedAway>>
    BY DEF PeerConnects, PeerStep, PeerSends, PeerCloses, KeepProgram, tally
  <2>8. UIStep => JoinGroup \/ Message \/ SendFirst \/ SendRest \/ UNCHANGED <<lost, turnedAway>>
    BY DEF UIStep, Launch, MakeWindows, StartReceiver, Quit, CreateGroup, Dies, Sending, Connects,
       ConnectFails, Leaving, JoinReceiver, cleanup_network, tally
  <2>9. UNCHANGED vars => UNCHANGED <<lost, turnedAway>>
    BY DEF vars
  <2> QED BY <2>1, <2>2, <2>3, <2>4, <2>5, <2>6, <2>7, <2>8, <2>9 DEF Next
<1> QED BY <1>1, <1>2, PTL DEF Spec

\* Types, and the users, groups and members arrays never outgrow MAX_USERS.
THEOREM TypeCorrect == Spec => []TypeOK
<1>1. IInv /\ Rest /\ Flags => TypeOK
  <2> SUFFICES ASSUME IInv, Rest, Flags PROVE TypeOK
    OBVIOUS
  <2>1. /\ <<Self>> \in Seq({Self}) /\ Len(<<Self>>) = 1
        /\ <<>> \in Seq({Self}) /\ Len(<<>>) = 0
    OBVIOUS
  <2>2. 0 <= MaxUsers /\ 1 <= MaxUsers
    BY MessengerAssumption DEF MessengerAssumption
  <2>3. users \in Seq({Self}) /\ Len(users) <= MaxUsers
    <3>1. CASE users = <<>>
      BY <3>1, <2>1, <2>2
    <3>2. CASE users = <<Self>>
      BY <3>2, <2>1, <2>2
    <3> QED BY <3>1, <3>2 DEF Rest
  <2>4. \A i \in DOMAIN groups : Len(groups[i].members) <= MaxUsers
    BY <2>1, <2>2 DEF IInv, GroupsAreOfSelf
  <2>5. reported \in 0..MaxSent /\ sent \in 0..MaxSent /\ rows \in 0..MaxSent
    BY MessengerAssumption DEF IInv, Counted, MessengerAssumption
  <2> QED BY <2>3, <2>4, <2>5 DEF IInv, GroupType, Rest, Flags, TypeOK
<1> QED BY Inductive, RestHolds, FlagsHold, <1>1, PTL

\* run_client joins the receiver before delwin and cleanup_network free what the
\* receiver uses.
THEOREM ReceiverHasMemoryHolds == Spec => []ReceiverHasMemory
<1>1. IInv => ReceiverHasMemory
  BY DEF IInv, Lifetimes, ReceiverHasMemory
<1> QED BY Inductive, <1>1, PTL

\* send_direct_message saves nothing that it then reports as failed.
THEOREM HistoryWasReportedHolds == Spec => []HistoryWasReported
<1>1. IInv => HistoryWasReported
  BY DEF IInv, Counted, HistoryWasReported
<1> QED BY Inductive, <1>1, PTL
=============================================================================
