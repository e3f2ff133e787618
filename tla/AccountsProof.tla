---------------------------- MODULE AccountsProof ----------------------------
(***************************************************************************)
(* Proofs about Accounts, for every set of clients and nicknames, every    *)
(* token length and every size of the peer table.                          *)
(***************************************************************************)
EXTENDS Accounts, SequenceTheorems, TLAPS

(***************************************************************************)
(* Tokens: what sscanf keeps of a token passes constant_time_compare       *)
(* against the whole token.                                                *)
(***************************************************************************)
\* A token is a sequence of TOKEN_LENGTH characters.
LEMMA TokenIsSequence ==
    ASSUME NEW t \in Tokens
    PROVE  t \in Seq(Hex) /\ Len(t) = TokenLength
BY LengthAssumption DEF Tokens

\* The prefix that "%63s" keeps of a token compares equal to the token.
LEMMA ScannedTokenMatches ==
    ASSUME NEW t \in Tokens
    PROVE  constant_time_compare(t, ScanToken(t))
<1>1. t \in Seq(Hex) /\ Len(t) = TokenLength
  BY TokenIsSequence
<1>2. ScanToken(t) = SubSeq(t, 1, TokenLength - 1)
  BY <1>1, LengthAssumption DEF ScanToken
<1>3. /\ Len(SubSeq(t, 1, TokenLength - 1)) = TokenLength - 1
      /\ \A i \in 1..(TokenLength - 1) : SubSeq(t, 1, TokenLength - 1)[i] = t[i]
  BY <1>1, LengthAssumption
<1> QED
  BY <1>2, <1>3 DEF constant_time_compare

(***************************************************************************)
(* The inductive invariant.  OneOwner speaks of the replies that were      *)
(* delivered; it is kept because each of them names a row of the table     *)
(* (IssuedAreRows), the row was there before the reply was written         *)
(* (PendingHasRow), and the UNIQUE columns keep the rows apart             *)
(* (RowsDistinct), whatever check_nickname_exists answered before.         *)
(*                                                                         *)
(* SessionHasAccount needs that a handler which is about to wipe or clear  *)
(* its slot has closed it, unless the slot is shared (WipedIsClosed); the  *)
(* refinement needs that an open slot which is not shared has one handler  *)
(* (OneHandler), so that what process_client_command saw of authorized is  *)
(* still true when process_login sets it (EnterIsFresh).                   *)
(***************************************************************************)
RowsDistinct == \A r, q \in rows : Canon[r.nick] = Canon[q.nick] => r = q

IssuedAreRows == issued \subseteq rows

PendingHasRow ==
    \A c \in Clients :
       /\ pc[c] = "save" => want[c] \in Nicks
       /\ pc[c] = "reply" => [nick |-> want[c], token |-> made[c]] \in rows
       /\ pc[c] = "enter" => want[c] \in Nicks /\ NickTaken(want[c])

SlotOfLive == \A c \in Clients : pc[c] # "none" => slot[c] \in Slots

WipedIsClosed ==
    \A c \in Clients : pc[c] \in {"wipe", "clear"} => ~open[slot[c]] \/ shared[slot[c]]

OneHandler ==
    \A c, d \in Clients :
       /\ pc[c] # "none" /\ pc[d] # "none" /\ slot[c] = slot[d]
       /\ open[slot[c]] /\ ~shared[slot[c]]
       => c = d

EnterIsFresh ==
    \A c \in Clients :
       pc[c] = "enter" /\ open[slot[c]] /\ ~shared[slot[c]] => ~authorized[slot[c]]

RowInv == RowsDistinct /\ IssuedAreRows /\ PendingHasRow

SlotInv == SlotOfLive /\ WipedIsClosed /\ OneHandler /\ EnterIsFresh /\ SessionHasAccount

IInv == TypeOK /\ RowInv /\ SlotInv

\* The empty table and the free slots satisfy the invariant.
LEMMA InitIInv == Init => IInv
<1> SUFFICES ASSUME Init PROVE IInv
  OBVIOUS
<1>1. TypeOK
  BY NickAssumption, LengthAssumption DEF Init, TypeOK, Rows, NoSlot
<1>2. RowInv
  BY DEF Init, RowInv, RowsDistinct, IssuedAreRows, PendingHasRow
<1>3. SlotInv
  BY DEF Init, SlotInv, SlotOfLive, WipedIsClosed, OneHandler, EnterIsFresh,
         SessionHasAccount, Online
<1> QED
  BY <1>1, <1>2, <1>3 DEF IInv

\* A step of a handler inside a command, which moves it to l and leaves the slots, the
\* replies and the rows (but for new ones) alone, keeps the slots' part.
LEMMA CommandKeepsSlots ==
    ASSUME IInv, NEW c \in Clients, pc[c] # "none",
           NEW l \in {"idle", "save", "reply", "enter"},
           pc' = [pc EXCEPT ![c] = l],
           l = "enter" => ~authorized[slot[c]],
           UNCHANGED <<slot, open, nick, authorized, shared>>, rows \subseteq rows'
    PROVE  SlotInv'
<1>1. SlotOfLive' /\ WipedIsClosed'
  BY DEF IInv, TypeOK, SlotInv, SlotOfLive, WipedIsClosed
<1>2. OneHandler'
  BY DEF IInv, TypeOK, SlotInv, OneHandler
<1>3. EnterIsFresh'
  BY DEF IInv, TypeOK, SlotInv, EnterIsFresh
<1>4. SessionHasAccount'
  BY DEF IInv, SlotInv, SessionHasAccount, Online, NickTaken
<1> QED
  BY <1>1, <1>2, <1>3, <1>4 DEF SlotInv

\* A step that only answers keeps the invariant.
LEMMA AnswerIInv ==
    ASSUME IInv, NEW c \in Clients, Refuse(c, TRUE),
           UNCHANGED <<rows, pc, slot, want, made, table, issued, peers>>
    PROVE  IInv'
<1>1. TypeOK'
  BY DEF IInv, TypeOK, Refuse, table
<1>2. RowInv'
  BY DEF IInv, RowInv, RowsDistinct, IssuedAreRows, PendingHasRow, NickTaken
<1>3. SlotInv'
  BY DEF IInv, SlotInv, SlotOfLive, WipedIsClosed, OneHandler, EnterIsFresh,
         SessionHasAccount, Online, NickTaken, table
<1> QED
  BY <1>1, <1>2, <1>3 DEF IInv

\* A handler that returns from process_registration without touching the table.
LEMMA ReturnIInv ==
    ASSUME IInv, NEW c \in Clients, pc[c] # "none", Return(c),
           refused' \in [Clients -> BOOLEAN],
           UNCHANGED <<rows, slot, table, issued, peers>>
    PROVE  IInv'
<1>1. TypeOK'
  BY DEF IInv, TypeOK, Return, GoTo, table
<1>2. RowInv'
  BY DEF IInv, TypeOK, RowInv, RowsDistinct, IssuedAreRows, PendingHasRow, NickTaken,
         Return, GoTo
<1>3. SlotInv'
  BY CommandKeepsSlots DEF Return, GoTo, table
<1> QED
  BY <1>1, <1>2, <1>3 DEF IInv

\* The SELECT said "free" (or failed): only pc and want change.
LEMMA RegisterFreeIInv ==
    ASSUME IInv, NEW c \in Clients, NEW n \in Nicks, NEW f \in BOOLEAN,
           RegisterFree(c, n, f)
    PROVE  IInv'
<1> USE DEF RegisterFree, GoTo, Refuse, Unauthorized, AtCommand, table
<1>1. TypeOK'
  BY DEF IInv, TypeOK
<1>2. RowInv'
  BY DEF IInv, TypeOK, RowInv, RowsDistinct, IssuedAreRows, PendingHasRow, NickTaken
<1>3. SlotInv'
  BY CommandKeepsSlots
<1> QED
  BY <1>1, <1>2, <1>3 DEF IInv

\* The INSERT: the only step that adds a row, and the UNIQUE columns guard it.
LEMMA SaveUserIInv ==
    ASSUME IInv, NEW c \in Clients, NEW t \in Tokens, SaveUser(c, t)
    PROVE  IInv'
<1> DEFINE row == [nick |-> want[c], token |-> t]
<1>0. /\ pc[c] = "save"
      /\ ~ViolatesUnique(row)
      /\ rows' = rows \cup {row}
      /\ made' = [made EXCEPT ![c] = t]
      /\ pc' = [pc EXCEPT ![c] = "reply"]
      /\ UNCHANGED <<slot, want, open, nick, authorized, shared, refused, issued, peers>>
  BY DEF SaveUser, GoTo, table
<1>1. want[c] \in Nicks
  BY <1>0 DEF IInv, RowInv, PendingHasRow
<1>2. TypeOK'
  BY <1>0, <1>1 DEF IInv, TypeOK, Rows
<1>3. RowsDistinct'
  BY <1>0 DEF IInv, RowInv, RowsDistinct, ViolatesUnique
<1>4. IssuedAreRows'
  BY <1>0 DEF IInv, RowInv, IssuedAreRows
<1>5. PendingHasRow'
  BY <1>0 DEF IInv, TypeOK, RowInv, PendingHasRow, NickTaken
<1>6. SlotInv'
  BY <1>0, CommandKeepsSlots
<1> QED
  BY <1>2, <1>3, <1>4, <1>5, <1>6 DEF IInv, RowInv

\* The success reply, delivered or lost.
LEMMA RegisterReplyIInv ==
    ASSUME IInv, NEW c \in Clients, NEW d \in BOOLEAN, RegisterReply(c, d)
    PROVE  IInv'
<1> DEFINE row == [nick |-> want[c], token |-> made[c]]
<1>0. /\ pc[c] = "reply"
      /\ Return(c)
      /\ issued' \subseteq issued \cup {row}
      /\ UNCHANGED <<rows, slot, open, nick, authorized, shared, refused, peers>>
  BY DEF RegisterReply, table
<1>1. row \in rows
  BY <1>0 DEF IInv, RowInv, PendingHasRow
<1>2. TypeOK'
  BY <1>0, <1>1 DEF IInv, TypeOK, Return, GoTo
<1>3. (RowsDistinct /\ IssuedAreRows)'
  BY <1>0, <1>1 DEF IInv, RowInv, RowsDistinct, IssuedAreRows
<1>4. PendingHasRow'
  BY <1>0 DEF IInv, TypeOK, RowInv, PendingHasRow, NickTaken, Return, GoTo
<1>5. SlotInv'
  BY <1>0, CommandKeepsSlots DEF Return, GoTo
<1> QED
  BY <1>2, <1>3, <1>4, <1>5 DEF IInv, RowInv

\* authenticate_user found the row of the nickname.
LEMMA LoginIInv ==
    ASSUME IInv, NEW c \in Clients, NEW n \in Nicks, NEW s \in Typed, Login(c, n, s)
    PROVE  IInv'
<1> USE DEF Login, GoTo, Refuse, Unauthorized, AtCommand, table
<1>1. TypeOK'
  BY DEF IInv, TypeOK
<1>2. NickTaken(n)
  BY DEF authenticate_user, NickTaken
<1>3. RowInv'
  BY <1>2 DEF IInv, TypeOK, RowInv, RowsDistinct, IssuedAreRows, PendingHasRow, NickTaken
<1>4. SlotInv'
  BY CommandKeepsSlots
<1> QED
  BY <1>1, <1>3, <1>4 DEF IInv

\* The slot is authorized under a name that has a row.
LEMMA EnterIInv ==
    ASSUME IInv, NEW c \in Clients, Enter(c)
    PROVE  IInv'
<1>0. /\ pc[c] = "enter"
      /\ nick' = [nick EXCEPT ![slot[c]] = want[c]]
      /\ authorized' = [authorized EXCEPT ![slot[c]] = TRUE]
      /\ pc' = [pc EXCEPT ![c] = "idle"]
      /\ want' = [want EXCEPT ![c] = NoNick]
      /\ made' = [made EXCEPT ![c] = << >>]
      /\ UNCHANGED <<rows, slot, open, shared, refused, issued>>
  BY DEF Enter, Return, GoTo
<1>1. slot[c] \in Slots /\ want[c] \in Nicks /\ NickTaken(want[c])
  BY <1>0 DEF IInv, RowInv, SlotInv, SlotOfLive, PendingHasRow
<1>2. peers' \in Seq(Clients) /\ Len(peers') <= MaxPeers
  BY LengthAssumption DEF IInv, TypeOK, Enter, add_peer_to_network
<1>3. TypeOK'
  BY <1>0, <1>1, <1>2 DEF IInv, TypeOK
<1>4. RowInv'
  BY <1>0 DEF IInv, TypeOK, RowInv, RowsDistinct, IssuedAreRows, PendingHasRow, NickTaken
<1>5. (SlotOfLive /\ WipedIsClosed)'
  BY <1>0 DEF IInv, TypeOK, SlotInv, SlotOfLive, WipedIsClosed
<1>6. OneHandler'
  BY <1>0 DEF IInv, TypeOK, SlotInv, OneHandler
<1>7. EnterIsFresh'
  <2> SUFFICES ASSUME NEW d \in Clients, pc'[d] = "enter",
                      open[slot[d]], ~shared[slot[d]]
               PROVE  ~authorized'[slot[d]]
    BY <1>0 DEF EnterIsFresh
  <2>1. d # c /\ pc[d] = "enter"
    BY <1>0 DEF IInv, TypeOK
  <2>2. slot[d] # slot[c] /\ slot[d] \in Slots
    BY <1>0, <2>1 DEF IInv, SlotInv, OneHandler, SlotOfLive
  <2> QED
    BY <1>0, <2>1, <2>2 DEF IInv, TypeOK, SlotInv, EnterIsFresh
<1>8. SessionHasAccount'
  BY <1>0, <1>1 DEF IInv, TypeOK, SlotInv, SessionHasAccount, Online, NickTaken
<1> QED
  BY <1>3, <1>4, <1>5, <1>6, <1>7, <1>8 DEF IInv, SlotInv

\* A slot is closed, by its handler or by the monitor: nothing is claimed of it now.
LEMMA UnsetKeepsSlots ==
    ASSUME IInv, NEW s \in Slots, Unset(s),
           NEW p, pc' = p, \A c \in Clients : p[c] = pc[c] \/ (p[c] = "wipe" /\ slot[c] = s),
           UNCHANGED <<rows, slot, nick, authorized>>
    PROVE  SlotInv'
<1>0. /\ open' = [open EXCEPT ![s] = FALSE]
      /\ shared' = [shared EXCEPT ![s] = FALSE]
  BY DEF Unset
<1>1. SlotOfLive'
  BY DEF IInv, SlotInv, SlotOfLive
<1>2. WipedIsClosed'
  <2> SUFFICES ASSUME NEW c \in Clients, p[c] \in {"wipe", "clear"}
               PROVE  ~open'[slot[c]] \/ shared'[slot[c]]
    BY DEF WipedIsClosed
  <2>1. CASE slot[c] = s
    BY <1>0, <2>1 DEF IInv, TypeOK
  <2>2. CASE slot[c] # s
    <3>1. ~open[slot[c]] \/ shared[slot[c]]
      BY <2>2 DEF IInv, SlotInv, WipedIsClosed
    <3>2. slot[c] \in Slots
      BY <2>2 DEF IInv, SlotInv, SlotOfLive
    <3> QED
      BY <1>0, <2>2, <3>1, <3>2 DEF IInv, TypeOK
  <2> QED
    BY <2>1, <2>2
<1>3. ASSUME NEW t \in Slots, open'[t], ~shared'[t]
      PROVE  t # s /\ open[t] /\ ~shared[t]
  BY <1>0, <1>3 DEF IInv, TypeOK
<1>4. OneHandler'
  <2> SUFFICES ASSUME NEW c \in Clients, NEW d \in Clients,
                      p[c] # "none", p[d] # "none", slot[c] = slot[d],
                      open'[slot[c]], ~shared'[slot[c]]
               PROVE  c = d
    BY DEF OneHandler
  <2>1. slot[c] \in Slots
    BY <1>1 DEF SlotOfLive
  <2>2. slot[c] # s /\ open[slot[c]] /\ ~shared[slot[c]]
    BY <1>3, <2>1
  <2> QED
    BY <2>2 DEF IInv, SlotInv, OneHandler
<1>5. EnterIsFresh'
  <2> SUFFICES ASSUME NEW c \in Clients, p[c] = "enter",
                      open'[slot[c]], ~shared'[slot[c]]
               PROVE  ~authorized[slot[c]]
    BY DEF EnterIsFresh
  <2>1. slot[c] \in Slots
    BY <1>1 DEF SlotOfLive
  <2> QED
    BY <1>3, <2>1 DEF IInv, SlotInv, EnterIsFresh
<1>6. SessionHasAccount'
  BY <1>3 DEF IInv, SlotInv, SessionHasAccount, Online, NickTaken
<1> QED
  BY <1>1, <1>2, <1>4, <1>5, <1>6 DEF SlotInv

\* The handler closes its slot.
LEMMA CloseSlotIInv ==
    ASSUME IInv, NEW c \in Clients, CloseSlot(c)
    PROVE  IInv'
<1>0. /\ pc[c] = "idle"
      /\ Unset(slot[c])
      /\ pc' = [pc EXCEPT ![c] = "wipe"]
      /\ UNCHANGED <<rows, slot, want, made, nick, authorized, issued, peers>>
      /\ Refuse(c, FALSE)
  BY DEF CloseSlot, GoTo
<1>1. slot[c] \in Slots
  BY <1>0 DEF IInv, SlotInv, SlotOfLive
<1>2. TypeOK'
  BY <1>0, <1>1 DEF IInv, TypeOK, Unset, Refuse
<1>3. RowInv'
  BY <1>0 DEF IInv, TypeOK, RowInv, RowsDistinct, IssuedAreRows, PendingHasRow, NickTaken
<1>4. \A d \in Clients : pc'[d] = pc[d] \/ (pc'[d] = "wipe" /\ slot[d] = slot[c])
  BY <1>0 DEF IInv, TypeOK
<1>5. SlotInv'
  BY <1>0, <1>1, <1>4, UnsetKeepsSlots
<1> QED
  BY <1>2, <1>3, <1>5 DEF IInv

\* The monitor closes a slot.
LEMMA ExpireIInv ==
    ASSUME IInv, NEW s \in Slots, Expire(s)
    PROVE  IInv'
<1>0. /\ Unset(s)
      /\ UNCHANGED <<rows, pc, slot, want, made, nick, authorized, refused, issued, peers>>
  BY DEF Expire
<1>1. TypeOK'
  BY <1>0 DEF IInv, TypeOK, Unset
<1>2. RowInv'
  BY <1>0 DEF IInv, RowInv, RowsDistinct, IssuedAreRows, PendingHasRow, NickTaken
<1>3. SlotInv'
  BY <1>0, UnsetKeepsSlots
<1> QED
  BY <1>1, <1>2, <1>3 DEF IInv

\* The name is wiped: the slot is closed, or shared.
LEMMA WipeNickIInv ==
    ASSUME IInv, NEW c \in Clients, WipeNick(c)
    PROVE  IInv'
<1> USE DEF WipeNick, GoTo
<1>1. slot[c] \in Slots /\ (~open[slot[c]] \/ shared[slot[c]])
  BY DEF IInv, SlotInv, SlotOfLive, WipedIsClosed
<1>2. TypeOK'
  BY <1>1 DEF IInv, TypeOK
<1>3. RowInv'
  BY DEF IInv, TypeOK, RowInv, RowsDistinct, IssuedAreRows, PendingHasRow, NickTaken
<1>4. (SlotOfLive /\ WipedIsClosed)'
  BY DEF IInv, TypeOK, SlotInv, SlotOfLive, WipedIsClosed
<1>5. (OneHandler /\ EnterIsFresh)'
  BY DEF IInv, TypeOK, SlotInv, OneHandler, EnterIsFresh
<1>6. SessionHasAccount'
  BY <1>1 DEF IInv, TypeOK, SlotInv, SessionHasAccount, Online, NickTaken
<1> QED
  BY <1>2, <1>3, <1>4, <1>5, <1>6 DEF IInv, SlotInv

\* authorized is cleared and the thread returns.
LEMMA ClearAuthorizedIInv ==
    ASSUME IInv, NEW c \in Clients, ClearAuthorized(c)
    PROVE  IInv'
<1> USE DEF ClearAuthorized, GoTo
<1>1. slot[c] \in Slots
  BY DEF IInv, SlotInv, SlotOfLive
<1>2. TypeOK'
  BY <1>1 DEF IInv, TypeOK
<1>3. RowInv'
  BY DEF IInv, TypeOK, RowInv, RowsDistinct, IssuedAreRows, PendingHasRow, NickTaken
<1>4. \A d \in Clients : pc'[d] # "none" => d # c /\ pc'[d] = pc[d] /\ slot'[d] = slot[d]
  BY DEF IInv, TypeOK
<1>5. SlotOfLive'
  BY <1>4 DEF IInv, SlotInv, SlotOfLive
<1>6. WipedIsClosed'
  BY <1>4 DEF IInv, SlotInv, WipedIsClosed
<1>7. OneHandler'
  BY <1>4 DEF IInv, SlotInv, OneHandler
<1>8. EnterIsFresh'
  <2>1. ASSUME NEW d \in Clients, pc'[d] = "enter", open[slot[d]], ~shared[slot[d]]
        PROVE  ~authorized'[slot[d]]
    <3>1. slot[d] \in Slots /\ ~authorized[slot[d]]
      BY <2>1, <1>4 DEF IInv, SlotInv, EnterIsFresh, SlotOfLive
    <3> QED
      BY <3>1, <1>1 DEF IInv, TypeOK
  <2> QED
    BY <2>1, <1>4 DEF EnterIsFresh
<1>9. SessionHasAccount'
  BY <1>1 DEF IInv, TypeOK, SlotInv, SessionHasAccount, Online, NickTaken
<1> QED
  BY <1>2, <1>3, <1>5, <1>6, <1>7, <1>8, <1>9 DEF IInv, SlotInv

\* A new connection gets a zeroed slot, which is shared if anybody still has it.
LEMMA ConnectIInv ==
    ASSUME IInv, NEW c \in Clients, NEW s \in Slots, Connect(c, s)
    PROVE  IInv'
<1>0. /\ pc[c] = "none"
      /\ open' = [open EXCEPT ![s] = TRUE]
      /\ nick' = [nick EXCEPT ![s] = NoNick]
      /\ authorized' = [authorized EXCEPT ![s] = FALSE]
      /\ shared' = [shared EXCEPT ![s] = Bound(s) # {}]
      /\ slot' = [slot EXCEPT ![c] = s]
      /\ pc' = [pc EXCEPT ![c] = "idle"]
      /\ UNCHANGED <<rows, want, made, refused, issued, peers>>
  BY DEF Connect, GoTo
<1>1. TypeOK'
  BY <1>0 DEF IInv, TypeOK
<1>2. RowInv'
  BY <1>0 DEF IInv, TypeOK, RowInv, RowsDistinct, IssuedAreRows, PendingHasRow, NickTaken
<1>3. /\ \A d \in Clients \ {c} : pc'[d] = pc[d] /\ slot'[d] = slot[d]
      /\ pc'[c] = "idle" /\ slot'[c] = s
  BY <1>0 DEF IInv, TypeOK
<1>4. /\ open'[s] /\ ~authorized'[s]
      /\ \A t \in Slots \ {s} : /\ open'[t] = open[t] /\ shared'[t] = shared[t]
                                /\ authorized'[t] = authorized[t] /\ nick'[t] = nick[t]
  BY <1>0 DEF IInv, TypeOK
<1>5. ASSUME NEW d \in Clients \ {c}, pc[d] # "none", slot[d] = s PROVE shared'[s]
  BY <1>0, <1>5 DEF IInv, TypeOK, Bound, Live
<1>6. SlotOfLive'
  BY <1>3 DEF IInv, SlotInv, SlotOfLive
<1>7. WipedIsClosed'
  <2> SUFFICES ASSUME NEW d \in Clients, pc'[d] \in {"wipe", "clear"}
               PROVE  ~open'[slot'[d]] \/ shared'[slot'[d]]
    BY DEF WipedIsClosed
  <2>1. d # c /\ pc[d] \in {"wipe", "clear"} /\ slot'[d] = slot[d] /\ slot[d] \in Slots
    BY <1>3 DEF IInv, SlotInv, SlotOfLive
  <2>2. CASE slot[d] = s
    BY <2>1, <2>2, <1>5
  <2>3. CASE slot[d] # s
    BY <2>1, <2>3, <1>4 DEF IInv, SlotInv, WipedIsClosed
  <2> QED
    BY <2>2, <2>3
<1>8. OneHandler'
  <2> SUFFICES ASSUME NEW d \in Clients, NEW e \in Clients,
                      pc'[d] # "none", pc'[e] # "none", slot'[d] = slot'[e],
                      open'[slot'[d]], ~shared'[slot'[d]]
               PROVE  d = e
    BY DEF OneHandler
  <2>1. CASE slot'[d] = s
    BY <2>1, <1>3, <1>5
  <2>2. CASE slot'[d] # s
    <3>1. d # c /\ e # c /\ slot[d] = slot'[d] /\ slot[e] = slot'[e] /\ slot[d] \in Slots
      BY <2>2, <1>3 DEF IInv, SlotInv, SlotOfLive
    <3> QED
      BY <2>2, <3>1, <1>3, <1>4 DEF IInv, SlotInv, OneHandler
  <2> QED
    BY <2>1, <2>2
<1>9. EnterIsFresh'
  <2> SUFFICES ASSUME NEW d \in Clients, pc'[d] = "enter",
                      open'[slot'[d]], ~shared'[slot'[d]]
               PROVE  ~authorized'[slot'[d]]
    BY DEF EnterIsFresh
  <2>1. d # c /\ pc[d] = "enter" /\ slot'[d] = slot[d] /\ slot[d] \in Slots
    BY <1>3 DEF IInv, SlotInv, SlotOfLive
  <2> QED
    BY <2>1, <1>4, <1>5 DEF IInv, SlotInv, EnterIsFresh
<1>10. SessionHasAccount'
  BY <1>0, <1>4 DEF IInv, SlotInv, SessionHasAccount, Online, NickTaken
<1> QED
  BY <1>1, <1>2, <1>6, <1>7, <1>8, <1>9, <1>10 DEF IInv, SlotInv

\* Every step keeps the invariant.
LEMMA NextIInv == IInv /\ [Next]_vars => IInv'
<1> SUFFICES ASSUME IInv, [Next]_vars PROVE IInv'
  OBVIOUS
<1>1. CASE UNCHANGED vars
  BY <1>1 DEF vars, table, IInv, TypeOK, RowInv, RowsDistinct, IssuedAreRows,
              PendingHasRow, SlotInv, SlotOfLive, WipedIsClosed, OneHandler,
              EnterIsFresh, SessionHasAccount, Online, NickTaken
<1>2. ASSUME NEW c \in Clients, NEW n \in Nicks,
             RegisterInvalid(c, n) \/ RegisterExists(c, n)
      PROVE IInv'
  BY <1>2, AnswerIInv DEF RegisterInvalid, RegisterExists
<1>3. ASSUME NEW c \in Clients, LoginRefused(c) PROVE IInv'
  BY <1>3, AnswerIInv DEF LoginRefused
<1>4. ASSUME NEW c \in Clients, TokenFails(c) PROVE IInv'
  BY <1>4, ReturnIInv DEF TokenFails, IInv, TypeOK
<1>5. ASSUME NEW c \in Clients, SaveUserFails(c) PROVE IInv'
  <2>1. refused' \in [Clients -> BOOLEAN]
    BY <1>5 DEF SaveUserFails, Refuse, IInv, TypeOK
  <2> QED
    BY <1>5, <2>1, ReturnIInv DEF SaveUserFails
<1>6. ASSUME NEW c \in Clients, HandlerStep(c) PROVE IInv'
  BY <1>2, <1>3, <1>4, <1>5, <1>6, RegisterFreeIInv, SaveUserIInv, RegisterReplyIInv,
     LoginIInv, EnterIInv, CloseSlotIInv, WipeNickIInv, ClearAuthorizedIInv
     DEF HandlerStep
<1> QED
  BY <1>1, <1>6, ConnectIInv, ExpireIInv DEF Next

\* The invariant holds in every reachable state.
THEOREM InvariantHolds == Spec => []IInv
BY InitIInv, NextIInv, PTL DEF Spec

\* The actions of Accounts keep every variable of its type.
THEOREM TypeCorrect == Spec => []TypeOK
<1>1. IInv => TypeOK
  BY DEF IInv
<1> QED
  BY <1>1, InvariantHolds, PTL

\* Racing registrations of one nickname are never both told they succeeded,
\* however many handlers race.
THEOREM OneOwnerHolds == Spec => []OneOwner
<1>1. IInv => OneOwner
  BY DEF IInv, RowInv, IssuedAreRows, RowsDistinct, OneOwner
<1> QED
  BY <1>1, InvariantHolds, PTL

\* A delivered token logs in, for every token length.
THEOREM IssuedTokenLogsInHolds == Spec => []IssuedTokenLogsIn
<1>1. IInv => IssuedTokenLogsIn
  <2> SUFFICES ASSUME IInv, NEW i \in issued, NEW n \in Nicks, Canon[n] = Canon[i.nick]
               PROVE  authenticate_user(n, ScanToken(i.token))
    BY DEF IssuedTokenLogsIn
  <2>1. i \in rows /\ i.token \in Tokens
    BY DEF IInv, RowInv, IssuedAreRows, TypeOK, Rows
  <2>2. constant_time_compare(i.token, ScanToken(i.token))
    BY <2>1, ScannedTokenMatches
  <2> QED
    BY <2>1, <2>2 DEF authenticate_user
<1> QED
  BY <1>1, InvariantHolds, PTL

\* A slot that the other threads find online, and that only its own handler has,
\* carries a registered name, also while cleanup_client_resources takes it down.
THEOREM SessionHasAccountHolds == Spec => []SessionHasAccount
<1>1. IInv => SessionHasAccount
  BY DEF IInv, SlotInv
<1> QED
  BY <1>1, InvariantHolds, PTL

(***************************************************************************)
(* Refinement: Accounts implements Registry.                               *)
(***************************************************************************)
\* With one row per nickname, CHOOSE finds that row; before and after a step.
LEMMA OwnerOfRow ==
    ASSUME IInv
    PROVE  /\ DOMAIN ownerBar = {Canon[r.nick] : r \in rows}
           /\ \A r \in rows : ownerBar[Canon[r.nick]] = r.token
<1>1. DOMAIN ownerBar = {Canon[r.nick] : r \in rows}
  BY DEF ownerBar
<1>2. ASSUME NEW r \in rows PROVE ownerBar[Canon[r.nick]] = r.token
  <2> DEFINE q == CHOOSE q \in rows : Canon[q.nick] = Canon[r.nick]
  <2>1. q \in rows /\ Canon[q.nick] = Canon[r.nick]
    OBVIOUS
  <2>2. q = r
    BY <2>1 DEF IInv, RowInv, RowsDistinct
  <2>3. ownerBar[Canon[r.nick]] = q.token
    BY <2>1 DEF ownerBar
  <2> QED
    BY <2>2, <2>3
<1> QED
  BY <1>1, <1>2

\* A step that leaves the table alone leaves the accounts alone.
LEMMA SameRowsSameOwner ==
    ASSUME UNCHANGED rows
    PROVE  UNCHANGED ownerBar
BY DEF ownerBar

\* A step that leaves the slots alone leaves the sessions alone.
LEMMA SameSlotsSameSessions ==
    ASSUME UNCHANGED <<open, nick, authorized, shared>>
    PROVE  UNCHANGED signedInBar
BY DEF signedInBar, Online

\* The INSERT is the registry's Claim.
LEMMA SaveUserClaims ==
    ASSUME IInv, IInv', NEW c \in Clients, NEW t \in Tokens, SaveUser(c, t)
    PROVE  Reg!Claim(Canon[want[c]], t) /\ Canon[want[c]] \in Nicks
<1> DEFINE row == [nick |-> want[c], token |-> t]
           k == Canon[want[c]]
<1>0. /\ pc[c] = "save"
      /\ ~ViolatesUnique(row)
      /\ rows' = rows \cup {row}
      /\ UNCHANGED <<open, nick, authorized, shared>>
  BY DEF SaveUser, table
<1>1. k \in Nicks
  BY <1>0, NickAssumption DEF IInv, RowInv, PendingHasRow
<1>2. k \notin DOMAIN ownerBar
  BY <1>0, OwnerOfRow DEF ViolatesUnique
<1>3. /\ DOMAIN ownerBar' = {Canon[r.nick] : r \in rows'}
      /\ \A r \in rows' : ownerBar'[Canon[r.nick]] = r.token
  <2>1. DOMAIN ownerBar' = {Canon[r.nick] : r \in rows'}
    BY DEF ownerBar
  <2>2. ASSUME NEW r \in rows' PROVE ownerBar'[Canon[r.nick]] = r.token
    <3> DEFINE q == CHOOSE q \in rows' : Canon[q.nick] = Canon[r.nick]
    <3>1. q \in rows' /\ Canon[q.nick] = Canon[r.nick]
      OBVIOUS
    <3>2. q = r
      BY <3>1 DEF IInv, RowInv, RowsDistinct
    <3>3. ownerBar'[Canon[r.nick]] = q.token
      BY <3>1 DEF ownerBar
    <3> QED
      BY <3>2, <3>3
  <2> QED
    BY <2>1, <2>2
<1>4. DOMAIN ownerBar' = DOMAIN ownerBar \cup {k}
  BY <1>0, <1>3, OwnerOfRow
<1>5. ASSUME NEW j \in DOMAIN ownerBar'
      PROVE  ownerBar'[j] = IF j = k THEN t ELSE ownerBar[j]
  <2>1. CASE j = k
    <3>1. row \in rows' /\ Canon[row.nick] = k /\ row.token = t
      BY <1>0
    <3> QED
      BY <2>1, <3>1, <1>3
  <2>2. CASE j # k
    <3>1. PICK r \in rows : j = Canon[r.nick]
      BY <1>4, <2>2, OwnerOfRow
    <3>2. ownerBar[j] = r.token
      BY <3>1, OwnerOfRow
    <3>3. ownerBar'[j] = r.token
      BY <1>0, <3>1, <1>3
    <3> QED
      BY <2>2, <3>2, <3>3
  <2> QED
    BY <2>1, <2>2
<1>6. ownerBar' = [j \in DOMAIN ownerBar \cup {k} |-> IF j = k THEN t ELSE ownerBar[j]]
  <2>1. ownerBar' = [j \in DOMAIN ownerBar' |-> ownerBar'[j]]
    BY DEF ownerBar
  <2> QED
    BY <2>1, <1>4, <1>5
<1> QED
  BY <1>0, <1>1, <1>2, <1>6, SameSlotsSameSessions DEF Reg!Claim

\* Entering is the registry's SignIn, or no step of it when the others do not see it.
LEMMA EnterSignsIn ==
    ASSUME IInv, NEW c \in Clients, Enter(c)
    PROVE  \/ Reg!SignIn(slot[c], Canon[want[c]]) /\ slot[c] \in Slots /\ Canon[want[c]] \in Nicks
           \/ UNCHANGED <<ownerBar, signedInBar>>
<1>0. /\ pc[c] = "enter"
      /\ nick' = [nick EXCEPT ![slot[c]] = want[c]]
      /\ authorized' = [authorized EXCEPT ![slot[c]] = TRUE]
      /\ UNCHANGED <<rows, open, shared>>
  BY DEF Enter
<1>1. slot[c] \in Slots /\ want[c] \in Nicks /\ NickTaken(want[c])
  BY <1>0 DEF IInv, RowInv, SlotInv, SlotOfLive, PendingHasRow
<1>2. CASE open[slot[c]] /\ ~shared[slot[c]]
  <2>1. signedInBar[slot[c]] = NoNick
    BY <1>0, <1>1, <1>2 DEF IInv, SlotInv, EnterIsFresh, signedInBar, Online
  <2>2. Canon[want[c]] \in DOMAIN ownerBar
    BY <1>1, OwnerOfRow DEF NickTaken
  <2>3. signedInBar' = [signedInBar EXCEPT ![slot[c]] = Canon[want[c]]]
    BY <1>0, <1>1, <1>2 DEF signedInBar, Online, IInv, TypeOK
  <2> QED
    BY <1>0, <1>1, <2>1, <2>2, <2>3, SameRowsSameOwner, NickAssumption DEF Reg!SignIn
<1>3. CASE ~(open[slot[c]] /\ ~shared[slot[c]])
  <2>1. signedInBar' = signedInBar
    BY <1>0, <1>1, <1>3 DEF signedInBar, Online, IInv, TypeOK
  <2> QED
    BY <1>0, <2>1, SameRowsSameOwner
<1> QED
  BY <1>2, <1>3

\* Closing a slot, by its handler or by the monitor, is the registry's SignOut.
LEMMA UnsetSignsOut ==
    ASSUME IInv, NEW s \in Slots, Unset(s), UNCHANGED <<rows, nick, authorized>>
    PROVE  Reg!SignOut(s)
<1>1. signedInBar' = [signedInBar EXCEPT ![s] = NoNick]
  BY DEF Unset, signedInBar, Online, IInv, TypeOK
<1> QED
  BY <1>1, SameRowsSameOwner DEF Reg!SignOut

\* A new connection is not signed in.
LEMMA ConnectSignsOut ==
    ASSUME IInv, NEW c \in Clients, NEW s \in Slots, Connect(c, s)
    PROVE  Reg!SignOut(s)
<1>0. /\ open' = [open EXCEPT ![s] = TRUE]
      /\ nick' = [nick EXCEPT ![s] = NoNick]
      /\ authorized' = [authorized EXCEPT ![s] = FALSE]
      /\ shared' = [shared EXCEPT ![s] = Bound(s) # {}]
      /\ UNCHANGED rows
  BY DEF Connect
<1>1. signedInBar' = [signedInBar EXCEPT ![s] = NoNick]
  BY <1>0 DEF signedInBar, Online, IInv, TypeOK
<1> QED
  BY <1>0, <1>1, SameRowsSameOwner DEF Reg!SignOut

\* Wiping the name and clearing authorized are no steps of the registry: nobody sees
\* the slot as online any more, or it is shared.
LEMMA WipeStutters ==
    ASSUME IInv, NEW c \in Clients, WipeNick(c) \/ ClearAuthorized(c)
    PROVE  UNCHANGED <<ownerBar, signedInBar>>
<1>1. /\ slot[c] \in Slots
      /\ ~open[slot[c]] \/ shared[slot[c]]
      /\ UNCHANGED <<rows, open, shared>>
      /\ \/ UNCHANGED authorized /\ nick' = [nick EXCEPT ![slot[c]] = NoNick]
         \/ UNCHANGED nick /\ authorized' = [authorized EXCEPT ![slot[c]] = FALSE]
  BY DEF IInv, SlotInv, SlotOfLive, WipedIsClosed, WipeNick, ClearAuthorized
<1>2. signedInBar' = signedInBar
  BY <1>1 DEF signedInBar, Online, IInv, TypeOK
<1> QED
  BY <1>1, <1>2, SameRowsSameOwner

\* The handlers' steps on the table and the slots are steps of the registry.
THEOREM ImplementsRegistryHolds == Spec => ImplementsRegistry
<1>1. Init => Reg!RegInit
  <2> SUFFICES ASSUME Init PROVE Reg!RegInit
    OBVIOUS
  <2>1. ownerBar = [k \in {} |-> k]
    BY DEF Init, ownerBar
  <2>2. signedInBar = [s \in Slots |-> NoNick]
    BY DEF Init, signedInBar, Online
  <2> QED
    BY <2>1, <2>2 DEF Reg!RegInit
<1>2. IInv /\ IInv' /\ [Next]_vars => [Reg!RegNext]_<<ownerBar, signedInBar>>
  <2> SUFFICES ASSUME IInv, IInv', [Next]_vars
               PROVE  Reg!RegNext \/ UNCHANGED <<ownerBar, signedInBar>>
    OBVIOUS
  <2>1. ASSUME UNCHANGED <<rows, open, nick, authorized, shared>>
        PROVE  UNCHANGED <<ownerBar, signedInBar>>
    BY <2>1, SameRowsSameOwner, SameSlotsSameSessions
  <2>2. ASSUME NEW c \in Clients, NEW t \in Tokens, SaveUser(c, t) PROVE Reg!RegNext
    BY <2>2, SaveUserClaims DEF Reg!RegNext
  <2>3. ASSUME NEW c \in Clients, Enter(c)
        PROVE  Reg!RegNext \/ UNCHANGED <<ownerBar, signedInBar>>
    BY <2>3, EnterSignsIn DEF Reg!RegNext
  <2>4. ASSUME NEW c \in Clients, CloseSlot(c) PROVE Reg!RegNext
    <3>1. slot[c] \in Slots
      BY <2>4 DEF CloseSlot, IInv, SlotInv, SlotOfLive
    <3> QED
      BY <2>4, <3>1, UnsetSignsOut DEF CloseSlot, Reg!RegNext
  <2>5. ASSUME NEW s \in Slots, Expire(s) PROVE Reg!RegNext
    BY <2>5, UnsetSignsOut DEF Expire, Reg!RegNext
  <2>6. ASSUME NEW c \in Clients, NEW s \in Slots, Connect(c, s) PROVE Reg!RegNext
    BY <2>6, ConnectSignsOut DEF Reg!RegNext
  <2>7. CASE UNCHANGED vars
    BY <2>1, <2>7 DEF vars, table
  <2>8. ASSUME NEW c \in Clients, NEW n \in Nicks,
               \/ RegisterInvalid(c, n) \/ RegisterExists(c, n)
               \/ \E f \in BOOLEAN : RegisterFree(c, n, f)
               \/ \E s \in Typed : Login(c, n, s)
        PROVE  UNCHANGED <<ownerBar, signedInBar>>
    BY <2>1, <2>8 DEF RegisterInvalid, RegisterExists, RegisterFree, Login, table
  <2>9. ASSUME NEW c \in Clients,
               \/ TokenFails(c) \/ SaveUserFails(c) \/ LoginRefused(c)
               \/ \E d \in BOOLEAN : RegisterReply(c, d)
        PROVE  UNCHANGED <<ownerBar, signedInBar>>
    BY <2>1, <2>9 DEF TokenFails, SaveUserFails, LoginRefused, RegisterReply, table
  <2>10. ASSUME NEW c \in Clients, HandlerStep(c)
         PROVE  Reg!RegNext \/ UNCHANGED <<ownerBar, signedInBar>>
    BY <2>2, <2>3, <2>4, <2>8, <2>9, <2>10, WipeStutters DEF HandlerStep
  <2> QED
    BY <2>5, <2>6, <2>7, <2>10 DEF Next
<1> QED
  BY <1>1, <1>2, InvariantHolds, PTL DEF Spec, ImplementsRegistry, Reg!RegSpec
=============================================================================
