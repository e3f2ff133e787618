--------------------------- MODULE MessagingProof ---------------------------
(***************************************************************************)
(* Proofs about Messaging, for every number of slots, clients, nicknames   *)
(* and texts.                                                              *)
(***************************************************************************)
EXTENDS Messaging, TLAPS

(***************************************************************************)
(* The inductive invariant.  The properties speak of what was received;    *)
(* to be kept they need what every sender is about to write, and to whom.  *)
(***************************************************************************)
\* A client with a running handler is the tenant of its slot, and of no other.
Placed ==
    /\ \A c \in Clients : tenant[slot[c]] = c <=> pc[c] \notin {"none", "done"}
    /\ \A s \in Slots : tenant[s] # NoClient => slot[tenant[s]] = s

\* The nickname in a slot is the one its tenant logged in with.
Named ==
    /\ \A s \in Slots : nick[s] = IF tenant[s] = NoClient THEN NoNick ELSE name[tenant[s]]
    /\ \A c \in Clients : pc[c] = "none" => name[c] = NoNick

\* Texts are numbered as they are sent.
Numbered ==
    /\ \A c \in Clients : text[c] <= sent /\ arrival[c] <= sent
    /\ \A c \in Clients, m \in Texts : m > sent => got[c][m] = 0

\* Each text has one sender.
OneSender ==
    \A c, d \in Clients : c # d /\ text[c] = text[d] => text[c] = 0

\* What is remembered of a text a handler is sending.
Sending ==
    \A c \in Clients :
       /\ pc[c] \in {"save", "part", "test", "lookup", "send", "write", "partSend", "partWrite"}
             => nick[slot[c]] # NoNick
       /\ pc[c] \in {"part", "partSend", "partWrite"} => text[c] = 0
       /\ pc[c] \in {"test", "lookup"} => target[c] # NoNick /\ text[c] # 0
       /\ pc[c] \in {"save", "write"} /\ target[c] # NoNick => text[c] # 0
       /\ pc[c] \in {"part", "send", "partSend", "partWrite"} => target[c] = NoNick
       /\ pc[c] \in {"save", "test", "lookup", "send", "write"} /\ text[c] # 0 =>
             /\ letter[text[c]].from = nick[slot[c]]
             /\ letter[text[c]].to = target[c]
             /\ letter[text[c]].kind \in {"private", "encrypted"} <=> target[c] # NoNick
             /\ pc[c] \in {"save", "test"} => letter[text[c]].kind # "encrypted"
             /\ pc[c] = "lookup" => letter[text[c]].kind = "encrypted"

\* A private or encrypted text has an addressee.
Addressed ==
    \A m \in Texts : letter[m].kind \in {"private", "encrypted"} => letter[m].to \in Nicks

\* The slots a broadcast has still to visit: none outside a broadcast, and never the
\* slot it is writing to.
Visiting ==
    \A c \in Clients :
       /\ pc[c] \in {"none", "idle", "test", "lookup", "clean", "done"} => todo[c] = {}
       /\ pc[c] \in {"save", "part"} => todo[c] = IF target[c] = NoNick THEN Slots ELSE {}
       /\ pc[c] = "write" /\ target[c] # NoNick => todo[c] = {}
       /\ pc[c] \in {"write", "partWrite"} => found[c] \notin todo[c]

\* Who is owed a text is logged in, and in the slot that was found if the text is private.
OwedPresent ==
    \A c \in Clients : \A d \in owed[c] :
       /\ d \in Members
       /\ text[c] # 0 /\ pc[c] # "lookup"
       /\ pc[c] \in {"save", "test", "write"} /\ target[c] # NoNick => found[c] = slot[d]

\* Whoever is in the slot of a private text's addressee is the addressee, or came later.
FoundKnown ==
    \A c \in Clients :
       LET d == tenant[found[c]]
       IN  pc[c] \in {"save", "test", "write"} /\ target[c] # NoNick /\ d # NoClient =>
              name[d] = target[c] \/ arrival[d] >= text[c]

\* A text that is being written has been stored.
Stored ==
    \A c \in Clients :
       LET m == text[c]
       IN  pc[c] \in {"test", "send", "write"} /\ m # 0 /\ letter[m].kind # "encrypted" =>
              \/ m \in lost
              \/ [from |-> letter[m].from, to |-> letter[m].to, text |-> m] \in rows

IInv ==
    /\ TypeOK /\ Placed /\ Named /\ Numbered /\ OneSender /\ Sending /\ Addressed /\ Visiting
    /\ OwedPresent /\ FoundKnown /\ Stored
    /\ EveryoneOnce /\ StrangersAreNewcomers /\ ReceivedIsStored

-----------------------------------------------------------------------------
(***************************************************************************)
(* Every action preserves the invariant, one lemma per action.             *)
(***************************************************************************)
\* Ranges of slots and texts.
LEMMA Ranges ==
    /\ 0 \in Slots
    /\ \A m \in Texts : m \in Int /\ m >= 1 /\ m <= MaxMessages
    /\ \A k \in 0..MaxMessages : /\ k \in Int /\ k >= 0
                               /\ k < MaxMessages => k + 1 \in Texts /\ k + 1 \in 0..MaxMessages
BY MessagingAssumption DEF Slots, Texts

USE MessagingAssumption, Ranges DEF IInv, table, handlers, history, Labels

\* The handlers that run have different slots.
LEMMA OwnSlot ==
    ASSUME IInv, NEW c \in Clients, pc[c] \notin {"none", "done"}
    PROVE  /\ tenant[slot[c]] = c
           /\ \A s \in Slots : tenant[s] = c => s = slot[c]
           /\ \A d \in Clients : pc[d] \notin {"none", "done"} /\ d # c => slot[d] # slot[c]
           /\ nick[slot[c]] = name[c]
BY DEF TypeOK, Placed, Named

\* A new client takes a free slot: it is owed nothing, and came after every text so far.
LEMMA ConnectIInv ==
    ASSUME IInv, NEW c \in Clients, NEW s \in Slots, Connect(c, s)
    PROVE  IInv'
<1> USE DEF Connect, IsLowest, Go
<1>1. TypeOK' BY DEF TypeOK
<1>2. Placed' BY DEF TypeOK, Placed
<1>3. Named' BY DEF Named
<1>4. Numbered' BY DEF TypeOK, Numbered
<1>5. OneSender' BY DEF OneSender
<1>6. Sending' BY DEF TypeOK, Placed, Named, Sending
<1>7. Addressed' BY DEF Addressed
<1>8. Visiting' BY DEF Visiting
<1>9. OwedPresent' BY DEF TypeOK, Placed, OwedPresent, Members
<1>10. FoundKnown' BY DEF TypeOK, Numbered, FoundKnown
<1>11. Stored' BY DEF Stored
<1>12. EveryoneOnce' BY DEF TypeOK, Placed, OwedPresent, Members, EveryoneOnce, Ahead
<1>13. StrangersAreNewcomers' BY DEF TypeOK, Numbered, StrangersAreNewcomers
<1>14. ReceivedIsStored' BY DEF ReceivedIsStored
<1> QED BY <1>1, <1>2, <1>3, <1>4, <1>5, <1>6, <1>7, <1>8, <1>9, <1>10, <1>11, <1>12, <1>13,
          <1>14

\* A client gets its nickname, which it had not before.
LEMMA LogInIInv ==
    ASSUME IInv, NEW c \in Clients, NEW n \in Nicks, LogIn(c, n)
    PROVE  IInv'
<1> USE DEF LogIn, Broadcast, Go
<1>1. TypeOK' BY DEF TypeOK, Members
<1>2. Placed' BY DEF Placed, Members
<1>3. Named'
  <2>1. tenant[slot[c]] = c /\ \A t \in Slots : tenant[t] = c => t = slot[c]
    BY OwnSlot
  <2>2. \A t \in Slots : nick'[t] = IF tenant[t] = NoClient THEN NoNick ELSE name'[tenant[t]]
    BY <2>1 DEF TypeOK, Named
  <2>3. \A d \in Clients : pc'[d] = "none" => name'[d] = NoNick
    BY DEF TypeOK, Named
  <2> QED BY <2>2, <2>3 DEF Named
<1>4. Numbered' BY DEF TypeOK, Numbered, Members
<1>5. OneSender' BY DEF OneSender, Members
<1>6. Sending' BY DEF TypeOK, Sending, Members
<1>7. Addressed' BY DEF Addressed, Members
<1>8. Visiting' BY DEF TypeOK, Visiting, Members
<1>9. OwedPresent' BY DEF TypeOK, OwedPresent, Members
<1>10. FoundKnown' BY DEF TypeOK, Placed, Named, FoundKnown, Members
<1>11. Stored' BY DEF TypeOK, Stored, Members
<1>12. EveryoneOnce' BY DEF TypeOK, EveryoneOnce, Ahead, Members
<1>13. StrangersAreNewcomers'
  <2>1. name[c] = NoNick
    BY OwnSlot
  <2> SUFFICES ASSUME NEW d \in Clients, NEW m \in Texts, got[d][m] > 0,
                      letter[m].kind \in {"private", "encrypted"}
               PROVE  name'[d] = letter[m].to \/ arrival[d] >= m
    BY DEF StrangersAreNewcomers
  <2>2. name[d] = letter[m].to \/ arrival[d] >= m
    BY DEF StrangersAreNewcomers
  <2>3. letter[m].to # NoNick
    BY DEF Addressed
  <2> QED BY <2>1, <2>2, <2>3 DEF TypeOK
<1>14. ReceivedIsStored' BY DEF ReceivedIsStored, Members
<1> QED BY <1>1, <1>2, <1>3, <1>4, <1>5, <1>6, <1>7, <1>8, <1>9, <1>10, <1>11, <1>12, <1>13,
          <1>14

\* The handler's loop ends.
LEMMA LeaveIInv ==
    ASSUME IInv, NEW c \in Clients, Leave(c)
    PROVE  IInv'
<1> USE DEF Leave, Broadcast, Go
<1>1. TypeOK'
  <2>1. owed' \in [Clients -> SUBSET Clients]
    BY DEF TypeOK
  <2>2. pc' \in [Clients -> Labels]
    <3>1. PICK l \in Labels : pc' = [pc EXCEPT ![c] = l]
      OBVIOUS
    <3>2. pc \in [Clients -> Labels]
      BY DEF TypeOK
    <3> HIDE DEF Leave, Labels
    <3> QED BY <3>1, <3>2
  <2>3. text' \in [Clients -> Texts \cup {0}] /\ target' \in [Clients -> Nicks \cup {NoNick}]
    BY DEF TypeOK
  <2>4. todo' \in [Clients -> SUBSET Slots]
    BY DEF TypeOK
  <2> QED BY <2>1, <2>2, <2>3, <2>4 DEF TypeOK
<1>2. Placed' BY DEF TypeOK, Placed, Members
<1>3. Named' BY DEF TypeOK, Named, Members
<1>4. Numbered'
  <2>1. \A d \in Clients : text'[d] \in {text[d], 0}
    BY DEF TypeOK
  <2>2. sent \in Nat /\ sent' = sent /\ arrival' = arrival /\ got' = got
    BY DEF TypeOK
  <2> HIDE DEF Leave
  <2> QED BY <2>1, <2>2 DEF Numbered
<1>5. OneSender' BY DEF TypeOK, OneSender, Members
<1>6. Sending' BY DEF TypeOK, Sending, Members
<1>7. Addressed' BY DEF Addressed, Members
<1>8. Visiting'
  <2>1. \A d \in Clients : d # c => /\ pc'[d] = pc[d] /\ target'[d] = target[d]
                                  /\ todo'[d] = todo[d] /\ found'[d] = found[d]
    BY DEF TypeOK
  <2>2. \/ pc'[c] = "part" /\ target'[c] = NoNick /\ todo'[c] = Slots
        \/ pc'[c] = "clean" /\ todo'[c] = {}
    BY DEF TypeOK, Visiting
  <2> QED BY <2>1, <2>2 DEF Visiting
<1>9. OwedPresent'
  <2>1. owed' = [owed EXCEPT ![c] = {}]
    OBVIOUS
  <2>2. \A e \in Clients : e # c => text'[e] = text[e] /\ target'[e] = target[e]
    BY DEF TypeOK
  <2> QED BY <2>1, <2>2 DEF TypeOK, OwedPresent, Members
<1>10. FoundKnown'
  <2>1. \A d \in Clients : pc'[d] \in {"save", "test", "write"} =>
                              pc'[d] = pc[d] /\ target'[d] = target[d] /\ text'[d] = text[d]
    BY DEF TypeOK
  <2>2. UNCHANGED <<tenant, found, name, arrival>>
    BY DEF table
  <2> HIDE DEF Leave
  <2> QED BY <2>1, <2>2 DEF FoundKnown
<1>11. Stored'
  <2>1. \A d \in Clients : pc'[d] \in {"test", "send", "write"} =>
                              pc'[d] = pc[d] /\ text'[d] = text[d]
    BY DEF TypeOK
  <2> QED BY <2>1 DEF TypeOK, Stored
<1>12. EveryoneOnce'
  <2>1. CASE nick[slot[c]] # NoNick
    BY <2>1 DEF TypeOK, EveryoneOnce, Ahead
  <2>2. CASE nick[slot[c]] = NoNick
    BY <2>2 DEF TypeOK, EveryoneOnce, Ahead
  <2> QED BY <2>1, <2>2
<1>13. StrangersAreNewcomers' BY DEF StrangersAreNewcomers, Members
<1>14. ReceivedIsStored' BY DEF ReceivedIsStored, Members
<1> QED BY <1>1, <1>2, <1>3, <1>4, <1>5, <1>6, <1>7, <1>8, <1>9, <1>10, <1>11, <1>12, <1>13,
          <1>14

\* A client leaves its slot, and is owed nothing any more.
LEMMA CleanIInv ==
    ASSUME IInv, NEW c \in Clients, Clean(c)
    PROVE  IInv'
<1> USE DEF Clean, Go
<1>1. TypeOK' BY DEF TypeOK
<1>2. Placed' BY DEF TypeOK, Placed
<1>3. Named' BY DEF TypeOK, Named
<1>4. Numbered' BY DEF Numbered
<1>5. OneSender' BY DEF OneSender
<1>6. Sending'
  <2>1. \A d \in Clients : pc[d] \notin {"none", "done"} /\ d # c => slot[d] # slot[c]
    BY OwnSlot
  <2> QED BY <2>1 DEF TypeOK, Sending
<1>7. Addressed' BY DEF Addressed
<1>8. Visiting' BY DEF Visiting
<1>9. OwedPresent'
  <2> SUFFICES ASSUME NEW e \in Clients, NEW d \in owed'[e]
               PROVE  /\ d \in Members'
                      /\ text'[e] # 0 /\ pc'[e] # "lookup"
                      /\ pc'[e] \in {"save", "test", "write"} /\ target'[e] # NoNick =>
                            found'[e] = slot'[d]
    BY DEF OwedPresent
  <2>1. d \in owed[e] /\ d # c
    BY DEF TypeOK
  <2>2. /\ d \in Members
        /\ text[e] # 0 /\ pc[e] # "lookup"
        /\ pc[e] \in {"save", "test", "write"} /\ target[e] # NoNick => found[e] = slot[d]
    BY <2>1 DEF OwedPresent
  <2>3. slot[d] # slot[c]
    BY <2>1, <2>2, OwnSlot DEF Members
  <2> QED BY <2>2, <2>3 DEF TypeOK, Members
<1>10. FoundKnown' BY DEF FoundKnown
<1>11. Stored' BY DEF Stored
<1>12. EveryoneOnce' BY DEF EveryoneOnce, Ahead
<1>13. StrangersAreNewcomers' BY DEF StrangersAreNewcomers
<1>14. ReceivedIsStored' BY DEF ReceivedIsStored
<1> QED BY <1>1, <1>2, <1>3, <1>4, <1>5, <1>6, <1>7, <1>8, <1>9, <1>10, <1>11, <1>12, <1>13,
          <1>14

\* A new text for all who are logged in.
LEMMA ChatIInv ==
    ASSUME IInv, NEW c \in Clients, Chat(c)
    PROVE  IInv'
<1> USE DEF Chat, Compose, Broadcast, Go
<1>1. TypeOK' BY DEF TypeOK, Members
<1>2. Placed' BY DEF Placed, Members
<1>3. Named' BY DEF Named, Members
<1>4. Numbered'
  <2>1. sent \in Int /\ sent' = sent + 1
    BY DEF TypeOK
  <2>2. \A d \in Clients : /\ text[d] \in Int /\ text[d] <= sent
                          /\ arrival[d] \in Int /\ arrival[d] <= sent
    BY DEF TypeOK, Numbered
  <2>3. \A d \in Clients : text'[d] \in {text[d], sent + 1} /\ arrival'[d] = arrival[d]
    BY DEF TypeOK
  <2>4. \A d \in Clients, m \in Texts : m > sent' => got'[d][m] = 0
    BY <2>1 DEF TypeOK, Numbered
  <2>5. \A d \in Clients : text'[d] <= sent' /\ arrival'[d] <= sent'
    BY <2>1, <2>2, <2>3
  <2> QED BY <2>4, <2>5 DEF Numbered
<1>5. OneSender' BY DEF TypeOK, Numbered, OneSender, Members
<1>6. Sending' BY DEF TypeOK, Numbered, Sending, Members
<1>7. Addressed' BY DEF Addressed, Members
<1>8. Visiting' BY DEF TypeOK, Visiting, Members
<1>9. OwedPresent' BY DEF TypeOK, OwedPresent, Members
<1>10. FoundKnown' BY DEF TypeOK, FoundKnown, Members
<1>11. Stored' BY DEF TypeOK, Numbered, Stored, Members
<1>12. EveryoneOnce' BY DEF TypeOK, Numbered, EveryoneOnce, Ahead, Members
<1>13. StrangersAreNewcomers'
  <2> SUFFICES ASSUME NEW d \in Clients, NEW m \in Texts, got[d][m] > 0
               PROVE  letter'[m] = letter[m]
    BY DEF StrangersAreNewcomers
  <2>1. ~(m > sent)
    BY DEF Numbered
  <2>2. sent \in Int /\ m \in Int
    BY DEF TypeOK
  <2>3. m # sent + 1
    BY <2>1, <2>2
  <2> QED BY <2>3 DEF TypeOK
<1>14. ReceivedIsStored'
  <2> SUFFICES ASSUME NEW d \in Clients, NEW m \in Texts, got[d][m] > 0
               PROVE  letter'[m] = letter[m]
    BY DEF ReceivedIsStored
  <2>1. ~(m > sent)
    BY DEF Numbered
  <2>2. sent \in Int /\ m \in Int
    BY DEF TypeOK
  <2>3. m # sent + 1
    BY <2>1, <2>2
  <2> QED BY <2>3 DEF TypeOK
<1> QED BY <1>1, <1>2, <1>3, <1>4, <1>5, <1>6, <1>7, <1>8, <1>9, <1>10, <1>11, <1>12, <1>13,
          <1>14

\* A new text for the client find_client_by_nick has found.
LEMMA PrivateIInv ==
    ASSUME IInv, NEW c \in Clients, NEW n \in Nicks, NEW s \in Slots, Private(c, n, s)
    PROVE  IInv'
<1> USE DEF Private, Compose, FindClientByNick, LoggedIn, IsLowest, Go
<1>1. TypeOK' BY DEF TypeOK
<1>2. Placed' BY DEF Placed
<1>3. Named' BY DEF Named
<1>4. Numbered'
  <2>1. sent \in Int /\ sent' = sent + 1
    BY DEF TypeOK
  <2>2. \A d \in Clients : /\ text[d] \in Int /\ text[d] <= sent
                          /\ arrival[d] \in Int /\ arrival[d] <= sent
    BY DEF TypeOK, Numbered
  <2>3. \A d \in Clients : text'[d] \in {text[d], sent + 1} /\ arrival'[d] = arrival[d]
    BY DEF TypeOK
  <2>4. \A d \in Clients, m \in Texts : m > sent' => got'[d][m] = 0
    BY <2>1 DEF TypeOK, Numbered
  <2>5. \A d \in Clients : text'[d] <= sent' /\ arrival'[d] <= sent'
    BY <2>1, <2>2, <2>3
  <2> QED BY <2>4, <2>5 DEF Numbered
<1>5. OneSender' BY DEF TypeOK, Numbered, OneSender
<1>6. Sending' BY DEF TypeOK, Numbered, Sending
<1>7. Addressed' BY DEF Addressed
<1>8. Visiting' BY DEF TypeOK, Visiting
<1>a. /\ tenant[s] \in Clients /\ slot[tenant[s]] = s /\ tenant[s] \in Members
      /\ owed' = [owed EXCEPT ![c] = {tenant[s]}] /\ found' = [found EXCEPT ![c] = s]
  BY DEF TypeOK, Placed, Members
<1>9. OwedPresent'
  <2> SUFFICES ASSUME NEW e \in Clients, NEW d \in owed'[e]
               PROVE  /\ d \in Members
                      /\ text'[e] # 0 /\ pc'[e] # "lookup"
                      /\ pc'[e] \in {"save", "test", "write"} /\ target'[e] # NoNick =>
                            found'[e] = slot[d]
    BY DEF OwedPresent, Members
  <2>1. CASE e = c
    BY <1>a, <2>1 DEF TypeOK
  <2>2. CASE e # c
    BY <2>2 DEF TypeOK, OwedPresent
  <2> QED BY <2>1, <2>2
<1>10. FoundKnown' BY DEF TypeOK, Placed, Named, FoundKnown
<1>11. Stored' BY DEF TypeOK, Numbered, Stored
<1>12. EveryoneOnce'
  <2> SUFFICES ASSUME NEW e \in Clients, NEW d \in owed'[e]
               PROVE  got'[d][text'[e]] = IF Ahead(e, d)' THEN 0 ELSE 1
    BY DEF EveryoneOnce
  <2>1. CASE e = c
    <3>1. d \in Clients /\ text'[e] = sent + 1 /\ sent + 1 \in Texts /\ sent + 1 > sent
      BY <1>a, <2>1 DEF TypeOK
    <3>2. got'[d][text'[e]] = 0
      BY <3>1 DEF Numbered
    <3>3. Ahead(e, d)'
      BY <2>1 DEF TypeOK, Ahead
    <3> QED BY <3>2, <3>3
  <2>2. CASE e # c
    BY <2>2 DEF TypeOK, EveryoneOnce, Ahead
  <2> QED BY <2>1, <2>2
<1>13. StrangersAreNewcomers'
  <2> SUFFICES ASSUME NEW d \in Clients, NEW m \in Texts, got[d][m] > 0
               PROVE  letter'[m] = letter[m]
    BY DEF StrangersAreNewcomers
  <2>1. ~(m > sent)
    BY DEF Numbered
  <2>2. sent \in Int /\ m \in Int
    BY DEF TypeOK
  <2>3. m # sent + 1
    BY <2>1, <2>2
  <2> QED BY <2>3 DEF TypeOK
<1>14. ReceivedIsStored'
  <2> SUFFICES ASSUME NEW d \in Clients, NEW m \in Texts, got[d][m] > 0
               PROVE  letter'[m] = letter[m]
    BY DEF ReceivedIsStored
  <2>1. ~(m > sent)
    BY DEF Numbered
  <2>2. sent \in Int /\ m \in Int
    BY DEF TypeOK
  <2>3. m # sent + 1
    BY <2>1, <2>2
  <2> QED BY <2>3 DEF TypeOK
<1> QED BY <1>1, <1>2, <1>3, <1>4, <1>5, <1>6, <1>7, <1>8, <1>9, <1>10, <1>11, <1>12, <1>13,
          <1>14

\* A new text whose addressee will be looked up again.
LEMMA EncryptIInv ==
    ASSUME IInv, NEW c \in Clients, NEW n \in Nicks, Encrypt(c, n)
    PROVE  IInv'
<1> USE DEF Encrypt, Compose, Go
<1>1. TypeOK' BY DEF TypeOK
<1>2. Placed' BY DEF Placed
<1>3. Named' BY DEF Named
<1>4. Numbered'
  <2>1. sent \in Int /\ sent' = sent + 1
    BY DEF TypeOK
  <2>2. \A d \in Clients : /\ text[d] \in Int /\ text[d] <= sent
                          /\ arrival[d] \in Int /\ arrival[d] <= sent
    BY DEF TypeOK, Numbered
  <2>3. \A d \in Clients : text'[d] \in {text[d], sent + 1} /\ arrival'[d] = arrival[d]
    BY DEF TypeOK
  <2>4. \A d \in Clients, m \in Texts : m > sent' => got'[d][m] = 0
    BY <2>1 DEF TypeOK, Numbered
  <2>5. \A d \in Clients : text'[d] <= sent' /\ arrival'[d] <= sent'
    BY <2>1, <2>2, <2>3
  <2> QED BY <2>4, <2>5 DEF Numbered
<1>5. OneSender' BY DEF TypeOK, Numbered, OneSender
<1>6. Sending' BY DEF TypeOK, Numbered, Sending
<1>7. Addressed' BY DEF Addressed
<1>8. Visiting' BY DEF Visiting
<1>9. OwedPresent' BY DEF TypeOK, OwedPresent, Members
<1>10. FoundKnown' BY DEF FoundKnown
<1>11. Stored' BY DEF Stored
<1>12. EveryoneOnce' BY DEF TypeOK, EveryoneOnce, Ahead
<1>13. StrangersAreNewcomers'
  <2> SUFFICES ASSUME NEW d \in Clients, NEW m \in Texts, got[d][m] > 0
               PROVE  letter'[m] = letter[m]
    BY DEF StrangersAreNewcomers
  <2>1. ~(m > sent)
    BY DEF Numbered
  <2>2. sent \in Int /\ m \in Int
    BY DEF TypeOK
  <2>3. m # sent + 1
    BY <2>1, <2>2
  <2> QED BY <2>3 DEF TypeOK
<1>14. ReceivedIsStored'
  <2> SUFFICES ASSUME NEW d \in Clients, NEW m \in Texts, got[d][m] > 0
               PROVE  letter'[m] = letter[m]
    BY DEF ReceivedIsStored
  <2>1. ~(m > sent)
    BY DEF Numbered
  <2>2. sent \in Int /\ m \in Int
    BY DEF TypeOK
  <2>3. m # sent + 1
    BY <2>1, <2>2
  <2> QED BY <2>3 DEF TypeOK
<1> QED BY <1>1, <1>2, <1>3, <1>4, <1>5, <1>6, <1>7, <1>8, <1>9, <1>10, <1>11, <1>12, <1>13,
          <1>14

\* The second lookup of an encrypted text.
LEMMA LookUpIInv ==
    ASSUME IInv, NEW c \in Clients, NEW s \in Slots, LookUp(c, s)
    PROVE  IInv'
<1> USE DEF LookUp, FindClientByNick, LoggedIn, IsLowest, Go
<1>1. TypeOK' BY DEF TypeOK
<1>2. Placed' BY DEF Placed
<1>3. Named' BY DEF Named
<1>4. Numbered' BY DEF Numbered
<1>5. OneSender' BY DEF OneSender
<1>6. Sending' BY DEF TypeOK, Sending
<1>7. Addressed' BY DEF Addressed
<1>8. Visiting' BY DEF Visiting
<1>9. OwedPresent' BY DEF OwedPresent, Members
<1>10. FoundKnown' BY DEF TypeOK, Placed, Named, FoundKnown
<1>11. Stored' BY DEF TypeOK, Sending, Stored
<1>12. EveryoneOnce' BY DEF TypeOK, OwedPresent, Sending, EveryoneOnce, Ahead
<1>13. StrangersAreNewcomers' BY DEF StrangersAreNewcomers
<1>14. ReceivedIsStored' BY DEF ReceivedIsStored
<1> QED BY <1>1, <1>2, <1>3, <1>4, <1>5, <1>6, <1>7, <1>8, <1>9, <1>10, <1>11, <1>12, <1>13,
          <1>14

\* The addressee of an encrypted text has gone.
LEMMA LookUpFailsIInv ==
    ASSUME IInv, NEW c \in Clients, LookUpFails(c)
    PROVE  IInv'
<1> USE DEF LookUpFails, Go
<1>1. TypeOK' BY DEF TypeOK
<1>2. Placed' BY DEF Placed
<1>3. Named' BY DEF Named
<1>4. Numbered' BY DEF Numbered
<1>5. OneSender' BY DEF OneSender
<1>6. Sending' BY DEF Sending
<1>7. Addressed' BY DEF Addressed
<1>8. Visiting' BY DEF Visiting
<1>9. OwedPresent' BY DEF OwedPresent, Members
<1>10. FoundKnown' BY DEF FoundKnown
<1>11. Stored' BY DEF Stored
<1>12. EveryoneOnce' BY DEF EveryoneOnce, Ahead
<1>13. StrangersAreNewcomers' BY DEF StrangersAreNewcomers
<1>14. ReceivedIsStored' BY DEF ReceivedIsStored
<1> QED BY <1>1, <1>2, <1>3, <1>4, <1>5, <1>6, <1>7, <1>8, <1>9, <1>10, <1>11, <1>12, <1>13,
          <1>14

\* The INSERT of save_message.
LEMMA SaveMessageIInv ==
    ASSUME IInv, NEW c \in Clients, SaveMessage(c)
    PROVE  IInv'
<1> USE DEF SaveMessage, AfterSave, Row, Go
<1>1. TypeOK' BY DEF TypeOK, Sending
<1>2. Placed' BY DEF Placed
<1>3. Named' BY DEF Named
<1>4. Numbered' BY DEF Numbered
<1>5. OneSender' BY DEF OneSender
<1>6. Sending' BY DEF Sending
<1>7. Addressed' BY DEF Addressed
<1>8. Visiting' BY DEF Visiting
<1>9. OwedPresent' BY DEF OwedPresent, Members
<1>10. FoundKnown' BY DEF FoundKnown
<1>11. Stored' BY DEF TypeOK, Sending, Stored
<1>12. EveryoneOnce'
  <2> SUFFICES ASSUME NEW e \in Clients, NEW d \in owed[e]
               PROVE  got'[d][text'[e]] = IF Ahead(e, d)' THEN 0 ELSE 1
    BY DEF EveryoneOnce
  <2>1. got[d][text[e]] = IF Ahead(e, d) THEN 0 ELSE 1
    BY DEF EveryoneOnce
  <2>2. pc[e] = "save" /\ target[e] = NoNick => slot[d] \in todo[e]
    BY DEF TypeOK, OwedPresent, Members, Visiting
  <2>3. text[e] # 0
    BY DEF OwedPresent
  <2>4. Ahead(e, d)' <=> Ahead(e, d)
    BY <2>2, <2>3 DEF TypeOK, Sending, Ahead
  <2> QED BY <2>1, <2>4
<1>13. StrangersAreNewcomers' BY DEF StrangersAreNewcomers
<1>14. ReceivedIsStored' BY DEF ReceivedIsStored
<1> QED BY <1>1, <1>2, <1>3, <1>4, <1>5, <1>6, <1>7, <1>8, <1>9, <1>10, <1>11, <1>12, <1>13,
          <1>14

\* The INSERT fails: the text is among the lost ones.
LEMMA SaveMessageFailsIInv ==
    ASSUME IInv, NEW c \in Clients, SaveMessageFails(c)
    PROVE  IInv'
<1> USE DEF SaveMessageFails, AfterSave, Go
<1>1. TypeOK' BY DEF TypeOK
<1>2. Placed' BY DEF Placed
<1>3. Named' BY DEF Named
<1>4. Numbered' BY DEF Numbered
<1>5. OneSender' BY DEF OneSender
<1>6. Sending' BY DEF Sending
<1>7. Addressed' BY DEF Addressed
<1>8. Visiting' BY DEF Visiting
<1>9. OwedPresent' BY DEF OwedPresent, Members
<1>10. FoundKnown' BY DEF FoundKnown
<1>11. Stored' BY DEF Stored
<1>12. EveryoneOnce'
  <2> SUFFICES ASSUME NEW e \in Clients, NEW d \in owed[e]
               PROVE  got'[d][text'[e]] = IF Ahead(e, d)' THEN 0 ELSE 1
    BY DEF EveryoneOnce
  <2>1. got[d][text[e]] = IF Ahead(e, d) THEN 0 ELSE 1
    BY DEF EveryoneOnce
  <2>2. pc[e] = "save" /\ target[e] = NoNick => slot[d] \in todo[e]
    BY DEF TypeOK, OwedPresent, Members, Visiting
  <2>3. text[e] # 0
    BY DEF OwedPresent
  <2>4. Ahead(e, d)' <=> Ahead(e, d)
    BY <2>2, <2>3 DEF TypeOK, Sending, Ahead
  <2> QED BY <2>1, <2>4
<1>13. StrangersAreNewcomers' BY DEF StrangersAreNewcomers
<1>14. ReceivedIsStored' BY DEF ReceivedIsStored
<1> QED BY <1>1, <1>2, <1>3, <1>4, <1>5, <1>6, <1>7, <1>8, <1>9, <1>10, <1>11, <1>12, <1>13,
          <1>14

\* The second test of send_private_message.
LEMMA TestFoundIInv ==
    ASSUME IInv, NEW c \in Clients, TestFound(c)
    PROVE  IInv'
<1> USE DEF TestFound, LoggedIn, Go
<1>1. TypeOK' BY DEF TypeOK
<1>2. Placed' BY DEF Placed
<1>3. Named' BY DEF Named
<1>4. Numbered' BY DEF Numbered
<1>5. OneSender' BY DEF OneSender
<1>6. Sending' BY DEF Sending
<1>7. Addressed' BY DEF Addressed
<1>8. Visiting' BY DEF Visiting
<1>9. OwedPresent' BY DEF OwedPresent, Members
<1>10. FoundKnown' BY DEF FoundKnown
<1>11. Stored' BY DEF Stored
<1>12. EveryoneOnce'
  <2> SUFFICES ASSUME NEW e \in Clients, NEW d \in owed[e]
               PROVE  got'[d][text'[e]] = IF Ahead(e, d)' THEN 0 ELSE 1
    BY DEF EveryoneOnce
  <2>1. got[d][text[e]] = IF Ahead(e, d) THEN 0 ELSE 1
    BY DEF EveryoneOnce
  <2>2. CASE e # c
    BY <2>1, <2>2 DEF TypeOK, Ahead
  <2>3. CASE e = c
    <3>1. found[c] = slot[d] /\ d \in Members
      BY <2>3 DEF OwedPresent, Sending
    <3>2. tenant[slot[d]] # NoClient /\ nick[slot[d]] # NoNick
      BY <3>1 DEF Members
    <3>3. pc'[c] = "write"
      BY <3>1, <3>2 DEF TypeOK
    <3> QED BY <2>1, <2>3, <3>1, <3>3 DEF Ahead
  <2> QED BY <2>2, <2>3
<1>13. StrangersAreNewcomers' BY DEF StrangersAreNewcomers
<1>14. ReceivedIsStored' BY DEF ReceivedIsStored
<1> QED BY <1>1, <1>2, <1>3, <1>4, <1>5, <1>6, <1>7, <1>8, <1>9, <1>10, <1>11, <1>12, <1>13,
          <1>14

\* broadcast_message passes a slot, or is about to write to its client.
LEMMA BroadcastNextIInv ==
    ASSUME IInv, NEW c \in Clients, NEW s \in Slots, BroadcastNext(c, s)
    PROVE  IInv'
<1> USE DEF BroadcastNext, LoggedIn, Resume, IsLowest, Go
<1>1. TypeOK'
  <2>1. pc' \in [Clients -> Labels]
    <3>1. PICK l \in Labels : pc' = [pc EXCEPT ![c] = l]
      OBVIOUS
    <3>2. pc \in [Clients -> Labels]
      BY DEF TypeOK
    <3> HIDE DEF BroadcastNext, Labels
    <3> QED BY <3>1, <3>2
  <2>2. todo' \in [Clients -> SUBSET Slots]
    BY DEF TypeOK
  <2>3. found' \in [Clients -> Slots]
    BY DEF TypeOK
  <2> QED BY <2>1, <2>2, <2>3 DEF TypeOK
<1>2. Placed'
  <2>1. pc'[c] \in {"write", "send", "idle", "partWrite", "partSend", "clean"}
    BY DEF TypeOK
  <2>2. \A d \in Clients : d # c => pc'[d] = pc[d]
    BY DEF TypeOK
  <2> QED BY <2>1, <2>2 DEF Placed
<1>3. Named' BY DEF TypeOK, Named
<1>4. Numbered' BY DEF Numbered
<1>5. OneSender' BY DEF OneSender
<1>6. Sending' BY DEF TypeOK, Sending
<1>7. Addressed' BY DEF Addressed
<1>8. Visiting'
  <2>1. \A d \in Clients : d # c => /\ pc'[d] = pc[d] /\ todo'[d] = todo[d]
                                  /\ found'[d] = found[d]
    BY DEF TypeOK
  <2>2. todo'[c] = todo[c] \ {s} /\ target[c] = NoNick
    BY DEF TypeOK, Sending
  <2>3. \/ pc'[c] \in {"write", "partWrite"} /\ found'[c] = s
        \/ pc'[c] \in {"idle", "clean"} /\ todo'[c] = {}
        \/ pc'[c] \in {"send", "partSend"}
    BY DEF TypeOK
  <2> QED BY <2>1, <2>2, <2>3 DEF Visiting
<1>9. OwedPresent'
  <2>1. \A d \in Clients : d # c => pc'[d] = pc[d] /\ found'[d] = found[d]
    BY DEF TypeOK
  <2>2. target[c] = NoNick /\ pc'[c] # "lookup" /\ UNCHANGED <<tenant, nick, slot, text, target, owed>>
    BY DEF TypeOK, Sending
  <2> HIDE DEF BroadcastNext
  <2> QED BY <2>1, <2>2 DEF OwedPresent, Members
<1>10. FoundKnown'
  <2>1. CASE tenant[s] # NoClient /\ nick[s] # NoNick
    BY <2>1 DEF TypeOK, Sending, FoundKnown
  <2>2. CASE ~(tenant[s] # NoClient /\ nick[s] # NoNick)
    BY <2>2 DEF TypeOK, Sending, FoundKnown
  <2> QED BY <2>1, <2>2
<1>11. Stored' BY DEF TypeOK, Stored
<1>12. EveryoneOnce'
  <2> SUFFICES ASSUME NEW e \in Clients, NEW d \in owed[e]
               PROVE  got'[d][text'[e]] = IF Ahead(e, d)' THEN 0 ELSE 1
    BY DEF EveryoneOnce
  <2>1. got[d][text[e]] = IF Ahead(e, d) THEN 0 ELSE 1
    BY DEF EveryoneOnce
  <2>2. CASE e # c
    BY <2>1, <2>2 DEF TypeOK, Ahead
  <2>3. CASE e = c
    <3>1. pc[c] = "send"
      BY <2>3 DEF OwedPresent, Sending
    <3>2. slot[d] \in Slots /\ tenant[slot[d]] = d /\ d # NoClient /\ nick[slot[d]] # NoNick
      BY <2>3 DEF TypeOK, OwedPresent, Members
    <3>3. Ahead(c, d)' <=> Ahead(c, d)
      BY <3>1, <3>2 DEF TypeOK, Ahead
    <3> QED BY <2>1, <2>3, <3>3
  <2> QED BY <2>2, <2>3
<1>13. StrangersAreNewcomers' BY DEF StrangersAreNewcomers
<1>14. ReceivedIsStored' BY DEF ReceivedIsStored
<1> QED BY <1>1, <1>2, <1>3, <1>4, <1>5, <1>6, <1>7, <1>8, <1>9, <1>10, <1>11, <1>12, <1>13,
          <1>14

\* The write: its text becomes known to whoever is in the slot now.
LEMMA WriteFoundIInv ==
    ASSUME IInv, NEW c \in Clients, WriteFound(c)
    PROVE  IInv'
<1> USE DEF WriteFound, Resume, Go
<1>1. TypeOK' BY DEF TypeOK
<1>2. Placed' BY DEF Placed
<1>3. Named' BY DEF Named
<1>4. Numbered' BY DEF TypeOK, Numbered
<1>5. OneSender' BY DEF OneSender
<1>6. Sending' BY DEF TypeOK, Sending, Visiting
<1>7. Addressed' BY DEF Addressed
<1>8. Visiting' BY DEF Visiting
<1>9. OwedPresent' BY DEF OwedPresent, Members
<1>10. FoundKnown' BY DEF FoundKnown
<1>11. Stored' BY DEF Stored
<1>12. EveryoneOnce'
  <2> SUFFICES ASSUME NEW e \in Clients, NEW d \in owed[e]
               PROVE  got'[d][text'[e]] = IF Ahead(e, d)' THEN 0 ELSE 1
    BY DEF EveryoneOnce
  <2>1. got[d][text[e]] = IF Ahead(e, d) THEN 0 ELSE 1
    BY DEF EveryoneOnce
  <2>2. d \in Clients /\ d = tenant[slot[d]] /\ text[e] \in Texts
    BY DEF TypeOK, OwedPresent, Members
  <2>3. CASE e = c /\ pc[c] = "write" /\ found[c] = slot[d]
    <3>1. got'[d][text[c]] = 1
      BY <2>1, <2>2, <2>3 DEF TypeOK, Ahead
    <3>2. ~Ahead(e, d)'
      BY <2>3 DEF TypeOK, Visiting, Ahead
    <3> QED BY <2>3, <3>1, <3>2
  <2>4. CASE e = c /\ ~(pc[c] = "write" /\ found[c] = slot[d])
    <3>1. got'[d][text[c]] = got[d][text[c]]
      BY <2>2, <2>4 DEF TypeOK, Placed, Sending
    <3>2. Ahead(e, d)' <=> Ahead(e, d)
      BY <2>4 DEF TypeOK, Ahead
    <3> QED BY <2>1, <2>4, <3>1, <3>2
  <2>5. CASE e # c
    <3>1. got'[d][text[e]] = got[d][text[e]]
      BY <2>2, <2>5 DEF TypeOK, OneSender
    <3>2. Ahead(e, d)' <=> Ahead(e, d)
      BY <2>5 DEF TypeOK, Ahead
    <3> QED BY <2>1, <3>1, <3>2
  <2> QED BY <2>3, <2>4, <2>5
<1>13. StrangersAreNewcomers' BY DEF TypeOK, Sending, FoundKnown, StrangersAreNewcomers
<1>14. ReceivedIsStored' BY DEF TypeOK, Stored, Sending, ReceivedIsStored
<1> QED BY <1>1, <1>2, <1>3, <1>4, <1>5, <1>6, <1>7, <1>8, <1>9, <1>10, <1>11, <1>12, <1>13,
          <1>14

-----------------------------------------------------------------------------
(***************************************************************************)
(* The theorems.                                                           *)
(***************************************************************************)
\* At the start there are no clients and no texts.
LEMMA InitIInv == Init => IInv
<1> SUFFICES ASSUME Init PROVE IInv
  OBVIOUS
<1> USE DEF Init
<1>1. TypeOK BY DEF TypeOK
<1> QED
  BY <1>1 DEF Placed, Named, Numbered, OneSender, Sending, Addressed, Visiting, OwedPresent,
     FoundKnown, Stored, EveryoneOnce, StrangersAreNewcomers, ReceivedIsStored

\* Every step keeps the invariant.
LEMMA NextIInv == IInv /\ [Next]_vars => IInv'
<1> SUFFICES ASSUME IInv, [Next]_vars PROVE IInv'
  OBVIOUS
<1>1. CASE UNCHANGED vars
  BY <1>1 DEF vars, TypeOK, Placed, Named, Numbered, OneSender, Sending, Addressed, Visiting,
     OwedPresent, Members, FoundKnown, Stored, EveryoneOnce, Ahead, StrangersAreNewcomers,
     ReceivedIsStored
<1> QED
  BY <1>1, ConnectIInv, LogInIInv, LeaveIInv, CleanIInv, ChatIInv, PrivateIInv, EncryptIInv,
     LookUpIInv, LookUpFailsIInv, SaveMessageIInv, SaveMessageFailsIInv, TestFoundIInv,
     BroadcastNextIInv, WriteFoundIInv DEF Next

\* The invariant holds in every reachable state.
THEOREM InvariantHolds == Spec => []IInv
BY InitIInv, NextIInv, PTL DEF Spec

\* The handlers keep every variable of its type.
THEOREM TypeCorrect == Spec => []TypeOK
<1>1. IInv => TypeOK
  OBVIOUS
<1> QED
  BY <1>1, InvariantHolds, PTL

\* broadcast_message writes its text exactly once to every client that stays, and
\* send_private_message to the client it found, for any number of slots and of concurrent
\* senders.
THEOREM EveryoneOnceHolds == Spec => []EveryoneOnce
<1>1. IInv => EveryoneOnce
  OBVIOUS
<1> QED
  BY <1>1, InvariantHolds, PTL

\* The slot find_client_by_nick returns can only be wrong for clients that connected after the
\* text was sent.
THEOREM StrangersAreNewcomersHolds == Spec => []StrangersAreNewcomers
<1>1. IInv => StrangersAreNewcomers
  OBVIOUS
<1> QED
  BY <1>1, InvariantHolds, PTL

\* Nobody receives a text that save_message has not been called for.
THEOREM ReceivedIsStoredHolds == Spec => []ReceivedIsStored
<1>1. IInv => ReceivedIsStored
  OBVIOUS
<1> QED
  BY <1>1, InvariantHolds, PTL
-----------------------------------------------------------------------------
(***************************************************************************)
(* Messaging implements Mailbox.  The steps are steps of the mailbox       *)
(* because of what IInv says and of four more facts, about the copies     *)
(* that a text has while it is being written, and about its row.           *)
(***************************************************************************)
\* Who has not come has read nothing.
Unread == \A d \in Clients : pc[d] = "none" => \A m \in Texts : got[d][m] = 0

\* Only a broadcast has been read by somebody before it is finished, and it has passed the
\* slots of those who have read it and are still there.
Fresh ==
    \A c, d \in Clients : AtWork(c) /\ got[d][text[c]] # 0 =>
       /\ pc[c] \in {"send", "write"} /\ target[c] = NoNick
       /\ pc[d] \notin {"none", "done"} =>
             slot[d] \notin todo[c] /\ (pc[c] = "write" => found[c] # slot[d])

\* A text is stored, or lost, by the one save_message of its sender.
Unfiled ==
    /\ \A c \in Clients : AtWork(c) /\ pc[c] = "save" =>
          text[c] \notin lost /\ \A r \in rows : r.text # text[c]
    /\ \A r \in rows : r.text <= sent
    /\ \A m \in lost : m <= sent

\* A text that is being sent has been given its kind.
Kinded == \A c \in Clients : AtWork(c) => letter[text[c]].kind # "none"

MInv == Unread /\ Fresh /\ Unfiled /\ Kinded

\* A new client has read nothing.
LEMMA ConnectMInv ==
    ASSUME IInv, MInv, NEW c \in Clients, NEW s \in Slots, Connect(c, s)
    PROVE  MInv'
<1> USE DEF MInv, Connect, IsLowest, Go
<1>1. Unread' BY DEF TypeOK, Numbered, Unread
<1>2. Fresh' BY DEF TypeOK, Placed, Numbered, OneSender, Sending, Visiting, Unread, Fresh, AtWork
<1>3. Unfiled' BY DEF TypeOK, Numbered, OneSender, Unfiled, AtWork
<1>4. Kinded' BY DEF TypeOK, Numbered, Kinded, AtWork
<1> QED BY <1>1, <1>2, <1>3, <1>4

\* A login starts no text.
LEMMA LogInMInv ==
    ASSUME IInv, MInv, NEW c \in Clients, NEW n \in Nicks, LogIn(c, n)
    PROVE  MInv'
<1> USE DEF MInv, LogIn, Broadcast, Go
<1>1. Unread' BY DEF TypeOK, Numbered, Unread
<1>2. Fresh' BY DEF TypeOK, Placed, Numbered, OneSender, Sending, Visiting, Unread, Fresh, AtWork
<1>3. Unfiled' BY DEF TypeOK, Numbered, OneSender, Unfiled, AtWork
<1>4. Kinded' BY DEF TypeOK, Numbered, Kinded, AtWork
<1> QED BY <1>1, <1>2, <1>3, <1>4

\* The last broadcast is no text of a client.
LEMMA LeaveMInv ==
    ASSUME IInv, MInv, NEW c \in Clients, Leave(c)
    PROVE  MInv'
<1> USE DEF MInv, Leave, Broadcast, Go
<1>1. Unread' BY DEF TypeOK, Numbered, Unread
<1>a. /\ \A d \in Clients : AtWork(d)' => /\ AtWork(d) /\ pc'[d] = pc[d] /\ text'[d] = text[d]
                                         /\ target'[d] = target[d] /\ todo'[d] = todo[d]
      /\ \A d \in Clients : pc'[d] \notin {"none", "done"} => pc[d] \notin {"none", "done"}
      /\ UNCHANGED <<slot, found, got, rows, lost, sent>>
  BY DEF TypeOK, AtWork
<1>2. Fresh'
  <2> HIDE DEF Leave
  <2> QED BY <1>a DEF Fresh
<1>3. Unfiled'
  <2> HIDE DEF Leave
  <2> QED BY <1>a DEF Unfiled
<1>4. Kinded'
  <2>1. letter' = letter
    OBVIOUS
  <2> HIDE DEF Leave
  <2> QED BY <1>a, <2>1 DEF Kinded
<1> QED BY <1>1, <1>2, <1>3, <1>4

\* Who leaves frees its slot; others may write to it.
LEMMA CleanMInv ==
    ASSUME IInv, MInv, NEW c \in Clients, Clean(c)
    PROVE  MInv'
<1> USE DEF MInv, Clean, Go
<1>1. Unread' BY DEF TypeOK, Numbered, Unread
<1>2. Fresh' BY DEF TypeOK, Placed, Numbered, OneSender, Sending, Visiting, Unread, Fresh, AtWork
<1>3. Unfiled' BY DEF TypeOK, Numbered, OneSender, Unfiled, AtWork
<1>4. Kinded' BY DEF TypeOK, Numbered, Kinded, AtWork
<1> QED BY <1>1, <1>2, <1>3, <1>4

\* A new text has no copy and no row.
LEMMA ChatMInv ==
    ASSUME IInv, MInv, NEW c \in Clients, Chat(c)
    PROVE  MInv'
<1> USE DEF MInv, Chat, Compose, Broadcast, Go
<1>1. Unread' BY DEF TypeOK, Numbered, Unread
<1>2. Fresh' BY DEF TypeOK, Placed, Numbered, OneSender, Sending, Visiting, Unread, Fresh, AtWork
<1>a. /\ sent \in Int /\ \A r \in rows : r.text \in Int /\ r.text <= sent
      /\ \A m \in lost : m \in Int /\ m <= sent
  BY DEF TypeOK, Unfiled
<1>b. /\ \A r \in rows : r.text <= sent + 1 /\ r.text # sent + 1
      /\ \A m \in lost : m <= sent + 1 /\ m # sent + 1
  BY <1>a
<1>3. Unfiled' BY <1>b DEF TypeOK, Unfiled, AtWork
<1>4. Kinded' BY DEF TypeOK, Numbered, Kinded, AtWork
<1> QED BY <1>1, <1>2, <1>3, <1>4

\* The same for /msg.
LEMMA PrivateMInv ==
    ASSUME IInv, MInv, NEW c \in Clients, NEW n \in Nicks, NEW s \in Slots, Private(c, n, s)
    PROVE  MInv'
<1> USE DEF MInv, Private, Compose, Go
<1>1. Unread' BY DEF TypeOK, Numbered, Unread
<1>2. Fresh' BY DEF TypeOK, Placed, Numbered, OneSender, Sending, Visiting, Unread, Fresh, AtWork
<1>a. /\ sent \in Int /\ \A r \in rows : r.text \in Int /\ r.text <= sent
      /\ \A m \in lost : m \in Int /\ m <= sent
  BY DEF TypeOK, Unfiled
<1>b. /\ \A r \in rows : r.text <= sent + 1 /\ r.text # sent + 1
      /\ \A m \in lost : m <= sent + 1 /\ m # sent + 1
  BY <1>a
<1>3. Unfiled' BY <1>b DEF TypeOK, Unfiled, AtWork
<1>4. Kinded' BY DEF TypeOK, Numbered, Kinded, AtWork
<1> QED BY <1>1, <1>2, <1>3, <1>4

\* The same for /send_enc.
LEMMA EncryptMInv ==
    ASSUME IInv, MInv, NEW c \in Clients, NEW n \in Nicks, Encrypt(c, n)
    PROVE  MInv'
<1> USE DEF MInv, Encrypt, Compose, Go
<1>1. Unread' BY DEF TypeOK, Numbered, Unread
<1>2. Fresh' BY DEF TypeOK, Placed, Numbered, OneSender, Sending, Visiting, Unread, Fresh, AtWork
<1>a. /\ sent \in Int /\ \A r \in rows : r.text \in Int /\ r.text <= sent
      /\ \A m \in lost : m \in Int /\ m <= sent
  BY DEF TypeOK, Unfiled
<1>b. /\ \A r \in rows : r.text <= sent + 1 /\ r.text # sent + 1
      /\ \A m \in lost : m <= sent + 1 /\ m # sent + 1
  BY <1>a
<1>3. Unfiled' BY <1>b DEF TypeOK, Unfiled, AtWork
<1>4. Kinded' BY DEF TypeOK, Numbered, Kinded, AtWork
<1> QED BY <1>1, <1>2, <1>3, <1>4

\* A lookup writes nothing.
LEMMA LookUpMInv ==
    ASSUME IInv, MInv, NEW c \in Clients, NEW s \in Slots, LookUp(c, s)
    PROVE  MInv'
<1> USE DEF MInv, LookUp, Go
<1>1. Unread' BY DEF TypeOK, Numbered, Unread
<1>2. Fresh' BY DEF TypeOK, Placed, Numbered, OneSender, Sending, Visiting, Unread, Fresh, AtWork
<1>3. Unfiled' BY DEF TypeOK, Numbered, OneSender, Unfiled, AtWork
<1>4. Kinded' BY DEF TypeOK, Numbered, Kinded, AtWork
<1> QED BY <1>1, <1>2, <1>3, <1>4

\* The text is given up.
LEMMA LookUpFailsMInv ==
    ASSUME IInv, MInv, NEW c \in Clients, LookUpFails(c)
    PROVE  MInv'
<1> USE DEF MInv, LookUpFails, Go
<1>1. Unread' BY DEF TypeOK, Numbered, Unread
<1>2. Fresh' BY DEF TypeOK, Placed, Numbered, OneSender, Sending, Visiting, Unread, Fresh, AtWork
<1>3. Unfiled' BY DEF TypeOK, Numbered, OneSender, Unfiled, AtWork
<1>4. Kinded' BY DEF TypeOK, Numbered, Kinded, AtWork
<1> QED BY <1>1, <1>2, <1>3, <1>4

\* The one row of the text.
LEMMA SaveMessageMInv ==
    ASSUME IInv, MInv, NEW c \in Clients, SaveMessage(c)
    PROVE  MInv'
<1> USE DEF MInv, SaveMessage, AfterSave, Row, Go
<1>1. Unread' BY DEF TypeOK, Numbered, Unread
<1>2. Fresh' BY DEF TypeOK, Placed, Numbered, OneSender, Sending, Visiting, Unread, Fresh, AtWork
<1>3. Unfiled' BY DEF TypeOK, Numbered, OneSender, Unfiled, AtWork
<1>4. Kinded' BY DEF TypeOK, Numbered, Kinded, AtWork
<1> QED BY <1>1, <1>2, <1>3, <1>4

\* Or none.
LEMMA SaveMessageFailsMInv ==
    ASSUME IInv, MInv, NEW c \in Clients, SaveMessageFails(c)
    PROVE  MInv'
<1> USE DEF MInv, SaveMessageFails, AfterSave, Go
<1>1. Unread' BY DEF TypeOK, Numbered, Unread
<1>2. Fresh' BY DEF TypeOK, Placed, Numbered, OneSender, Sending, Visiting, Unread, Fresh, AtWork
<1>3. Unfiled' BY DEF TypeOK, Numbered, OneSender, Unfiled, AtWork
<1>4. Kinded' BY DEF TypeOK, Numbered, Kinded, AtWork
<1> QED BY <1>1, <1>2, <1>3, <1>4

\* A test writes nothing.
LEMMA TestFoundMInv ==
    ASSUME IInv, MInv, NEW c \in Clients, TestFound(c)
    PROVE  MInv'
<1> USE DEF MInv, TestFound, Go
<1>1. Unread' BY DEF TypeOK, Numbered, Unread
<1>2. Fresh' BY DEF TypeOK, Placed, Numbered, OneSender, Sending, Visiting, Unread, Fresh, AtWork
<1>3. Unfiled' BY DEF TypeOK, Numbered, OneSender, Unfiled, AtWork
<1>4. Kinded' BY DEF TypeOK, Numbered, Kinded, AtWork
<1> QED BY <1>1, <1>2, <1>3, <1>4

\* The slot about to be written to had been ahead until now.
LEMMA BroadcastNextMInv ==
    ASSUME IInv, MInv, NEW c \in Clients, NEW s \in Slots, BroadcastNext(c, s)
    PROVE  MInv'
<1> USE DEF MInv, BroadcastNext, Resume, IsLowest, Go
<1>1. Unread' BY DEF TypeOK, Numbered, Unread
<1>a. \A d \in Clients : d # c => pc'[d] = pc[d] /\ todo'[d] = todo[d] /\ found'[d] = found[d]
  BY DEF TypeOK
<1>b. todo'[c] = todo[c] \ {s}
  BY DEF TypeOK
<1>c. AtWork(c)' => /\ AtWork(c) /\ pc[c] = "send" /\ pc'[c] \in {"send", "write"}
                    /\ pc'[c] = "write" => found'[c] = s
  BY DEF TypeOK, AtWork
<1>d. \A d \in Clients : pc'[d] \notin {"none", "done"} => pc[d] \notin {"none", "done"}
  BY DEF TypeOK
<1>2. Fresh'
  <2>1. s \in todo[c] /\ UNCHANGED <<got, slot, target, text>>
    OBVIOUS
  <2> HIDE DEF BroadcastNext
  <2> QED BY <1>a, <1>b, <1>c, <1>d, <2>1 DEF Fresh, AtWork
<1>3. Unfiled' BY DEF TypeOK, Numbered, OneSender, Unfiled, AtWork
<1>4. Kinded' BY DEF TypeOK, Numbered, Kinded, AtWork
<1> QED BY <1>1, <1>2, <1>3, <1>4

\* A copy: of a broadcast, whose loop is past the slot now, or of a text that is finished.
LEMMA WriteFoundMInv ==
    ASSUME IInv, MInv, NEW c \in Clients, WriteFound(c)
    PROVE  MInv'
<1> USE DEF MInv, WriteFound, Resume, Go
<1>1. Unread' BY DEF TypeOK, Placed, Numbered, Unread
<1>2. Fresh' BY DEF TypeOK, Placed, Numbered, OneSender, Sending, Visiting, Unread, Fresh, AtWork
<1>3. Unfiled' BY DEF TypeOK, Numbered, OneSender, Unfiled, AtWork
<1>4. Kinded' BY DEF TypeOK, Numbered, Kinded, AtWork
<1> QED BY <1>1, <1>2, <1>3, <1>4

\* At the start nobody has read anything, and nothing is stored.
LEMMA InitMInv == Init => MInv
BY DEF Init, MInv, Unread, Fresh, Unfiled, Kinded, AtWork

\* Every step keeps them.
LEMMA NextMInv == IInv /\ MInv /\ [Next]_vars => MInv'
<1> SUFFICES ASSUME IInv, MInv, [Next]_vars PROVE MInv'
  OBVIOUS
<1>1. CASE UNCHANGED vars
  BY <1>1 DEF vars, MInv, Unread, Fresh, Unfiled, Kinded, AtWork
<1> QED
  BY <1>1, ConnectMInv, LogInMInv, LeaveMInv, CleanMInv, ChatMInv, PrivateMInv, EncryptMInv,
     LookUpMInv, LookUpFailsMInv, SaveMessageMInv, SaveMessageFailsMInv, TestFoundMInv,
     BroadcastNextMInv, WriteFoundMInv DEF Next

\* They hold in every reachable state.
LEMMA MInvHolds == Spec => []MInv
BY InvariantHolds, InitMInv, NextMInv, PTL DEF Spec

(***************************************************************************)
(* What the mapped variables do when the detailed ones change.             *)
(***************************************************************************)
\* A step of a handler that is neither its first nor its last.
LEMMA SamePeople ==
    ASSUME \A d \in Clients : pc'[d] = pc[d] \/ {pc[d], pc'[d]} \cap {"none", "done"} = {}
    PROVE  hereBar' = hereBar /\ goneBar' = goneBar
BY DEF hereBar, goneBar

\* The text of d stays on its desk, or there is none.
SameDesk(d) ==
    /\ AtWork(d)' <=> AtWork(d)
    /\ AtWork(d) => text'[d] = text[d] /\ owed'[d] = owed[d]

\* A step that leaves every desk as it is.
LEMMA SameDesks ==
    ASSUME \A d \in Clients : SameDesk(d)
    PROVE  deskBar' = deskBar /\ dueBar' = dueBar
BY DEF deskBar, dueBar, SameDesk

\* A step by which c gets a text.
LEMMA DeskTaken ==
    ASSUME NEW c \in Clients, NEW m \in Texts, NEW S, AtWork(c)', text'[c] = m, owed'[c] = S,
           \A d \in Clients : d # c => SameDesk(d)
    PROVE  deskBar' = [deskBar EXCEPT ![c] = m] /\ dueBar' = [dueBar EXCEPT ![c] = S]
BY DEF deskBar, dueBar, SameDesk

\* A step by which c is done with its text.
LEMMA DeskCleared ==
    ASSUME NEW c \in Clients, ~AtWork(c)', \A d \in Clients : d # c => SameDesk(d)
    PROVE  deskBar' = [deskBar EXCEPT ![c] = 0] /\ dueBar' = [dueBar EXCEPT ![c] = {}]
BY DEF deskBar, dueBar, SameDesk

\* A step without an INSERT.
LEMMA SameRows == rows' = rows => keptBar' = keptBar
BY DEF keptBar

\* What is on the desk of a handler that has a text.
LEMMA OnDesk ==
    ASSUME IInv, NEW c \in Clients, AtWork(c)
    PROVE  /\ deskBar[c] = text[c] /\ text[c] \in Texts /\ text[c] # 0
           /\ dueBar[c] = owed[c]
BY DEF TypeOK, deskBar, dueBar, AtWork

-----------------------------------------------------------------------------
(***************************************************************************)
(* Every step is a step of the mailbox, or none.                           *)
(***************************************************************************)
\* handle_new_connection
LEMMA ConnectComes ==
    ASSUME IInv, NEW c \in Clients, NEW s \in Slots, Connect(c, s)
    PROVE  Mail!Come(c)
<1> USE DEF Connect, Go
<1>1. hereBar' = hereBar \cup {c} /\ goneBar' = goneBar /\ c \notin hereBar \cup goneBar
  BY DEF TypeOK, hereBar, goneBar
<1>2. deskBar' = deskBar /\ dueBar' = dueBar
  BY SameDesks DEF TypeOK, SameDesk, AtWork
<1> QED BY <1>1, <1>2, SameRows DEF Mail!Come, Mail!archive

\* process_login
LEMMA LogInTakesName ==
    ASSUME IInv, NEW c \in Clients, NEW n \in Nicks, LogIn(c, n)
    PROVE  Mail!TakeName(c, n)
<1> USE DEF LogIn, Broadcast, Go
<1>1. hereBar' = hereBar /\ goneBar' = goneBar
  BY SamePeople DEF TypeOK
<1>2. c \in hereBar /\ name[c] = NoNick
  BY OwnSlot DEF hereBar
<1>3. deskBar' = deskBar /\ dueBar' = dueBar
  <2>1. ~AtWork(c) /\ ~AtWork(c)'
    BY DEF TypeOK, AtWork
  <2>2. \A d \in Clients : d # c => pc'[d] = pc[d] /\ text'[d] = text[d] /\ owed'[d] = owed[d]
    BY DEF TypeOK
  <2> QED BY <2>1, <2>2, SameDesks DEF SameDesk, AtWork
<1> QED BY <1>1, <1>2, <1>3, SameRows DEF Mail!TakeName, Mail!archive

\* cleanup_client_resources
LEMMA CleanDeparts ==
    ASSUME IInv, NEW c \in Clients, Clean(c)
    PROVE  Mail!Depart(c)
<1> USE DEF Clean, Go
<1>1. hereBar' = hereBar \ {c} /\ goneBar' = goneBar \cup {c} /\ c \in hereBar
  BY DEF TypeOK, hereBar, goneBar
<1>2. \A d \in Clients : AtWork(d)' <=> AtWork(d)
  BY DEF TypeOK, AtWork
<1>3. deskBar' = deskBar /\ deskBar[c] = 0
  BY <1>2 DEF deskBar, AtWork
<1>4. dueBar' = [d \in Clients |-> dueBar[d] \ {c}]
  BY <1>2 DEF dueBar
<1> QED BY <1>1, <1>3, <1>4, SameRows DEF Mail!Depart, Mail!archive

\* The clients that are logged in are those that are there by name.
LEMMA MembersAreNamed ==
    ASSUME IInv
    PROVE  Members = {d \in hereBar : name[d] # NoNick}
BY DEF TypeOK, Placed, Named, Members, hereBar

\* handle_authorized_commands
LEMMA ChatStarts ==
    ASSUME IInv, NEW c \in Clients, Chat(c)
    PROVE  Mail!Start(c, "chat", NoNick)
<1>0. /\ pc[c] = "idle" /\ nick[slot[c]] # NoNick /\ sent < MaxMessages /\ sent' = sent + 1
      /\ letter' = [letter EXCEPT ![sent + 1] =
                      [kind |-> "chat", from |-> nick[slot[c]], to |-> NoNick]]
      /\ pc' = [pc EXCEPT ![c] = "save"] /\ text' = [text EXCEPT ![c] = sent + 1]
      /\ owed' = [owed EXCEPT ![c] = IF sent + 1 = 0 THEN {} ELSE Members]
      /\ UNCHANGED <<rows, lost, name, arrival, got>>
  BY DEF Chat, Compose, Broadcast, Go
<1>1. hereBar' = hereBar /\ goneBar' = goneBar
  BY <1>0, SamePeople DEF TypeOK
<1>2. nick[slot[c]] = name[c] /\ c \in hereBar
  BY <1>0, OwnSlot DEF hereBar
<1>3. sent \in 0..MaxMessages /\ sent + 1 \in Texts /\ sent + 1 # 0
  BY <1>0 DEF TypeOK
<1>4. deskBar[c] = 0
  BY <1>0 DEF deskBar, AtWork
<1>5. /\ deskBar' = [deskBar EXCEPT ![c] = sent + 1]
      /\ dueBar' = [dueBar EXCEPT ![c] = {d \in hereBar : name[d] # NoNick}]
  <2>1. text'[c] = sent + 1 /\ owed'[c] = {d \in hereBar : name[d] # NoNick} /\ pc'[c] = "save"
    BY <1>0, <1>3, MembersAreNamed DEF TypeOK
  <2>2. \A d \in Clients : d # c => pc'[d] = pc[d] /\ text'[d] = text[d] /\ owed'[d] = owed[d]
    BY <1>0 DEF TypeOK
  <2>3. AtWork(c)'
    BY <1>3, <2>1 DEF AtWork
  <2> QED BY <1>3, <2>1, <2>2, <2>3, DeskTaken DEF SameDesk, AtWork
<1>6. {d \in hereBar : name[d] # NoNick} \in Mail!Audiences("chat", NoNick)
  BY DEF Mail!Audiences
<1> QED
  BY <1>0, <1>1, <1>2, <1>3, <1>4, <1>5, <1>6, SameRows DEF Mail!Start, Mail!archive, Mail!people

\* /msg and /send_enc: a text for one client.
LEMMA LetterStarts ==
    ASSUME IInv, NEW c \in Clients, NEW n \in Nicks, NEW k \in {"private", "encrypted"},
           NEW S \in Mail!Audiences(k, n), Compose(c, k, n), pc' = [pc EXCEPT ![c] = IF k = "private" THEN "save" ELSE "lookup"],
           text' = [text EXCEPT ![c] = sent + 1], owed' = [owed EXCEPT ![c] = S],
           UNCHANGED <<rows, lost, name, arrival, got>>
    PROVE  Mail!Start(c, k, n)
<1>0. /\ pc[c] = "idle" /\ nick[slot[c]] # NoNick /\ sent < MaxMessages /\ sent' = sent + 1
      /\ letter' = [letter EXCEPT ![sent + 1] = [kind |-> k, from |-> nick[slot[c]], to |-> n]]
  BY DEF Compose
<1>1. hereBar' = hereBar /\ goneBar' = goneBar
  BY <1>0, SamePeople DEF TypeOK
<1>2. nick[slot[c]] = name[c] /\ c \in hereBar
  BY <1>0, OwnSlot DEF hereBar
<1>3. sent \in 0..MaxMessages /\ sent + 1 \in Texts /\ sent + 1 # 0
  BY <1>0 DEF TypeOK
<1>4. deskBar[c] = 0
  BY <1>0 DEF deskBar, AtWork
<1>5. deskBar' = [deskBar EXCEPT ![c] = sent + 1] /\ dueBar' = [dueBar EXCEPT ![c] = S]
  <2>1. text'[c] = sent + 1 /\ owed'[c] = S /\ pc'[c] \in {"save", "lookup"}
    BY <1>0 DEF TypeOK
  <2>2. \A d \in Clients : d # c => pc'[d] = pc[d] /\ text'[d] = text[d] /\ owed'[d] = owed[d]
    BY DEF TypeOK
  <2>3. AtWork(c)'
    BY <1>3, <2>1 DEF AtWork
  <2> QED BY <1>3, <2>1, <2>2, <2>3, DeskTaken DEF SameDesk, AtWork
<1>6. n # NoNick /\ k # "chat"
  OBVIOUS
<1> QED
  BY <1>0, <1>1, <1>2, <1>3, <1>4, <1>5, <1>6, SameRows DEF Mail!Start, Mail!archive, Mail!people

\* A handler that ends has no text on its desk.
LEMMA LeaveStutters ==
    ASSUME IInv, NEW c \in Clients, Leave(c)
    PROVE  UNCHANGED Mail!mailVars
<1> USE DEF Leave, Broadcast, Go
<1>1. hereBar' = hereBar /\ goneBar' = goneBar
  BY SamePeople DEF TypeOK
<1>2. deskBar' = deskBar /\ dueBar' = dueBar
  <2>1. ~AtWork(c) /\ ~AtWork(c)'
    BY DEF TypeOK, AtWork
  <2>2. \A d \in Clients : d # c => pc'[d] = pc[d] /\ text'[d] = text[d] /\ owed'[d] = owed[d]
    BY DEF TypeOK
  <2> HIDE DEF Leave
  <2> QED BY <2>1, <2>2, SameDesks DEF SameDesk, AtWork
<1> QED BY <1>1, <1>2, SameRows DEF Mail!mailVars, Mail!archive, Mail!people

\* A handler goes on with its text.
LEMMA GoesOn ==
    ASSUME IInv, NEW c \in Clients, NEW l, pc' = [pc EXCEPT ![c] = l],
           pc[c] \notin {"none", "done"}, l \notin {"none", "done"},
           UNCHANGED <<text, owed>>,
           \/ text[c] = 0
           \/ /\ pc[c] \in {"save", "test", "lookup", "send", "write"}
              /\ l \in {"save", "test", "lookup", "send", "write"}
    PROVE  /\ hereBar' = hereBar /\ goneBar' = goneBar
           /\ deskBar' = deskBar /\ dueBar' = dueBar
<1>1. pc'[c] = l /\ \A d \in Clients : d # c => pc'[d] = pc[d]
  BY DEF TypeOK
<1>2. \A d \in Clients : SameDesk(d)
  BY <1>1 DEF SameDesk, AtWork
<1>3. hereBar' = hereBar /\ goneBar' = goneBar
  BY <1>1, SamePeople
<1> QED BY <1>2, <1>3, SameDesks

\* The text that is put aside has been stored or lost, and whoever stayed has read it.
LEMMA PutsAside ==
    ASSUME IInv, IInv', NEW c \in Clients, AtWork(c), pc[c] \in {"test", "lookup", "send", "write"},
           pc' = [pc EXCEPT ![c] = "idle"], todo'[c] = {}, UNCHANGED <<text, owed>>
    PROVE  /\ Mail!PutAside(c)
           /\ hereBar' = hereBar /\ goneBar' = goneBar
<1>1. pc'[c] = "idle" /\ \A d \in Clients : d # c => pc'[d] = pc[d]
  BY DEF TypeOK
<1>2. hereBar' = hereBar /\ goneBar' = goneBar
  BY <1>1, SamePeople
<1>3. deskBar' = [deskBar EXCEPT ![c] = 0] /\ dueBar' = [dueBar EXCEPT ![c] = {}]
  BY <1>1, DeskCleared DEF SameDesk, AtWork
<1>4. letter[text[c]].kind # "encrypted" => Mail!Filed(text[c])
  BY OnDesk DEF AtWork, Stored, Sending, Mail!Filed, keptBar
<1>5. \A d \in owed[c] : got'[d][text[c]] = 1
  <2> SUFFICES ASSUME NEW d \in owed[c] PROVE got'[d][text[c]] = 1
    OBVIOUS
  <2>1. got'[d][text'[c]] = IF Ahead(c, d)' THEN 0 ELSE 1
    BY DEF EveryoneOnce
  <2>2. ~Ahead(c, d)'
    BY <1>1 DEF Ahead
  <2> QED BY <2>1, <2>2
<1> QED BY <1>2, <1>3, <1>4, <1>5, OnDesk DEF Mail!PutAside

\* The second lookup of an encrypted text.
LEMMA LookUpStutters ==
    ASSUME IInv, NEW c \in Clients, NEW s \in Slots, LookUp(c, s)
    PROVE  UNCHANGED Mail!mailVars
<1>1. /\ hereBar' = hereBar /\ goneBar' = goneBar
      /\ deskBar' = deskBar /\ dueBar' = dueBar
  BY GoesOn DEF LookUp, Go
<1> QED BY <1>1, SameRows DEF LookUp, Mail!mailVars, Mail!archive, Mail!people

\* Its addressee has gone.
LEMMA LookUpFailsFinishes ==
    ASSUME IInv, IInv', NEW c \in Clients, LookUpFails(c)
    PROVE  Mail!Finish(c)
<1>1. AtWork(c) /\ pc[c] = "lookup" /\ pc' = [pc EXCEPT ![c] = "idle"] /\ todo'[c] = {}
  BY DEF LookUpFails, Go, AtWork, Sending, Visiting
<1>2. /\ Mail!PutAside(c)
      /\ hereBar' = hereBar /\ goneBar' = goneBar
  BY <1>1, PutsAside DEF LookUpFails
<1> QED BY <1>1, <1>2, OnDesk, SameRows DEF LookUpFails, Mail!Finish, Mail!archive, Mail!people

\* Nobody has read a text that is being stored, and it has no row yet.
LEMMA Fileable ==
    ASSUME IInv, MInv, NEW c \in Clients, AtWork(c), pc[c] = "save"
    PROVE  /\ Mail!Unseen(text[c])
           /\ text[c] \notin lost /\ \A r \in keptBar : r.text # text[c]
           /\ letter[text[c]].kind # "encrypted"
           /\ Row(c) = [from |-> letter[text[c]].from, to |-> letter[text[c]].to, text |-> text[c]]
<1>1. Mail!Unseen(text[c])
  BY OnDesk DEF MInv, Fresh, Mail!Unseen
<1>2. text[c] \notin lost /\ \A r \in keptBar : r.text # text[c]
  BY DEF MInv, Unfiled, keptBar
<1> QED BY <1>1, <1>2, OnDesk DEF Sending, AtWork, Row

\* save_message
LEMMA SaveMessageFiles ==
    ASSUME IInv, MInv, NEW c \in Clients, SaveMessage(c) \/ SaveMessageFails(c)
    PROVE  Mail!File(c) \/ UNCHANGED Mail!mailVars
<1>0. /\ pc[c] \in {"save", "part"}
      /\ AfterSave(c)
      /\ UNCHANGED <<text, owed, sent, letter, name, arrival, got>>
      /\ \/ rows' = rows \cup {Row(c)} /\ UNCHANGED lost
         \/ lost' = (IF text[c] = 0 THEN lost ELSE lost \cup {text[c]}) /\ UNCHANGED rows
  BY DEF SaveMessage, SaveMessageFails
<1>1. text[c] # 0 => pc[c] = "save"
  BY <1>0 DEF Sending
<1>2. PICK l \in {"partSend", "send", "test"} :
        pc' = [pc EXCEPT ![c] = l] /\ (pc[c] = "save" => l # "partSend")
  BY <1>0 DEF AfterSave, Go
<1>3. /\ hereBar' = hereBar /\ goneBar' = goneBar
      /\ deskBar' = deskBar /\ dueBar' = dueBar
  BY <1>0, <1>1, <1>2, GoesOn
<1>4. CASE text[c] = 0
  <2>1. keptBar' = keptBar /\ lost' = lost
    BY <1>0, <1>4 DEF keptBar, Row
  <2> QED BY <1>0, <1>3, <2>1 DEF Mail!mailVars, Mail!archive, Mail!people
<1>5. CASE text[c] # 0
  <2>1. AtWork(c) /\ pc[c] = "save"
    BY <1>1, <1>5 DEF AtWork
  <2>2. \/ keptBar' = keptBar \cup {Row(c)} /\ UNCHANGED lost
        \/ lost' = lost \cup {text[c]} /\ UNCHANGED keptBar
    BY <1>0, <1>5 DEF keptBar, Row
  <2> QED
    BY <1>0, <1>3, <2>1, <2>2, OnDesk, Fileable DEF Mail!File, Mail!people
<1> QED BY <1>4, <1>5

\* send_private_message tests the slot it found.
LEMMA TestFoundFinishes ==
    ASSUME IInv, IInv', NEW c \in Clients, TestFound(c)
    PROVE  Mail!Finish(c) \/ UNCHANGED Mail!mailVars
<1>0. /\ pc[c] = "test" /\ AtWork(c) /\ todo'[c] = {}
      /\ UNCHANGED <<text, owed, sent, rows, lost, letter, name, arrival, got>>
  BY DEF TestFound, AtWork, Sending, Visiting
<1>1. CASE pc' = [pc EXCEPT ![c] = "write"]
  <2>1. /\ hereBar' = hereBar /\ goneBar' = goneBar
        /\ deskBar' = deskBar /\ dueBar' = dueBar
    BY <1>0, <1>1, GoesOn
  <2> QED BY <1>0, <2>1, SameRows DEF Mail!mailVars, Mail!archive, Mail!people
<1>2. CASE pc' = [pc EXCEPT ![c] = "idle"]
  <2>1. /\ Mail!PutAside(c)
        /\ hereBar' = hereBar /\ goneBar' = goneBar
    BY <1>0, <1>2, PutsAside
  <2> QED BY <1>0, <2>1, OnDesk, SameRows DEF Mail!Finish, Mail!archive, Mail!people
<1> QED BY <1>1, <1>2 DEF TestFound, Go

\* broadcast_message looks at the next slot, or ends.
LEMMA BroadcastNextFinishes ==
    ASSUME IInv, IInv', NEW c \in Clients, NEW s \in Slots, BroadcastNext(c, s)
    PROVE  Mail!Finish(c) \/ UNCHANGED Mail!mailVars
<1>0. /\ pc[c] \in {"send", "partSend"} /\ todo' = [todo EXCEPT ![c] = todo[c] \ {s}]
      /\ UNCHANGED <<text, owed, sent, rows, lost, letter, name, arrival, got>>
  BY DEF BroadcastNext
<1>1. PICK l \in Labels :
        /\ pc' = [pc EXCEPT ![c] = l]
        /\ pc[c] = "send" => l \in {"send", "write"} \/ (l = "idle" /\ todo[c] \ {s} = {})
        /\ pc[c] = "partSend" => l \in {"partSend", "partWrite", "clean"}
  BY DEF BroadcastNext, Resume, Go
<1>2. pc[c] = "partSend" => text[c] = 0
  BY DEF Sending
<1>3. CASE text[c] = 0 \/ l \in {"send", "write"}
  <2>1. /\ hereBar' = hereBar /\ goneBar' = goneBar
        /\ deskBar' = deskBar /\ dueBar' = dueBar
    BY <1>0, <1>1, <1>2, <1>3, GoesOn
  <2> QED BY <1>0, <2>1, SameRows DEF Mail!mailVars, Mail!archive, Mail!people
<1>4. CASE ~(text[c] = 0 \/ l \in {"send", "write"})
  <2>1. pc[c] = "send" /\ l = "idle" /\ AtWork(c)
    BY <1>0, <1>1, <1>2, <1>4 DEF AtWork
  <2>2. todo'[c] = {}
    BY <1>0, <1>1, <2>1 DEF TypeOK
  <2>3. /\ Mail!PutAside(c)
        /\ hereBar' = hereBar /\ goneBar' = goneBar
    BY <1>0, <1>1, <2>1, <2>2, PutsAside
  <2> QED BY <1>0, <2>1, <2>3, OnDesk, SameRows DEF Mail!Finish, Mail!archive, Mail!people
<1> QED BY <1>3, <1>4

\* Whoever is in the slot that is written to may have the text, and has not had it.
LEMMA MayHave ==
    ASSUME IInv, MInv, NEW c \in Clients, AtWork(c), pc[c] = "write", NEW d \in Clients,
           d = tenant[found[c]]
    PROVE  Mail!Deliverable(text[c], d)
<1>1. d \in hereBar /\ slot[d] = found[c]
  BY DEF TypeOK, Placed, hereBar
<1>2. got[d][text[c]] = 0
  BY <1>1 DEF MInv, Fresh, hereBar
<1>3. letter[text[c]].kind # "encrypted" => Mail!Filed(text[c])
  BY OnDesk DEF AtWork, Stored, Mail!Filed, keptBar
<1>4. ASSUME letter[text[c]].kind # "chat"
      PROVE  Mail!Unseen(text[c]) /\ (name[d] = letter[text[c]].to \/ arrival[d] >= text[c])
  <2>1. target[c] # NoNick
    <3>1. letter[text[c]].kind \in {"none", "chat", "private", "encrypted"}
      BY OnDesk DEF TypeOK
    <3> QED BY <1>4, <3>1 DEF MInv, Kinded, Sending, AtWork
  <2>2. Mail!Unseen(text[c])
    BY <2>1, OnDesk DEF MInv, Fresh, Mail!Unseen
  <2> QED BY <2>1, <2>2 DEF FoundKnown, Sending, AtWork
<1> QED BY <1>1, <1>2, <1>3, <1>4 DEF Mail!Deliverable

\* ssl_safe_write: a copy is handed over, if there is a client to write to.
LEMMA WriteFoundHands ==
    ASSUME IInv, IInv', MInv, NEW c \in Clients, WriteFound(c)
    PROVE  \/ \E d \in Clients : Mail!Hand(c, d)
           \/ Mail!Finish(c)
           \/ UNCHANGED Mail!mailVars
<1>0. /\ pc[c] \in {"write", "partWrite"}
      /\ UNCHANGED <<text, todo, owed, sent, rows, lost, letter, name, arrival>>
  BY DEF WriteFound
<1>1. PICK l \in Labels :
        /\ pc' = [pc EXCEPT ![c] = l]
        /\ pc[c] = "write" => l = "send" \/ (l = "idle" /\ todo[c] = {})
        /\ pc[c] = "partWrite" => l \in {"partSend", "clean"}
  BY DEF WriteFound, Resume, Go
<1>2. pc[c] = "partWrite" => text[c] = 0
  BY DEF Sending
<1>3. CASE text[c] = 0
  <2>1. /\ hereBar' = hereBar /\ goneBar' = goneBar
        /\ deskBar' = deskBar /\ dueBar' = dueBar
    BY <1>0, <1>1, <1>2, <1>3, GoesOn
  <2>2. got' = got
    BY <1>3 DEF WriteFound
  <2> QED BY <1>0, <2>1, <2>2, SameRows DEF Mail!mailVars, Mail!archive, Mail!people
<1>4. CASE text[c] # 0
  <2>1. pc[c] = "write" /\ AtWork(c)
    BY <1>0, <1>2, <1>4 DEF AtWork
  <2>2. \/ l = "send" /\ deskBar' = deskBar /\ dueBar' = dueBar
        \/ Mail!PutAside(c)
    BY <1>0, <1>1, <2>1, GoesOn, PutsAside
  <2>3. hereBar' = hereBar /\ goneBar' = goneBar
    BY <1>0, <1>1, <2>1, GoesOn, PutsAside
  <2>4. CASE tenant[found[c]] = NoClient
    <3>1. got' = got
      BY <2>4 DEF WriteFound
    <3> QED
      BY <1>0, <2>1, <2>2, <2>3, <3>1, OnDesk, SameRows
         DEF Mail!Finish, Mail!mailVars, Mail!archive, Mail!people
  <2>5. CASE tenant[found[c]] # NoClient
    <3>1. PICK d \in Clients : d = tenant[found[c]]
      BY <2>5 DEF TypeOK
    <3>2. Mail!Deliverable(text[c], d)
      BY <2>1, <3>1, MayHave
    <3>3. got[d][text[c]] = 0
      BY <3>2 DEF Mail!Deliverable
    <3>4. got' = [got EXCEPT ![d][text[c]] = 1]
      BY <1>4, <2>5, <3>1, <3>3 DEF WriteFound
    <3> QED
      BY <1>0, <2>1, <2>2, <2>3, <3>2, <3>4, OnDesk, SameRows
         DEF Mail!Hand, Mail!archive, Mail!people
  <2> QED BY <2>4, <2>5
<1> QED BY <1>3, <1>4

\* Every step of the handlers is a step of the mailbox, or none.
LEMMA MailStep == IInv /\ IInv' /\ MInv /\ [Next]_vars => [Mail!MailNext]_(Mail!mailVars)
<1> SUFFICES ASSUME IInv, IInv', MInv, [Next]_vars
             PROVE  Mail!MailNext \/ UNCHANGED Mail!mailVars
  OBVIOUS
<1>1. CASE UNCHANGED vars
  <2>1. hereBar' = hereBar /\ goneBar' = goneBar /\ deskBar' = deskBar /\ dueBar' = dueBar
    BY <1>1 DEF vars, hereBar, goneBar, deskBar, dueBar, AtWork
  <2> QED BY <1>1, <2>1, SameRows DEF vars, Mail!mailVars, Mail!archive, Mail!people
<1>2. ASSUME NEW c \in Clients, NEW n \in Nicks, NEW s \in Slots, Private(c, n, s)
      PROVE  Mail!MailNext
  <2>1. {tenant[s]} \in Mail!Audiences("private", n)
    <3>1. tenant[s] \in Clients /\ nick[s] = n
      BY <1>2 DEF Private, IsLowest, FindClientByNick, LoggedIn, TypeOK
    <3>2. tenant[s] \in hereBar /\ name[tenant[s]] = n
      BY <3>1 DEF TypeOK, Placed, Named, hereBar
    <3> QED BY <3>2 DEF Mail!Audiences
  <2>2. Mail!Start(c, "private", n)
    <3>1. /\ Compose(c, "private", n) /\ pc' = [pc EXCEPT ![c] = "save"]
          /\ text' = [text EXCEPT ![c] = sent + 1] /\ owed' = [owed EXCEPT ![c] = {tenant[s]}]
          /\ UNCHANGED <<rows, lost, name, arrival, got>>
      BY <1>2 DEF Private, Go
    <3> QED BY <2>1, <3>1, LetterStarts
  <2> QED BY <2>2 DEF Mail!MailNext
<1>3. ASSUME NEW c \in Clients, NEW n \in Nicks, Encrypt(c, n)
      PROVE  Mail!MailNext
  <2>1. Mail!Start(c, "encrypted", n)
    <3>1. {} \in Mail!Audiences("encrypted", n)
      BY DEF Mail!Audiences
    <3> QED BY <1>3, <3>1, LetterStarts DEF Encrypt, Go
  <2> QED BY <2>1 DEF Mail!MailNext
<1>4. ASSUME NEW c \in Clients, NEW s \in Slots, Connect(c, s) \/ LookUp(c, s) \/ BroadcastNext(c, s)
      PROVE  Mail!MailNext \/ UNCHANGED Mail!mailVars
  BY <1>4, ConnectComes, LookUpStutters, BroadcastNextFinishes DEF Mail!MailNext
<1>5. ASSUME NEW c \in Clients, NEW n \in Nicks, LogIn(c, n)
      PROVE  Mail!MailNext
  BY <1>5, LogInTakesName DEF Mail!MailNext
<1>6. ASSUME NEW c \in Clients, Leave(c) \/ Clean(c) \/ Chat(c) \/ LookUpFails(c)
      PROVE  Mail!MailNext \/ UNCHANGED Mail!mailVars
  BY <1>6, LeaveStutters, CleanDeparts, ChatStarts, LookUpFailsFinishes DEF Mail!MailNext
<1>7. ASSUME NEW c \in Clients,
             SaveMessage(c) \/ SaveMessageFails(c) \/ TestFound(c) \/ WriteFound(c)
      PROVE  Mail!MailNext \/ UNCHANGED Mail!mailVars
  BY <1>7, SaveMessageFiles, TestFoundFinishes, WriteFoundHands DEF Mail!MailNext
<1> QED BY <1>1, <1>2, <1>3, <1>4, <1>5, <1>6, <1>7 DEF Next

\* Messaging implements the mailbox, for any number of slots, clients and texts: whatever slots
\* change hands between a lookup and its write, nobody is written a text twice, a private or
\* encrypted one reaches one client in all, a sender's texts do not overtake each other, and
\* broadcast_message does not end before everyone who stayed has its text.
THEOREM ImplementsMailboxHolds == Spec => ImplementsMailbox
<1>1. Init => Mail!MailInit
  <2> SUFFICES ASSUME Init PROVE Mail!MailInit
    OBVIOUS
  <2>1. hereBar = {} /\ goneBar = {} /\ keptBar = {}
    BY DEF Init, hereBar, goneBar, keptBar
  <2>2. deskBar = [c \in Clients |-> 0] /\ dueBar = [c \in Clients |-> {}]
    BY DEF Init, deskBar, dueBar, AtWork
  <2> QED BY <2>1, <2>2 DEF Init, Mail!MailInit
<1> QED
  BY <1>1, InvariantHolds, MInvHolds, MailStep, PTL DEF Spec, ImplementsMailbox, Mail!MailSpec

(***************************************************************************)
(* Two consequences for the readers.                                       *)
(***************************************************************************)
\* No client receives a text twice.
NoDuplicates == \A d \in Clients, m \in Texts : got[d][m] \in {0, 1}

\* A private or encrypted text is received by one client at most.
OneReader ==
    \A d, e \in Clients, m \in Texts :
       letter[m].kind \in {"private", "encrypted"} /\ got[d][m] # 0 /\ got[e][m] # 0 => d = e

\* Copies are made by WriteFound alone, and of a text that its reader has not had; a new text
\* has none.
LEMMA ReadersKeep ==
    ASSUME IInv, MInv, NoDuplicates, OneReader, [Next]_vars
    PROVE  NoDuplicates' /\ OneReader'
<1>1. ASSUME NEW c \in Clients, WriteFound(c), AtWork(c), tenant[found[c]] # NoClient
      PROVE  NoDuplicates' /\ OneReader'
  <2>1. PICK d \in Clients : d = tenant[found[c]]
    BY <1>1 DEF TypeOK
  <2>2. pc[c] = "write"
    BY <1>1 DEF WriteFound, AtWork
  <2>3. text[c] \in Texts /\ text[c] # 0
    BY <1>1, OnDesk
  <2>4. Mail!Deliverable(text[c], d)
    BY <1>1, <2>1, <2>2, MayHave
  <2>5. /\ got[d][text[c]] = 0
        /\ letter[text[c]].kind # "chat" => \A e \in Clients : got[e][text[c]] = 0
    BY <2>4 DEF Mail!Deliverable, Mail!Unseen
  <2>6. got' = [got EXCEPT ![d][text[c]] = 1] /\ letter' = letter
    BY <1>1, <2>1, <2>3, <2>5 DEF WriteFound
  <2>7. /\ got'[d][text[c]] = 1
        /\ \A e \in Clients, m \in Texts : e # d \/ m # text[c] => got'[e][m] = got[e][m]
    BY <2>3, <2>6 DEF TypeOK
  <2>8. NoDuplicates'
    BY <2>7 DEF NoDuplicates
  <2> QED BY <2>3, <2>5, <2>6, <2>7, <2>8 DEF OneReader
<1>2. CASE \E c \in Clients : WriteFound(c) /\ (~AtWork(c) \/ tenant[found[c]] = NoClient)
  <2>1. PICK c \in Clients : WriteFound(c) /\ (~AtWork(c) \/ tenant[found[c]] = NoClient)
    BY <1>2
  <2>2. text[c] = 0 \/ tenant[found[c]] = NoClient
    BY <2>1 DEF WriteFound, Sending, AtWork
  <2>3. got' = got /\ letter' = letter
    BY <2>1, <2>2 DEF WriteFound
  <2> QED BY <2>3 DEF NoDuplicates, OneReader
<1>3. ASSUME NEW c \in Clients, NEW k, NEW n, Compose(c, k, n), got' = got
      PROVE  NoDuplicates' /\ OneReader'
  <2>1. \A m \in Texts : m # sent + 1 => letter'[m] = letter[m]
    BY <1>3 DEF Compose, TypeOK
  <2>2. \A d \in Clients, m \in Texts : m = sent + 1 => got[d][m] = 0
    BY DEF TypeOK, Numbered
  <2> QED BY <1>3, <2>1, <2>2 DEF NoDuplicates, OneReader
<1>4. CASE UNCHANGED <<got, letter>>
  BY <1>4 DEF NoDuplicates, OneReader
<1>5. ASSUME NEW c \in Clients, NEW s \in Slots,
             Connect(c, s) \/ LookUp(c, s) \/ BroadcastNext(c, s)
      PROVE  UNCHANGED <<got, letter>>
  BY <1>5 DEF Connect, LookUp, BroadcastNext
<1>6. ASSUME NEW c \in Clients,
             \/ \E n \in Nicks : LogIn(c, n)
             \/ Leave(c) \/ Clean(c) \/ LookUpFails(c)
             \/ SaveMessage(c) \/ SaveMessageFails(c) \/ TestFound(c)
      PROVE  UNCHANGED <<got, letter>>
  BY <1>6 DEF LogIn, Leave, Clean, LookUpFails, SaveMessage, SaveMessageFails, TestFound
<1>7. ASSUME NEW c \in Clients, NEW n \in Nicks,
             Encrypt(c, n) \/ \E s \in Slots : Private(c, n, s)
      PROVE  NoDuplicates' /\ OneReader'
  BY <1>3, <1>7 DEF Encrypt, Private
<1>8. ASSUME NEW c \in Clients, Chat(c)
      PROVE  NoDuplicates' /\ OneReader'
  BY <1>3, <1>8 DEF Chat
<1> QED BY <1>1, <1>2, <1>4, <1>5, <1>6, <1>7, <1>8 DEF Next, vars

\* Whatever the slots do, ssl_safe_write is called at most once for a client and a text, and
\* for one client only if the text was sent by /msg or /send_enc.
THEOREM ReadOnce == Spec => [](NoDuplicates /\ OneReader)
<1>1. Init => NoDuplicates /\ OneReader
  BY DEF Init, NoDuplicates, OneReader
<1> QED
  BY <1>1, InvariantHolds, MInvHolds, ReadersKeep, PTL DEF Spec
=============================================================================
