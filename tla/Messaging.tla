----------------------------- MODULE Messaging -----------------------------
(***************************************************************************)
(* Messages between clients in src/server.c: broadcast_message,            *)
(* send_private_message and handle_encrypted_message, find_client_by_nick  *)
(* and the table secure_messages.  The handler of a sender looks a client  *)
(* up, runs a SQL statement, and uses the slot it found, while other       *)
(* clients leave and new ones move into their slots.                       *)
(*                                                                         *)
(* A slot is entered and left in one step here: the order of the writes of *)
(* cleanup_client_resources and what a write to a freed SSL object does    *)
(* are the subject of ClientTable.  A text is its number; the texts of     *)
(* "System" (a user joined, a user left) all have the number 0.            *)
(***************************************************************************)
EXTENDS Integers

CONSTANTS
    MaxClients,     \* MAX_CLIENTS
    Clients,        \* connections; each is made once
    Nicks,          \* the registered nicknames, in the spellings clients use
    NoNick,         \* the empty nickname of a client that is not logged in
    System,         \* the sender "System"
    NoClient,       \* the tenant of a free slot
    MaxMessages     \* bound: how many texts the clients send

ASSUME MessagingAssumption ==
    /\ MaxClients \in Nat /\ MaxClients >= 1
    /\ MaxMessages \in Nat
    /\ NoNick \notin Nicks /\ System \notin Nicks /\ System # NoNick
    /\ NoClient \notin Clients

VARIABLES
    tenant,         \* the client whose fd and ssl are in server.clients[s]
    nick,           \* server.clients[s].nick; NoNick when authorized is 0
    pc,             \* where the handler of a client is
    slot,           \* the slot a handler was started for
    text,           \* the text a handler is sending
    target,         \* local target of /msg and /send_enc; NoNick in a broadcast
    found,          \* the slot about to be written to
    todo,           \* the slots broadcast_message has still to visit
    sent,           \* the number of texts so far
    rows,           \* table secure_messages
    letter,         \* history: who sent a text, how and to whom
    lost,           \* history: the texts whose INSERT failed
    name,           \* history: the nickname a client logged in with
    arrival,        \* history: how many texts there were when a client connected
    got,            \* history: how often a text was written to a client
    owed            \* history: the clients logged in since the text was begun that must get it

table == <<tenant, nick>>
handlers == <<pc, slot, text, target, found, todo>>
history == <<letter, lost, name, arrival, got, owed>>
vars == <<table, handlers, sent, rows, history>>

Slots == 0..(MaxClients - 1)
Texts == 1..MaxMessages

\* fd >= 0 && authorized
LoggedIn(s) == tenant[s] # NoClient /\ nick[s] # NoNick
Members == {c \in Clients : tenant[slot[c]] = c /\ nick[slot[c]] # NoNick}

Labels == {"none", "idle", "save", "part", "test", "lookup", "send", "write",
           "partSend", "partWrite", "clean", "done"}

IsLowest(x, S) == x \in S /\ \A y \in S : x <= y
Go(c, l) == pc' = [pc EXCEPT ![c] = l]

Init ==
    /\ tenant = [s \in Slots |-> NoClient]
    /\ nick = [s \in Slots |-> NoNick]
    /\ pc = [c \in Clients |-> "none"]
    /\ slot = [c \in Clients |-> 0]
    /\ text = [c \in Clients |-> 0]
    /\ target = [c \in Clients |-> NoNick]
    /\ found = [c \in Clients |-> 0]
    /\ todo = [c \in Clients |-> {}]
    /\ sent = 0
    /\ rows = {}
    /\ letter = [m \in Texts |-> [kind |-> "none", from |-> NoNick, to |-> NoNick]]
    /\ lost = {}
    /\ name = [c \in Clients |-> NoNick]
    /\ arrival = [c \in Clients |-> 0]
    /\ got = [c \in Clients |-> [m \in Texts |-> 0]]
    /\ owed = [c \in Clients |-> {}]

-----------------------------------------------------------------------------
(***************************************************************************)
(* Sessions.                                                               *)
(***************************************************************************)
\* handle_new_connection: the first free slot.
Connect(c, s) ==
    /\ pc[c] = "none"
    /\ IsLowest(s, {t \in Slots : tenant[t] = NoClient})
    /\ tenant' = [tenant EXCEPT ![s] = c]
    /\ nick' = [nick EXCEPT ![s] = NoNick]
    /\ slot' = [slot EXCEPT ![c] = s]
    /\ Go(c, "idle")
    /\ arrival' = [arrival EXCEPT ![c] = sent]
    /\ UNCHANGED <<text, target, found, todo, sent, rows, letter, lost, name, got, owed>>

\* broadcast_message is called with text m.
Broadcast(c, m, l) ==
    /\ Go(c, l)
    /\ text' = [text EXCEPT ![c] = m]
    /\ target' = [target EXCEPT ![c] = NoNick]
    /\ todo' = [todo EXCEPT ![c] = Slots]
    /\ owed' = [owed EXCEPT ![c] = IF m = 0 THEN {} ELSE Members]

\* process_login succeeds, and everybody is told.
LogIn(c, n) ==
    /\ pc[c] = "idle" /\ nick[slot[c]] = NoNick
    /\ nick' = [nick EXCEPT ![slot[c]] = n]
    /\ name' = [name EXCEPT ![c] = n]
    /\ Broadcast(c, 0, "save")
    /\ UNCHANGED <<tenant, slot, found, sent, rows, letter, lost, arrival, got>>

\* The handler's loop ends: everybody is told, if the client was logged in.
Leave(c) ==
    /\ pc[c] = "idle"
    /\ IF nick[slot[c]] # NoNick
       THEN Broadcast(c, 0, "part")
       ELSE /\ Go(c, "clean")
            /\ owed' = [owed EXCEPT ![c] = {}]
            /\ UNCHANGED <<text, target, todo>>
    /\ UNCHANGED <<table, slot, found, sent, rows, letter, lost, name, arrival, got>>

\* cleanup_client_resources
Clean(c) ==
    /\ pc[c] = "clean"
    /\ tenant' = [tenant EXCEPT ![slot[c]] = NoClient]
    /\ nick' = [nick EXCEPT ![slot[c]] = NoNick]
    /\ Go(c, "done")
    /\ owed' = [d \in Clients |-> owed[d] \ {c}]
    /\ UNCHANGED <<slot, text, target, found, todo, sent, rows, letter, lost, name, arrival, got>>

-----------------------------------------------------------------------------
(***************************************************************************)
(* Commands of a client that is logged in.                                 *)
(***************************************************************************)
\* A new text, sent by c.
Compose(c, kind, n) ==
    /\ pc[c] = "idle" /\ nick[slot[c]] # NoNick
    /\ sent < MaxMessages
    /\ sent' = sent + 1
    /\ letter' = [letter EXCEPT ![sent + 1] =
                    [kind |-> kind, from |-> nick[slot[c]], to |-> n]]

\* Mutant: the nickname is compared without a look at authorized.
FindAny(n) == {s \in Slots : tenant[s] # NoClient /\ nick[s] \in {n, NoNick}}

\* find_client_by_nick, by strcmp: the first of these slots.
FindClientByNick(n) == {s \in Slots : LoggedIn(s) /\ nick[s] = n}

\* handle_authorized_commands: a text for everybody.
Chat(c) ==
    /\ Compose(c, "chat", NoNick)
    /\ Broadcast(c, sent + 1, "save")
    /\ UNCHANGED <<table, slot, found, rows, lost, name, arrival, got>>

\* /msg: send_private_message finds its addressee.  Without one it returns.
Private(c, n, s) ==
    /\ Compose(c, "private", n)
    /\ IsLowest(s, FindClientByNick(n))
    /\ Go(c, "save")
    /\ text' = [text EXCEPT ![c] = sent + 1]
    /\ target' = [target EXCEPT ![c] = n]
    /\ found' = [found EXCEPT ![c] = s]
    /\ owed' = [owed EXCEPT ![c] = {tenant[s]}]
    /\ UNCHANGED <<table, slot, todo, rows, lost, name, arrival, got>>

\* /send_enc: encrypt_message_for_user finds its addressee, and the encryption succeeds.
Encrypt(c, n) ==
    /\ Compose(c, "encrypted", n)
    /\ FindClientByNick(n) # {}
    /\ Go(c, "lookup")
    /\ text' = [text EXCEPT ![c] = sent + 1]
    /\ target' = [target EXCEPT ![c] = n]
    /\ owed' = [owed EXCEPT ![c] = {}]
    /\ UNCHANGED <<table, slot, found, todo, rows, lost, name, arrival, got>>

\* handle_encrypted_message looks its addressee up again.
LookUp(c, s) ==
    /\ pc[c] = "lookup"
    /\ IsLowest(s, FindClientByNick(target[c]))
    /\ found' = [found EXCEPT ![c] = s]
    /\ Go(c, "write")
    /\ UNCHANGED <<table, slot, text, target, todo, sent, rows, history>>

LookUpFails(c) ==
    /\ pc[c] = "lookup"
    /\ FindClientByNick(target[c]) = {}
    /\ Go(c, "idle")
    /\ UNCHANGED <<table, slot, text, target, found, todo, sent, rows, history>>

-----------------------------------------------------------------------------
(***************************************************************************)
(* Storing and writing.  "save", "test", "send" and "write" belong to a    *)
(* command, "part", "partSend" and "partWrite" to the last broadcast.      *)
(***************************************************************************)
\* Mutant: to_user is left empty.
RowUnaddressed(c) == [from |-> IF text[c] = 0 THEN System ELSE nick[slot[c]],
                      to |-> NoNick, text |-> text[c]]

\* The row save_message inserts.
Row(c) == [from |-> IF text[c] = 0 THEN System ELSE nick[slot[c]],
           to |-> target[c], text |-> text[c]]

AfterSave(c) ==
    Go(c, IF pc[c] = "part" THEN "partSend"
          ELSE IF target[c] = NoNick THEN "send" ELSE "test")

\* save_message: one INSERT, whose result nobody looks at.
SaveMessage(c) ==
    /\ pc[c] \in {"save", "part"}
    /\ rows' = rows \cup {Row(c)}
    /\ AfterSave(c)
    /\ UNCHANGED <<table, slot, text, target, found, todo, sent, history>>

SaveMessageFails(c) ==
    /\ pc[c] \in {"save", "part"}
    /\ lost' = IF text[c] = 0 THEN lost ELSE lost \cup {text[c]}
    /\ AfterSave(c)
    /\ UNCHANGED <<table, slot, text, target, found, todo, sent, rows, letter, name, arrival, got, owed>>

\* send_private_message tests fd and authorized of the slot it found, not its nick.
TestFound(c) ==
    /\ pc[c] = "test"
    /\ Go(c, IF LoggedIn(found[c]) THEN "write" ELSE "idle")
    /\ UNCHANGED <<table, slot, text, target, found, todo, sent, rows, history>>

\* Where a broadcast goes on with the slots S left to visit.
Resume(l, S) ==
    CASE l \in {"send", "write"} -> IF S = {} THEN "idle" ELSE "send"
      [] l \in {"partSend", "partWrite"} -> IF S = {} THEN "clean" ELSE "partSend"

\* Mutant: the loop ends at the first slot that is not to be written to.
BroadcastStops(c, s) ==
    LET rest == todo[c] \ {s}
    IN  /\ pc[c] \in {"send", "partSend"}
        /\ IsLowest(s, todo[c])
        /\ IF LoggedIn(s)
           THEN /\ found' = [found EXCEPT ![c] = s]
                /\ todo' = [todo EXCEPT ![c] = rest]
                /\ Go(c, IF pc[c] = "send" THEN "write" ELSE "partWrite")
           ELSE /\ UNCHANGED found
                /\ todo' = [todo EXCEPT ![c] = {}]
                /\ Go(c, Resume(pc[c], {}))
        /\ UNCHANGED <<table, slot, text, target, sent, rows, history>>

\* broadcast_message, the next slot: its fd and authorized are tested.
BroadcastNext(c, s) ==
    LET rest == todo[c] \ {s}
    IN  /\ pc[c] \in {"send", "partSend"}
        /\ IsLowest(s, todo[c])
        /\ todo' = [todo EXCEPT ![c] = rest]
        /\ IF LoggedIn(s)
           THEN /\ found' = [found EXCEPT ![c] = s]
                /\ Go(c, IF pc[c] = "send" THEN "write" ELSE "partWrite")
           ELSE /\ UNCHANGED found
                /\ Go(c, Resume(pc[c], rest))
        /\ UNCHANGED <<table, slot, text, target, sent, rows, history>>

\* Mutant: handle_encrypted_message writes until its addressee cannot be found.
WriteRetries(c) ==
    LET d == tenant[found[c]]
    IN  /\ pc[c] \in {"write", "partWrite"}
        /\ got' = IF d # NoClient /\ text[c] # 0
                  THEN [got EXCEPT ![d][text[c]] = @ + 1] ELSE got
        /\ Go(c, IF text[c] # 0 /\ letter[text[c]].kind = "encrypted" THEN "lookup"
                 ELSE Resume(pc[c], todo[c]))
        /\ UNCHANGED <<table, slot, text, target, found, todo, sent, rows,
                       letter, lost, name, arrival, owed>>

\* ssl_safe_write on the SSL object the slot holds now: the text is written to its
\* tenant.  The write may break off, when the connection does or the server stops,
\* and no caller looks at its result: "got" counts the writes that were begun.
WriteFound(c) ==
    LET d == tenant[found[c]]
    IN  /\ pc[c] \in {"write", "partWrite"}
        /\ got' = IF d # NoClient /\ text[c] # 0
                  THEN [got EXCEPT ![d][text[c]] = @ + 1] ELSE got
        /\ Go(c, Resume(pc[c], todo[c]))
        /\ UNCHANGED <<table, slot, text, target, found, todo, sent, rows,
                       letter, lost, name, arrival, owed>>

Next ==
    \E c \in Clients :
       \/ \E s \in Slots : Connect(c, s) \/ LookUp(c, s) \/ BroadcastNext(c, s)
       \/ \E n \in Nicks : LogIn(c, n) \/ Encrypt(c, n)
       \/ \E n \in Nicks, s \in Slots : Private(c, n, s)
       \/ Leave(c) \/ Clean(c) \/ Chat(c) \/ LookUpFails(c)
       \/ SaveMessage(c) \/ SaveMessageFails(c) \/ TestFound(c) \/ WriteFound(c)

Spec == Init /\ [][Next]_vars

-----------------------------------------------------------------------------
\* Every variable keeps its type.
TypeOK ==
    /\ tenant \in [Slots -> Clients \cup {NoClient}]
    /\ nick \in [Slots -> Nicks \cup {NoNick}]
    /\ pc \in [Clients -> Labels]
    /\ slot \in [Clients -> Slots]
    /\ text \in [Clients -> Texts \cup {0}]
    /\ target \in [Clients -> Nicks \cup {NoNick}]
    /\ found \in [Clients -> Slots]
    /\ todo \in [Clients -> SUBSET Slots]
    /\ sent \in 0..MaxMessages
    /\ rows \subseteq [from : Nicks \cup {System}, to : Nicks \cup {NoNick},
                       text : Texts \cup {0}]
    /\ letter \in [Texts -> [kind : {"none", "chat", "private", "encrypted"},
                             from : Nicks \cup {NoNick}, to : Nicks \cup {NoNick}]]
    /\ lost \subseteq Texts
    /\ name \in [Clients -> Nicks \cup {NoNick}]
    /\ arrival \in [Clients -> 0..MaxMessages]
    /\ got \in [Clients -> [Texts -> Nat]]
    /\ owed \in [Clients -> SUBSET Clients]

\* c has yet to pass the slot of d.
Ahead(c, d) ==
    \/ pc[c] \in {"save", "test"}
    \/ slot[d] \in todo[c]
    \/ pc[c] = "write" /\ found[c] = slot[d]

\* A client that is logged in when broadcast_message is called, and does not leave before
\* the loop has passed its slot, is written the text exactly once, however the other slots
\* change hands meanwhile; and so is the client that send_private_message found.
EveryoneOnce ==
    \A c \in Clients : \A d \in owed[c] :
       got[d][text[c]] = IF Ahead(c, d) THEN 0 ELSE 1

\* A client that was connected when a private or encrypted text was sent receives it only
\* if it is its addressee: the slots found by find_client_by_nick can be wrong by the time
\* of the write for clients that came later, never for those that were there.
StrangersAreNewcomers ==
    \A d \in Clients, m \in Texts :
       got[d][m] > 0 /\ letter[m].kind \in {"private", "encrypted"} =>
          name[d] = letter[m].to \/ arrival[d] >= m

\* What anybody has received in a broadcast or by /msg is in secure_messages, under the
\* names of sender and addressee, unless its INSERT failed.
ReceivedIsStored ==
    \A d \in Clients, m \in Texts :
       got[d][m] > 0 /\ letter[m].kind # "encrypted" =>
          \/ m \in lost
          \/ [from |-> letter[m].from, to |-> letter[m].to, text |-> m] \in rows

-----------------------------------------------------------------------------
(***************************************************************************)
(* Messaging implements Mailbox: a handler with a text in its hands has it *)
(* on its desk until it is idle again, and the rows of System are nobody's.*)
(***************************************************************************)
AtWork(c) == pc[c] \in {"save", "test", "lookup", "send", "write"} /\ text[c] # 0

hereBar == {c \in Clients : pc[c] \notin {"none", "done"}}
goneBar == {c \in Clients : pc[c] = "done"}
deskBar == [c \in Clients |-> IF AtWork(c) THEN text[c] ELSE 0]
dueBar == [c \in Clients |-> IF AtWork(c) THEN owed[c] ELSE {}]
keptBar == {r \in rows : r.text # 0}

Mail == INSTANCE Mailbox WITH
          here <- hereBar, gone <- goneBar, alias <- name, since <- arrival,
          started <- sent, envelope <- letter, desk <- deskBar, due <- dueBar,
          kept <- keptBar, mislaid <- lost, copies <- got

\* Through every change of hands of the slots, the handlers' steps are steps of the mailbox:
\* nobody is written a text twice, a private or encrypted text is written to one client in
\* all, the texts of one sender are not mixed, and none is written before save_message.
ImplementsMailbox == Mail!MailSpec

-----------------------------------------------------------------------------
(* A statement of the repository that the code does not keep.               *)

\* "/msg <user> <text> - Send private message" (send_help_message): nobody but <user>
\* receives the text.
PrivateToAddressee ==
    \A d \in Clients, m \in Texts :
       got[d][m] > 0 /\ letter[m].kind = "private" => name[d] = letter[m].to
=============================================================================
