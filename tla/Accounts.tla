------------------------------ MODULE Accounts ------------------------------
(***************************************************************************)
(* Registration and login of src/server.c: process_registration,           *)
(* process_login, the statements they run on the table secure_users, the   *)
(* peer table a login adds to, and the end of a session.                   *)
(*                                                                         *)
(* Each connection has a handler thread, and the threads share one SQLite  *)
(* connection (serialized: a statement is one step) and no lock of their   *)
(* own.  A registration is therefore three steps, between which the other  *)
(* threads run: the SELECT of check_nickname_exists, the INSERT of         *)
(* save_user_to_database, and the reply; a login is two, and the clean-up  *)
(* of a slot three.  A handler reaches its slot by a pointer: when the     *)
(* slot is given away before the handler has returned, two threads work    *)
(* on it (ClientTable has the descriptors and SSL objects of that case).   *)
(***************************************************************************)
EXTENDS Integers, Sequences, FiniteSets

CONSTANTS
    Clients,        \* handler threads, one per connection
    Slots,          \* the indices of server.clients
    Nicks,          \* what clients type as a nickname, spelling included
    Valid,          \* the nicknames validate_nickname accepts
    Canon,          \* [Nicks -> Nicks]: the NOCASE collation of secure_users.nick
    Hex,            \* the characters a token is made of
    TokenLength,    \* TOKEN_LENGTH
    MaxPeers,       \* MAX_CLIENTS, the size of the peer table
    NoNick          \* the wiped nickname of a slot

ASSUME NickAssumption ==
    /\ Valid \subseteq Nicks
    /\ NoNick \notin Nicks
    /\ Canon \in [Nicks -> Nicks]

ASSUME LengthAssumption ==
    /\ TokenLength \in Nat
    /\ TokenLength >= 2
    /\ MaxPeers \in Nat

ASSUME SlotAssumption == Slots \subseteq Nat

VARIABLES
    rows,           \* table secure_users
    pc,             \* where the handler of a connection is
    slot,           \* the slot a handler was started for (its argument client), or NoSlot
    want,           \* local nick of process_registration or process_login
    made,           \* local token of process_registration
    open,           \* server.clients[s].fd >= 0
    nick,           \* server.clients[s].nick
    authorized,     \* server.clients[s].authorized
    shared,         \* history: the open slot was given away under a handler that had it
    refused,        \* the last command was answered by an error
    issued,         \* every (nick, token) a success reply delivered
    peers           \* server.p2p.peers[0 .. count-1]: who each entry was added for

table == <<open, nick, authorized, shared>>
vars == <<rows, pc, slot, want, made, table, refused, issued, peers>>

Tokens == [1..TokenLength -> Hex]

Rows == [nick : Nicks, token : Tokens]

NoSlot == -1

\* What a client may send in the place of the token: one character up to a whole token.
Typed == UNION {[1..n -> Hex] : n \in 1..TokenLength}

\* sscanf(command, "/login %31s %63s", ...): at most TOKEN_LENGTH - 1 characters are kept.
ScanToken(s) == SubSeq(s, 1, IF Len(s) < TokenLength THEN Len(s) ELSE TokenLength - 1)

\* Mutant: the lengths are compared, too.
CompareWhole(a, b) == Len(a) = Len(b) /\ \A i \in 1..Len(b) : a[i] = b[i]

\* constant_time_compare(a, b, strlen(b))
constant_time_compare(a, b) == \A i \in 1..Len(b) : a[i] = b[i]

\* SELECT 1 FROM secure_users WHERE nick = ?   (the column's collation is NOCASE)
NickTaken(n) == \E r \in rows : Canon[r.nick] = Canon[n]

\* Mutant: the column nick is UNIQUE without COLLATE NOCASE.
ViolatesUniqueCase(row) == \E r \in rows : r.nick = row.nick \/ r.token = row.token

\* nick and token are UNIQUE columns.
ViolatesUnique(row) ==
    \E r \in rows : Canon[r.nick] = Canon[row.nick] \/ r.token = row.token

\* authenticate_user: the row of the nickname, and its token up to what was typed.
authenticate_user(n, s) ==
    \E r \in rows : /\ Canon[r.nick] = Canon[n]
                    /\ constant_time_compare(r.token, s)

\* The handler threads that run, and those that have slot s.
Live == {c \in Clients : pc[c] # "none"}
Bound(s) == {c \in Live : slot[c] = s}

\* Where the loop of a handler takes a command: its slot is open.
AtCommand(c) == pc[c] = "idle" /\ open[slot[c]]

\* process_client_command gives the command to handle_unauthorized_commands.
Unauthorized(c) == AtCommand(c) /\ ~authorized[slot[c]]

\* check_client_timeouts, run before the first connection, has marked the slots free.
Init ==
    /\ rows = {}
    /\ pc = [c \in Clients |-> "none"]
    /\ slot = [c \in Clients |-> NoSlot]
    /\ want = [c \in Clients |-> NoNick]
    /\ made = [c \in Clients |-> << >>]
    /\ open = [s \in Slots |-> FALSE]
    /\ nick = [s \in Slots |-> NoNick]
    /\ authorized = [s \in Slots |-> FALSE]
    /\ shared = [s \in Slots |-> FALSE]
    /\ refused = [c \in Clients |-> FALSE]
    /\ issued = {}
    /\ peers = << >>

Refuse(c, r) == refused' = [refused EXCEPT ![c] = r]
GoTo(c, l) == pc' = [pc EXCEPT ![c] = l]

\* process_registration or process_login returns: its locals are gone.
Return(c) == /\ GoTo(c, "idle")
             /\ want' = [want EXCEPT ![c] = NoNick]
             /\ made' = [made EXCEPT ![c] = << >>]

(***************************************************************************)
(* handle_new_connection: the first free slot is zeroed and gets a handler *)
(* (ClientTable has the steps of this, and its failures).                  *)
(***************************************************************************)
Connect(c, s) ==
    /\ pc[c] = "none"
    /\ ~open[s]
    /\ \A t \in Slots : t < s => open[t]
    /\ open' = [open EXCEPT ![s] = TRUE]
    /\ nick' = [nick EXCEPT ![s] = NoNick]
    /\ authorized' = [authorized EXCEPT ![s] = FALSE]
    /\ shared' = [shared EXCEPT ![s] = Bound(s) # {}]
    /\ slot' = [slot EXCEPT ![c] = s]
    /\ GoTo(c, "idle")
    /\ UNCHANGED <<rows, want, made, refused, issued, peers>>

(***************************************************************************)
(* process_registration                                                    *)
(***************************************************************************)
RegisterInvalid(c, n) ==
    /\ Unauthorized(c)
    /\ n \notin Valid
    /\ Refuse(c, TRUE)
    /\ UNCHANGED <<rows, pc, slot, want, made, table, issued, peers>>

RegisterExists(c, n) ==
    /\ Unauthorized(c)
    /\ n \in Valid
    /\ NickTaken(n)
    /\ Refuse(c, TRUE)
    /\ UNCHANGED <<rows, pc, slot, want, made, table, issued, peers>>

\* The name looks free: no row, or the statement could not be prepared
\* (check_nickname_exists returns 0 then, too).
RegisterFree(c, n, selectFailed) ==
    /\ Unauthorized(c)
    /\ n \in Valid
    /\ selectFailed \/ ~NickTaken(n)
    /\ want' = [want EXCEPT ![c] = n]
    /\ Refuse(c, FALSE)
    /\ GoTo(c, "save")
    /\ UNCHANGED <<rows, slot, made, table, issued, peers>>

\* generate_secure_token fails: the command ends without a reply.
TokenFails(c) ==
    /\ pc[c] = "save"
    /\ Return(c)
    /\ UNCHANGED <<rows, slot, table, refused, issued, peers>>

\* A token is drawn and the INSERT succeeds.
SaveUser(c, t) ==
    LET row == [nick |-> want[c], token |-> t]
    IN  /\ pc[c] = "save"
        /\ ~ViolatesUnique(row)
        /\ rows' = rows \cup {row}
        /\ made' = [made EXCEPT ![c] = t]
        /\ GoTo(c, "reply")
        /\ UNCHANGED <<slot, want, table, refused, issued, peers>>

\* The INSERT is refused by a UNIQUE column, or fails for a reason of the database.
SaveUserFails(c) ==
    /\ pc[c] = "save"
    /\ Refuse(c, TRUE)
    /\ Return(c)
    /\ UNCHANGED <<rows, slot, table, issued, peers>>

\* The success reply, with the token, reaches the client or is lost with
\* its connection (the result of ssl_safe_write is not looked at).
RegisterReply(c, delivered) ==
    /\ pc[c] = "reply"
    /\ issued' = IF delivered THEN issued \cup {[nick |-> want[c], token |-> made[c]]}
                              ELSE issued
    /\ Return(c)
    /\ UNCHANGED <<rows, slot, table, refused, peers>>

(***************************************************************************)
(* process_login                                                           *)
(***************************************************************************)
\* Mutant: the table's limit is not tested.
AddPeerUnbounded(c) == peers' = Append(peers, c)

\* add_peer_to_network: one more entry, or -1 (which process_login ignores) when full.
add_peer_to_network(c) ==
    peers' = IF Len(peers) >= MaxPeers THEN peers ELSE Append(peers, c)

\* Mutant: process_client_command does not look at authorized.
LoginAgain(c, n, s) ==
    /\ AtCommand(c)
    /\ authenticate_user(n, ScanToken(s))
    /\ want' = [want EXCEPT ![c] = n]
    /\ Refuse(c, FALSE)
    /\ GoTo(c, "enter")
    /\ UNCHANGED <<rows, slot, made, table, issued, peers>>

\* authenticate_user finds the row, and the token agrees.
Login(c, n, s) ==
    /\ Unauthorized(c)
    /\ authenticate_user(n, ScanToken(s))
    /\ want' = [want EXCEPT ![c] = n]
    /\ Refuse(c, FALSE)
    /\ GoTo(c, "enter")
    /\ UNCHANGED <<rows, slot, made, table, issued, peers>>

\* The slot gets the name and is authorized (in this order), and the client is told,
\* also when the monitor has closed the slot since.
Enter(c) ==
    /\ pc[c] = "enter"
    /\ nick' = [nick EXCEPT ![slot[c]] = want[c]]
    /\ authorized' = [authorized EXCEPT ![slot[c]] = TRUE]
    /\ add_peer_to_network(c)
    /\ Return(c)
    /\ UNCHANGED <<rows, slot, open, shared, refused, issued>>

\* No such row, another token, or a statement that could not be prepared: the last can
\* happen to every login.
LoginRefused(c) ==
    /\ Unauthorized(c)
    /\ Refuse(c, TRUE)
    /\ UNCHANGED <<rows, pc, slot, want, made, table, issued, peers>>

(***************************************************************************)
(* The end of the handler, when the client is gone or the slot closed:     *)
(* cleanup_client_resources closes the slot, wipes the name and only then  *)
(* clears authorized, without a lock.  The peer table keeps its entry.     *)
(***************************************************************************)
\* client->fd = -1
Unset(s) == /\ open' = [open EXCEPT ![s] = FALSE]
            /\ shared' = [shared EXCEPT ![s] = FALSE]

\* Mutant: client->fd = -1 is missing after the close.
CloseSlotKeepFd(c) ==
    /\ pc[c] = "idle"
    /\ Refuse(c, FALSE)
    /\ GoTo(c, "wipe")
    /\ UNCHANGED <<rows, slot, want, made, table, issued, peers>>

CloseSlot(c) ==
    /\ pc[c] = "idle"
    /\ Unset(slot[c])
    /\ Refuse(c, FALSE)
    /\ GoTo(c, "wipe")
    /\ UNCHANGED <<rows, slot, want, made, nick, authorized, issued, peers>>

WipeNick(c) ==
    /\ pc[c] = "wipe"
    /\ nick' = [nick EXCEPT ![slot[c]] = NoNick]
    /\ GoTo(c, "clear")
    /\ UNCHANGED <<rows, slot, want, made, open, authorized, shared, refused, issued, peers>>

\* The thread returns, and may serve another connection later.
ClearAuthorized(c) ==
    /\ pc[c] = "clear"
    /\ authorized' = [authorized EXCEPT ![slot[c]] = FALSE]
    /\ slot' = [slot EXCEPT ![c] = NoSlot]
    /\ GoTo(c, "none")
    /\ UNCHANGED <<rows, want, made, open, nick, shared, refused, issued, peers>>

\* check_client_timeouts: the monitor closes the slot of an inactive client, whatever
\* its handler is doing.
Expire(s) ==
    /\ open[s]
    /\ Unset(s)
    /\ UNCHANGED <<rows, pc, slot, want, made, nick, authorized, refused, issued, peers>>

HandlerStep(c) ==
    \/ \E n \in Nicks : \/ RegisterInvalid(c, n)
                        \/ RegisterExists(c, n)
                        \/ \E f \in BOOLEAN : RegisterFree(c, n, f)
                        \/ \E s \in Typed : Login(c, n, s)
    \/ LoginRefused(c) \/ TokenFails(c)
    \/ \E t \in Tokens : SaveUser(c, t)
    \/ SaveUserFails(c)
    \/ \E d \in BOOLEAN : RegisterReply(c, d)
    \/ Enter(c) \/ CloseSlot(c) \/ WipeNick(c) \/ ClearAuthorized(c)

Next ==
    \/ \E c \in Clients : HandlerStep(c)
    \/ \E c \in Clients, s \in Slots : Connect(c, s)
    \/ \E s \in Slots : Expire(s)

Spec == Init /\ [][Next]_vars

-----------------------------------------------------------------------------
\* Every variable keeps its type.
TypeOK ==
    /\ rows \subseteq Rows
    /\ pc \in [Clients -> {"none", "idle", "save", "reply", "enter", "wipe", "clear"}]
    /\ slot \in [Clients -> Slots \cup {NoSlot}]
    /\ want \in [Clients -> Nicks \cup {NoNick}]
    /\ made \in [Clients -> Tokens \cup {<< >>}]
    /\ open \in [Slots -> BOOLEAN]
    /\ nick \in [Slots -> Nicks \cup {NoNick}]
    /\ authorized \in [Slots -> BOOLEAN]
    /\ shared \in [Slots -> BOOLEAN]
    /\ refused \in [Clients -> BOOLEAN]
    /\ issued \subseteq Rows
    /\ peers \in Seq(Clients)
    /\ Len(peers) <= MaxPeers

\* Handlers that race through check_nickname_exists and save_user_to_database for
\* spellings of one nickname are never both told that they registered it.
OneOwner ==
    \A i, j \in issued : Canon[i.nick] = Canon[j.nick] => i = j

\* A token process_registration delivered always logs in, under every spelling of
\* its nickname and whatever else was registered since, although process_login
\* keeps only TOKEN_LENGTH - 1 characters of what the client sends.
IssuedTokenLogsIn ==
    \A i \in issued, n \in Nicks :
       Canon[n] = Canon[i.nick] => authenticate_user(n, ScanToken(i.token))

\* The test of send_online_users, broadcast_message and find_client_by_nick.
Online(s) == open[s] /\ authorized[s]

\* A slot that passes the test send_online_users, broadcast_message and
\* find_client_by_nick make (fd >= 0 and authorized) holds the name of an existing
\* account: cleanup_client_resources wipes the name while authorized is still set, but
\* after fd is unset.  A slot given away under a handler that had not returned is the
\* exception: that handler's late wipe hits the new client.
SessionHasAccount ==
    \A s \in Slots :
       Online(s) /\ ~shared[s] => nick[s] \in Nicks /\ NickTaken(nick[s])

\* "Добавление в P2P сеть" (adding to the P2P network), the comment at the call in
\* process_login: a logged-in client has an entry in the peer table.  The code does
\* not keep this: a full table is ignored.
LoggedInIsPeer ==
    \A c \in Live : authorized[slot[c]] => \E i \in 1..Len(peers) : peers[i] = c

-----------------------------------------------------------------------------
(***************************************************************************)
(* The abstract registry this component implements.                        *)
(***************************************************************************)
ownerBar ==
    [k \in {Canon[r.nick] : r \in rows} |->
       (CHOOSE r \in rows : Canon[r.nick] = k).token]

\* A slot with one handler is signed in while the other threads find it online.
signedInBar ==
    [s \in Slots |-> IF Online(s) /\ ~shared[s] THEN Canon[nick[s]] ELSE NoNick]

Reg == INSTANCE Registry WITH
          Places <- Slots, Keys <- Nicks, Secrets <- Tokens, Nobody <- NoNick,
          owner <- ownerBar, signedIn <- signedInBar

\* Seen through the mapping, the handlers' steps on secure_users and on the slots
\* are steps of the registry: no interleaving of the SELECTs and INSERTs gives a
\* nickname away twice or changes an account's token.
ImplementsRegistry == Reg!RegSpec
=============================================================================
