------------------------------ MODULE Mailbox ------------------------------
(***************************************************************************)
(* What messaging promises, without slots, lookups and the order of the    *)
(* handlers' steps.  A client comes once, takes at most one name, and      *)
(* leaves for good.  It has at most one text on its desk: it starts the    *)
(* next one, or leaves, when it is done with the last.  Nobody gets a copy *)
(* twice, or of a text that is on no desk; a text that is not encrypted is *)
(* kept or lost before the first copy is made, and once.  A text for       *)
(* everybody is not put aside before all who were there by name when it    *)
(* was started, and have not left, have their copy; and a private one not  *)
(* before a client that had the name it is for has its copy, or has left.  *)
(* Of a text that is not for everybody there is one copy at most, and      *)
(* whoever has it is its addressee or came after it was started.           *)
(***************************************************************************)
EXTENDS Naturals

CONSTANTS Clients, Nicks,
          NoNick,       \* not a member of Nicks
          Texts         \* 1..the number of texts

VARIABLES here, gone,   \* the clients that are there, and that have left
          alias,        \* their names, or NoNick
          since,        \* how many texts had been started when a client came
          started,      \* how many texts there are
          envelope,     \* their kinds, senders and addressees
          desk,         \* the text a client is sending, or 0
          due,          \* who has to have a copy of it before it is put aside
          kept, mislaid,    \* the texts stored, with their envelopes, and those that could not be
          copies        \* how many copies a client got of a text

people == <<here, gone, alias, since>>
archive == <<kept, mislaid>>
mailVars == <<people, started, envelope, desk, due, archive, copies>>

MailInit ==
    /\ here = {} /\ gone = {}
    /\ alias = [c \in Clients |-> NoNick]
    /\ since = [c \in Clients |-> 0]
    /\ started = 0
    /\ envelope = [m \in Texts |-> [kind |-> "none", from |-> NoNick, to |-> NoNick]]
    /\ desk = [c \in Clients |-> 0]
    /\ due = [c \in Clients |-> {}]
    /\ kept = {} /\ mislaid = {}
    /\ copies = [c \in Clients |-> [m \in Texts |-> 0]]

Come(c) ==
    /\ c \notin here \cup gone
    /\ here' = here \cup {c}
    /\ since' = [since EXCEPT ![c] = started]
    /\ UNCHANGED <<gone, alias, started, envelope, desk, due, archive, copies>>

TakeName(c, n) ==
    /\ c \in here /\ alias[c] = NoNick
    /\ alias' = [alias EXCEPT ![c] = n]
    /\ UNCHANGED <<here, gone, since, started, envelope, desk, due, archive, copies>>

Depart(c) ==
    /\ c \in here /\ desk[c] = 0
    /\ here' = here \ {c}
    /\ gone' = gone \cup {c}
    /\ due' = [d \in Clients |-> due[d] \ {c}]
    /\ UNCHANGED <<alias, since, started, envelope, desk, archive, copies>>

\* Whom a text of c is for: everybody who is there by name, or one who has the name n.
Audiences(kind, n) ==
    CASE kind = "chat" -> {{d \in here : alias[d] # NoNick}}
      [] kind = "private" -> {{d} : d \in {e \in here : alias[e] = n}}
      [] kind = "encrypted" -> {{}}

Start(c, kind, n) ==
    /\ c \in here /\ alias[c] # NoNick /\ desk[c] = 0
    /\ started + 1 \in Texts
    /\ n = NoNick <=> kind = "chat"
    /\ started' = started + 1
    /\ envelope' = [envelope EXCEPT ![started + 1] =
                      [kind |-> kind, from |-> alias[c], to |-> n]]
    /\ desk' = [desk EXCEPT ![c] = started + 1]
    /\ \E S \in Audiences(kind, n) : due' = [due EXCEPT ![c] = S]
    /\ UNCHANGED <<people, archive, copies>>

\* Text m was stored, or could not be.
Filed(m) == m \in mislaid \/ [from |-> envelope[m].from, to |-> envelope[m].to, text |-> m] \in kept
Unseen(m) == \A d \in Clients : copies[d][m] = 0

File(c) ==
    LET m == desk[c]
    IN  /\ m # 0
        /\ m \notin mislaid /\ \A r \in kept : r.text # m
        /\ envelope[m].kind # "encrypted"
        /\ Unseen(m)
        /\ \/ /\ kept' = kept \cup {[from |-> envelope[m].from, to |-> envelope[m].to, text |-> m]}
              /\ UNCHANGED mislaid
           \/ /\ mislaid' = mislaid \cup {m}
              /\ UNCHANGED kept
        /\ UNCHANGED <<people, started, envelope, desk, due, copies>>

Deliverable(m, d) ==
    /\ d \in here /\ copies[d][m] = 0
    /\ envelope[m].kind # "encrypted" => Filed(m)
    /\ envelope[m].kind # "chat" => Unseen(m) /\ (alias[d] = envelope[m].to \/ since[d] >= m)

\* c puts its text aside.
PutAside(c) ==
    LET m == desk[c]
    IN  /\ envelope[m].kind # "encrypted" => Filed(m)
        /\ \A d \in due[c] : copies'[d][m] = 1
        /\ desk' = [desk EXCEPT ![c] = 0]
        /\ due' = [due EXCEPT ![c] = {}]

Hand(c, d) ==
    /\ desk[c] # 0
    /\ Deliverable(desk[c], d)
    /\ copies' = [copies EXCEPT ![d][desk[c]] = 1]
    /\ PutAside(c) \/ UNCHANGED <<desk, due>>
    /\ UNCHANGED <<people, started, envelope, archive>>

Finish(c) ==
    /\ desk[c] # 0
    /\ UNCHANGED copies
    /\ PutAside(c)
    /\ UNCHANGED <<people, started, envelope, archive>>

MailNext ==
    \E c \in Clients :
       \/ Come(c) \/ Depart(c) \/ File(c) \/ Finish(c)
       \/ \E n \in Nicks : TakeName(c, n)
       \/ \E n \in Nicks \cup {NoNick}, k \in {"chat", "private", "encrypted"} : Start(c, k, n)
       \/ \E d \in Clients : Hand(c, d)

MailSpec == MailInit /\ [][MailNext]_mailVars
=============================================================================
