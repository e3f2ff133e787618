------------------------------ MODULE Directory ------------------------------
(***************************************************************************)
(* What the client table of the former server promises the threads that    *)
(* read it without the lock: a slot is leased to one connection, which     *)
(* never had a slot before and alone gives it back; and while the server   *)
(* serves, the name a slot got is neither changed nor taken away.          *)
(***************************************************************************)
CONSTANTS Conns,        \* connections
          Slots,        \* places of the table
          Names,        \* nicknames
          Nobody        \* neither a connection nor a name

VARIABLES serving,      \* the server serves
          lease,        \* lease[s]: the connection slot s is leased to
          name,         \* name[s]: the name it signed on under
          left          \* the connections that gave their slot back

dirVars == <<serving, lease, name, left>>

DirInit ==
  /\ serving = FALSE
  /\ lease = [s \in Slots |-> Nobody] /\ name = [s \in Slots |-> Nobody]
  /\ left = {}

\* The server starts to serve with an empty table.
Serve ==
  /\ left = {} /\ \A s \in Slots : lease[s] = Nobody /\ name[s] = Nobody
  /\ serving' = TRUE
  /\ UNCHANGED <<lease, name, left>>

Close ==
  /\ serving' = FALSE
  /\ UNCHANGED <<lease, name, left>>

Take(c, s) ==
  /\ lease[s] = Nobody /\ name[s] = Nobody
  /\ c \notin left /\ \A r \in Slots : lease[r] # c
  /\ lease' = [lease EXCEPT ![s] = c]
  /\ UNCHANGED <<serving, name, left>>

SignOn(s, n) ==
  /\ lease[s] # Nobody /\ name[s] = Nobody
  /\ name' = [name EXCEPT ![s] = n]
  /\ UNCHANGED <<serving, lease, left>>

\* Only the holder gives a slot back, and a named one only after the server closed.
GiveBack(c, s) ==
  /\ lease[s] = c
  /\ serving => name[s] = Nobody
  /\ lease' = [lease EXCEPT ![s] = Nobody]
  /\ name' = [name EXCEPT ![s] = Nobody]
  /\ left' = left \cup {c}
  /\ UNCHANGED serving

DirNext ==
  \/ Serve \/ Close
  \/ \E c \in Conns, s \in Slots : Take(c, s) \/ GiveBack(c, s)
  \/ \E s \in Slots, n \in Names : SignOn(s, n)

DirSpec == DirInit /\ [][DirNext]_dirVars
=============================================================================
