------------------------------ MODULE Registry ------------------------------
(***************************************************************************)
(* What the account part of the server promises, without its threads, its  *)
(* database statements or its replies: a nickname (any spelling of it) is  *)
(* given away at most once, together with one token that never changes,    *)
(* and only the name of an existing account can be signed in under.        *)
(***************************************************************************)
CONSTANTS Places,       \* where a client can be signed in
          Keys,         \* nicknames up to letter case
          Secrets,      \* tokens
          Nobody        \* not a member of Keys

VARIABLES owner,        \* partial function: the accounts and their tokens
          signedIn      \* signedIn[p]: the account at place p, or Nobody

RegInit == /\ owner = [k \in {} |-> k]
           /\ signedIn = [p \in Places |-> Nobody]

\* A free nickname is given away, for good.
Claim(k, t) == /\ k \notin DOMAIN owner
               /\ owner' = [j \in DOMAIN owner \cup {k} |->
                              IF j = k THEN t ELSE owner[j]]
               /\ UNCHANGED signedIn

SignIn(p, k) == /\ signedIn[p] = Nobody
                /\ k \in DOMAIN owner
                /\ signedIn' = [signedIn EXCEPT ![p] = k]
                /\ UNCHANGED owner

SignOut(p) == /\ signedIn' = [signedIn EXCEPT ![p] = Nobody]
              /\ UNCHANGED owner

RegNext == \/ \E k \in Keys, t \in Secrets : Claim(k, t)
           \/ \E p \in Places, k \in Keys : SignIn(p, k)
           \/ \E p \in Places : SignOut(p)

RegSpec == RegInit /\ [][RegNext]_<<owner, signedIn>>
=============================================================================
