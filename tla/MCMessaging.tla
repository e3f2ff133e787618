---------------------------- MODULE MCMessaging ----------------------------
(* Instances of Messaging for TLC.                                          *)
EXTENDS Messaging, TLC

CONSTANTS c1, c2, c3, Ann, Bob

MCClients == {c1, c2, c3}
MCNicks == {Ann, Bob}
ClientSymmetry == Permutations(Clients)
=============================================================================
