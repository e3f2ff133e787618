----------------------------- MODULE MCAccounts -----------------------------
(* Instances of Accounts for TLC: two spellings of one nickname, a second    *)
(* nickname and one that validate_nickname refuses.                          *)
EXTENDS Accounts, TLC

CONSTANTS c1, c2, h0, h1, Ann, ann, bob, bad

MCClients == {c1, c2}
MCSlots == {0, 1}
MCNicks == {Ann, ann, bob, bad}
MCValid == {Ann, ann, bob}
MCCanon == [n \in MCNicks |-> IF n = Ann THEN ann ELSE n]
MCHex == {h0, h1}
Symmetry == Permutations(MCClients) \cup Permutations(MCHex)
=============================================================================
