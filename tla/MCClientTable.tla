--------------------------- MODULE MCClientTable ---------------------------
(* Instances of ClientTable for TLC. *)
EXTENDS ClientTable, TLC

CONSTANTS k1, k2, SIGINT

OneConn == {k1}
TwoConns == {k1, k2}
NoSignals == {}
OneSignal == {SIGINT}
ConnSymmetry == Permutations(Conns)
=============================================================================
