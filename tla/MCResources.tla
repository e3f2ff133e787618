---------------------------- MODULE MCResources ----------------------------
(* The audit ring, the rate limit and the crypto provider share no state, and *)
(* one run checks them side by side: in each behaviour one of them moves, the *)
(* others stay as they began.                                                 *)
EXTENDS AuditLog, RateLimit, CryptoProvider, TLC

CONSTANTS t1, t2, t3

VARIABLE subject    \* the component that moves

MCThreads == {t1, t2, t3}
ThreadSymmetry == Permutations(Threads)

allVars == <<vars, rateVars, cryptoVars, subject>>

ResourcesInit ==
  /\ Init /\ RateInit /\ CryptoInit
  /\ subject \in {"audit", "rate", "crypto"}
  /\ subject # "crypto" => fn = "crypto_encrypt"

AuditMoves == subject = "audit" /\ Next /\ UNCHANGED <<rateVars, cryptoVars, subject>>
RateMoves == subject = "rate" /\ RateNext /\ UNCHANGED <<vars, cryptoVars, subject>>
CryptoMoves == subject = "crypto" /\ CryptoNext /\ UNCHANGED <<vars, rateVars, subject>>

ResourcesNext == AuditMoves \/ RateMoves \/ CryptoMoves

ResourcesSpec == ResourcesInit /\ [][ResourcesNext]_allVars
=============================================================================
