----------------------------- MODULE MCStartup -----------------------------
(* Enough launches for a crash, a failed start and a restart of both, and     *)
(* enough tables for an end before, between and after them.                   *)
EXTENDS Startup
=============================================================================
