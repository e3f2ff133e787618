-------------------------- MODULE MCP2PMessenger --------------------------
(* Two connections at once, so that one can wait while another is served;    *)
(* three group names, one of them a peer's, for a table of two; two messages. *)
EXTENDS P2PMessenger
=============================================================================
