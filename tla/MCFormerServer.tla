--------------------------- MODULE MCFormerServer ---------------------------
(* Two connections, two slots, two nicknames that can log in and one that can *)
(* only be registered.                                                        *)
EXTENDS FormerServer
=============================================================================
