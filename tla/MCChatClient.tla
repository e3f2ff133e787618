---------------------------- MODULE MCChatClient ----------------------------
(* Two nicknames, so that a second login can replace the first; four boxes on  *)
(* top of each other; two lines in the read buffer.                            *)
EXTENDS ChatClient
=============================================================================
