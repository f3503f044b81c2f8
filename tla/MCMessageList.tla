---------------------------- MODULE MCMessageList ----------------------------
(* Two conversations of three pages; one message that arrives, one file of   *)
(* the user.                                                                 *)
EXTENDS MessageList
CONSTANTS a, b
MCConversation == [m \in Incoming |-> a]
=============================================================================
