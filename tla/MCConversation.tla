--------------------------- MODULE MCConversation ---------------------------
(***************************************************************************)
(* Conversation for TLC: payloads of up to three bytes, one more than both *)
(* caps, in chunks of one or two, through a tunnel that holds one chunk.   *)
(***************************************************************************)
EXTENDS Conversation
=============================================================================
