--------------------------- MODULE MCConversations ---------------------------
(* Conversations for TLC: runs of one thread, the first of them streamed.      *)
EXTENDS Conversations

CONSTANTS r1, r2

TwoRuns   == {r1, r2}
OneStream == {r1}
===============================================================================
