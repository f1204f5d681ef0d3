--------------------------- MODULE MCConversationTurns ---------------------------
(* Two sessions in a row, and a handful of operations between them.           *)
EXTENDS ConversationTurns, TLC

CONSTANTS s1, s2

================================================================================
