--------------------------- MODULE MCObjectAdapter ---------------------------
(* The object adapter for TLC: the servants call what they may call.       *)
EXTENDS ObjectAdapter

Nested == {"deactivate"}
=============================================================================
