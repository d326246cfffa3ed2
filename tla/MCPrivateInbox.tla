--------------------------- MODULE MCPrivateInbox ---------------------------
(* A small session: message 2 is the longer one; the two fit a burst together.  *)
EXTENDS PrivateInbox

MCSize == [m \in MessageId |-> IF m = 2 THEN 3 ELSE 1]
=============================================================================
