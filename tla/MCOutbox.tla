------------------------------ MODULE MCOutbox ------------------------------
(* An instance of Outbox for TLC.  *)
EXTENDS Outbox

CONSTANTS p1, p2, chat1, chat2

TwoChats == <<chat1, chat2>>
=============================================================================
