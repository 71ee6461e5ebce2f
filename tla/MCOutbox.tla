------------------------------ MODULE MCOutbox ------------------------------
(* TLC instances of Outbox: two relay processes over one table.            *)
EXTENDS Outbox

CONSTANTS r1, r2
TwoRelays == { r1, r2 }
=============================================================================
