----------------------------- MODULE MCIngestion -----------------------------
(* TLC instances of Ingestion.                                             *)
EXTENDS Ingestion

CONSTANT p1
OneProc == { p1 }

\* Consecutive ledgers, and ledgers with a gap after the first record and one
\* after the history.
Near == [r \in 1..N |-> r]
Gaps == [r \in 1..N |-> IF r = 1 THEN 1 ELSE IF r <= History THEN 10 + r ELSE 20 + r]
\* Every record has a transaction of its own.
OwnTx == [r \in 1..N |-> r]
==============================================================================
