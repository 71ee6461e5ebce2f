---------------------------- MODULE ChecksumChain ----------------------------
(***************************************************************************)
(* The chain of payment checksums (services/checksumChain.service.ts):      *)
(* appenders of several processes link a row to the tail they read in a     *)
(* serializable transaction, and retry when Postgres aborts it.  The chain  *)
(* hash of a row stands for the list of payments it commits to.             *)
(***************************************************************************)
EXTENDS Naturals, Sequences

CONSTANTS
  Appenders,     \* calls of appendPaymentChecksum
  PaymentOf,     \* the payment each call is for
  MaxAttempts    \* MAX_APPEND_RETRIES

VARIABLES
  chain,      \* PaymentChecksum rows by sequence: [payment, previousHash, chainHash]
  appender,   \* "idle", "append" (in its transaction), "again"; "done" returned a hash,
              \* "null" and "failed" returned null (retries exhausted, another error); "killed"
  tail,       \* the number of rows in the snapshot of each transaction
  attempt,
  beganAt     \* history: the number of rows when each call first read the tail

chainVars == << chain, appender, tail, attempt, beganAt >>
GenesisHash == << >>

ChainInit ==
  /\ chain = << >>
  /\ appender = [a \in Appenders |-> "idle"]
  /\ tail = [a \in Appenders |-> 0]
  /\ attempt = [a \in Appenders |-> 0]
  /\ beganAt = [a \in Appenders |-> 0]

HashAt(n) == IF n = 0 THEN GenesisHash ELSE chain[n].chainHash
HasRow(p) == \E i \in DOMAIN chain : chain[i].payment = p

\* The transaction reads the tail.
ReadTail(a) ==
  /\ appender[a] \in { "idle", "again" }
  /\ appender' = [appender EXCEPT ![a] = "append"]
  /\ tail' = [tail EXCEPT ![a] = Len(chain)]
  /\ attempt' = [attempt EXCEPT ![a] = @ + 1]
  /\ beganAt' = [beganAt EXCEPT ![a] = IF appender[a] = "idle" THEN Len(chain) ELSE @]
  /\ UNCHANGED chain

AppendRow_ReadCommitted(a) ==
  /\ appender[a] = "append" /\ ~HasRow(PaymentOf[a])
  /\ chain' = Append(chain, [payment |-> PaymentOf[a], previousHash |-> HashAt(tail[a]),
                             chainHash |-> Append(HashAt(tail[a]), PaymentOf[a])])
  /\ appender' = [appender EXCEPT ![a] = "done"]
  /\ UNCHANGED << tail, attempt, beganAt >>

\* It inserts and commits, if no other append committed since its snapshot.
AppendRow(a) ==
  /\ appender[a] = "append" /\ tail[a] = Len(chain) /\ ~HasRow(PaymentOf[a])
  /\ chain' = Append(chain, [payment |-> PaymentOf[a], previousHash |-> HashAt(tail[a]),
                             chainHash |-> Append(HashAt(tail[a]), PaymentOf[a])])
  /\ appender' = [appender EXCEPT ![a] = "done"]
  /\ UNCHANGED << tail, attempt, beganAt >>

\* P2002: another call for the same payment was first.
RowExists(a) ==
  /\ appender[a] = "append" /\ HasRow(PaymentOf[a])
  /\ appender' = [appender EXCEPT ![a] = "done"]
  /\ UNCHANGED << chain, tail, attempt, beganAt >>

SerializationFailure_GivesUp(a) ==
  /\ appender[a] = "append" /\ tail[a] # Len(chain)
  /\ appender' = [appender EXCEPT ![a] = "null"]
  /\ UNCHANGED << chain, tail, attempt, beganAt >>

\* Postgres aborts the transaction of an overtaken append; MaxAttempts times.
SerializationFailure(a) ==
  /\ appender[a] = "append" /\ tail[a] # Len(chain)
  /\ appender' = [appender EXCEPT ![a] = IF attempt[a] < MaxAttempts THEN "again" ELSE "null"]
  /\ UNCHANGED << chain, tail, attempt, beganAt >>

\* Any other error of the database, at any attempt: logged, null, and no retry.
DatabaseError(a) ==
  /\ appender[a] = "append"
  /\ appender' = [appender EXCEPT ![a] = "failed"]
  /\ UNCHANGED << chain, tail, attempt, beganAt >>

\* The process is killed, in the transaction or in the wait before the next one.
AppenderDies(a) ==
  /\ appender[a] \in { "append", "again" }
  /\ appender' = [appender EXCEPT ![a] = "killed"]
  /\ UNCHANGED << chain, tail, attempt, beganAt >>

ChainNext ==
  \E a \in Appenders :
    \/ ReadTail(a) \/ AppendRow(a) \/ RowExists(a) \/ SerializationFailure(a)
    \/ DatabaseError(a) \/ AppenderDies(a)

\* verifyChain: the rows by sequence, each against the row before.
VerifyChain ==
  \A i \in DOMAIN chain :
    /\ chain[i].previousHash = HashAt(i - 1)
    /\ chain[i].chainHash = Append(chain[i].previousHash, chain[i].payment)

-----------------------------------------------------------------------------
(* Properties.                                                             *)

\* However appends race, the chain never forks: the verification of an untouched
\* table succeeds, and a payment has one row.
ChainNeverForks ==
  /\ VerifyChain
  /\ \A i, j \in DOMAIN chain : chain[i].payment = chain[j].payment => i = j

\* A call that returns a hash leaves its payment with a row.  One that returns null
\* without a plain database error (which ends it at once, at any attempt) was
\* overtaken by as many rows of others, since it began, as it has attempts.
GapNeedsRivals ==
  \A a \in Appenders :
    /\ appender[a] = "done" => HasRow(PaymentOf[a])
    /\ appender[a] = "null" => Len(chain) >= beganAt[a] + MaxAttempts
=============================================================================
