------------------------------- MODULE Breaker -------------------------------
(***************************************************************************)
(* RedisCircuitBreaker (modules/alerts/circuit-breaker.ts) of one webhook   *)
(* endpoint: executions in several processes share three Redis keys, read   *)
(* and written one command at a time.                                       *)
(***************************************************************************)
EXTENDS Naturals, Sequences

CONSTANTS
  Executions,  \* concurrent calls of execute
  Threshold    \* failureThreshold

VARIABLES
  state,      \* circuit_breaker:<id>:state, a missing key is CLOSED
  failed,     \* circuit_breaker:<id>:failures
  openedAt,   \* "none", "recent" or "elapsed" (older than cooldownSeconds)
  step,       \* the Redis command each execution is about to send
  purpose,    \* why it reads the state: "gate", "success" or "failure"
  writes,     \* the commands it has still to send
  crossed,    \* history: a closing and a tripping write were under way together
  lossy       \* history: Redis failed

breakerKeys == << state, failed, openedAt >>
breakerVars == << breakerKeys, step, purpose, writes, crossed, lossy >>

BreakerInit ==
  /\ state = "CLOSED" /\ failed = 0 /\ openedAt = "none"
  /\ step = [e \in Executions |-> "idle"]
  /\ purpose = [e \in Executions |-> "gate"]
  /\ writes = [e \in Executions |-> << >>]
  /\ crossed = FALSE /\ lossy = FALSE

At(e, s) == step' = [step EXCEPT ![e] = s]

Closing == << "SET CLOSED", "DEL failures", "DEL opened_at" >>
Tripping == << "SET OPEN", "SET opened_at" >>

\* The execution sends a list of commands; they are not a transaction.
SendAll(e, cmds) ==
  /\ writes' = [writes EXCEPT ![e] = cmds]
  /\ At(e, "write")
  /\ crossed' = (crossed \/ \E x \in Executions \ {e} : writes[x] # << >> /\ writes[x] # << "DEL failures" >>)

\* execute asks canExecute; a finished execution may run again.
Execute(e) ==
  /\ step[e] = "idle"
  /\ purpose' = [purpose EXCEPT ![e] = "gate"]
  /\ At(e, "GET state")
  /\ UNCHANGED << breakerKeys, writes, crossed, lossy >>

\* getState has an answer: canExecute, recordSuccess and recordFailure go on.
Answer(e, s) ==
  \/ /\ purpose[e] = "gate"
     /\ At(e, IF s = "OPEN" THEN "idle" ELSE "call")
     /\ UNCHANGED << writes, crossed >>
  \/ /\ purpose[e] = "success" /\ s = "HALF_OPEN" /\ SendAll(e, Closing)
  \/ /\ purpose[e] = "success" /\ s = "CLOSED" /\ SendAll(e, << "DEL failures" >>)
  \/ /\ purpose[e] = "success" /\ s = "OPEN" /\ At(e, "idle") /\ UNCHANGED << writes, crossed >>
  \/ /\ purpose[e] = "failure" /\ s = "HALF_OPEN" /\ SendAll(e, Tripping)
  \/ /\ purpose[e] = "failure" /\ s # "HALF_OPEN" /\ At(e, "INCR") /\ UNCHANGED << writes, crossed >>

GetState(e) ==
  /\ step[e] = "GET state"
  /\ IF state = "OPEN" THEN At(e, "GET opened_at") /\ UNCHANGED << writes, crossed >> ELSE Answer(e, state)
  /\ UNCHANGED << breakerKeys, purpose, lossy >>

\* Without opened_at the cooldown never ends.
GetOpenedAt(e) ==
  /\ step[e] = "GET opened_at"
  /\ IF openedAt = "elapsed"
       THEN At(e, "SET HALF_OPEN") /\ UNCHANGED << writes, crossed >>
       ELSE Answer(e, "OPEN")
  /\ UNCHANGED << breakerKeys, purpose, lossy >>

SetHalfOpen(e) ==
  /\ step[e] = "SET HALF_OPEN"
  /\ state' = "HALF_OPEN"
  /\ Answer(e, "HALF_OPEN")
  /\ UNCHANGED << failed, openedAt, purpose, lossy >>

\* The endpoint answers, or fails with a 5xx, a timeout or no connection.
Call(e) ==
  /\ step[e] = "call"
  /\ \E p \in { "success", "failure" } : purpose' = [purpose EXCEPT ![e] = p]
  /\ At(e, "GET state")
  /\ UNCHANGED << breakerKeys, writes, crossed, lossy >>

Incr_OffByOne(e) ==
  /\ step[e] = "INCR"
  /\ failed' = (IF failed < Threshold THEN failed + 1 ELSE failed)
  /\ IF failed + 1 > Threshold THEN SendAll(e, Tripping)
       ELSE At(e, "idle") /\ UNCHANGED << writes, crossed >>
  /\ UNCHANGED << state, openedAt, purpose, lossy >>

\* INCR, with EXPIRE for the first failure; the count is capped at Threshold.
Incr(e) ==
  /\ step[e] = "INCR"
  /\ failed' = (IF failed < Threshold THEN failed + 1 ELSE failed)
  /\ IF failed + 1 >= Threshold THEN SendAll(e, Tripping)
       ELSE At(e, "idle") /\ UNCHANGED << writes, crossed >>
  /\ UNCHANGED << state, openedAt, purpose, lossy >>

Write_NoClock(e) ==
  /\ step[e] = "write"
  /\ LET w == Head(writes[e]) IN
       /\ state' = (CASE w = "SET CLOSED" -> "CLOSED" [] w = "SET OPEN" -> "OPEN" [] OTHER -> state)
       /\ failed' = (IF w = "DEL failures" THEN 0 ELSE failed)
       /\ openedAt' = (IF w = "DEL opened_at" THEN "none" ELSE openedAt)
  /\ writes' = [writes EXCEPT ![e] = Tail(@)]
  /\ At(e, IF Len(writes[e]) = 1 THEN "idle" ELSE "write")
  /\ UNCHANGED << purpose, crossed, lossy >>

Write(e) ==
  /\ step[e] = "write"
  /\ LET w == Head(writes[e]) IN
       /\ state' = (CASE w = "SET CLOSED" -> "CLOSED" [] w = "SET OPEN" -> "OPEN" [] OTHER -> state)
       /\ failed' = (IF w = "DEL failures" THEN 0 ELSE failed)
       /\ openedAt' = (CASE w = "SET opened_at" -> "recent" [] w = "DEL opened_at" -> "none" [] OTHER -> openedAt)
  /\ writes' = [writes EXCEPT ![e] = Tail(@)]
  /\ At(e, IF Len(writes[e]) = 1 THEN "idle" ELSE "write")
  /\ UNCHANGED << purpose, crossed, lossy >>

\* trip and reset, called by hand.
Manual(e) ==
  /\ step[e] = "idle"
  /\ \E cmds \in { Closing, Tripping } : SendAll(e, cmds)
  /\ UNCHANGED << breakerKeys, purpose, lossy >>

\* getState answers CLOSED when Redis fails; the recording calls give up.
BreakerRedisFails(e) ==
  /\ lossy' = TRUE
  /\ \/ /\ step[e] \in { "GET state", "GET opened_at", "SET HALF_OPEN" }
        /\ Answer(e, "CLOSED")
        /\ UNCHANGED << breakerKeys, purpose >>
     \/ /\ step[e] \in { "INCR", "write" }
        /\ writes' = [writes EXCEPT ![e] = << >>]
        /\ At(e, "idle")
        /\ UNCHANGED << breakerKeys, purpose, crossed >>

\* The failure window or the cooldown passes.
TimePasses ==
  /\ \/ failed' = 0 /\ UNCHANGED openedAt
     \/ openedAt = "recent" /\ openedAt' = "elapsed" /\ UNCHANGED failed
  /\ UNCHANGED << state, step, purpose, writes, crossed, lossy >>

Go(e) == GetState(e) \/ GetOpenedAt(e) \/ SetHalfOpen(e) \/ Call(e) \/ Incr(e) \/ Write(e)
BreakerNext ==
  \/ \E e \in Executions : Execute(e) \/ Go(e) \/ Manual(e) \/ BreakerRedisFails(e)
  \/ TimePasses

-----------------------------------------------------------------------------
(* Properties.                                                             *)

Settled == \A e \in Executions : writes[e] = << >>

\* An open breaker has the time its cooldown is counted from, without which no
\* request would ever be let through again; only a breaker that was closed and
\* tripped by two processes at once may have lost it.
OpenHasClock == state = "OPEN" /\ Settled /\ ~crossed /\ ~lossy => openedAt # "none"

\* Once the failures within a window reach the threshold the breaker is not left
\* closed, however records of successes and failures are interleaved.
ClosedBelowThreshold == state = "CLOSED" /\ Settled /\ ~lossy => failed < Threshold
=============================================================================
