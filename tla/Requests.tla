------------------------------ MODULE Requests ------------------------------
(***************************************************************************)
(* The Idempotency-Key hooks (middleware/idempotency.middleware.ts) for one *)
(* key of one user: the cached answer is looked up before the handler and   *)
(* stored after it, with no reservation in between.                         *)
(***************************************************************************)
EXTENDS Naturals

CONSTANTS Calls  \* requests that carry the key

VARIABLES
  answer,    \* whose answer is cached under idempotency:<user>:<key>
  call,      \* the hook each request is at, or how it ended
  keyed,     \* requests whose onSend hook will store the answer
  reply,     \* whose answer each request was given
  executed,  \* history: requests whose handler succeeded
  excused,   \* history: the cache failed or expired
  crowd      \* history: requests whose handler ran beside another's

requestsVars == << answer, call, keyed, reply, executed, excused, crowd >>
NoCall == "none"

RequestsInit ==
  /\ answer = NoCall
  /\ call = [c \in Calls |-> "idle"]
  /\ keyed = {}
  /\ reply = [c \in Calls |-> NoCall]
  /\ executed = {} /\ excused = FALSE /\ crowd = {}

CallGoto(c, l) == call' = [call EXCEPT ![c] = l]
Others(c) == { d \in Calls \ {c} : call[d] \in { "handler", "store" } }

LookUp_Ignores(c) ==
  /\ call[c] = "idle"
  /\ CallGoto(c, "handler")
  /\ keyed' = keyed \cup {c}
  /\ crowd' = (IF Others(c) = {} THEN crowd ELSE crowd \cup Others(c) \cup {c})
  /\ UNCHANGED << answer, reply, executed, excused >>

\* preHandler: a cached answer is sent; without one the handler runs.  An error
\* of Redis lets the handler run and forgets the key.
LookUp(c) ==
  /\ call[c] = "idle"
  /\ \/ /\ answer # NoCall
        /\ CallGoto(c, "replayed")
        /\ reply' = [reply EXCEPT ![c] = answer]
        /\ UNCHANGED << keyed, excused, crowd >>
     \/ /\ answer = NoCall
        /\ CallGoto(c, "handler")
        /\ keyed' = keyed \cup {c}
        /\ crowd' = (IF Others(c) = {} THEN crowd ELSE crowd \cup Others(c) \cup {c})
        /\ UNCHANGED << reply, excused >>
     \/ /\ CallGoto(c, "handler")
        /\ excused' = TRUE
        /\ UNCHANGED << keyed, reply, crowd >>
  /\ UNCHANGED << answer, executed >>

\* The route's handler: a 2xx answer, or another one, which is never cached.
Handler(c) ==
  /\ call[c] = "handler"
  /\ reply' = [reply EXCEPT ![c] = c]
  /\ \/ executed' = executed \cup {c} /\ CallGoto(c, IF c \in keyed THEN "store" ELSE "sent")
     \/ CallGoto(c, "error") /\ UNCHANGED executed
  /\ UNCHANGED << answer, keyed, excused, crowd >>

Store_AnyStatus(c) ==
  /\ call[c] \in { "store", "error" } /\ c \in keyed
  /\ answer' = c
  /\ CallGoto(c, "sent")
  /\ UNCHANGED << keyed, reply, executed, excused, crowd >>

\* onSend stores the answer over any other; an error of Redis is logged.
Store(c) ==
  /\ call[c] = "store"
  /\ \/ answer' = c /\ UNCHANGED excused
     \/ UNCHANGED answer /\ excused' = TRUE
  /\ CallGoto(c, "sent")
  /\ UNCHANGED << keyed, reply, executed, crowd >>

\* The TTL of the cached answer passes.
AnswerExpires ==
  /\ answer # NoCall
  /\ answer' = NoCall
  /\ excused' = TRUE
  /\ UNCHANGED << call, keyed, reply, executed, crowd >>

RequestsNext ==
  \/ \E c \in Calls : LookUp(c) \/ Handler(c) \/ Store(c)
  \/ AnswerExpires

-----------------------------------------------------------------------------
(* Properties.                                                             *)

\* Two requests of one key both succeed in their handlers only when they ran at
\* the same time, or the cache failed or expired in between.
SecondNeedsOverlap ==
  ~excused => \A c, d \in executed \ crowd : c = d

\* A replayed answer is that of a request whose handler succeeded.
ReplayIsGenuine ==
  \A c \in Calls : call[c] = "replayed" => reply[c] \in executed \ {c}
=============================================================================
