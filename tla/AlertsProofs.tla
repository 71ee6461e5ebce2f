---------------------------- MODULE AlertsProofs ----------------------------
(***************************************************************************)
(* Proofs about the alerts of one payment: what executions of the dispatch  *)
(* may send, what dead letters say, and that none is lost.                  *)
(***************************************************************************)
EXTENDS Alerts, SequenceTheorems, TLAPS

Statuses == { "pending", "retried", "suppressed", "purged" }
JobSteps == Running \cup { "unused", "waiting", "completed", "failed" }

(***************************************************************************)
(* Types                                                                   *)
(***************************************************************************)
ExecTypes ==
  /\ step \in [Executors -> Steps]
  /\ stage \in [Executors -> Nat]
  /\ \A j \in Jobs : step[j] \in JobSteps
  /\ \A e \in Executors : step[e] \in Running => stage[e] \in 1..Len(route)

StoreTypes ==
  /\ setup \in Setups
  /\ made \in [Jobs -> Nat] /\ stalls \in [Jobs -> Nat]
  /\ gate \in [Channels -> Executors \cup {Nobody}]
  /\ record \in [Channels -> { "none", "sent", "failed" }]
  /\ sends \in [Checked -> Nat]
  /\ letters \in [DOMAIN letters -> Statuses]
  /\ DOMAIN target = Executors
  /\ events \in [Processes -> SUBSET Jobs] /\ creating \in [Processes -> SUBSET Jobs]

AlertTypes == ExecTypes /\ StoreTypes

(***************************************************************************)
(* Invariants                                                              *)
(***************************************************************************)
\* Who sends through a gated channel holds its gate, and it was not yet delivered.
GateInv ==
  \A c \in Gated : \A e \in Executors : Sending(e, c) => gate[c] = e /\ record[c] # "sent"

\* Without faults, a channel that was never crowded has one sender at most, which
\* found no success, and a request that was accepted is logged or about to be.
OnceInv(c) ==
  /\ \A e, x \in Executors : Sending(e, c) /\ Sending(x, c) => e = x
  /\ \A e \in Executors : Sending(e, c) => record[c] # "sent"
  /\ sends[c] <= 1
  /\ sends[c] # 0 => record[c] = "sent" \/ \E e \in Executors : step[e] = "log" /\ Channel(e) = c
CrowdInv == faults = {} => \A c \in Checked \ overlap : OnceInv(c)

\* Replays refer to letters, and what they are about to write is true.
ReplayInv ==
  /\ \A o \in Operators : step[o] = "retried" => deliverySucceeded(target[o])
  /\ marking \subseteq requeued
  /\ RetriedIsBacked

\* While one process creates the letter of a job, there is none to repeat.
PendingInv(j) ==
  /\ \A p, q \in Processes : j \in creating[p] /\ j \in creating[q] => p = q
  /\ \A p \in Processes : j \in creating[p] =>
       \A i \in DOMAIN letters : OfJob(i, j) => ~Untouched(i)
  /\ \A a, b \in DOMAIN letters : OfJob(a, j) /\ OfJob(b, j) /\ Untouched(a) /\ Untouched(b) => a = b
QuarantineInv ==
  /\ \A e \in Executors : step[e] = "unused" => target[e] = NoLetter
  /\ \A j \in Jobs \ twins : PendingInv(j)

\* A row is new when it is created: a dispatch names its letters by channel and
\* run, and a process creates the letter of a failed job when it handles the event.
Passed(e, c) == \E k \in 1..Len(route) : k < stage[e] /\ route[k] = c
JobLetters(j) ==
  \A i \in DOMAIN letters : i.channel \in Channels /\ i.by = j /\ step[j] # "completed" =>
    \/ i.run < made[j] + stalls[j]
    \/ i.run = made[j] + stalls[j] /\ step[j] \in Running /\ Passed(j, i.channel)
OperatorLetters(o) ==
  \A i \in DOMAIN letters : i.channel \in Channels /\ i.by = o =>
    step[o] # "unused" /\ (step[o] \in Running => Passed(o, i.channel))
EventLetters(p) ==
  /\ creating[p] \subseteq events[p]
  /\ \A j \in events[p] : step[j] = "failed" /\ QueueLetter(p, j) \notin DOMAIN letters
LetterShape(i) ==
  \/ i.channel \in Channels /\ i.by \in Executors /\ i.run \in Nat
  \/ i.channel = "queue" /\ i.by \in Jobs /\ step[i.by] = "failed"
FreshInv ==
  /\ \A j \in Jobs : JobLetters(j)
  /\ \A o \in Operators : OperatorLetters(o)
  /\ \A p \in Processes : EventLetters(p)
  /\ \A i \in DOMAIN letters : LetterShape(i)

\* Without losses of a process or the database: what the payment's job has passed
\* was delivered, has its letter, or is in somebody's hands; when the job has
\* failed there is its letter, or a process that will write it.
InHand(c) == \E x \in Executors : step[x] \in { "send", "log", "fail" } /\ Channel(x) = c
Covered(c) ==
  c \in Throwing => record[c] = "sent" \/ InHand(c) \/ \E i \in DOMAIN letters : i.channel = c
QueueTold == \E i \in DOMAIN letters : i.channel = "queue"
InRoute(c) == \E k \in 1..Len(route) : route[k] = c
Heard == QueueTold \/ \E p \in Processes : First \in events[p]
HolderInv == \A c \in Gated : \A x \in Executors : gate[c] = x => Sending(x, c)
FirstInv ==
  /\ step[First] # "unused"
  /\ step[First] \in Running => \A c \in Channels : Passed(First, c) => Covered(c)
  /\ step[First] = "completed" => \A c \in Channels : InRoute(c) => Covered(c)
  /\ step[First] = "failed" => made[First] >= MaxAttempts /\ Heard
Calm == faults \subseteq { "lostReply" }
LossInv == Calm => HolderInv /\ FirstInv

(***************************************************************************)
(* How an executor moves                                                   *)
(***************************************************************************)
LEMMA RouteFacts ==
  ASSUME AlertTypes
  PROVE  /\ route \in Seq(Channels) /\ Len(route) \in Nat /\ DOMAIN route = 1..Len(route)
         /\ MaxAttempts \in Nat
         /\ \A a, b \in 1..Len(route) : route[a] = route[b] => a = b
<1>1. setup \in Setups
  BY DEF AlertTypes, StoreTypes
<1>2. setup.route \in Seq(Channels) /\ setup.attempts \in Nat
  BY <1>1, SetupsOK
<1>3. \A a, b \in DOMAIN setup.route : setup.route[a] = setup.route[b] => a = b
  BY <1>1, SetupsOK
<1>4. Len(setup.route) \in Nat /\ DOMAIN setup.route = 1..Len(setup.route)
  BY <1>2
<1> QED
  BY <1>2, <1>3, <1>4 DEF route, MaxAttempts

LEMMA ChannelFact ==
  ASSUME AlertTypes, NEW e \in Executors, step[e] \in Running
  PROVE  stage[e] \in 1..Len(route) /\ Channel(e) \in Channels /\ Channel(e) = route[stage[e]]
<1>1. stage[e] \in 1..Len(route)
  BY DEF AlertTypes, ExecTypes
<1>2. route \in Seq(Channels)
  BY RouteFacts
<1> QED
  BY <1>1, <1>2, ElementOfSeq DEF Channel

Unmoved(e) == \A x \in Executors : x # e => step'[x] = step[x] /\ stage'[x] = stage[x]
Advanced(e) ==
  /\ Unmoved(e)
  /\ \/ step'[e] = "enter" /\ stage'[e] = stage[e] + 1 /\ stage[e] < Len(route)
     \/ step'[e] = (IF e \in Jobs THEN "completed" ELSE "verify") /\ stage'[e] = stage[e] /\ stage[e] = Len(route)
Gone(e, l) == Unmoved(e) /\ stage'[e] = stage[e] /\ step'[e] = l

LEMMA GotoMoves ==
  ASSUME AlertTypes, setup' = setup, NEW e \in Executors, NEW l \in Steps, Goto(e, l), stage' = stage,
         e \in Jobs => l \in JobSteps, l \in Running => stage[e] \in 1..Len(route)
  PROVE  ExecTypes' /\ Gone(e, l)
<1>1. /\ step' \in [Executors -> Steps] /\ step'[e] = l /\ \A x \in Executors : x # e => step'[x] = step[x]
  BY DEF Goto, AlertTypes, ExecTypes
<1>2. ExecTypes
  BY DEF AlertTypes
<1>3. route' = route
  BY DEF route
<1>4. \A j \in Jobs : j \in Executors
  BY DEF Executors
<1>5. \A j \in Jobs : step'[j] \in JobSteps
  BY <1>1, <1>2, <1>4 DEF ExecTypes
<1>6. \A x \in Executors : step'[x] \in Running => stage'[x] \in 1..Len(route')
  BY <1>1, <1>2, <1>3 DEF ExecTypes
<1> QED
  BY <1>1, <1>2, <1>5, <1>6 DEF ExecTypes, Gone, Unmoved

LEMMA AdvanceMoves ==
  ASSUME AlertTypes, setup' = setup, NEW e \in Executors, step[e] \in Running, Advance(e)
  PROVE  ExecTypes' /\ Advanced(e)
<1>0. Len(route) \in Nat /\ stage[e] \in 1..Len(route) /\ ExecTypes
  BY RouteFacts, ChannelFact DEF AlertTypes
<1>1. CASE stage[e] < Len(route)
  <2>1. stage' = [stage EXCEPT ![e] = @ + 1] /\ Goto(e, "enter")
    BY <1>1 DEF Advance
  <2>2. /\ stage' \in [Executors -> Nat] /\ stage'[e] = stage[e] + 1 /\ stage[e] + 1 \in 1..Len(route)
        /\ \A x \in Executors : x # e => stage'[x] = stage[x]
    BY <1>0, <1>1, <2>1 DEF ExecTypes
  <2>3. /\ step' \in [Executors -> Steps] /\ step'[e] = "enter"
        /\ \A x \in Executors : x # e => step'[x] = step[x]
    BY <1>0, <2>1 DEF Goto, ExecTypes, Steps, Running
  <2>4. route' = route
    BY DEF route
  <2>5. \A j \in Jobs : step'[j] \in JobSteps
    BY <1>0, <2>3 DEF ExecTypes, JobSteps, Running, Executors
  <2>6. \A x \in Executors : step'[x] \in Running => stage'[x] \in 1..Len(route')
    BY <1>0, <2>2, <2>3, <2>4 DEF ExecTypes
  <2> QED
    BY <1>1, <2>2, <2>3, <2>5, <2>6 DEF ExecTypes, Advanced, Unmoved
<1>2. CASE ~(stage[e] < Len(route))
  <2> DEFINE l == IF e \in Jobs THEN "completed" ELSE "verify"
  <2>1. stage' = stage /\ Goto(e, l)
    BY <1>2 DEF Advance
  <2>2. l \in Steps /\ (e \in Jobs => l \in JobSteps) /\ l \notin Running
    BY DEF Steps, JobSteps, Running
  <2>3. stage[e] = Len(route)
    BY <1>0, <1>2
  <2> HIDE DEF l
  <2>4. ExecTypes' /\ Gone(e, l)
    BY <2>1, <2>2, GotoMoves
  <2> QED
    BY <2>3, <2>4 DEF Advanced, Gone, l
<1> QED
  BY <1>1, <1>2

\* The dispatch throws: the executor waits again, fails or ends.
Thrown(e) ==
  /\ Unmoved(e) /\ stage'[e] = stage[e]
  /\ \/ e \in Jobs /\ step'[e] = "waiting" /\ events' = events /\ made' = [made EXCEPT ![e] = @ + 1]
     \/ /\ e \in Jobs /\ step'[e] = "failed" /\ events' = [p \in Processes |-> events[p] \cup {e}]
        /\ made' = [made EXCEPT ![e] = @ + 1] /\ made[e] + 1 >= MaxAttempts
     \/ e \notin Jobs /\ step'[e] = "ended" /\ events' = events /\ made' = made

LEMMA ThrowMoves ==
  ASSUME AlertTypes, setup' = setup, NEW e \in Executors, step[e] \in Running, Throw(e)
  PROVE  ExecTypes' /\ Thrown(e) /\ made' \in [Jobs -> Nat] /\ events' \in [Processes -> SUBSET Jobs]
<1>0. stage' = stage /\ made \in [Jobs -> Nat] /\ events \in [Processes -> SUBSET Jobs] /\ MaxAttempts \in Nat
  BY RouteFacts DEF Throw, AlertTypes, StoreTypes
<1>1. CASE e \in Jobs /\ made[e] + 1 < MaxAttempts
  <2>1. Goto(e, "waiting") /\ events' = events /\ made' = [made EXCEPT ![e] = @ + 1]
    BY <1>1 DEF Throw
  <2>2. ExecTypes' /\ Gone(e, "waiting")
    BY <1>0, <2>1, GotoMoves DEF Steps, JobSteps, Running
  <2> QED
    BY <1>0, <1>1, <2>1, <2>2 DEF Thrown, Gone
<1>2. CASE e \in Jobs /\ ~(made[e] + 1 < MaxAttempts)
  <2>1. /\ Goto(e, "failed") /\ events' = [p \in Processes |-> events[p] \cup {e}]
        /\ made' = [made EXCEPT ![e] = @ + 1]
    BY <1>2 DEF Throw, FailJob
  <2>2. ExecTypes' /\ Gone(e, "failed")
    BY <1>0, <2>1, GotoMoves DEF Steps, JobSteps, Running
  <2>3. made[e] + 1 >= MaxAttempts
    BY <1>0, <1>2
  <2> QED
    BY <1>0, <1>2, <2>1, <2>2, <2>3 DEF Thrown, Gone
<1>3. CASE e \notin Jobs
  <2>1. Goto(e, "ended") /\ events' = events /\ made' = made
    BY <1>3 DEF Throw
  <2>2. ExecTypes' /\ Gone(e, "ended")
    BY <1>0, <1>3, <2>1, GotoMoves DEF Steps, Running
  <2> QED
    BY <1>0, <1>3, <2>1, <2>2 DEF Thrown, Gone
<1> QED
  BY <1>1, <1>2, <1>3

(***************************************************************************)
(* How a letter changes                                                    *)
(***************************************************************************)
LettersTyped == letters \in [DOMAIN letters -> Statuses]
OthersKept(l) == \A i \in DOMAIN letters : i # l => letters'[i] = letters[i]

LEMMA CreateMoves ==
  ASSUME LettersTyped, NEW l, Create(l)
  PROVE  LettersTyped' /\ DOMAIN letters' = DOMAIN letters \cup {l} /\ letters'[l] = "pending" /\ OthersKept(l)
  BY DEF LettersTyped, OthersKept, Create, Statuses

LEMMA SetMoves ==
  ASSUME LettersTyped, NEW l, NEW st \in Statuses, SetLetter(l, st)
  PROVE  /\ LettersTyped' /\ DOMAIN letters' = DOMAIN letters /\ OthersKept(l)
         /\ l \in DOMAIN letters => letters'[l] = st
  BY DEF LettersTyped, OthersKept, SetLetter

(***************************************************************************)
(* What the actions of a dispatch do                                       *)
(***************************************************************************)
restVars == << made, events, stalls, target, letters, manual, picked, marking, purging, requeued, creating, twins >>

LEMMA EnterEffect ==
  ASSUME AlertTypes, NEW e \in Executors, Enter(e)
  PROVE  /\ AlertTypes' /\ Channel(e) \in Channels /\ step[e] = "enter"
         /\ UNCHANGED << setup, record, sends, restVars >>
         /\ \/ /\ Advanced(e) /\ UNCHANGED << gate, overlap >>
               /\ \/ Channel(e) # "telegram" /\ record[Channel(e)] = "sent"
                  \/ Channel(e) \in Gated /\ gate[Channel(e)] # Nobody
            \/ /\ Gone(e, "send")
               /\ ~(Channel(e) # "telegram" /\ record[Channel(e)] = "sent")
               /\ ~(Channel(e) \in Gated /\ gate[Channel(e)] # Nobody)
               /\ gate' = (IF Channel(e) \in Gated THEN [gate EXCEPT ![Channel(e)] = e] ELSE gate)
               /\ overlap' = (IF \E x \in Executors \ {e} : Sending(x, Channel(e))
                                THEN overlap \cup {Channel(e)} ELSE overlap)
<1>0. /\ step[e] = "enter" /\ UNCHANGED << setup, record, sends, restVars >>
  BY DEF Enter, restVars, letterVars, queueVars, adminVars, handlerVars
<1>1. step[e] \in Running
  BY <1>0 DEF Running
<1>2. Channel(e) \in Channels /\ stage[e] \in 1..Len(route)
  BY <1>1, ChannelFact
<1>3. CASE Advance(e) /\ UNCHANGED << gate, overlap >> /\
           (\/ Channel(e) # "telegram" /\ record[Channel(e)] = "sent"
            \/ Channel(e) \in Gated /\ gate[Channel(e)] # Nobody)
  <2>1. ExecTypes' /\ Advanced(e)
    BY <1>0, <1>1, <1>3, AdvanceMoves
  <2>2. StoreTypes'
    BY <1>0, <1>3 DEF AlertTypes, StoreTypes, restVars
  <2> QED
    BY <1>0, <1>2, <1>3, <2>1, <2>2 DEF AlertTypes
<1>4. CASE /\ Goto(e, "send") /\ UNCHANGED stage
           /\ ~(Channel(e) # "telegram" /\ record[Channel(e)] = "sent")
           /\ ~(Channel(e) \in Gated /\ gate[Channel(e)] # Nobody)
           /\ gate' = (IF Channel(e) \in Gated THEN [gate EXCEPT ![Channel(e)] = e] ELSE gate)
           /\ overlap' = (IF \E x \in Executors \ {e} : Sending(x, Channel(e))
                            THEN overlap \cup {Channel(e)} ELSE overlap)
  <2>1. ExecTypes' /\ Gone(e, "send")
    BY <1>0, <1>2, <1>4, GotoMoves DEF Steps, JobSteps, Running
  <2>2. gate' \in [Channels -> Executors \cup {Nobody}]
    BY <1>2, <1>4 DEF AlertTypes, StoreTypes
  <2>3. StoreTypes'
    BY <1>0, <2>2 DEF AlertTypes, StoreTypes, restVars
  <2> QED
    BY <1>0, <1>2, <1>4, <2>1, <2>3 DEF AlertTypes
<1> QED
  BY <1>3, <1>4 DEF Enter

LEMMA SendEffect ==
  ASSUME AlertTypes, NEW e \in Executors, Send(e)
  PROVE  /\ AlertTypes' /\ Channel(e) \in Channels /\ step[e] = "send"
         /\ UNCHANGED << setup, overlap, restVars >>
         /\ \/ sends' = sends
            \/ /\ Channel(e) \in Checked /\ sends' = [sends EXCEPT ![Channel(e)] = @ + 1]
               /\ step'[e] = "log" \/ "lostReply" \in faults
         /\ \/ Channel(e) = "telegram" /\ Advanced(e) /\ UNCHANGED << gate, record >>
            \/ Channel(e) # "telegram" /\ Gone(e, "log") /\ UNCHANGED << gate, record >>
            \/ Channel(e) \in Throwing /\ Gone(e, "fail") /\ gate' = ReleaseGate(e, Channel(e)) /\ record' = record
            \/ /\ Channel(e) \in Checked /\ Advanced(e) /\ gate' = gate
               /\ record' = [record EXCEPT ![Channel(e)] = IF Channel(e) = "whatsapp" THEN @ ELSE "failed"]
<1>0. /\ step[e] = "send" /\ UNCHANGED << setup, overlap, restVars >>
  BY DEF Send, restVars, letterVars, queueVars, adminVars, handlerVars
<1>1. step[e] \in Running
  BY <1>0 DEF Running
<1>2. Channel(e) \in Channels /\ stage[e] \in 1..Len(route)
  BY <1>1, ChannelFact
<1> DEFINE c == Channel(e)
<1>a. Advance(e) => ExecTypes' /\ Advanced(e)
  BY <1>0, <1>1, AdvanceMoves
<1>b. ASSUME NEW l \in { "log", "fail" }, Goto(e, l), UNCHANGED stage PROVE ExecTypes' /\ Gone(e, l)
  BY <1>0, <1>2, <1>b, GotoMoves DEF Steps, JobSteps, Running
<1>c. Count(c) => sends' = sends \/ (c \in Checked /\ sends' = [sends EXCEPT ![c] = @ + 1])
  BY DEF Count
<1>s. (sends' = sends \/ (c \in Checked /\ sends' = [sends EXCEPT ![c] = @ + 1])) => sends' \in [Checked -> Nat]
  BY DEF AlertTypes, StoreTypes
<1>t. ASSUME sends' \in [Checked -> Nat], gate' = gate \/ gate' = ReleaseGate(e, c),
             record' = record \/ record' = [record EXCEPT ![c] = IF c = "whatsapp" THEN @ ELSE "failed"]
      PROVE  StoreTypes'
  <2>1. gate' \in [Channels -> Executors \cup {Nobody}]
    BY <1>2, <1>t DEF AlertTypes, StoreTypes, ReleaseGate
  <2>2. record' \in [Channels -> { "none", "sent", "failed" }]
    BY <1>2, <1>t DEF AlertTypes, StoreTypes
  <2> QED
    BY <1>0, <1>t, <2>1, <2>2 DEF AlertTypes, StoreTypes, restVars
<1>3. CASE /\ Count(c) /\ UNCHANGED << gate, record >>
           /\ IF c = "telegram" THEN Advance(e) ELSE Goto(e, "log") /\ UNCHANGED stage
  <2>1. CASE c = "telegram"
    <3>1. c \notin Checked
      BY <2>1 DEF Checked
    <3> QED
      BY <1>0, <1>2, <1>3, <1>a, <1>c, <1>s, <1>t, <2>1, <3>1 DEF AlertTypes
  <2>2. CASE c # "telegram"
    <3>1. ExecTypes' /\ Gone(e, "log")
      BY <1>3, <1>b, <2>2
    <3> QED
      BY <1>0, <1>2, <1>3, <1>c, <1>s, <1>t, <2>2, <3>1 DEF AlertTypes, Gone
  <2> QED
    BY <2>1, <2>2
<1>4. CASE /\ UNCHANGED sends \/ ("lostReply" \in faults /\ Count(c))
           /\ \/ c \in Throwing /\ Goto(e, "fail") /\ gate' = ReleaseGate(e, c) /\ UNCHANGED << stage, record >>
              \/ c = "webhook" /\ Goto(e, "log") /\ UNCHANGED << stage, gate, record >>
              \/ c = "telegram" /\ Advance(e) /\ UNCHANGED << gate, record >>
              \/ /\ c \in Checked /\ Advance(e) /\ UNCHANGED gate
                 /\ record' = [record EXCEPT ![c] = IF c = "whatsapp" THEN @ ELSE "failed"]
  <2>1. /\ sends' \in [Checked -> Nat]
        /\ sends' = sends \/ (c \in Checked /\ sends' = [sends EXCEPT ![c] = @ + 1] /\ "lostReply" \in faults)
    BY <1>4, <1>c, <1>s
  <2>2. CASE c \in Throwing /\ Goto(e, "fail") /\ gate' = ReleaseGate(e, c) /\ UNCHANGED << stage, record >>
    <3>1. ExecTypes' /\ Gone(e, "fail") /\ StoreTypes'
      BY <1>b, <1>t, <2>1, <2>2
    <3> QED
      BY <1>0, <1>2, <2>1, <2>2, <3>1 DEF AlertTypes
  <2>3. CASE c = "webhook" /\ Goto(e, "log") /\ UNCHANGED << stage, gate, record >>
    <3>1. ExecTypes' /\ Gone(e, "log") /\ StoreTypes'
      BY <1>b, <1>t, <2>1, <2>3
    <3> QED
      BY <1>0, <1>2, <2>1, <2>3, <3>1 DEF AlertTypes
  <2>4. CASE c = "telegram" /\ Advance(e) /\ UNCHANGED << gate, record >>
    <3>1. ExecTypes' /\ Advanced(e) /\ StoreTypes'
      BY <1>a, <1>t, <2>1, <2>4
    <3> QED
      BY <1>0, <1>2, <2>1, <2>4, <3>1 DEF AlertTypes
  <2>5. CASE /\ c \in Checked /\ Advance(e) /\ UNCHANGED gate
             /\ record' = [record EXCEPT ![c] = IF c = "whatsapp" THEN @ ELSE "failed"]
    <3>1. ExecTypes' /\ Advanced(e) /\ StoreTypes'
      BY <1>a, <1>t, <2>1, <2>5
    <3> QED
      BY <1>0, <1>2, <2>1, <2>5, <3>1 DEF AlertTypes
  <2> QED
    BY <1>4, <2>2, <2>3, <2>4, <2>5
<1> QED
  BY <1>3, <1>4 DEF Send

otherVars == << stalls, target, letters, manual, picked, marking, purging, requeued, creating, twins >>

\* The database keeps its types when a channel's gate is let go and its record written.
LEMMA StoreKeeps ==
  ASSUME AlertTypes, NEW e \in Executors, NEW c \in Channels, NEW r \in { "sent", "failed" },
         gate' = gate \/ gate' = ReleaseGate(e, c),
         record' = record \/ record' = [record EXCEPT ![c] = IF c = "whatsapp" THEN @ ELSE r]
                          \/ record' = [record EXCEPT ![c] = r]
  PROVE  /\ gate' \in [Channels -> Executors \cup {Nobody}]
         /\ record' \in [Channels -> { "none", "sent", "failed" }]
<1>1. gate' \in [Channels -> Executors \cup {Nobody}]
  BY DEF AlertTypes, StoreTypes, ReleaseGate
<1>2. record' \in [Channels -> { "none", "sent", "failed" }]
  BY DEF AlertTypes, StoreTypes
<1> QED
  BY <1>1, <1>2

LEMMA LogEffect ==
  ASSUME AlertTypes, NEW e \in Executors, Log(e)
  PROVE  /\ AlertTypes' /\ Channel(e) \in Channels /\ step[e] = "log"
         /\ UNCHANGED << setup, sends, overlap, restVars >>
         /\ Advanced(e) /\ record' = [record EXCEPT ![Channel(e)] = "sent"]
         /\ gate' = ReleaseGate(e, Channel(e))
<1>0. /\ step[e] = "log" /\ UNCHANGED << setup, sends, overlap, restVars >> /\ Advance(e)
      /\ record' = [record EXCEPT ![Channel(e)] = "sent"] /\ gate' = ReleaseGate(e, Channel(e))
  BY DEF Log, restVars, letterVars, queueVars, adminVars, handlerVars
<1>1. step[e] \in Running
  BY <1>0 DEF Running
<1>2. Channel(e) \in Channels
  BY <1>1, ChannelFact
<1>3. ExecTypes' /\ Advanced(e)
  BY <1>0, <1>1, AdvanceMoves
<1>4. /\ gate' \in [Channels -> Executors \cup {Nobody}]
      /\ record' \in [Channels -> { "none", "sent", "failed" }]
  BY <1>0, <1>2, StoreKeeps
<1>5. StoreTypes'
  BY <1>0, <1>4 DEF AlertTypes, StoreTypes, restVars
<1> QED
  BY <1>0, <1>2, <1>3, <1>5 DEF AlertTypes

LEMMA LogFailsEffect ==
  ASSUME AlertTypes, NEW e \in Executors, LogFails(e)
  PROVE  /\ AlertTypes' /\ Channel(e) \in Channels /\ step[e] = "log" /\ "db" \in faults
         /\ UNCHANGED << setup, sends, overlap, otherVars >> /\ gate' = ReleaseGate(e, Channel(e))
         /\ \/ Channel(e) \in Throwing /\ Gone(e, "fail") /\ UNCHANGED << record, made, events >>
            \/ Channel(e) = "webhook" /\ Advanced(e) /\ UNCHANGED << record, made, events >>
            \/ /\ Channel(e) \in Checked /\ Advanced(e) /\ UNCHANGED << made, events >>
               /\ record' = [record EXCEPT ![Channel(e)] = IF Channel(e) = "whatsapp" THEN @ ELSE "failed"]
            \/ Channel(e) \in Checked /\ Thrown(e) /\ record' = record
<1>0. /\ step[e] = "log" /\ UNCHANGED << setup, sends, overlap, otherVars >> /\ "db" \in faults
      /\ gate' = ReleaseGate(e, Channel(e))
  BY DEF LogFails, otherVars, letterVars, adminVars, handlerVars
<1>1. step[e] \in Running
  BY <1>0 DEF Running
<1>2. Channel(e) \in Channels /\ stage[e] \in 1..Len(route)
  BY <1>1, ChannelFact
<1> DEFINE c == Channel(e)
<1>t. ASSUME made' \in [Jobs -> Nat], events' \in [Processes -> SUBSET Jobs],
             record' = record \/ record' = [record EXCEPT ![c] = IF c = "whatsapp" THEN @ ELSE "failed"]
      PROVE  StoreTypes'
  <2>1. /\ gate' \in [Channels -> Executors \cup {Nobody}]
        /\ record' \in [Channels -> { "none", "sent", "failed" }]
    BY <1>0, <1>2, <1>t, StoreKeeps
  <2> QED
    BY <1>0, <1>t, <2>1 DEF AlertTypes, StoreTypes, otherVars
<1>q. UNCHANGED << made, events >> => made' \in [Jobs -> Nat] /\ events' \in [Processes -> SUBSET Jobs]
  BY DEF AlertTypes, StoreTypes
<1>3. CASE c \in Throwing /\ Goto(e, "fail") /\ UNCHANGED << stage, made, events, record >>
  <2>1. ExecTypes' /\ Gone(e, "fail")
    BY <1>0, <1>2, <1>3, GotoMoves DEF Steps, JobSteps, Running
  <2>2. StoreTypes'
    BY <1>3, <1>q, <1>t
  <2> QED
    BY <1>0, <1>2, <1>3, <2>1, <2>2 DEF AlertTypes
<1>4. CASE c = "webhook" /\ Advance(e) /\ UNCHANGED << made, events, record >>
  <2>1. ExecTypes' /\ Advanced(e)
    BY <1>0, <1>1, <1>4, AdvanceMoves
  <2>2. StoreTypes'
    BY <1>4, <1>q, <1>t
  <2> QED
    BY <1>0, <1>2, <1>4, <2>1, <2>2 DEF AlertTypes
<1>5. CASE /\ c \in Checked /\ Advance(e) /\ UNCHANGED << made, events >>
           /\ record' = [record EXCEPT ![c] = IF c = "whatsapp" THEN @ ELSE "failed"]
  <2>1. ExecTypes' /\ Advanced(e)
    BY <1>0, <1>1, <1>5, AdvanceMoves
  <2>2. StoreTypes'
    BY <1>5, <1>q, <1>t
  <2> QED
    BY <1>0, <1>2, <1>5, <2>1, <2>2 DEF AlertTypes
<1>6. CASE c \in Checked /\ Throw(e) /\ record' = record
  <2>1. ExecTypes' /\ Thrown(e) /\ made' \in [Jobs -> Nat] /\ events' \in [Processes -> SUBSET Jobs]
    BY <1>0, <1>1, <1>6, ThrowMoves
  <2>2. StoreTypes'
    BY <1>6, <1>t, <2>1
  <2> QED
    BY <1>0, <1>2, <1>6, <2>1, <2>2 DEF AlertTypes
<1> QED
  BY <1>3, <1>4, <1>5, <1>6 DEF LogFails, queueVars

LEMMA RecordEffect ==
  ASSUME AlertTypes, NEW e \in Executors, RecordDeadLetter(e)
  PROVE  /\ AlertTypes' /\ Channel(e) \in Channels /\ step[e] = "fail"
         /\ UNCHANGED << setup, stalls, target, gate, record, adminVars, handlerVars, sends, overlap >>
         /\ Create(ChannelLetter(e)) \/ ("db" \in faults /\ letters' = letters)
         /\ Thrown(e) \/ (Advanced(e) /\ UNCHANGED << made, events >>)
<1>0. /\ step[e] = "fail"
      /\ UNCHANGED << setup, stalls, target, gate, record, adminVars, handlerVars, sends, overlap >>
      /\ Create(ChannelLetter(e)) \/ ("db" \in faults /\ letters' = letters)
      /\ Throw(e) \/ (Advance(e) /\ UNCHANGED << made, events >>)
  BY DEF RecordDeadLetter, queueVars
<1>1. step[e] \in Running
  BY <1>0 DEF Running
<1>2. Channel(e) \in Channels
  BY <1>1, ChannelFact
<1>3. LettersTyped
  BY DEF AlertTypes, StoreTypes, LettersTyped
<1>4. LettersTyped'
  BY <1>0, <1>3, CreateMoves DEF LettersTyped
<1>5. /\ ExecTypes' /\ made' \in [Jobs -> Nat] /\ events' \in [Processes -> SUBSET Jobs]
      /\ Thrown(e) \/ (Advanced(e) /\ UNCHANGED << made, events >>)
  <2>1. CASE Throw(e)
    BY <1>0, <1>1, <2>1, ThrowMoves
  <2>2. CASE Advance(e) /\ UNCHANGED << made, events >>
    <3>1. made \in [Jobs -> Nat] /\ events \in [Processes -> SUBSET Jobs]
      BY DEF AlertTypes, StoreTypes
    <3>2. ExecTypes' /\ Advanced(e)
      BY <1>0, <1>1, <2>2, AdvanceMoves
    <3> QED
      BY <2>2, <3>1, <3>2
  <2> QED
    BY <1>0, <2>1, <2>2
<1>6. StoreTypes'
  BY <1>0, <1>4, <1>5 DEF AlertTypes, StoreTypes, LettersTyped, handlerVars
<1> QED
  BY <1>0, <1>2, <1>5, <1>6 DEF AlertTypes

LEMMA CrashEffect ==
  ASSUME AlertTypes, NEW e \in Executors, Crash(e)
  PROVE  /\ AlertTypes' /\ "crash" \in faults /\ step[e] \in Running /\ Unmoved(e) /\ stage'[e] = stage[e]
         /\ UNCHANGED << setup, made, target, gate, record, letterVars, sends, overlap >>
         /\ \/ e \in Jobs /\ stalls' = [stalls EXCEPT ![e] = @ + 1] /\ step'[e] = "waiting" /\ events' = events
            \/ /\ e \in Jobs /\ stalls' = [stalls EXCEPT ![e] = @ + 1] /\ step'[e] = "failed"
               /\ events' = [p \in Processes |-> events[p] \cup {e}]
            \/ e \notin Jobs /\ step'[e] = "ended" /\ UNCHANGED << stalls, events >>
<1>0. /\ "crash" \in faults /\ step[e] \in Running /\ stage' = stage
      /\ UNCHANGED << setup, made, target, gate, record, letterVars, sends, overlap >>
  BY DEF Crash
<1>t. ASSUME stalls' \in [Jobs -> Nat], events' \in [Processes -> SUBSET Jobs]
      PROVE  StoreTypes'
  BY <1>0, <1>t DEF AlertTypes, StoreTypes, letterVars, handlerVars
<1>y. stalls \in [Jobs -> Nat] /\ events \in [Processes -> SUBSET Jobs]
  BY DEF AlertTypes, StoreTypes
<1>1. CASE e \in Jobs /\ stalls[e] = 0
  <2>1. Goto(e, "waiting") /\ events' = events /\ stalls' = [stalls EXCEPT ![e] = @ + 1]
    BY <1>1 DEF Crash
  <2>2. ExecTypes' /\ Gone(e, "waiting")
    BY <1>0, <2>1, GotoMoves DEF Steps, JobSteps, Running
  <2>3. StoreTypes'
    BY <1>t, <1>y, <1>1, <2>1
  <2> QED
    BY <1>0, <1>1, <2>1, <2>2, <2>3 DEF AlertTypes, Gone
<1>2. CASE e \in Jobs /\ stalls[e] # 0
  <2>1. /\ Goto(e, "failed") /\ stalls' = [stalls EXCEPT ![e] = @ + 1]
        /\ events' = [p \in Processes |-> events[p] \cup {e}]
    BY <1>2 DEF Crash, FailJob
  <2>2. ExecTypes' /\ Gone(e, "failed")
    BY <1>0, <2>1, GotoMoves DEF Steps, JobSteps, Running
  <2>3. StoreTypes'
    BY <1>t, <1>y, <1>2, <2>1
  <2> QED
    BY <1>0, <1>2, <2>1, <2>2, <2>3 DEF AlertTypes, Gone
<1>3. CASE e \notin Jobs
  <2>1. Goto(e, "ended") /\ UNCHANGED << stalls, events >>
    BY <1>3 DEF Crash
  <2>2. ExecTypes' /\ Gone(e, "ended")
    BY <1>0, <1>3, <2>1, GotoMoves DEF Steps, Running
  <2>3. StoreTypes'
    BY <1>t, <1>y, <2>1
  <2> QED
    BY <1>0, <1>3, <2>1, <2>2, <2>3 DEF AlertTypes, Gone
<1> QED
  BY <1>1, <1>2, <1>3

\* A dispatch begins at the user's first channel, or has nothing to do.
Begun(e) ==
  /\ Unmoved(e)
  /\ \/ step'[e] = "enter" /\ stage'[e] = 1 /\ 1 <= Len(route)
     \/ step'[e] = (IF e \in Jobs THEN "completed" ELSE "verify") /\ Len(route) = 0

LEMMA BeginMoves ==
  ASSUME AlertTypes, setup' = setup, NEW e \in Executors,
         IF route = << >>
           THEN Goto(e, IF e \in Jobs THEN "completed" ELSE "verify") /\ UNCHANGED stage
           ELSE Goto(e, "enter") /\ stage' = [stage EXCEPT ![e] = 1]
  PROVE  ExecTypes' /\ Begun(e)
<1>0. Len(route) \in Nat /\ ExecTypes /\ route \in Seq(Channels)
  BY RouteFacts DEF AlertTypes
<1>1. CASE route = << >>
  <2> DEFINE l == IF e \in Jobs THEN "completed" ELSE "verify"
  <2>1. stage' = stage /\ Goto(e, l)
    BY <1>1
  <2>2. l \in Steps /\ (e \in Jobs => l \in JobSteps) /\ l \notin Running
    BY DEF Steps, JobSteps, Running
  <2>3. Len(route) = 0
    BY <1>1
  <2> HIDE DEF l
  <2>4. ExecTypes' /\ Gone(e, l)
    BY <2>1, <2>2, GotoMoves
  <2> QED
    BY <2>3, <2>4 DEF Begun, Gone, l
<1>2. CASE route # << >>
  <2>0. 1 <= Len(route)
    BY <1>0, <1>2
  <2>1. Goto(e, "enter") /\ stage' = [stage EXCEPT ![e] = 1]
    BY <1>2
  <2>2. /\ stage' \in [Executors -> Nat] /\ stage'[e] = 1
        /\ \A x \in Executors : x # e => stage'[x] = stage[x]
    BY <1>0, <2>1 DEF ExecTypes
  <2>3. /\ step' \in [Executors -> Steps] /\ step'[e] = "enter"
        /\ \A x \in Executors : x # e => step'[x] = step[x]
    BY <1>0, <2>1 DEF Goto, ExecTypes, Steps, Running
  <2>4. route' = route
    BY DEF route
  <2>5. \A j \in Jobs : step'[j] \in JobSteps
    BY <1>0, <2>3 DEF ExecTypes, JobSteps, Running, Executors
  <2>6. \A x \in Executors : step'[x] \in Running => stage'[x] \in 1..Len(route')
    BY <1>0, <2>0, <2>2, <2>3, <2>4 DEF ExecTypes
  <2> QED
    BY <2>0, <2>2, <2>3, <2>5, <2>6 DEF ExecTypes, Begun, Unmoved
<1> QED
  BY <1>1, <1>2

LEMMA StartEffect ==
  ASSUME AlertTypes, NEW j \in Jobs, Start(j)
  PROVE  AlertTypes' /\ step[j] = "waiting" /\ Begun(j) /\ UNCHANGED << setup, gate, record, sends, overlap, restVars >>
<1>0. step[j] = "waiting" /\ UNCHANGED << setup, gate, record, sends, overlap, restVars >>
  BY DEF Start, restVars, letterVars, queueVars, adminVars, handlerVars
<1>1. j \in Executors
  BY DEF Executors
<1>2. IF route = << >>
        THEN Goto(j, IF j \in Jobs THEN "completed" ELSE "verify") /\ UNCHANGED stage
        ELSE Goto(j, "enter") /\ stage' = [stage EXCEPT ![j] = 1]
  BY DEF Start
<1>3. ExecTypes' /\ Begun(j)
  BY <1>0, <1>1, <1>2, BeginMoves
<1>4. StoreTypes'
  BY <1>0 DEF AlertTypes, StoreTypes, restVars
<1> QED
  BY <1>0, <1>3, <1>4 DEF AlertTypes

(***************************************************************************)
(* What the other actions do                                               *)
(***************************************************************************)
LEMMA StillTypes ==
  ASSUME AlertTypes, UNCHANGED << setup, step, stage >>, StoreTypes'
  PROVE  AlertTypes'
<1>1. route' = route /\ ExecTypes
  BY DEF route, AlertTypes
<1>2. ExecTypes'
  BY <1>1 DEF ExecTypes
<1> QED
  BY <1>2 DEF AlertTypes

LEMMA ExpireEffect ==
  ASSUME AlertTypes, NEW c \in Channels, GateExpire(c)
  PROVE  /\ AlertTypes' /\ UNCHANGED << setup, step, stage, record, sends, overlap, restVars >>
         /\ gate[c] # Nobody /\ ~Sending(gate[c], c) /\ gate' = [gate EXCEPT ![c] = Nobody]
<1>1. /\ UNCHANGED << setup, step, stage, record, sends, overlap, restVars >>
      /\ gate[c] # Nobody /\ ~Sending(gate[c], c) /\ gate' = [gate EXCEPT ![c] = Nobody]
  BY DEF GateExpire, restVars, letterVars, adminVars, handlerVars
<1>2. StoreTypes'
  BY <1>1 DEF AlertTypes, StoreTypes, restVars
<1> QED
  BY <1>1, <1>2, StillTypes

LEMMA HandleEffect ==
  ASSUME AlertTypes, NEW p \in Processes, NEW j \in Jobs, HandleFailed(p, j)
  PROVE  /\ AlertTypes' /\ UNCHANGED << dispatchVars, letters, adminVars >> /\ j \in events[p] /\ j \notin creating[p]
         /\ \/ made[j] < MaxAttempts /\ Handled(p, j) /\ UNCHANGED handlerVars
            \/ Pending(j) /\ Handled(p, j) /\ UNCHANGED handlerVars
            \/ ~Pending(j) /\ StartCreating(p, j) /\ UNCHANGED events
<1>1. /\ UNCHANGED << dispatchVars, letters, adminVars >> /\ j \in events[p] /\ j \notin creating[p]
      /\ \/ made[j] < MaxAttempts /\ Handled(p, j) /\ UNCHANGED handlerVars
         \/ Pending(j) /\ Handled(p, j) /\ UNCHANGED handlerVars
         \/ ~Pending(j) /\ StartCreating(p, j) /\ UNCHANGED events
  BY DEF HandleFailed
<1>2. events' \in [Processes -> SUBSET Jobs] /\ creating' \in [Processes -> SUBSET Jobs]
  BY <1>1 DEF Handled, StartCreating, handlerVars, AlertTypes, StoreTypes
<1>3. StoreTypes' /\ UNCHANGED << setup, step, stage >>
  BY <1>1, <1>2 DEF AlertTypes, StoreTypes, dispatchVars
<1> QED
  BY <1>1, <1>3, StillTypes

LEMMA PersistEffect ==
  ASSUME AlertTypes, NEW p \in Processes, NEW j \in Jobs, PersistQueueLetter(p, j)
  PROVE  /\ AlertTypes' /\ UNCHANGED << dispatchVars, adminVars, twins >> /\ j \in creating[p]
         /\ creating' = [creating EXCEPT ![p] = @ \ {j}] /\ Handled(p, j)
         /\ Create(QueueLetter(p, j)) \/ ("db" \in faults /\ letters' = letters)
<1>1. /\ UNCHANGED << dispatchVars, adminVars, twins >> /\ j \in creating[p]
      /\ creating' = [creating EXCEPT ![p] = @ \ {j}] /\ Handled(p, j)
      /\ Create(QueueLetter(p, j)) \/ ("db" \in faults /\ letters' = letters)
  BY DEF PersistQueueLetter
<1>2. events' \in [Processes -> SUBSET Jobs] /\ creating' \in [Processes -> SUBSET Jobs]
  BY <1>1 DEF Handled, AlertTypes, StoreTypes
<1>3. LettersTyped
  BY DEF AlertTypes, StoreTypes, LettersTyped
<1>4. LettersTyped'
  BY <1>1, <1>3, CreateMoves DEF LettersTyped
<1>5. StoreTypes' /\ UNCHANGED << setup, step, stage >>
  BY <1>1, <1>2, <1>4 DEF AlertTypes, StoreTypes, dispatchVars, LettersTyped
<1> QED
  BY <1>1, <1>5, StillTypes

LEMMA ReplayEffect ==
  ASSUME AlertTypes, NEW o \in Operators, NEW i, Replay(o, i)
  PROVE  /\ AlertTypes' /\ step[o] = "unused" /\ Begun(o) /\ UNCHANGED << replayVars, letters >>
         /\ letters[i] \notin { "suppressed", "purged" } /\ target' = [target EXCEPT ![o] = i]
<1>0. /\ step[o] = "unused" /\ UNCHANGED << replayVars, letters >>
      /\ letters[i] \notin { "suppressed", "purged" } /\ target' = [target EXCEPT ![o] = i]
  BY DEF Replay, StartReplay
<1>1. o \in Executors /\ o \notin Jobs
  BY AlertsOK DEF Executors
<1>2. IF route = << >>
        THEN Goto(o, IF o \in Jobs THEN "completed" ELSE "verify") /\ UNCHANGED stage
        ELSE Goto(o, "enter") /\ stage' = [stage EXCEPT ![o] = 1]
  BY <1>1 DEF Replay, StartReplay
<1>3. setup' = setup
  BY <1>0 DEF replayVars
<1>4. ExecTypes' /\ Begun(o)
  BY <1>1, <1>2, <1>3, BeginMoves
<1>5. StoreTypes'
  BY <1>0 DEF AlertTypes, StoreTypes, replayVars, handlerVars
<1> QED
  BY <1>0, <1>4, <1>5 DEF AlertTypes

LEMMA VerifyEffect ==
  ASSUME AlertTypes, NEW o \in Operators, Verify(o)
  PROVE  /\ AlertTypes' /\ step[o] = "verify" /\ UNCHANGED << replayVars, manual, stage, target, letters >>
         /\ Gone(o, IF deliverySucceeded(target[o]) THEN "retried" ELSE "pending")
<1>0. /\ step[o] = "verify" /\ UNCHANGED << replayVars, manual, stage, target, letters >>
  BY DEF Verify
<1> DEFINE l == IF deliverySucceeded(target[o]) THEN "retried" ELSE "pending"
<1>1. o \in Executors /\ o \notin Jobs
  BY AlertsOK DEF Executors
<1>2. Goto(o, l) /\ stage' = stage /\ setup' = setup
  BY <1>0 DEF Verify, replayVars
<1>3. l \in Steps /\ l \notin Running
  BY DEF Steps, Running
<1> HIDE DEF l
<1>4. ExecTypes' /\ Gone(o, l)
  BY <1>1, <1>2, <1>3, GotoMoves
<1>5. StoreTypes'
  BY <1>0 DEF AlertTypes, StoreTypes, replayVars, handlerVars
<1> QED
  BY <1>0, <1>4, <1>5 DEF AlertTypes, l

LEMMA UpdateEffect ==
  ASSUME AlertTypes, NEW o \in Operators, Update(o)
  PROVE  /\ AlertTypes' /\ step[o] \in { "retried", "pending" } /\ UNCHANGED << replayVars, manual, stage, target >>
         /\ Gone(o, "ended")
         /\ \/ letters' = letters
            \/ letters[target[o]] # "purged" /\ SetLetter(target[o], step[o])
<1>0. /\ step[o] \in { "retried", "pending" } /\ UNCHANGED << replayVars, manual, stage, target >>
      /\ \/ letters' = letters
         \/ letters[target[o]] # "purged" /\ SetLetter(target[o], step[o])
  BY DEF Update
<1>1. o \in Executors /\ o \notin Jobs
  BY AlertsOK DEF Executors
<1>2. Goto(o, "ended") /\ stage' = stage /\ setup' = setup
  BY <1>0 DEF Update, replayVars
<1>3. ExecTypes' /\ Gone(o, "ended")
  BY <1>1, <1>2, GotoMoves DEF Steps, Running
<1>4. LettersTyped /\ step[o] \in Statuses
  BY <1>0 DEF AlertTypes, StoreTypes, LettersTyped, Statuses
<1>5. LettersTyped'
  BY <1>0, <1>4, SetMoves DEF LettersTyped
<1>6. StoreTypes'
  BY <1>0, <1>5 DEF AlertTypes, StoreTypes, replayVars, handlerVars, LettersTyped
<1> QED
  BY <1>0, <1>3, <1>6 DEF AlertTypes

LEMMA SuppressEffect ==
  ASSUME AlertTypes, NEW i, Suppress(i)
  PROVE  /\ AlertTypes' /\ UNCHANGED << dispatchVars, picked, marking, purging, requeued, handlerVars, events >>
         /\ SetLetter(i, "suppressed") /\ letters[i] \notin { "suppressed", "purged" }
<1>1. /\ UNCHANGED << dispatchVars, picked, marking, purging, requeued, handlerVars, events >>
      /\ SetLetter(i, "suppressed") /\ letters[i] \notin { "suppressed", "purged" }
  BY DEF Suppress
<1>2. LettersTyped /\ "suppressed" \in Statuses
  BY DEF AlertTypes, StoreTypes, LettersTyped, Statuses
<1>3. LettersTyped'
  BY <1>1, <1>2, SetMoves
<1>4. StoreTypes' /\ UNCHANGED << setup, step, stage >>
  BY <1>1, <1>3 DEF AlertTypes, StoreTypes, dispatchVars, handlerVars, LettersTyped
<1> QED
  BY <1>1, <1>4, StillTypes

Picked(i) == \E force \in BOOLEAN : << i, force >> \in picked

LEMMA AdminEffect ==
  ASSUME AlertTypes, NEW j \in Jobs, NEW i, AdminReplay(j, i)
  PROVE  /\ AlertTypes' /\ step[j] = "unused" /\ Gone(j, "waiting")
         /\ UNCHANGED << setup, stage, made, stalls, gate, record, letters, purging, handlerVars, events, sends, overlap >>
         /\ Picked(i) /\ picked' \subseteq picked /\ target' = [target EXCEPT ![j] = i]
         /\ requeued' = requeued \cup {i} /\ marking' = marking \cup {i}
<1>0. /\ step[j] = "unused" /\ Goto(j, "waiting")
      /\ UNCHANGED << setup, stage, made, stalls, gate, record, letters, purging, handlerVars, events, sends, overlap >>
      /\ Picked(i) /\ picked' \subseteq picked /\ target' = [target EXCEPT ![j] = i]
      /\ requeued' = requeued \cup {i} /\ marking' = marking \cup {i}
  BY DEF AdminReplay, Picked
<1>1. j \in Executors
  BY DEF Executors
<1>2. ExecTypes' /\ Gone(j, "waiting")
  BY <1>0, <1>1, GotoMoves DEF Steps, JobSteps, Running
<1>3. StoreTypes'
  BY <1>0 DEF AlertTypes, StoreTypes, handlerVars
<1> QED
  BY <1>0, <1>2, <1>3 DEF AlertTypes

LEMMA MarkEffect ==
  ASSUME AlertTypes, NEW i, AdminMark(i)
  PROVE  /\ AlertTypes' /\ UNCHANGED << dispatchVars, manual, picked, purging, requeued, handlerVars, events >>
         /\ i \in marking /\ marking' = marking \ {i}
         /\ (letters[i] # "purged" /\ SetLetter(i, "retried")) \/ letters' = letters
<1>1. /\ UNCHANGED << dispatchVars, manual, picked, purging, requeued, handlerVars, events >>
      /\ i \in marking /\ marking' = marking \ {i}
      /\ (letters[i] # "purged" /\ SetLetter(i, "retried")) \/ letters' = letters
  BY DEF AdminMark
<1>2. LettersTyped /\ "retried" \in Statuses
  BY DEF AlertTypes, StoreTypes, LettersTyped, Statuses
<1>3. LettersTyped'
  BY <1>1, <1>2, SetMoves DEF LettersTyped
<1>4. StoreTypes' /\ UNCHANGED << setup, step, stage >>
  BY <1>1, <1>3 DEF AlertTypes, StoreTypes, dispatchVars, handlerVars, LettersTyped
<1> QED
  BY <1>1, <1>4, StillTypes

\* What only reads letters or gives one up: the two findMany and a refused add.
Reading ==
  \/ \E st \in { "pending", "retried", "suppressed" } : PurgeSelect(st)
  \/ \E ids \in SUBSET DOMAIN letters, force \in BOOLEAN : AdminSelect(ids, force)
  \/ \E i \in DOMAIN letters : AdminRefused(i)

LEMMA ReadingEffect ==
  ASSUME AlertTypes, Reading
  PROVE  AlertTypes' /\ UNCHANGED << dispatchVars, letters, marking, requeued, handlerVars, events >>
<1>1. UNCHANGED << dispatchVars, letters, marking, requeued, handlerVars, events >>
  BY DEF Reading, PurgeSelect, AdminSelect, AdminRefused
<1>2. StoreTypes' /\ UNCHANGED << setup, step, stage >>
  BY <1>1 DEF AlertTypes, StoreTypes, dispatchVars, handlerVars
<1> QED
  BY <1>1, <1>2, StillTypes

LEMMA PurgeDeleteEffect ==
  ASSUME AlertTypes, PurgeDelete
  PROVE  /\ AlertTypes' /\ UNCHANGED << dispatchVars, manual, picked, marking, requeued, handlerVars, events >>
         /\ DOMAIN letters' = DOMAIN letters
         /\ \A i \in DOMAIN letters : letters'[i] = "purged" \/ letters'[i] = letters[i]
<1>1. UNCHANGED << dispatchVars, manual, picked, marking, requeued, handlerVars, events >>
  BY DEF PurgeDelete
<1>2. letters \in [DOMAIN letters -> Statuses]
  BY DEF AlertTypes, StoreTypes
<1>3. /\ DOMAIN letters' = DOMAIN letters
      /\ \A i \in DOMAIN letters : letters'[i] = "purged" \/ letters'[i] = letters[i]
      /\ letters' \in [DOMAIN letters' -> Statuses]
  BY <1>2 DEF PurgeDelete, Statuses
<1>4. StoreTypes' /\ UNCHANGED << setup, step, stage >>
  BY <1>1, <1>3 DEF AlertTypes, StoreTypes, dispatchVars, handlerVars
<1> QED
  BY <1>1, <1>3, <1>4, StillTypes

LEMMA StutterEffect ==
  ASSUME AlertTypes, UNCHANGED vars
  PROVE  AlertTypes'
<1>1. StoreTypes' /\ UNCHANGED << setup, step, stage >>
  BY DEF AlertTypes, StoreTypes, vars
<1> QED
  BY <1>1, StillTypes

LEMMA TypesInit ==
  ASSUME Init
  PROVE  AlertTypes
<1>1. step \in [Executors -> Steps] /\ stage \in [Executors -> Nat]
  BY DEF Init, Steps
<1>2. \A e \in Executors : step[e] \in { "waiting", "unused" }
  BY DEF Init
<1>3. \A j \in Jobs : j \in Executors
  BY DEF Executors
<1>4. ExecTypes
  BY <1>1, <1>2, <1>3 DEF ExecTypes, JobSteps, Running
<1>5. StoreTypes
  BY DEF Init, StoreTypes, Statuses
<1> QED
  BY <1>4, <1>5 DEF AlertTypes

LEMMA TypesStep ==
  ASSUME AlertTypes, [Next]_vars
  PROVE  AlertTypes'
<1> USE AlertTypes
<1>1. \A j \in Jobs : Start(j) => AlertTypes'
  BY StartEffect
<1>2. \A e \in Executors : Enter(e) => AlertTypes'
  BY EnterEffect
<1>3. \A e \in Executors : Send(e) => AlertTypes'
  BY SendEffect
<1>4. \A e \in Executors : Log(e) => AlertTypes'
  BY LogEffect
<1>5. \A e \in Executors : LogFails(e) => AlertTypes'
  BY LogFailsEffect
<1>6. \A e \in Executors : RecordDeadLetter(e) => AlertTypes'
  BY RecordEffect
<1>7. \A e \in Executors : Crash(e) => AlertTypes'
  BY CrashEffect
<1>8. \A c \in Channels : GateExpire(c) => AlertTypes'
  BY ExpireEffect
<1>9. \A p \in Processes : \A j \in Jobs : HandleFailed(p, j) => AlertTypes'
  BY HandleEffect
<1>10. \A p \in Processes : \A j \in Jobs : PersistQueueLetter(p, j) => AlertTypes'
  BY PersistEffect
<1>11. \A o \in Operators : (Verify(o) => AlertTypes') /\ (Update(o) => AlertTypes')
  BY VerifyEffect, UpdateEffect
<1>12. \A i \in DOMAIN letters : \A o \in Operators : Replay(o, i) => AlertTypes'
  BY ReplayEffect
<1>13. \A i \in DOMAIN letters : \A j \in Jobs : AdminReplay(j, i) => AlertTypes'
  BY AdminEffect
<1>14. \A i \in DOMAIN letters : (Suppress(i) => AlertTypes') /\ (AdminMark(i) => AlertTypes')
  BY SuppressEffect, MarkEffect
<1>15. Reading => AlertTypes'
  BY ReadingEffect
<1>16. PurgeDelete => AlertTypes'
  BY PurgeDeleteEffect
<1>17. Quiescent \/ UNCHANGED vars => AlertTypes'
  BY StutterEffect DEF Quiescent
<1> QED
  BY <1>1, <1>2, <1>3, <1>4, <1>5, <1>6, <1>7, <1>8, <1>9, <1>10, <1>11, <1>12, <1>13, <1>14, <1>15, <1>16, <1>17
     DEF Next, Reading, Dispatch, Handle, Finish

\* Types: every executor, row, gate and event stays what the code can store, and an
\* execution that is at work is at a channel of the user.
THEOREM AlertsTyped == Spec => []AlertTypes
<1>1. Init => AlertTypes
  BY TypesInit
<1>2. AlertTypes /\ [Next]_vars => AlertTypes'
  BY TypesStep
<1> QED
  BY <1>1, <1>2, PTL DEF Spec

(***************************************************************************)
(* What is sent                                                            *)
(***************************************************************************)
SendInv == GateInv /\ CrowdInv

\* An execution moves on without a send under way; nothing a sender looks at changes.
Quiet(e) ==
  /\ Unmoved(e) /\ step'[e] \notin { "send", "log" } /\ (step[e] = "log" => faults # {})
  /\ UNCHANGED << setup, gate, record, sends, overlap >>
Still == UNCHANGED << setup, step, stage, gate, record, sends, overlap >>

LEMMA OthersSame ==
  ASSUME NEW e, Unmoved(e), setup' = setup
  PROVE  /\ route' = route /\ faults' = faults
         /\ \A x \in Executors : x # e => step'[x] = step[x] /\ Channel(x)' = Channel(x)
  BY DEF Unmoved, Channel, route, faults

LEMMA QuietSends ==
  ASSUME SendInv, NEW e \in Executors, Quiet(e)
  PROVE  SendInv'
<1>1. /\ faults' = faults /\ \A x \in Executors : x # e => step'[x] = step[x] /\ Channel(x)' = Channel(x)
  BY OthersSame DEF Quiet
<1>2. gate' = gate /\ record' = record /\ sends' = sends /\ overlap' = overlap /\ step'[e] \notin { "send", "log" }
  BY DEF Quiet
<1>3. \A x \in Executors : \A c : Sending(x, c)' => Sending(x, c)
  BY <1>1, <1>2 DEF Sending
<1>4. GateInv'
  BY <1>2, <1>3 DEF SendInv, GateInv
<1>5. ASSUME faults = {}, NEW c \in Checked \ overlap PROVE OnceInv(c)'
  <2>1. OnceInv(c) /\ step[e] # "log"
    BY <1>5 DEF SendInv, CrowdInv, Quiet
  <2>2. \A x, y \in Executors : Sending(x, c)' /\ Sending(y, c)' => x = y
    BY <1>3, <2>1 DEF OnceInv
  <2>3. \A x \in Executors : Sending(x, c)' => record'[c] # "sent"
    BY <1>2, <1>3, <2>1 DEF OnceInv
  <2>4. ASSUME sends[c] # 0, record[c] # "sent"
        PROVE  \E x \in Executors : step'[x] = "log" /\ Channel(x)' = c
    <3>1. PICK x \in Executors : step[x] = "log" /\ Channel(x) = c
      BY <2>1, <2>4 DEF OnceInv
    <3> QED
      BY <1>1, <2>1, <3>1
  <2>5. sends'[c] <= 1
    BY <1>2, <2>1 DEF OnceInv
  <2> QED
    BY <1>2, <2>2, <2>3, <2>4, <2>5 DEF OnceInv
<1> QED
  BY <1>1, <1>2, <1>4, <1>5 DEF SendInv, CrowdInv

LEMMA StillSends ==
  ASSUME SendInv, Still
  PROVE  SendInv'
<1>1. /\ faults' = faults /\ \A x : Channel(x)' = Channel(x)
      /\ step' = step /\ gate' = gate /\ record' = record /\ sends' = sends /\ overlap' = overlap
  BY DEF Still, faults, Channel, route
<1>2. \A x, c : Sending(x, c)' <=> Sending(x, c)
  BY <1>1 DEF Sending
<1>3. GateInv'
  BY <1>1, <1>2 DEF SendInv, GateInv
<1>4. \A c \in Checked : OnceInv(c) => OnceInv(c)'
  BY <1>1, <1>2 DEF OnceInv
<1> QED
  BY <1>1, <1>3, <1>4 DEF SendInv, CrowdInv

LEMMA ChannelKinds == Gated \cap Checked = {} /\ Checked \subseteq Channels /\ Gated \subseteq Channels /\ Throwing \subseteq Gated
                      /\ "telegram" \notin Gated /\ "telegram" \notin Checked
  BY DEF Gated, Checked, Channels, Throwing

LEMMA EnterSends ==
  ASSUME AlertTypes, SendInv, NEW e \in Executors, Enter(e)
  PROVE  SendInv'
<1> DEFINE d == Channel(e)
<1>0. /\ d \in Channels /\ step[e] = "enter" /\ UNCHANGED << setup, record, sends >>
      /\ \/ Advanced(e) /\ UNCHANGED << gate, overlap >>
         \/ /\ Gone(e, "send") /\ ~(d # "telegram" /\ record[d] = "sent")
            /\ ~(d \in Gated /\ gate[d] # Nobody)
            /\ gate' = (IF d \in Gated THEN [gate EXCEPT ![d] = e] ELSE gate)
            /\ overlap' = (IF \E x \in Executors \ {e} : Sending(x, d) THEN overlap \cup {d} ELSE overlap)
  BY EnterEffect
<1>1. CASE Advanced(e) /\ UNCHANGED << gate, overlap >>
  <2>1. Quiet(e)
    BY <1>0, <1>1 DEF Quiet, Advanced
  <2> QED
    BY <2>1, QuietSends
<1>2. CASE /\ Gone(e, "send") /\ ~(d # "telegram" /\ record[d] = "sent")
           /\ ~(d \in Gated /\ gate[d] # Nobody)
           /\ gate' = (IF d \in Gated THEN [gate EXCEPT ![d] = e] ELSE gate)
           /\ overlap' = (IF \E x \in Executors \ {e} : Sending(x, d) THEN overlap \cup {d} ELSE overlap)
  <2>1. /\ faults' = faults /\ route' = route /\ \A x \in Executors : x # e => step'[x] = step[x] /\ Channel(x)' = Channel(x)
    BY <1>0, <1>2, OthersSame DEF Gone
  <2>2. step'[e] = "send" /\ Channel(e)' = d
    BY <1>2, <2>1 DEF Gone, Channel
  <2>3. \A x \in Executors : \A c : Sending(x, c)' <=> IF x = e THEN c = d ELSE Sending(x, c)
    BY <2>1, <2>2 DEF Sending
  <2>4. \A c : ~Sending(e, c)
    BY <1>0 DEF Sending
  <2>g. gate \in [Channels -> Executors \cup {Nobody}]
    BY DEF AlertTypes, StoreTypes
  <2> HIDE DEF d
  <2>5. GateInv'
    <3> SUFFICES ASSUME NEW c \in Gated, NEW x \in Executors, Sending(x, c)' PROVE gate'[c] = x /\ record'[c] # "sent"
      BY DEF GateInv
    <3>1. CASE x = e
      <4>1. c = d /\ d \in Gated
        BY <2>3, <3>1
      <4>2. gate'[d] = e
        BY <1>0, <1>2, <2>g, <4>1
      <4> QED
        BY <1>0, <1>2, <3>1, <4>1, <4>2, ChannelKinds
    <3>2. CASE x # e
      <4>1. Sending(x, c)
        BY <2>3, <3>2
      <4>2. gate[c] = x /\ record[c] # "sent" /\ x # Nobody
        BY <4>1, AlertsOK DEF SendInv, GateInv
      <4>3. c # d
        BY <1>2, <4>2
      <4>4. gate'[c] = gate[c]
        BY <1>0, <1>2, <2>g, <4>3
      <4> QED
        BY <1>0, <4>2, <4>4
    <3> QED
      BY <3>1, <3>2
  <2>6. ASSUME faults = {}, NEW c \in Checked \ overlap' PROVE OnceInv(c)'
    <3>0. c \notin overlap /\ c # "telegram"
      BY <1>2, <2>6, ChannelKinds
    <3>1. OnceInv(c)
      BY <2>6, <3>0 DEF SendInv, CrowdInv
    <3>2. c = d => \A x \in Executors \ {e} : ~Sending(x, c)
      BY <1>2, <2>6
    <3>3. \A x, y \in Executors : Sending(x, c)' /\ Sending(y, c)' => x = y
      BY <2>3, <3>1, <3>2 DEF OnceInv
    <3>4. c = d => record[c] # "sent"
      BY <1>2, <3>0
    <3>5. \A x \in Executors : Sending(x, c)' => record'[c] # "sent"
      BY <1>0, <2>3, <3>1, <3>4 DEF OnceInv
    <3>6. ASSUME sends[c] # 0, record[c] # "sent"
          PROVE  \E x \in Executors : step'[x] = "log" /\ Channel(x)' = c
      <4>1. PICK x \in Executors : step[x] = "log" /\ Channel(x) = c
        BY <3>1, <3>6 DEF OnceInv
      <4> QED
        BY <1>0, <2>1, <4>1
    <3>7. sends'[c] <= 1
      BY <1>0, <3>1 DEF OnceInv
    <3> QED
      BY <1>0, <3>3, <3>5, <3>6, <3>7 DEF OnceInv
  <2> QED
    BY <2>1, <2>5, <2>6 DEF SendInv, CrowdInv
<1> QED
  BY <1>0, <1>1, <1>2

\* Letting go of a channel's gate, and not sending to it any more, disturbs nobody.
LEMMA GateLetGo ==
  ASSUME AlertTypes, GateInv, NEW e \in Executors, NEW d \in Channels, setup' = setup, Unmoved(e),
         gate' = gate \/ gate' = ReleaseGate(e, d),
         \A c \in Gated : Sending(e, c)' => Sending(e, c) /\ gate' = gate,
         \A c \in Gated : Sending(e, c)' \/ c # d => record'[c] = record[c],
         \A x \in Executors \ {e} : d \in Gated => ~Sending(x, d) \/ record' = record
  PROVE  GateInv'
<1> SUFFICES ASSUME NEW c \in Gated, NEW x \in Executors, Sending(x, c)' PROVE gate'[c] = x /\ record'[c] # "sent"
  BY DEF GateInv
<1>g. gate \in [Channels -> Executors \cup {Nobody}] /\ c \in Channels
  BY ChannelKinds DEF AlertTypes, StoreTypes
<1>1. CASE x = e
  BY <1>1 DEF GateInv
<1>2. CASE x # e
  <2>1. Sending(x, c)
    BY <1>2, OthersSame DEF Sending
  <2>2. gate[c] = x /\ record[c] # "sent"
    BY <2>1 DEF GateInv
  <2>3. gate'[c] = x
    BY <1>g, <1>2, <2>2 DEF ReleaseGate
  <2>4. record'[c] = record[c]
    BY <1>2, <2>1
  <2> QED
    BY <2>2, <2>3, <2>4
<1> QED
  BY <1>1, <1>2

LEMMA SendSends ==
  ASSUME AlertTypes, SendInv, NEW e \in Executors, Send(e)
  PROVE  SendInv'
<1> DEFINE d == Channel(e)
<1>0. /\ d \in Channels /\ step[e] = "send" /\ UNCHANGED << setup, overlap >>
      /\ \/ sends' = sends
         \/ /\ d \in Checked /\ sends' = [sends EXCEPT ![d] = @ + 1]
            /\ step'[e] = "log" \/ "lostReply" \in faults
      /\ \/ d = "telegram" /\ Advanced(e) /\ UNCHANGED << gate, record >>
         \/ d # "telegram" /\ Gone(e, "log") /\ UNCHANGED << gate, record >>
         \/ d \in Throwing /\ Gone(e, "fail") /\ gate' = ReleaseGate(e, d) /\ record' = record
         \/ /\ d \in Checked /\ Advanced(e) /\ gate' = gate
            /\ record' = [record EXCEPT ![d] = IF d = "whatsapp" THEN @ ELSE "failed"]
  BY SendEffect
<1>1. Unmoved(e) /\ (gate' = gate \/ gate' = ReleaseGate(e, d))
  BY <1>0 DEF Advanced, Gone
<1>2. /\ faults' = faults /\ route' = route /\ \A x \in Executors : x # e => step'[x] = step[x] /\ Channel(x)' = Channel(x)
  BY <1>0, <1>1, OthersSame
<1>3. /\ step'[e] = "log" => Channel(e)' = d /\ UNCHANGED << gate, record >>
      /\ step'[e] # "send"
  BY <1>0, <1>2 DEF Advanced, Gone, Channel
<1>4. \A c : Sending(e, c)' => c = d /\ Sending(e, c) /\ gate' = gate /\ record' = record
  BY <1>0, <1>3 DEF Sending
<1>5. \A x \in Executors : \A c : Sending(x, c)' => Sending(x, c)
  BY <1>2, <1>4 DEF Sending
<1>6. \A c \in Channels : c # d => record'[c] = record[c]
  BY <1>0 DEF AlertTypes, StoreTypes
<1>7. Sending(e, d)
  BY <1>0 DEF Sending
<1> HIDE DEF d
<1>8. GateInv'
  <2>1. d \in Gated => record' = record
    BY <1>0, ChannelKinds
  <2>2. \A c \in Gated : Sending(e, c)' => Sending(e, c) /\ gate' = gate
    BY <1>4
  <2>3. \A c \in Gated : Sending(e, c)' \/ c # d => record'[c] = record[c]
    BY <1>4, <1>6, ChannelKinds
  <2>4. \A x \in Executors \ {e} : d \in Gated => ~Sending(x, d) \/ record' = record
    BY <2>1
  <2> QED
    BY <1>0, <1>1, <2>2, <2>3, <2>4, GateLetGo DEF SendInv
<1>9. ASSUME faults = {}, NEW c \in Checked \ overlap PROVE OnceInv(c)'
  <2>1. OnceInv(c) /\ c \in Channels
    BY <1>9, ChannelKinds DEF SendInv, CrowdInv
  <2>2. \A x, y \in Executors : Sending(x, c)' /\ Sending(y, c)' => x = y
    BY <1>5, <2>1 DEF OnceInv
  <2>s. sends \in [Checked -> Nat]
    BY DEF AlertTypes, StoreTypes
  <2>3. CASE c = d
    <3>1. \A x \in Executors : step[x] = "log" => Channel(x) # c
      BY <1>0, <1>7, <2>1, <2>3 DEF OnceInv, Sending
    <3>2. record[c] # "sent"
      BY <1>7, <2>1, <2>3 DEF OnceInv
    <3>3. sends[c] = 0
      BY <2>1, <3>1, <3>2 DEF OnceInv
    <3>4. record'[c] # "sent"
      BY <1>0, <2>1, <2>3, <3>2 DEF AlertTypes, StoreTypes
    <3>5. sends' = sends \/ (sends' = [sends EXCEPT ![c] = @ + 1] /\ step'[e] = "log")
      BY <1>0, <1>9, <2>3
    <3>6. sends'[c] <= 1
      BY <1>9, <2>s, <3>3, <3>5
    <3>7. sends'[c] # 0 => step'[e] = "log" /\ Channel(e)' = c
      BY <1>3, <2>3, <3>3, <3>5
    <3> QED
      BY <2>2, <3>4, <3>6, <3>7 DEF OnceInv
  <2>4. CASE c # d
    <3>1. sends'[c] = sends[c] /\ record'[c] = record[c]
      BY <1>0, <1>6, <1>9, <2>1, <2>4, <2>s
    <3>2. ASSUME sends[c] # 0, record[c] # "sent"
          PROVE  \E x \in Executors : step'[x] = "log" /\ Channel(x)' = c
      <4>1. PICK x \in Executors : step[x] = "log" /\ Channel(x) = c
        BY <2>1, <3>2 DEF OnceInv
      <4> QED
        BY <1>0, <1>2, <4>1
    <3>3. \A x \in Executors : Sending(x, c)' => record'[c] # "sent"
      BY <1>5, <2>1, <3>1 DEF OnceInv
    <3>4. sends'[c] <= 1
      BY <2>1, <3>1 DEF OnceInv
    <3> QED
      BY <2>2, <3>1, <3>2, <3>3, <3>4 DEF OnceInv
  <2> QED
    BY <2>3, <2>4
<1> QED
  BY <1>0, <1>2, <1>8, <1>9 DEF SendInv, CrowdInv

LEMMA LogSends ==
  ASSUME AlertTypes, SendInv, NEW e \in Executors, Log(e)
  PROVE  SendInv'
<1> DEFINE d == Channel(e)
<1>0. /\ d \in Channels /\ step[e] = "log" /\ UNCHANGED << setup, sends, overlap >> /\ Advanced(e)
      /\ record' = [record EXCEPT ![d] = "sent"] /\ gate' = ReleaseGate(e, d)
  BY LogEffect
<1>1. Unmoved(e) /\ step'[e] \notin { "send", "log" }
  BY <1>0 DEF Advanced
<1>2. /\ faults' = faults /\ \A x \in Executors : x # e => step'[x] = step[x] /\ Channel(x)' = Channel(x)
  BY <1>0, <1>1, OthersSame
<1>3. \A x \in Executors : \A c : Sending(x, c)' => x # e /\ Sending(x, c)
  BY <1>1, <1>2 DEF Sending
<1>4. Sending(e, d)
  BY <1>0 DEF Sending
<1>5. /\ \A c \in Channels : c # d => record'[c] = record[c]
      /\ record'[d] = "sent"
  BY <1>0 DEF AlertTypes, StoreTypes
<1>6. Channel(e) = d
  OBVIOUS
<1> HIDE DEF d
<1>8. GateInv'
  <2>1. \A x \in Executors \ {e} : d \in Gated => ~Sending(x, d)
    BY <1>4 DEF SendInv, GateInv
  <2>2. \A c \in Gated : ~Sending(e, c)'
    BY <1>3
  <2>3. \A c \in Gated : c # d => record'[c] = record[c]
    BY <1>5, ChannelKinds
  <2> QED
    BY <1>0, <1>1, <2>1, <2>2, <2>3, GateLetGo DEF SendInv
<1>9. ASSUME faults = {}, NEW c \in Checked \ overlap PROVE OnceInv(c)'
  <2>1. OnceInv(c) /\ c \in Channels
    BY <1>9, ChannelKinds DEF SendInv, CrowdInv
  <2>2. \A x, y \in Executors : Sending(x, c)' /\ Sending(y, c)' => x = y
    BY <1>3, <2>1 DEF OnceInv
  <2>3. \A x \in Executors : Sending(x, c)' => record'[c] # "sent"
    BY <1>3, <1>4, <1>5, <2>1 DEF OnceInv
  <2>4. ASSUME sends[c] # 0, record'[c] # "sent"
        PROVE  \E x \in Executors : step'[x] = "log" /\ Channel(x)' = c
    <3>0. c # d /\ record[c] # "sent"
      BY <1>5, <2>1, <2>4
    <3>1. PICK x \in Executors : step[x] = "log" /\ Channel(x) = c
      BY <2>1, <2>4, <3>0 DEF OnceInv
    <3> QED
      BY <1>2, <1>6, <3>0, <3>1
  <2>5. sends'[c] <= 1
    BY <1>0, <2>1 DEF OnceInv
  <2> QED
    BY <1>0, <2>2, <2>3, <2>4, <2>5 DEF OnceInv
<1> QED
  BY <1>0, <1>2, <1>8, <1>9 DEF SendInv, CrowdInv

LEMMA LogFailsSends ==
  ASSUME AlertTypes, SendInv, NEW e \in Executors, LogFails(e)
  PROVE  SendInv'
<1> DEFINE d == Channel(e)
<1>0. /\ d \in Channels /\ "db" \in faults /\ setup' = setup /\ gate' = ReleaseGate(e, d)
      /\ \/ Gone(e, "fail") /\ record' = record
         \/ Advanced(e) /\ record' = record
         \/ /\ d \in Checked /\ Advanced(e)
            /\ record' = [record EXCEPT ![d] = IF d = "whatsapp" THEN @ ELSE "failed"]
         \/ Thrown(e) /\ record' = record
  BY LogFailsEffect
<1>1. Unmoved(e) /\ step'[e] \notin { "send", "log" }
  BY <1>0 DEF Advanced, Gone, Thrown
<1>2. \A c : ~Sending(e, c)'
  BY <1>1 DEF Sending
<1>3. \A c \in Channels : c # d => record'[c] = record[c]
  BY <1>0 DEF AlertTypes, StoreTypes
<1>4. d \in Gated => record' = record
  BY <1>0, ChannelKinds
<1> HIDE DEF d
<1>5. \A c \in Gated : c # d => record'[c] = record[c]
  BY <1>3, ChannelKinds
<1>6. GateInv'
  BY <1>0, <1>1, <1>2, <1>4, <1>5, GateLetGo DEF SendInv
<1>7. faults' # {}
  BY <1>0 DEF faults
<1> QED
  BY <1>6, <1>7 DEF SendInv, CrowdInv

LEMMA ExpireSends ==
  ASSUME AlertTypes, SendInv, NEW d \in Channels, GateExpire(d)
  PROVE  SendInv'
<1>0. /\ UNCHANGED << setup, step, stage, record, sends, overlap >>
      /\ ~Sending(gate[d], d) /\ gate' = [gate EXCEPT ![d] = Nobody]
  BY ExpireEffect
<1>1. /\ faults' = faults /\ \A x : Channel(x)' = Channel(x)
  BY <1>0 DEF faults, Channel, route
<1>2. \A x, c : Sending(x, c)' <=> Sending(x, c)
  BY <1>0, <1>1 DEF Sending
<1>3. \A c \in Channels : c # d => gate'[c] = gate[c]
  BY <1>0 DEF AlertTypes, StoreTypes
<1>4. ASSUME NEW c \in Gated, NEW x \in Executors, Sending(x, c)' PROVE gate'[c] = x /\ record'[c] # "sent"
  <2>1. Sending(x, c) /\ gate[c] = x /\ record[c] # "sent"
    BY <1>2, <1>4 DEF SendInv, GateInv
  <2>2. c # d
    BY <1>0, <2>1
  <2> QED
    BY <1>0, <1>3, <2>1, <2>2, ChannelKinds
<1>5. \A c \in Checked : OnceInv(c) => OnceInv(c)'
  BY <1>0, <1>1, <1>2 DEF OnceInv
<1> QED
  BY <1>0, <1>1, <1>4, <1>5 DEF SendInv, GateInv, CrowdInv

LEMMA SendStep ==
  ASSUME AlertTypes, SendInv, [Next]_vars
  PROVE  SendInv'
<1>1. ASSUME NEW j \in Jobs, Start(j) PROVE SendInv'
  <2>1. j \in Executors /\ Quiet(j)
    BY <1>1, StartEffect DEF Quiet, Begun, Executors
  <2> QED
    BY <2>1, QuietSends
<1>2. ASSUME NEW e \in Executors, RecordDeadLetter(e) PROVE SendInv'
  <2>1. Quiet(e)
    BY <1>2, RecordEffect DEF Quiet, Advanced, Thrown
  <2> QED
    BY <2>1, QuietSends
<1>3. ASSUME NEW e \in Executors, Crash(e) PROVE SendInv'
  <2>1. Quiet(e)
    BY <1>3, CrashEffect DEF Quiet
  <2> QED
    BY <2>1, QuietSends
<1>4. ASSUME NEW o \in Operators, NEW i, Replay(o, i) PROVE SendInv'
  <2>1. o \in Executors /\ Quiet(o)
    BY <1>4, ReplayEffect DEF Quiet, Begun, Executors, replayVars
  <2> QED
    BY <2>1, QuietSends
<1>5. ASSUME NEW o \in Operators, Verify(o) PROVE SendInv'
  <2>1. o \in Executors /\ Quiet(o)
    BY <1>5, VerifyEffect DEF Quiet, Gone, Executors, replayVars
  <2> QED
    BY <2>1, QuietSends
<1>6. ASSUME NEW o \in Operators, Update(o) PROVE SendInv'
  <2>1. o \in Executors /\ Quiet(o)
    BY <1>6, UpdateEffect DEF Quiet, Gone, Executors, replayVars
  <2> QED
    BY <2>1, QuietSends
<1>7. ASSUME NEW j \in Jobs, NEW i, AdminReplay(j, i) PROVE SendInv'
  <2>1. j \in Executors /\ Quiet(j)
    BY <1>7, AdminEffect DEF Quiet, Gone, Executors
  <2> QED
    BY <2>1, QuietSends
<1>8. ASSUME NEW p \in Processes, NEW j \in Jobs, HandleFailed(p, j) \/ PersistQueueLetter(p, j) PROVE SendInv'
  <2>1. Still
    BY <1>8, HandleEffect, PersistEffect DEF Still, dispatchVars
  <2> QED
    BY <2>1, StillSends
<1>9. ASSUME NEW i, Suppress(i) \/ AdminMark(i) PROVE SendInv'
  <2>1. Still
    BY <1>9, SuppressEffect, MarkEffect DEF Still, dispatchVars
  <2> QED
    BY <2>1, StillSends
<1>10. ASSUME Reading PROVE SendInv'
  <2>1. Still
    BY <1>10, ReadingEffect DEF Still, dispatchVars
  <2> QED
    BY <2>1, StillSends
<1>11. ASSUME PurgeDelete \/ UNCHANGED vars PROVE SendInv'
  <2>1. Still
    BY <1>11, PurgeDeleteEffect DEF Still, dispatchVars, vars
  <2> QED
    BY <2>1, StillSends
<1>12. ASSUME NEW e \in Executors, Enter(e) \/ Send(e) \/ Log(e) \/ LogFails(e) PROVE SendInv'
  BY <1>12, EnterSends, SendSends, LogSends, LogFailsSends
<1>13. ASSUME NEW c \in Channels, GateExpire(c) PROVE SendInv'
  BY <1>13, ExpireSends
<1> QED
  BY <1>1, <1>2, <1>3, <1>4, <1>5, <1>6, <1>7, <1>8, <1>9, <1>10, <1>11, <1>12, <1>13
     DEF Next, Reading, Dispatch, Handle, Finish, Quiescent

LEMMA SendInit ==
  ASSUME Init
  PROVE  SendInv
<1>1. \A e \in Executors : step[e] \in { "waiting", "unused" }
  BY DEF Init
<1>2. \A e \in Executors : \A c : ~Sending(e, c)
  BY <1>1 DEF Sending
<1>3. \A c \in Checked : sends[c] = 0
  BY DEF Init
<1>4. \A c \in Checked : OnceInv(c)
  BY <1>2, <1>3 DEF OnceInv
<1> QED
  BY <1>2, <1>4 DEF SendInv, GateInv, CrowdInv

\* processAlertDispatch under retries, crashes and replays: a gated channel whose success
\* is recorded is not turned to again, and a channel that only looks at its log sends
\* twice only when two executions were between the look and the write.
THEOREM AlertsSendOnce == Spec => []SendsOnce
<1>1. Init => AlertTypes /\ SendInv
  BY TypesInit, SendInit
<1>2. AlertTypes /\ SendInv /\ [Next]_vars => (AlertTypes /\ SendInv)'
  BY TypesStep, SendStep
<1>3. SendInv => SendsOnce
  <2>1. SendInv => DuplicateNeedsOverlap
    BY DEF SendInv, CrowdInv, OnceInv, DuplicateNeedsOverlap
  <2>2. SendInv => ReplayNeverResends
    BY DEF SendInv, GateInv, ReplayNeverResends
  <2> QED
    BY <2>1, <2>2 DEF SendsOnce
<1> QED
  BY <1>1, <1>2, <1>3, PTL DEF Spec

(***************************************************************************)
(* What the letters say                                                    *)
(***************************************************************************)
LetterInv == ReplayInv /\ QuarantineInv

RecordKept == \A c \in Gated : record[c] = "sent" => record'[c] = "sent"
MarksKept == requeued \subseteq requeued' /\ marking' \subseteq marking \cup requeued'
TargetsKept ==
  \A e \in Executors : /\ target'[e] # target[e] => step[e] = "unused"
                       /\ step'[e] = "unused" => step[e] = "unused" /\ target'[e] = target[e]
TellsKept ==
  \A o \in Operators : step'[o] = "retried" =>
    target'[o] = target[o] /\ (step[o] = "retried" \/ deliverySucceeded(target[o]))
RetriedKept ==
  \A i \in DOMAIN letters' : letters'[i] = "retried" =>
    \/ i \in DOMAIN letters /\ letters[i] = "retried"
    \/ i \in marking
    \/ \E o \in Operators : step[o] = "retried" /\ target[o] = i
PendingKept ==
  \A i \in DOMAIN letters' : i.channel = "queue" /\ letters'[i] = "pending" =>
    i \in DOMAIN letters /\ (letters[i] = "pending" \/ \E e \in Executors : target'[e] = i)
CreatingKept == twins \subseteq twins' /\ \A p \in Processes : creating'[p] \subseteq creating[p]
TruthKept == MarksKept /\ TargetsKept /\ TellsKept /\ RetriedKept

LEMMA RecordStep ==
  ASSUME AlertTypes, [Next]_vars
  PROVE  RecordKept
<1>1. record' = record => RecordKept
  BY DEF RecordKept
<1>t. record \in [Channels -> { "none", "sent", "failed" }]
  BY DEF AlertTypes, StoreTypes
<1>k. ASSUME NEW d \in Checked, record' = [record EXCEPT ![d] = IF d = "whatsapp" THEN @ ELSE "failed"]
      PROVE  RecordKept
  <2>1. \A c \in Gated : c # d /\ c \in Channels
    BY ChannelKinds
  <2> QED
    BY <1>t, <1>k, <2>1 DEF RecordKept
<1>2. ASSUME NEW e \in Executors, Send(e) \/ LogFails(e) PROVE RecordKept
  <2>1. /\ \/ record' = record
           \/ /\ Channel(e) \in Checked
              /\ record' = [record EXCEPT ![Channel(e)] = IF Channel(e) = "whatsapp" THEN @ ELSE "failed"]
    BY <1>2, SendEffect, LogFailsEffect
  <2> QED
    BY <1>1, <1>k, <2>1
<1>3. ASSUME NEW e \in Executors, Log(e) PROVE RecordKept
  <2>1. record' = [record EXCEPT ![Channel(e)] = "sent"]
    BY <1>3, LogEffect
  <2>2. \A c \in Gated : c \in Channels
    BY ChannelKinds
  <2> QED
    BY <1>t, <2>1, <2>2 DEF RecordKept
<1>4. \A j \in Jobs : Start(j) => record' = record
  BY DEF Start
<1>5. \A e \in Executors : Enter(e) \/ RecordDeadLetter(e) \/ Crash(e) => record' = record
  BY DEF Enter, RecordDeadLetter, Crash
<1>6. \A c \in Channels : GateExpire(c) => record' = record
  BY DEF GateExpire
<1>7. \A p \in Processes, j \in Jobs : HandleFailed(p, j) \/ PersistQueueLetter(p, j) => record' = record
  BY DEF HandleFailed, PersistQueueLetter, dispatchVars
<1>8. \A o \in Operators : Verify(o) \/ Update(o) => record' = record
  BY DEF Verify, Update, replayVars
<1>9. \A i \in DOMAIN letters : /\ \A o \in Operators : Replay(o, i) => record' = record
                                /\ \A j \in Jobs : AdminReplay(j, i) => record' = record
                                /\ Suppress(i) \/ AdminMark(i) => record' = record
  BY DEF Replay, AdminReplay, Suppress, AdminMark, replayVars, dispatchVars
<1>10. /\ Reading => record' = record
       /\ PurgeDelete \/ UNCHANGED vars => record' = record
  BY DEF Reading, PurgeSelect, AdminSelect, AdminRefused, PurgeDelete, dispatchVars, vars
<1> QED
  BY <1>1, <1>2, <1>3, <1>4, <1>5, <1>6, <1>7, <1>8, <1>9, <1>10
     DEF Next, Reading, Dispatch, Handle, Finish, Quiescent

LEMMA TruthKeeps ==
  ASSUME ReplayInv, RecordKept, TruthKept
  PROVE  ReplayInv'
<1>1. \A i : deliverySucceeded(i) => deliverySucceeded(i)'
  BY DEF RecordKept, deliverySucceeded
<1>2. \A o \in Operators : step'[o] = "retried" => deliverySucceeded(target[o])'
  <2> SUFFICES ASSUME NEW o \in Operators, step'[o] = "retried" PROVE deliverySucceeded(target[o])'
    OBVIOUS
  <2>1. target'[o] = target[o] /\ deliverySucceeded(target[o])
    BY DEF TruthKept, TellsKept, ReplayInv
  <2>2. PICK i : i = target[o]
    OBVIOUS
  <2>3. deliverySucceeded(i)'
    BY <1>1, <2>1, <2>2
  <2> QED
    BY <2>1, <2>2, <2>3 DEF deliverySucceeded
<1>3. marking' \subseteq requeued'
  BY DEF TruthKept, MarksKept, ReplayInv
<1>4. RetriedIsBacked'
  <2> SUFFICES ASSUME NEW i \in DOMAIN letters', letters'[i] = "retried"
               PROVE  deliverySucceeded(i)' \/ i \in requeued'
    BY DEF RetriedIsBacked
  <2>1. \/ i \in DOMAIN letters /\ letters[i] = "retried"
        \/ i \in marking
        \/ \E o \in Operators : step[o] = "retried" /\ target[o] = i
    BY DEF TruthKept, RetriedKept
  <2>2. deliverySucceeded(i) \/ i \in requeued
    BY <2>1 DEF ReplayInv, RetriedIsBacked
  <2> QED
    BY <1>1, <2>2 DEF TruthKept, MarksKept
<1> QED
  BY <1>2, <1>3, <1>4 DEF ReplayInv

\* A letter of a failed job that nobody has touched was not touched before.
UntouchedBefore == \A i \in DOMAIN letters' : i.channel = "queue" /\ Untouched(i)' => i \in DOMAIN letters /\ Untouched(i)

LEMMA UntouchedKeeps ==
  ASSUME QuarantineInv, TruthKept, PendingKept
  PROVE  UntouchedBefore
<1> SUFFICES ASSUME NEW i \in DOMAIN letters', i.channel = "queue", Untouched(i)' PROVE i \in DOMAIN letters /\ Untouched(i)
  BY DEF UntouchedBefore
<1>1. letters'[i] = "pending" /\ i \notin requeued' /\ \A e \in Executors : target'[e] # i
  BY DEF Untouched
<1>2. i \in DOMAIN letters /\ letters[i] = "pending"
  BY <1>1 DEF PendingKept
<1>3. i \notin requeued
  BY <1>1 DEF TruthKept, MarksKept
<1>4. i # NoLetter
  BY DEF NoLetter
<1>5. \A e \in Executors : target[e] # i
  BY <1>1, <1>4 DEF TruthKept, TargetsKept, QuarantineInv
<1> QED
  BY <1>2, <1>3, <1>5 DEF Untouched

LEMMA TargetsInv ==
  ASSUME QuarantineInv, TargetsKept
  PROVE  \A e \in Executors : step'[e] = "unused" => target'[e] = NoLetter
  BY DEF QuarantineInv, TargetsKept

LEMMA PendingKeeps ==
  ASSUME QuarantineInv, TruthKept, PendingKept, CreatingKept
  PROVE  QuarantineInv'
<1>1. UntouchedBefore
  BY UntouchedKeeps
<1>2. ASSUME NEW j \in Jobs \ twins' PROVE PendingInv(j)'
  <2>1. PendingInv(j) /\ \A p \in Processes : creating'[p] \subseteq creating[p]
    BY <1>2 DEF QuarantineInv, CreatingKept
  <2>2. \A i \in DOMAIN letters' : OfJob(i, j) /\ Untouched(i)' => i \in DOMAIN letters /\ Untouched(i)
    BY <1>1 DEF UntouchedBefore, OfJob
  <2>3. \A p, q \in Processes : j \in creating'[p] /\ j \in creating'[q] => p = q
    BY <2>1 DEF PendingInv
  <2>4. \A p \in Processes : j \in creating'[p] => \A i \in DOMAIN letters' : OfJob(i, j) => ~Untouched(i)'
    BY <2>1, <2>2 DEF PendingInv
  <2>5. \A a, b \in DOMAIN letters' : OfJob(a, j) /\ OfJob(b, j) /\ Untouched(a)' /\ Untouched(b)' => a = b
    BY <2>1, <2>2 DEF PendingInv
  <2> QED
    BY <2>3, <2>4, <2>5 DEF PendingInv, OfJob
<1>3. \A e \in Executors : step'[e] = "unused" => target'[e] = NoLetter
  BY TargetsInv DEF TruthKept
<1> QED
  BY <1>2, <1>3 DEF QuarantineInv

LEMMA QuietLetters ==
  ASSUME ReplayInv, QuarantineInv, RecordKept, TruthKept, PendingKept, UNCHANGED << creating, twins >>
  PROVE  LetterInv'
<1>1. CreatingKept
  BY DEF CreatingKept
<1> QED
  BY <1>1, TruthKeeps, PendingKeeps DEF LetterInv

LEMMA MovedTruth ==
  ASSUME NEW e \in Executors, Unmoved(e), step'[e] \notin { "unused", "retried" },
         UNCHANGED << target, marking, requeued >>
  PROVE  MarksKept /\ TargetsKept /\ TellsKept
<1>1. MarksKept
  BY DEF MarksKept
<1>2. TargetsKept
  BY DEF TargetsKept, Unmoved
<1>3. TellsKept
  BY DEF TellsKept, Unmoved, Executors
<1> QED
  BY <1>1, <1>2, <1>3

LEMMA StillTruth ==
  ASSUME UNCHANGED << step, target, requeued >>, marking' \subseteq marking
  PROVE  MarksKept /\ TargetsKept /\ TellsKept
  BY DEF MarksKept, TargetsKept, TellsKept

LEMMA LettersSame ==
  ASSUME letters' = letters
  PROVE  RetriedKept /\ PendingKept
  BY DEF RetriedKept, PendingKept

LEMMA MoverLetters ==
  ASSUME LetterInv, RecordKept, NEW e \in Executors, Unmoved(e), step'[e] \notin { "unused", "retried" },
         UNCHANGED << target, marking, requeued, letters, creating, twins >>
  PROVE  LetterInv'
  BY MovedTruth, LettersSame, QuietLetters DEF LetterInv, TruthKept

LEMMA RecordLetters ==
  ASSUME AlertTypes, LetterInv, RecordKept, NEW e \in Executors, RecordDeadLetter(e)
  PROVE  LetterInv'
<1>0. /\ Channel(e) \in Channels /\ UNCHANGED << target, adminVars, handlerVars >>
      /\ Create(ChannelLetter(e)) \/ letters' = letters
      /\ Thrown(e) \/ Advanced(e)
  BY RecordEffect
<1>1. Unmoved(e) /\ step'[e] \notin { "unused", "retried" } /\ UNCHANGED << target, marking, requeued, creating, twins >>
  BY <1>0 DEF Thrown, Advanced, adminVars, handlerVars
<1>2. RetriedKept /\ PendingKept
  <2>1. CASE letters' = letters
    BY <2>1, LettersSame
  <2>2. CASE Create(ChannelLetter(e))
    <3>1. PICK l : l = ChannelLetter(e)
      OBVIOUS
    <3>2. l.channel # "queue"
      BY <1>0, <3>1 DEF ChannelLetter, Channels
    <3>3. LettersTyped
      BY DEF AlertTypes, StoreTypes, LettersTyped
    <3>4. DOMAIN letters' = DOMAIN letters \cup {l} /\ letters'[l] = "pending" /\ OthersKept(l)
      BY <2>2, <3>1, <3>3, CreateMoves
    <3> QED
      BY <3>2, <3>4 DEF RetriedKept, PendingKept, OthersKept
  <2> QED
    BY <1>0, <2>1, <2>2
<1> QED
  BY <1>1, <1>2, MovedTruth, QuietLetters DEF LetterInv, TruthKept

LEMMA HandleLetters ==
  ASSUME AlertTypes, LetterInv, RecordKept, NEW p \in Processes, NEW j \in Jobs, HandleFailed(p, j)
  PROVE  LetterInv'
<1>0. /\ UNCHANGED << dispatchVars, letters, adminVars >> /\ j \notin creating[p]
      /\ UNCHANGED handlerVars \/ (~Pending(j) /\ StartCreating(p, j))
  BY HandleEffect
<1>1. UNCHANGED << step, target, requeued, marking, letters >>
  BY <1>0 DEF dispatchVars, adminVars
<1>2. TruthKept /\ PendingKept
  BY <1>1, StillTruth, LettersSame DEF TruthKept
<1>3. CASE UNCHANGED handlerVars
  <2>1. UNCHANGED << creating, twins >>
    BY <1>3 DEF handlerVars
  <2> QED
    BY <1>2, <2>1, QuietLetters DEF LetterInv
<1>4. CASE ~Pending(j) /\ StartCreating(p, j)
  <2>1. creating \in [Processes -> SUBSET Jobs]
    BY DEF AlertTypes, StoreTypes
  <2>2. \A q \in Processes : creating'[q] = IF q = p THEN creating[q] \cup {j} ELSE creating[q]
    BY <1>4, <2>1 DEF StartCreating
  <2>3. twins' = (IF \E q \in Processes : j \in creating[q] THEN twins \cup {j} ELSE twins)
    BY <1>4 DEF StartCreating
  <2>4. \A i : Untouched(i)' <=> Untouched(i)
    BY <1>1 DEF Untouched
  <2>5. ASSUME NEW k \in Jobs \ twins' PROVE PendingInv(k)'
    <3>1. PendingInv(k)
      BY <2>3, <2>5 DEF LetterInv, QuarantineInv
    <3>2. CASE k # j
      <4>1. \A q \in Processes : k \in creating'[q] <=> k \in creating[q]
        BY <2>2, <3>2
      <4> QED
        BY <1>1, <2>4, <3>1, <4>1 DEF PendingInv, OfJob
    <3>3. CASE k = j
      <4>1. \A q \in Processes : j \notin creating[q]
        BY <2>3, <2>5, <3>3
      <4>2. \A q \in Processes : k \in creating'[q] => q = p
        BY <2>2, <3>3, <4>1
      <4>3. \A i \in DOMAIN letters : OfJob(i, k) => ~Untouched(i)
        BY <1>4, <3>3 DEF Pending, Untouched
      <4> QED
        BY <1>1, <2>4, <3>1, <4>2, <4>3 DEF PendingInv, OfJob
    <3> QED
      BY <3>2, <3>3
  <2>6. \A e \in Executors : step'[e] = "unused" => target'[e] = NoLetter
    BY <1>2, TargetsInv DEF TruthKept, LetterInv
  <2>7. QuarantineInv'
    BY <2>5, <2>6 DEF QuarantineInv
  <2> QED
    BY <1>2, <2>7, TruthKeeps DEF LetterInv
<1> QED
  BY <1>0, <1>3, <1>4

LEMMA PersistLetters ==
  ASSUME AlertTypes, LetterInv, RecordKept, NEW p \in Processes, NEW j \in Jobs, PersistQueueLetter(p, j)
  PROVE  LetterInv'
<1>0. /\ UNCHANGED << dispatchVars, adminVars, twins >> /\ j \in creating[p]
      /\ creating' = [creating EXCEPT ![p] = @ \ {j}]
      /\ Create(QueueLetter(p, j)) \/ letters' = letters
  BY PersistEffect
<1>1. UNCHANGED << step, target, requeued, marking >>
  BY <1>0 DEF dispatchVars, adminVars
<1>2. MarksKept /\ TargetsKept /\ TellsKept
  BY <1>1, StillTruth
<1>3. creating \in [Processes -> SUBSET Jobs]
  BY DEF AlertTypes, StoreTypes
<1>4. \A q \in Processes : creating'[q] = IF q = p THEN creating[q] \ {j} ELSE creating[q]
  BY <1>0, <1>3
<1>5. CreatingKept
  BY <1>0, <1>4 DEF CreatingKept
<1>6. CASE letters' = letters
  BY <1>2, <1>5, <1>6, LettersSame, TruthKeeps, PendingKeeps DEF LetterInv, TruthKept
<1>7. CASE Create(QueueLetter(p, j))
  <2>1. PICK l : l = QueueLetter(p, j)
    OBVIOUS
  <2>2. l.by = j /\ l.channel = "queue"
    BY <2>1 DEF QueueLetter
  <2>3. LettersTyped
    BY DEF AlertTypes, StoreTypes, LettersTyped
  <2>4. DOMAIN letters' = DOMAIN letters \cup {l} /\ letters'[l] = "pending" /\ OthersKept(l)
    BY <1>7, <2>1, <2>3, CreateMoves
  <2>5. RetriedKept
    BY <2>4 DEF RetriedKept, OthersKept
  <2>6. \A i \in DOMAIN letters' : i # l => i \in DOMAIN letters /\ (Untouched(i)' <=> Untouched(i))
    BY <1>1, <2>4 DEF Untouched, OthersKept
  <2>7. ASSUME NEW k \in Jobs \ twins' PROVE PendingInv(k)'
    <3>1. PendingInv(k)
      BY <1>0, <2>7 DEF LetterInv, QuarantineInv
    <3>2. CASE k # j
      <4>1. \A q \in Processes : k \in creating'[q] <=> k \in creating[q]
        BY <1>4, <3>2
      <4>2. \A i \in DOMAIN letters' : OfJob(i, k) => i \in DOMAIN letters /\ (Untouched(i)' <=> Untouched(i))
        BY <2>2, <2>6, <3>2 DEF OfJob
      <4> QED
        BY <3>1, <4>1, <4>2 DEF PendingInv, OfJob
    <3>3. CASE k = j
      <4>1. \A q \in Processes : k \notin creating'[q]
        BY <1>0, <1>4, <3>1, <3>3 DEF PendingInv
      <4>2. \A i \in DOMAIN letters : OfJob(i, k) => ~Untouched(i)
        BY <1>0, <3>1, <3>3 DEF PendingInv
      <4>3. \A i \in DOMAIN letters' : OfJob(i, k) /\ Untouched(i)' => i = l
        BY <2>6, <4>2
      <4> QED
        BY <4>1, <4>3 DEF PendingInv, OfJob
    <3> QED
      BY <3>2, <3>3
  <2>8. \A e \in Executors : step'[e] = "unused" => target'[e] = NoLetter
    BY <1>2, TargetsInv DEF LetterInv
  <2> QED
    BY <1>2, <2>5, <2>7, <2>8, TruthKeeps DEF LetterInv, TruthKept, QuarantineInv
<1> QED
  BY <1>0, <1>6, <1>7

LEMMA ReplayLetters ==
  ASSUME AlertTypes, LetterInv, RecordKept, NEW o \in Operators, NEW i, Replay(o, i)
  PROVE  LetterInv'
<1>0. /\ step[o] = "unused" /\ Begun(o) /\ UNCHANGED << marking, requeued, letters, creating, twins >>
      /\ target' = [target EXCEPT ![o] = i]
  BY ReplayEffect DEF replayVars, handlerVars
<1>1. o \in Executors /\ o \notin Jobs /\ DOMAIN target = Executors
  BY AlertsOK DEF Executors, AlertTypes, StoreTypes
<1>2. Unmoved(o) /\ step'[o] \notin { "unused", "retried" }
  BY <1>0 DEF Begun
<1>3. \A e \in Executors : e # o => target'[e] = target[e]
  BY <1>0, <1>1
<1>4. MarksKept /\ TargetsKept
  BY <1>0, <1>1, <1>2, <1>3 DEF MarksKept, TargetsKept, Unmoved
<1>5. TellsKept
  BY <1>2, <1>3 DEF TellsKept, Unmoved, Executors
<1> QED
  BY <1>0, <1>4, <1>5, LettersSame, QuietLetters DEF LetterInv, TruthKept

LEMMA AdminLetters ==
  ASSUME AlertTypes, LetterInv, RecordKept, NEW j \in Jobs, NEW i, AdminReplay(j, i)
  PROVE  LetterInv'
<1>0. /\ step[j] = "unused" /\ Gone(j, "waiting") /\ UNCHANGED << letters, creating, twins >>
      /\ target' = [target EXCEPT ![j] = i] /\ requeued' = requeued \cup {i} /\ marking' = marking \cup {i}
  BY AdminEffect DEF handlerVars
<1>1. j \in Executors /\ j \notin Operators /\ DOMAIN target = Executors
  BY AlertsOK DEF Executors, AlertTypes, StoreTypes
<1>2. Unmoved(j) /\ step'[j] = "waiting"
  BY <1>0 DEF Gone
<1>3. \A e \in Executors : e # j => target'[e] = target[e]
  BY <1>0, <1>1
<1>4. MarksKept /\ TargetsKept
  BY <1>0, <1>1, <1>2, <1>3 DEF MarksKept, TargetsKept, Unmoved
<1>5. TellsKept
  BY <1>1, <1>2, <1>3 DEF TellsKept, Unmoved, Executors
<1> QED
  BY <1>0, <1>4, <1>5, LettersSame, QuietLetters DEF LetterInv, TruthKept

LEMMA VerifyLetters ==
  ASSUME AlertTypes, LetterInv, RecordKept, NEW o \in Operators, Verify(o)
  PROVE  LetterInv'
<1>0. /\ Gone(o, IF deliverySucceeded(target[o]) THEN "retried" ELSE "pending")
      /\ UNCHANGED << target, marking, requeued, letters, creating, twins >>
  BY VerifyEffect DEF replayVars, handlerVars
<1>1. /\ Unmoved(o) /\ step'[o] # "unused"
      /\ step'[o] = "retried" => deliverySucceeded(target[o])
  BY <1>0 DEF Gone
<1>2. MarksKept /\ TargetsKept
  BY <1>0, <1>1 DEF MarksKept, TargetsKept, Unmoved
<1>3. TellsKept
  BY <1>0, <1>1 DEF TellsKept, Unmoved, Executors
<1> QED
  BY <1>0, <1>2, <1>3, LettersSame, QuietLetters DEF LetterInv, TruthKept

LEMMA UpdateLetters ==
  ASSUME AlertTypes, LetterInv, RecordKept, NEW o \in Operators, Update(o)
  PROVE  LetterInv'
<1>0. /\ step[o] \in { "retried", "pending" } /\ Gone(o, "ended")
      /\ UNCHANGED << target, marking, requeued, creating, twins >>
      /\ letters' = letters \/ SetLetter(target[o], step[o])
  BY UpdateEffect DEF replayVars, handlerVars
<1>1. o \in Executors /\ Unmoved(o) /\ step'[o] = "ended"
  BY <1>0 DEF Gone, Executors
<1>2. MarksKept /\ TargetsKept /\ TellsKept
  BY <1>0, <1>1, MovedTruth
<1>3. RetriedKept /\ PendingKept
  <2>1. CASE letters' = letters
    BY <2>1, LettersSame
  <2>2. CASE SetLetter(target[o], step[o])
    <3>1. PICK l : l = target[o]
      OBVIOUS
    <3>2. LettersTyped /\ step[o] \in Statuses
      BY <1>0 DEF AlertTypes, StoreTypes, LettersTyped, Statuses
    <3>3. /\ DOMAIN letters' = DOMAIN letters /\ OthersKept(l)
          /\ l \in DOMAIN letters => letters'[l] = step[o]
      BY <2>2, <3>1, <3>2, SetMoves
    <3>4. target'[o] = l
      BY <1>0, <3>1
    <3> QED
      BY <1>0, <1>1, <3>1, <3>3, <3>4 DEF RetriedKept, PendingKept, OthersKept
  <2> QED
    BY <1>0, <2>1, <2>2
<1> QED
  BY <1>0, <1>2, <1>3, QuietLetters DEF LetterInv, TruthKept

\* A statement on one row that makes it neither pending, nor retried without a job.
LEMMA RowLetters ==
  ASSUME AlertTypes, LetterInv, RecordKept, UNCHANGED << step, target, requeued, creating, twins >>,
         marking' \subseteq marking, DOMAIN letters' = DOMAIN letters,
         \A i \in DOMAIN letters : \/ letters'[i] = letters[i] \/ letters'[i] \in { "suppressed", "purged" }
                                   \/ letters'[i] = "retried" /\ i \in marking
  PROVE  LetterInv'
<1>1. MarksKept /\ TargetsKept /\ TellsKept
  BY StillTruth
<1>2. RetriedKept /\ PendingKept
  BY DEF RetriedKept, PendingKept
<1> QED
  BY <1>1, <1>2, QuietLetters DEF LetterInv, TruthKept

LEMMA LetterStep ==
  ASSUME AlertTypes, LetterInv, [Next]_vars
  PROVE  LetterInv'
<1>r. RecordKept
  BY RecordStep
<1>1. ASSUME NEW j \in Jobs, Start(j) PROVE LetterInv'
  <2>1. j \in Executors /\ Unmoved(j) /\ step'[j] \notin { "unused", "retried" }
    BY <1>1, StartEffect DEF Begun, Executors
  <2>2. UNCHANGED << target, marking, requeued, letters, creating, twins >>
    BY <1>1, StartEffect DEF restVars
  <2> QED
    BY <1>r, <2>1, <2>2, MoverLetters
<1>2. ASSUME NEW e \in Executors, Enter(e) PROVE LetterInv'
  <2>1. /\ Unmoved(e) /\ step'[e] \notin { "unused", "retried" }
        /\ UNCHANGED << target, marking, requeued, letters, creating, twins >>
    BY <1>2, EnterEffect DEF Advanced, Gone, restVars
  <2> QED
    BY <1>r, <2>1, MoverLetters
<1>3. ASSUME NEW e \in Executors, Send(e) PROVE LetterInv'
  <2>1. /\ Unmoved(e) /\ step'[e] \notin { "unused", "retried" }
        /\ UNCHANGED << target, marking, requeued, letters, creating, twins >>
    BY <1>3, SendEffect DEF Advanced, Gone, restVars
  <2> QED
    BY <1>r, <2>1, MoverLetters
<1>4. ASSUME NEW e \in Executors, Log(e) \/ LogFails(e) PROVE LetterInv'
  <2>1. /\ Unmoved(e) /\ step'[e] \notin { "unused", "retried" }
        /\ UNCHANGED << target, marking, requeued, letters, creating, twins >>
    BY <1>4, LogEffect, LogFailsEffect DEF Advanced, Gone, Thrown, restVars, otherVars
  <2> QED
    BY <1>r, <2>1, MoverLetters
<1>5. ASSUME NEW e \in Executors, Crash(e) PROVE LetterInv'
  <2>1. /\ Unmoved(e) /\ step'[e] \notin { "unused", "retried" }
        /\ UNCHANGED << target, marking, requeued, letters, creating, twins >>
    BY <1>5, CrashEffect DEF letterVars, adminVars, handlerVars
  <2> QED
    BY <1>r, <2>1, MoverLetters
<1>6. ASSUME NEW c \in Channels, GateExpire(c) PROVE LetterInv'
  <2>1. UNCHANGED << step, target, marking, requeued, letters, creating, twins >>
    BY <1>6, ExpireEffect DEF restVars
  <2> QED
    BY <1>r, <2>1, RowLetters
<1>7. ASSUME NEW i, Suppress(i) PROVE LetterInv'
  <2>1. UNCHANGED << step, target, marking, requeued, creating, twins >> /\ SetLetter(i, "suppressed")
    BY <1>7, SuppressEffect DEF dispatchVars, handlerVars
  <2>2. LettersTyped /\ "suppressed" \in Statuses
    BY DEF AlertTypes, StoreTypes, LettersTyped, Statuses
  <2>3. DOMAIN letters' = DOMAIN letters /\ OthersKept(i) /\ (i \in DOMAIN letters => letters'[i] = "suppressed")
    BY <2>1, <2>2, SetMoves
  <2>4. \A k \in DOMAIN letters : letters'[k] = letters[k] \/ letters'[k] \in { "suppressed", "purged" }
    BY <2>3 DEF OthersKept
  <2> QED
    BY <1>r, <2>1, <2>3, <2>4, RowLetters
<1>8. ASSUME NEW i, AdminMark(i) PROVE LetterInv'
  <2>1. /\ UNCHANGED << step, target, requeued, creating, twins >> /\ marking' = marking \ {i} /\ i \in marking
        /\ SetLetter(i, "retried") \/ letters' = letters
    BY <1>8, MarkEffect DEF dispatchVars, handlerVars
  <2>2. LettersTyped /\ "retried" \in Statuses
    BY DEF AlertTypes, StoreTypes, LettersTyped, Statuses
  <2>3. CASE letters' = letters
    BY <1>r, <2>1, <2>3, RowLetters
  <2>4. CASE SetLetter(i, "retried")
    <3>1. DOMAIN letters' = DOMAIN letters /\ OthersKept(i) /\ (i \in DOMAIN letters => letters'[i] = "retried")
      BY <2>2, <2>4, SetMoves
    <3>2. \A k \in DOMAIN letters : letters'[k] = letters[k] \/ (letters'[k] = "retried" /\ k \in marking)
      BY <2>1, <3>1 DEF OthersKept
    <3> QED
      BY <1>r, <2>1, <3>1, <3>2, RowLetters
  <2> QED
    BY <2>1, <2>3, <2>4
<1>9. ASSUME Reading PROVE LetterInv'
  <2>1. UNCHANGED << step, target, marking, requeued, letters, creating, twins >>
    BY <1>9, ReadingEffect DEF dispatchVars, handlerVars
  <2> QED
    BY <1>r, <2>1, RowLetters
<1>10. ASSUME PurgeDelete PROVE LetterInv'
  <2>1. /\ UNCHANGED << step, target, marking, requeued, creating, twins >> /\ DOMAIN letters' = DOMAIN letters
        /\ \A i \in DOMAIN letters : letters'[i] = letters[i] \/ letters'[i] \in { "suppressed", "purged" }
    BY <1>10, PurgeDeleteEffect DEF dispatchVars, handlerVars
  <2> QED
    BY <1>r, <2>1, RowLetters
<1>11. ASSUME UNCHANGED vars PROVE LetterInv'
  <2>1. UNCHANGED << step, target, marking, requeued, letters, creating, twins >>
    BY <1>11 DEF vars
  <2> QED
    BY <1>r, <2>1, RowLetters
<1>12. ASSUME NEW e \in Executors, RecordDeadLetter(e) PROVE LetterInv'
  BY <1>r, <1>12, RecordLetters
<1>13. ASSUME NEW p \in Processes, NEW j \in Jobs, HandleFailed(p, j) \/ PersistQueueLetter(p, j) PROVE LetterInv'
  BY <1>r, <1>13, HandleLetters, PersistLetters
<1>14. ASSUME NEW o \in Operators, Verify(o) \/ Update(o) PROVE LetterInv'
  BY <1>r, <1>14, VerifyLetters, UpdateLetters
<1>15. ASSUME NEW i, NEW o \in Operators, Replay(o, i) PROVE LetterInv'
  BY <1>r, <1>15, ReplayLetters
<1>16. ASSUME NEW i, NEW j \in Jobs, AdminReplay(j, i) PROVE LetterInv'
  BY <1>r, <1>16, AdminLetters
<1> QED
  BY <1>1, <1>2, <1>3, <1>4, <1>5, <1>6, <1>7, <1>8, <1>9, <1>10, <1>11, <1>12, <1>13, <1>14, <1>15, <1>16
     DEF Next, Reading, Dispatch, Handle, Finish, Quiescent

LEMMA LetterInit ==
  ASSUME Init
  PROVE  LetterInv
<1>1. DOMAIN letters = {} /\ marking = {} /\ \A p \in Processes : creating[p] = {}
  BY DEF Init
<1>2. \A e \in Executors : step[e] \in { "waiting", "unused" } /\ target[e] = NoLetter
  BY DEF Init
<1>3. ReplayInv
  BY <1>1, <1>2 DEF ReplayInv, RetriedIsBacked, Executors
<1>4. \A j : PendingInv(j)
  BY <1>1 DEF PendingInv
<1> QED
  BY <1>2, <1>3, <1>4 DEF LetterInv, QuarantineInv

\* failedJobHandler, DeadLettersService and DlqReplayService: one failed job has one
\* untouched pending letter unless two processes created it at once, and a letter is
\* retried only when its channel was delivered or a replay job exists.
THEOREM DeadLettersSound == Spec => []LettersSound
<1>1. Init => AlertTypes /\ LetterInv
  BY TypesInit, LetterInit
<1>2. AlertTypes /\ LetterInv /\ [Next]_vars => (AlertTypes /\ LetterInv)'
  BY TypesStep, LetterStep
<1>3. LetterInv => LettersSound
  BY DEF LetterInv, QuarantineInv, PendingInv, ReplayInv, LettersSound, OnePendingLetter
<1> QED
  BY <1>1, <1>2, <1>3, PTL DEF Spec

(***************************************************************************)
(* That a letter is new when it is created                                 *)
(***************************************************************************)
LEMMA PassedSame ==
  ASSUME NEW x, setup' = setup, stage'[x] = stage[x], NEW c
  PROVE  Passed(x, c)' <=> Passed(x, c)
  BY DEF Passed, route

LEMMA OthersFresh ==
  ASSUME FreshInv, NEW e, Unmoved(e), setup' = setup,
         \A j \in Jobs : j # e => made'[j] = made[j] /\ stalls'[j] = stalls[j],
         \A i \in DOMAIN letters' : i \in DOMAIN letters \/ i.by = e \/ i.channel \notin Channels
  PROVE  /\ \A j \in Jobs : j # e => JobLetters(j)'
         /\ \A o \in Operators : o # e => OperatorLetters(o)'
<1>1. ASSUME NEW j \in Jobs, j # e PROVE JobLetters(j)'
  <2>1. j \in Executors /\ JobLetters(j)
    BY DEF Executors, FreshInv
  <2>2. step'[j] = step[j] /\ stage'[j] = stage[j] /\ made'[j] = made[j] /\ stalls'[j] = stalls[j]
    BY <1>1, <2>1 DEF Unmoved
  <2>3. \A c : Passed(j, c)' <=> Passed(j, c)
    BY <2>2, PassedSame
  <2>4. \A i \in DOMAIN letters' : i.channel \in Channels /\ i.by = j => i \in DOMAIN letters
    BY <1>1
  <2> QED
    BY <2>1, <2>2, <2>3, <2>4 DEF JobLetters
<1>2. ASSUME NEW o \in Operators, o # e PROVE OperatorLetters(o)'
  <2>1. o \in Executors /\ OperatorLetters(o)
    BY DEF Executors, FreshInv
  <2>2. step'[o] = step[o] /\ stage'[o] = stage[o]
    BY <1>2, <2>1 DEF Unmoved
  <2>3. \A c : Passed(o, c)' <=> Passed(o, c)
    BY <2>2, PassedSame
  <2>4. \A i \in DOMAIN letters' : i.channel \in Channels /\ i.by = o => i \in DOMAIN letters
    BY <1>2
  <2> QED
    BY <2>1, <2>2, <2>3, <2>4 DEF OperatorLetters
<1> QED
  BY <1>1, <1>2

LEMMA EventsFresh ==
  ASSUME AlertTypes, FreshInv, NEW e \in Executors, Unmoved(e), step[e] # "failed", creating' = creating,
         events' = events \/ (step'[e] = "failed" /\ events' = [p \in Processes |-> events[p] \cup {e}]),
         \A i \in DOMAIN letters' : i \in DOMAIN letters \/ i.channel \in Channels
  PROVE  \A p \in Processes : EventLetters(p)'
<1> SUFFICES ASSUME NEW p \in Processes PROVE EventLetters(p)'
  OBVIOUS
<1>1. EventLetters(p) /\ events[p] \subseteq Jobs
  BY DEF FreshInv, AlertTypes, StoreTypes
<1>2. events'[p] = events[p] \/ (step'[e] = "failed" /\ events'[p] = events[p] \cup {e})
  OBVIOUS
<1>3. ASSUME NEW j \in events'[p] PROVE step'[j] = "failed" /\ QueueLetter(p, j) \notin DOMAIN letters'
  <2>0. QueueLetter(p, j).channel \notin Channels /\ QueueLetter(p, j).by = j
    BY DEF QueueLetter, Channels
  <2>1. CASE j = e
    <3>1. step'[e] = "failed"
      BY <1>1, <1>2, <1>3, <2>1 DEF EventLetters
    <3>2. QueueLetter(p, j) \notin DOMAIN letters
      <4>1. ASSUME QueueLetter(p, j) \in DOMAIN letters PROVE FALSE
        <5>1. LetterShape(QueueLetter(p, j))
          BY <4>1 DEF FreshInv
        <5> QED
          BY <2>0, <2>1, <5>1 DEF LetterShape
      <4> QED
        BY <4>1
    <3> QED
      BY <2>0, <2>1, <3>1, <3>2
  <2>2. CASE j # e
    <3>1. j \in events[p] /\ j \in Executors
      BY <1>1, <1>2, <1>3, <2>2 DEF Executors
    <3>2. step[j] = "failed" /\ QueueLetter(p, j) \notin DOMAIN letters
      BY <1>1, <3>1 DEF EventLetters
    <3> QED
      BY <2>0, <2>2, <3>1, <3>2 DEF Unmoved
  <2> QED
    BY <2>1, <2>2
<1>4. creating'[p] \subseteq events'[p]
  BY <1>1, <1>2 DEF EventLetters
<1> QED
  BY <1>3, <1>4 DEF EventLetters, QueueLetter

LEMMA ShapesFresh ==
  ASSUME FreshInv, NEW e, Unmoved(e), e \in Executors => step[e] # "failed",
         \A i \in DOMAIN letters' : i \in DOMAIN letters \/ (i.channel \in Channels /\ i.by \in Executors /\ i.run \in Nat)
  PROVE  \A i \in DOMAIN letters' : LetterShape(i)'
<1> SUFFICES ASSUME NEW i \in DOMAIN letters' PROVE LetterShape(i)'
  OBVIOUS
<1>1. CASE i.channel \in Channels /\ i.by \in Executors /\ i.run \in Nat
  BY <1>1 DEF LetterShape
<1>2. CASE i \in DOMAIN letters /\ i.channel = "queue" /\ i.by \in Jobs /\ step[i.by] = "failed"
  <2>1. step'[i.by] = "failed"
    BY <1>2 DEF Unmoved, Executors
  <2> QED
    BY <1>2, <2>1 DEF LetterShape
<1> QED
  BY <1>1, <1>2 DEF FreshInv, LetterShape

\* An execution begins, goes on or succeeds, and no row is added.
Onward(e) ==
  /\ step[e] \notin { "completed", "failed", "ended" } /\ step'[e] # "unused"
  /\ step'[e] \in Running => \/ step[e] = (IF e \in Jobs THEN "waiting" ELSE "unused")
                             \/ step[e] \in Running /\ stage'[e] >= stage[e]
  /\ e \in Jobs /\ step[e] \in Running => step'[e] \in Running \cup { "completed" }

LEMMA OnwardFresh ==
  ASSUME AlertTypes, AlertTypes', FreshInv, NEW e \in Executors, Unmoved(e), Onward(e), setup' = setup,
         UNCHANGED << made, stalls, events, creating >>, DOMAIN letters' = DOMAIN letters
  PROVE  FreshInv'
<1>1. /\ \A j \in Jobs : j # e => JobLetters(j)'
      /\ \A o \in Operators : o # e => OperatorLetters(o)'
  BY OthersFresh
<1>2. \A p \in Processes : EventLetters(p)'
  BY EventsFresh DEF Onward
<1>3. \A i \in DOMAIN letters' : LetterShape(i)'
  BY ShapesFresh DEF Onward
<1>4. step[e] \in Running /\ stage'[e] >= stage[e] => \A c : Passed(e, c) => Passed(e, c)'
  <2>1. stage[e] \in Nat /\ stage'[e] \in Nat /\ route' = route /\ Len(route) \in Nat
    BY RouteFacts DEF AlertTypes, ExecTypes, route
  <2> QED
    BY <2>1 DEF Passed
<1>5. ASSUME e \in Jobs PROVE JobLetters(e)'
  <2>1. JobLetters(e)
    BY <1>5 DEF FreshInv
  <2>2. step[e] = "waiting" => step[e] \notin Running
    BY DEF Running
  <2> SUFFICES ASSUME NEW i \in DOMAIN letters', i.channel \in Channels, i.by = e, step'[e] # "completed"
               PROVE  \/ i.run < made'[e] + stalls'[e]
                      \/ i.run = made'[e] + stalls'[e] /\ step'[e] \in Running /\ Passed(e, i.channel)'
    BY DEF JobLetters
  <2>3. \/ i.run < made[e] + stalls[e]
        \/ i.run = made[e] + stalls[e] /\ step[e] \in Running /\ Passed(e, i.channel)
    BY <2>1 DEF JobLetters, Onward
  <2>4. step[e] \in Running /\ Passed(e, i.channel) => step'[e] \in Running /\ Passed(e, i.channel)'
    BY <1>4, <1>5, <2>2 DEF Onward
  <2> QED
    BY <2>3, <2>4
<1>6. ASSUME e \in Operators PROVE OperatorLetters(e)'
  <2>1. OperatorLetters(e) /\ e \notin Jobs
    BY <1>6, AlertsOK DEF FreshInv
  <2> QED
    BY <1>4, <2>1 DEF OperatorLetters, Onward
<1> QED
  BY <1>1, <1>2, <1>3, <1>5, <1>6 DEF FreshInv

LEMMA LetterName ==
  ASSUME AlertTypes, NEW e \in Executors, step[e] \in Running, NEW l, l = ChannelLetter(e)
  PROVE  /\ l.channel = Channel(e) /\ l.channel \in Channels /\ l.by = e /\ l.run \in Nat
         /\ e \in Jobs => l.run = made[e] + stalls[e]
<1>1. Channel(e) \in Channels
  BY ChannelFact
<1>2. made \in [Jobs -> Nat] /\ stalls \in [Jobs -> Nat]
  BY DEF AlertTypes, StoreTypes
<1>3. l.channel = Channel(e) /\ l.by = e /\ l.run = IF e \in Jobs THEN made[e] + stalls[e] ELSE 0
  BY DEF ChannelLetter
<1> QED
  BY <1>1, <1>2, <1>3

LEMMA NewLetter ==
  ASSUME AlertTypes, FreshInv, NEW e \in Executors, step[e] \in Running
  PROVE  ChannelLetter(e) \notin DOMAIN letters
<1> SUFFICES ASSUME ChannelLetter(e) \in DOMAIN letters PROVE FALSE
  OBVIOUS
<1>1. PICK l \in DOMAIN letters : l = ChannelLetter(e)
  OBVIOUS
<1>2. /\ l.channel = Channel(e) /\ l.channel \in Channels /\ l.by = e /\ l.run \in Nat
      /\ e \in Jobs => l.run = made[e] + stalls[e]
  BY <1>1, LetterName
<1>3. Passed(e, Channel(e))
  <2>1. CASE e \in Jobs
    <3>1. JobLetters(e) /\ step[e] # "completed"
      BY <2>1 DEF FreshInv, Running
    <3>2. \/ l.run < made[e] + stalls[e]
          \/ Passed(e, l.channel)
      BY <1>2, <3>1 DEF JobLetters
    <3> QED
      BY <1>2, <2>1, <3>2
  <2>2. CASE e \in Operators
    BY <1>2, <2>2 DEF FreshInv, OperatorLetters
  <2> QED
    BY <2>1, <2>2 DEF Executors
<1>4. PICK k \in 1..Len(route) : k < stage[e] /\ route[k] = Channel(e)
  BY <1>3 DEF Passed
<1>5. stage[e] \in 1..Len(route) /\ Channel(e) = route[stage[e]]
  BY ChannelFact
<1>6. k = stage[e]
  BY <1>4, <1>5, RouteFacts
<1> QED
  BY <1>4, <1>5, <1>6

\* An attempt ends and is counted: every letter of the job is of an earlier one.
LEMMA CountedFresh ==
  ASSUME AlertTypes, AlertTypes', FreshInv, NEW e \in Executors, step[e] \in Running, Unmoved(e), setup' = setup,
         creating' = creating, \A j \in Jobs : j # e => made'[j] = made[j] /\ stalls'[j] = stalls[j],
         e \in Jobs => /\ step'[e] \in { "waiting", "failed" }
                       /\ made'[e] + stalls'[e] = made[e] + stalls[e] + 1,
         e \notin Jobs => step'[e] = "ended",
         events' = events \/ (step'[e] = "failed" /\ events' = [p \in Processes |-> events[p] \cup {e}]),
         \A i \in DOMAIN letters' : i \in DOMAIN letters \/ i = ChannelLetter(e)
  PROVE  FreshInv'
<1>0. step[e] # "failed" /\ step[e] # "completed"
  BY DEF Running
<1>l. \A i \in DOMAIN letters' : i \notin DOMAIN letters =>
        /\ i.channel \in Channels /\ i.by = e /\ i.run \in Nat
        /\ e \in Jobs => i.run = made[e] + stalls[e]
  BY LetterName
<1>1. /\ \A j \in Jobs : j # e => JobLetters(j)'
      /\ \A o \in Operators : o # e => OperatorLetters(o)'
  BY <1>l, OthersFresh
<1>2. \A p \in Processes : EventLetters(p)'
  BY <1>0, <1>l, EventsFresh
<1>3. \A i \in DOMAIN letters' : LetterShape(i)'
  BY <1>0, <1>l, ShapesFresh
<1>4. ASSUME e \in Jobs PROVE JobLetters(e)'
  <2>1. JobLetters(e) /\ made[e] \in Nat /\ stalls[e] \in Nat
    BY <1>4 DEF FreshInv, AlertTypes, StoreTypes
  <2> SUFFICES ASSUME NEW i \in DOMAIN letters', i.channel \in Channels, i.by = e
               PROVE  i.run < made'[e] + stalls'[e]
    BY DEF JobLetters
  <2>2. i.run \in Nat
    <3>1. LetterShape(i)'
      BY <1>3
    <3>2. i.channel # "queue"
      BY DEF Channels
    <3> QED
      BY <3>1, <3>2 DEF LetterShape
  <2>3. i.run <= made[e] + stalls[e]
    <3>1. CASE i \in DOMAIN letters
      BY <1>0, <2>1, <2>2, <3>1 DEF JobLetters
    <3>2. CASE i \notin DOMAIN letters
      BY <1>4, <1>l, <2>1, <3>2
    <3> QED
      BY <3>1, <3>2
  <2> QED
    BY <1>4, <2>1, <2>2, <2>3
<1>5. ASSUME e \in Operators PROVE OperatorLetters(e)'
  <2>1. step'[e] = "ended" /\ "ended" \notin Running
    BY <1>5, AlertsOK DEF Running
  <2> QED
    BY <2>1 DEF OperatorLetters
<1> QED
  BY <1>1, <1>2, <1>3, <1>4, <1>5 DEF FreshInv

LEMMA RecordedFresh ==
  ASSUME AlertTypes, AlertTypes', FreshInv, NEW e \in Executors, step[e] \in Running, Advanced(e), setup' = setup,
         UNCHANGED << made, stalls, events, creating >>,
         \A i \in DOMAIN letters' : i \in DOMAIN letters \/ i = ChannelLetter(e)
  PROVE  FreshInv'
<1>0. step[e] # "failed" /\ step[e] # "completed" /\ Unmoved(e)
  BY DEF Running, Advanced
<1>l. \A i \in DOMAIN letters' : i \notin DOMAIN letters =>
        /\ i.channel = Channel(e) /\ i.channel \in Channels /\ i.by = e /\ i.run \in Nat
        /\ e \in Jobs => i.run = made[e] + stalls[e]
  BY LetterName
<1>1. /\ \A j \in Jobs : j # e => JobLetters(j)'
      /\ \A o \in Operators : o # e => OperatorLetters(o)'
  BY <1>0, <1>l, OthersFresh
<1>2. \A p \in Processes : EventLetters(p)'
  BY <1>0, <1>l, EventsFresh
<1>3. \A i \in DOMAIN letters' : LetterShape(i)'
  BY <1>0, <1>l, ShapesFresh
<1>4. CASE step'[e] = "enter" /\ stage'[e] = stage[e] + 1
  <2>0. route' = route /\ Len(route) \in Nat /\ stage[e] \in 1..Len(route) /\ Channel(e) = route[stage[e]]
    BY RouteFacts, ChannelFact DEF route
  <2>1. \A c : Passed(e, c) => Passed(e, c)'
    BY <1>4, <2>0 DEF Passed
  <2>d. PICK d : d = Channel(e)
    OBVIOUS
  <2>2. Passed(e, d)'
    <3>1. stage[e] < stage'[e] /\ route'[stage[e]] = d /\ stage[e] \in 1..Len(route')
      BY <1>4, <2>0, <2>d
    <3> QED
      BY <3>1 DEF Passed
  <2>3. step'[e] \in Running
    BY <1>4 DEF Running
  <2>4. e \in Jobs => JobLetters(e)'
    BY <1>0, <1>l, <2>1, <2>2, <2>3, <2>d DEF JobLetters, FreshInv
  <2>5. e \in Operators => OperatorLetters(e)'
    BY <1>4, <1>l, <2>1, <2>2, <2>d DEF OperatorLetters, FreshInv
  <2> QED
    BY <1>1, <1>2, <1>3, <2>4, <2>5 DEF FreshInv
<1>5. CASE step'[e] = (IF e \in Jobs THEN "completed" ELSE "verify")
  <2>1. e \in Jobs => JobLetters(e)'
    BY <1>5 DEF JobLetters
  <2>2. e \in Operators => OperatorLetters(e)'
    BY <1>5, AlertsOK DEF OperatorLetters, Running
  <2> QED
    BY <1>1, <1>2, <1>3, <2>1, <2>2 DEF FreshInv
<1> QED
  BY <1>4, <1>5 DEF Advanced

LEMMA StillExecutors ==
  ASSUME FreshInv, UNCHANGED << setup, step, stage, made, stalls >>,
         \A i \in DOMAIN letters' : i \in DOMAIN letters \/ i.channel \notin Channels
  PROVE  (\A j \in Jobs : JobLetters(j)') /\ (\A o \in Operators : OperatorLetters(o)')
<1>1. Unmoved(Nobody) /\ Nobody \notin Jobs /\ Nobody \notin Operators
  BY AlertsOK DEF Unmoved, Executors
<1>2. /\ \A j \in Jobs : j # Nobody => JobLetters(j)'
      /\ \A o \in Operators : o # Nobody => OperatorLetters(o)'
  BY <1>1, OthersFresh
<1> QED
  BY <1>1, <1>2

LEMMA StillFresh ==
  ASSUME FreshInv, UNCHANGED << setup, step, stage, made, stalls, events, creating >>, DOMAIN letters' = DOMAIN letters
  PROVE  FreshInv'
<1>1. (\A j \in Jobs : JobLetters(j)') /\ (\A o \in Operators : OperatorLetters(o)')
  BY StillExecutors
<1>2. \A p \in Processes : EventLetters(p)'
  BY DEF EventLetters, FreshInv, QueueLetter
<1>3. \A i \in DOMAIN letters' : LetterShape(i)'
  BY DEF LetterShape, FreshInv
<1> QED
  BY <1>1, <1>2, <1>3 DEF FreshInv

LEMMA HandleFresh ==
  ASSUME AlertTypes, FreshInv, NEW p \in Processes, NEW j \in Jobs, HandleFailed(p, j)
  PROVE  FreshInv'
<1>0. /\ UNCHANGED << setup, step, stage, made, stalls, letters >> /\ j \in events[p] /\ j \notin creating[p]
      /\ \/ Handled(p, j) /\ creating' = creating
         \/ StartCreating(p, j) /\ events' = events
  BY HandleEffect DEF dispatchVars, handlerVars
<1>1. (\A k \in Jobs : JobLetters(k)') /\ (\A o \in Operators : OperatorLetters(o)')
  BY <1>0, StillExecutors
<1>2. events \in [Processes -> SUBSET Jobs] /\ creating \in [Processes -> SUBSET Jobs]
  BY DEF AlertTypes, StoreTypes
<1>3. ASSUME NEW q \in Processes PROVE EventLetters(q)'
  <2>1. EventLetters(q)
    BY DEF FreshInv
  <2>2. events'[q] \subseteq events[q] /\ creating'[q] \subseteq events'[q]
    <3>1. CASE Handled(p, j) /\ creating' = creating
      BY <1>0, <1>2, <2>1, <3>1 DEF Handled, EventLetters
    <3>2. CASE StartCreating(p, j) /\ events' = events
      BY <1>0, <1>2, <2>1, <3>2 DEF StartCreating, EventLetters
    <3> QED
      BY <1>0, <3>1, <3>2
  <2> QED
    BY <1>0, <2>1, <2>2 DEF EventLetters, QueueLetter
<1>4. \A i \in DOMAIN letters' : LetterShape(i)'
  BY <1>0 DEF LetterShape, FreshInv
<1> QED
  BY <1>1, <1>3, <1>4 DEF FreshInv

LEMMA PersistFresh ==
  ASSUME AlertTypes, FreshInv, NEW p \in Processes, NEW j \in Jobs, PersistQueueLetter(p, j)
  PROVE  FreshInv'
<1>0. /\ UNCHANGED << setup, step, stage, made, stalls >> /\ j \in creating[p]
      /\ creating' = [creating EXCEPT ![p] = @ \ {j}] /\ Handled(p, j)
      /\ Create(QueueLetter(p, j)) \/ letters' = letters
  BY PersistEffect DEF dispatchVars
<1>l. PICK l : l = QueueLetter(p, j)
  OBVIOUS
<1>m. l.channel = "queue" /\ l.by = j /\ l.run = p /\ l.channel \notin Channels
  BY <1>l DEF QueueLetter, Channels
<1>2. events \in [Processes -> SUBSET Jobs] /\ creating \in [Processes -> SUBSET Jobs] /\ LettersTyped
  BY DEF AlertTypes, StoreTypes, LettersTyped
<1>d. \A i \in DOMAIN letters' : i \in DOMAIN letters \/ i = l
  <2>1. CASE letters' = letters
    BY <2>1
  <2>2. CASE Create(QueueLetter(p, j))
    BY <1>2, <1>l, <2>2, CreateMoves
  <2> QED
    BY <1>0, <2>1, <2>2
<1>1. (\A k \in Jobs : JobLetters(k)') /\ (\A o \in Operators : OperatorLetters(o)')
  BY <1>0, <1>d, <1>m, StillExecutors
<1>f. step[j] = "failed"
  BY <1>0 DEF FreshInv, EventLetters
<1>3. ASSUME NEW q \in Processes PROVE EventLetters(q)'
  <2>1. EventLetters(q)
    BY DEF FreshInv
  <2>2. /\ events'[q] = IF q = p THEN events[q] \ {j} ELSE events[q]
        /\ creating'[q] = IF q = p THEN creating[q] \ {j} ELSE creating[q]
    BY <1>0, <1>2 DEF Handled
  <2>3. ASSUME NEW k \in events'[q] PROVE QueueLetter(q, k) \notin DOMAIN letters'
    <3>1. QueueLetter(q, k).by = k /\ QueueLetter(q, k).run = q
      BY DEF QueueLetter
    <3>2. k \in events[q] /\ ~(q = p /\ k = j)
      BY <2>2, <2>3
    <3>3. QueueLetter(q, k) # l /\ QueueLetter(q, k) \notin DOMAIN letters
      BY <1>m, <2>1, <3>1, <3>2 DEF EventLetters
    <3> QED
      BY <1>d, <3>3
  <2>4. creating'[q] \subseteq events'[q] /\ events'[q] \subseteq events[q]
    BY <2>1, <2>2 DEF EventLetters
  <2> QED
    BY <1>0, <2>1, <2>3, <2>4 DEF EventLetters, QueueLetter
<1>4. \A i \in DOMAIN letters' : LetterShape(i)'
  BY <1>0, <1>d, <1>f, <1>m DEF LetterShape, FreshInv
<1> QED
  BY <1>1, <1>3, <1>4 DEF FreshInv

LEMMA ThrownFresh ==
  ASSUME AlertTypes, AlertTypes', FreshInv, NEW e \in Executors, step[e] \in Running, Thrown(e), setup' = setup,
         UNCHANGED << stalls, creating >>, \A i \in DOMAIN letters' : i \in DOMAIN letters \/ i = ChannelLetter(e)
  PROVE  FreshInv'
<1>1. made \in [Jobs -> Nat] /\ stalls \in [Jobs -> Nat]
  BY DEF AlertTypes, StoreTypes
<1>2. Unmoved(e) /\ \A j \in Jobs : j # e => made'[j] = made[j] /\ stalls'[j] = stalls[j]
  BY <1>1 DEF Thrown
<1>3. e \in Jobs => step'[e] \in { "waiting", "failed" } /\ made' = [made EXCEPT ![e] = @ + 1]
  BY DEF Thrown
<1>4. e \in Jobs => made'[e] + stalls'[e] = made[e] + stalls[e] + 1
  BY <1>1, <1>3
<1>5. e \notin Jobs => step'[e] = "ended"
  BY DEF Thrown
<1>6. events' = events \/ (step'[e] = "failed" /\ events' = [p \in Processes |-> events[p] \cup {e}])
  BY DEF Thrown
<1> QED
  BY <1>2, <1>3, <1>4, <1>5, <1>6, CountedFresh

LEMMA AdvancedOnward ==
  ASSUME AlertTypes, NEW e \in Executors, step[e] \in Running, Advanced(e)
  PROVE  Unmoved(e) /\ Onward(e)
<1>1. stage[e] \in Nat /\ e \in Jobs \cup Operators
  BY DEF AlertTypes, ExecTypes, Executors
<1>2. CASE step'[e] = "enter" /\ stage'[e] = stage[e] + 1
  BY <1>1, <1>2 DEF Advanced, Onward, Running
<1>3. CASE step'[e] = (IF e \in Jobs THEN "completed" ELSE "verify")
  BY <1>3 DEF Advanced, Onward, Running
<1> QED
  BY <1>2, <1>3 DEF Advanced

LEMMA GoneOnward ==
  ASSUME AlertTypes, NEW e \in Executors, step[e] \in Running, NEW l \in { "send", "log", "fail" }, Gone(e, l)
  PROVE  Unmoved(e) /\ Onward(e)
<1>1. stage[e] \in Nat /\ stage'[e] = stage[e] /\ step'[e] = l
  BY DEF AlertTypes, ExecTypes, Gone
<1> QED
  BY <1>1 DEF Gone, Onward, Running

LEMMA RecordFresh ==
  ASSUME AlertTypes, FreshInv, NEW e \in Executors, RecordDeadLetter(e)
  PROVE  FreshInv'
<1>0. /\ AlertTypes' /\ step[e] = "fail" /\ UNCHANGED << setup, stalls, adminVars, handlerVars >>
      /\ Create(ChannelLetter(e)) \/ letters' = letters
      /\ Thrown(e) \/ (Advanced(e) /\ UNCHANGED << made, events >>)
  BY RecordEffect
<1>1. step[e] \in Running /\ UNCHANGED << stalls, creating >>
  BY <1>0 DEF Running, handlerVars
<1>2. \A i \in DOMAIN letters' : i \in DOMAIN letters \/ i = ChannelLetter(e)
  <2>1. CASE letters' = letters
    BY <2>1
  <2>2. CASE Create(ChannelLetter(e))
    <3>1. LettersTyped
      BY DEF AlertTypes, StoreTypes, LettersTyped
    <3>2. PICK l : l = ChannelLetter(e)
      OBVIOUS
    <3>3. DOMAIN letters' = DOMAIN letters \cup {l}
      BY <2>2, <3>1, <3>2, CreateMoves
    <3> QED
      BY <3>2, <3>3
  <2> QED
    BY <1>0, <2>1, <2>2
<1>3. CASE Thrown(e)
  BY <1>0, <1>1, <1>2, <1>3, ThrownFresh
<1>4. CASE Advanced(e) /\ UNCHANGED << made, events >>
  BY <1>0, <1>1, <1>2, <1>4, RecordedFresh
<1> QED
  BY <1>0, <1>3, <1>4

LEMMA LogFailsFresh ==
  ASSUME AlertTypes, FreshInv, NEW e \in Executors, LogFails(e)
  PROVE  FreshInv'
<1>0. /\ AlertTypes' /\ step[e] = "log" /\ UNCHANGED << setup, stalls, letters, creating >>
      /\ \/ Gone(e, "fail") /\ UNCHANGED << made, events >>
         \/ Advanced(e) /\ UNCHANGED << made, events >>
         \/ Thrown(e)
  BY LogFailsEffect DEF otherVars
<1>1. step[e] \in Running
  BY <1>0 DEF Running
<1>2. CASE Thrown(e)
  BY <1>0, <1>1, <1>2, ThrownFresh
<1>3. CASE (Gone(e, "fail") \/ Advanced(e)) /\ UNCHANGED << made, events >>
  <2>1. Unmoved(e) /\ Onward(e)
    BY <1>1, <1>3, AdvancedOnward, GoneOnward
  <2> QED
    BY <1>0, <1>3, <2>1, OnwardFresh
<1> QED
  BY <1>0, <1>2, <1>3

LEMMA CrashFresh ==
  ASSUME AlertTypes, FreshInv, NEW e \in Executors, Crash(e)
  PROVE  FreshInv'
<1>0. /\ AlertTypes' /\ step[e] \in Running /\ Unmoved(e) /\ UNCHANGED << setup, made, letters, creating >>
      /\ \/ e \in Jobs /\ stalls' = [stalls EXCEPT ![e] = @ + 1] /\ step'[e] = "waiting" /\ events' = events
         \/ /\ e \in Jobs /\ stalls' = [stalls EXCEPT ![e] = @ + 1] /\ step'[e] = "failed"
            /\ events' = [p \in Processes |-> events[p] \cup {e}]
         \/ e \notin Jobs /\ step'[e] = "ended" /\ UNCHANGED << stalls, events >>
  BY CrashEffect DEF letterVars, handlerVars
<1>1. made \in [Jobs -> Nat] /\ stalls \in [Jobs -> Nat]
  BY DEF AlertTypes, StoreTypes
<1>2. \A j \in Jobs : j # e => made'[j] = made[j] /\ stalls'[j] = stalls[j]
  BY <1>0, <1>1
<1>3. e \in Jobs => step'[e] \in { "waiting", "failed" } /\ stalls' = [stalls EXCEPT ![e] = @ + 1]
  BY <1>0
<1>4. e \in Jobs => made'[e] + stalls'[e] = made[e] + stalls[e] + 1
  BY <1>0, <1>1, <1>3
<1>5. e \notin Jobs => step'[e] = "ended"
  BY <1>0
<1>6. events' = events \/ (step'[e] = "failed" /\ events' = [p \in Processes |-> events[p] \cup {e}])
  BY <1>0
<1> QED
  BY <1>0, <1>2, <1>3, <1>4, <1>5, <1>6, CountedFresh

LEMMA FreshStep ==
  ASSUME AlertTypes, FreshInv, [Next]_vars
  PROVE  FreshInv'
<1>1. ASSUME NEW j \in Jobs, Start(j) PROVE FreshInv'
  <2>1. AlertTypes' /\ step[j] = "waiting" /\ Begun(j) /\ UNCHANGED << setup, made, stalls, events, creating, letters >>
    BY <1>1, StartEffect DEF restVars
  <2>2. j \in Executors /\ Unmoved(j) /\ Onward(j)
    BY <2>1 DEF Begun, Onward, Executors, Running
  <2> QED
    BY <2>1, <2>2, OnwardFresh
<1>2. ASSUME NEW e \in Executors, Enter(e) PROVE FreshInv'
  <2>1. /\ AlertTypes' /\ step[e] = "enter" /\ (Advanced(e) \/ Gone(e, "send"))
        /\ UNCHANGED << setup, made, stalls, events, creating, letters >>
    BY <1>2, EnterEffect DEF restVars
  <2>2. Unmoved(e) /\ Onward(e)
    BY <2>1, AdvancedOnward, GoneOnward DEF Running
  <2> QED
    BY <2>1, <2>2, OnwardFresh
<1>3. ASSUME NEW e \in Executors, Send(e) PROVE FreshInv'
  <2>1. /\ AlertTypes' /\ step[e] = "send" /\ (Advanced(e) \/ Gone(e, "log") \/ Gone(e, "fail"))
        /\ UNCHANGED << setup, made, stalls, events, creating, letters >>
    BY <1>3, SendEffect DEF restVars
  <2>2. Unmoved(e) /\ Onward(e)
    BY <2>1, AdvancedOnward, GoneOnward DEF Running
  <2> QED
    BY <2>1, <2>2, OnwardFresh
<1>4. ASSUME NEW e \in Executors, Log(e) PROVE FreshInv'
  <2>1. /\ AlertTypes' /\ step[e] = "log" /\ Advanced(e)
        /\ UNCHANGED << setup, made, stalls, events, creating, letters >>
    BY <1>4, LogEffect DEF restVars
  <2>2. Unmoved(e) /\ Onward(e)
    BY <2>1, AdvancedOnward DEF Running
  <2> QED
    BY <2>1, <2>2, OnwardFresh
<1>5. ASSUME NEW e \in Executors, LogFails(e) \/ RecordDeadLetter(e) \/ Crash(e) PROVE FreshInv'
  BY <1>5, LogFailsFresh, RecordFresh, CrashFresh
<1>6. ASSUME NEW c \in Channels, GateExpire(c) PROVE FreshInv'
  <2>1. UNCHANGED << setup, step, stage, made, stalls, events, creating, letters >>
    BY <1>6, ExpireEffect DEF restVars
  <2> QED
    BY <2>1, StillFresh
<1>7. ASSUME NEW p \in Processes, NEW j \in Jobs, HandleFailed(p, j) \/ PersistQueueLetter(p, j) PROVE FreshInv'
  BY <1>7, HandleFresh, PersistFresh
<1>8. ASSUME NEW o \in Operators, Verify(o) PROVE FreshInv'
  <2>1. /\ AlertTypes' /\ step[o] = "verify" /\ Unmoved(o) /\ step'[o] \in { "retried", "pending" }
        /\ UNCHANGED << setup, made, stalls, events, creating, letters >>
    BY <1>8, VerifyEffect DEF replayVars, handlerVars, Gone
  <2>2. o \in Executors /\ Onward(o)
    BY <2>1 DEF Onward, Executors, Running
  <2> QED
    BY <2>1, <2>2, OnwardFresh
<1>9. ASSUME NEW o \in Operators, Update(o) PROVE FreshInv'
  <2>1. /\ AlertTypes' /\ step[o] \in { "retried", "pending" } /\ Unmoved(o) /\ step'[o] = "ended"
        /\ UNCHANGED << setup, made, stalls, events, creating >>
    BY <1>9, UpdateEffect DEF replayVars, handlerVars, Gone
  <2>2. DOMAIN letters' = DOMAIN letters
    BY <1>9 DEF Update, SetLetter
  <2>3. o \in Executors /\ Onward(o)
    BY <2>1 DEF Onward, Executors, Running
  <2> QED
    BY <2>1, <2>2, <2>3, OnwardFresh
<1>10. ASSUME NEW o \in Operators, NEW i, Replay(o, i) PROVE FreshInv'
  <2>1. /\ AlertTypes' /\ step[o] = "unused" /\ Begun(o) /\ UNCHANGED << setup, made, stalls, events, creating, letters >>
    BY <1>10, ReplayEffect DEF replayVars, handlerVars
  <2>2. o \in Executors /\ Unmoved(o) /\ Onward(o)
    BY <2>1, AlertsOK DEF Begun, Onward, Executors, Running
  <2> QED
    BY <2>1, <2>2, OnwardFresh
<1>11. ASSUME NEW j \in Jobs, NEW i, AdminReplay(j, i) PROVE FreshInv'
  <2>1. /\ AlertTypes' /\ step[j] = "unused" /\ Gone(j, "waiting")
        /\ UNCHANGED << setup, made, stalls, events, creating, letters >>
    BY <1>11, AdminEffect DEF handlerVars
  <2>2. j \in Executors /\ Unmoved(j) /\ Onward(j)
    BY <2>1 DEF Gone, Onward, Executors, Running
  <2> QED
    BY <2>1, <2>2, OnwardFresh
<1>12. ASSUME NEW i, Suppress(i) \/ AdminMark(i) PROVE FreshInv'
  <2>1. UNCHANGED << setup, step, stage, made, stalls, events, creating >>
    BY <1>12, SuppressEffect, MarkEffect DEF dispatchVars, handlerVars
  <2>2. DOMAIN letters' = DOMAIN letters
    BY <1>12 DEF Suppress, AdminMark, SetLetter
  <2> QED
    BY <2>1, <2>2, StillFresh
<1>13. ASSUME Reading PROVE FreshInv'
  <2>1. UNCHANGED << setup, step, stage, made, stalls, events, creating, letters >>
    BY <1>13, ReadingEffect DEF dispatchVars, handlerVars
  <2> QED
    BY <2>1, StillFresh
<1>14. ASSUME PurgeDelete \/ UNCHANGED vars PROVE FreshInv'
  <2>1. UNCHANGED << setup, step, stage, made, stalls, events, creating >> /\ DOMAIN letters' = DOMAIN letters
    BY <1>14, PurgeDeleteEffect DEF dispatchVars, handlerVars, vars
  <2> QED
    BY <2>1, StillFresh
<1> QED
  BY <1>1, <1>2, <1>3, <1>4, <1>5, <1>6, <1>7, <1>8, <1>9, <1>10, <1>11, <1>12, <1>13, <1>14
     DEF Next, Reading, Dispatch, Handle, Finish, Quiescent

LEMMA FreshInit ==
  ASSUME Init
  PROVE  FreshInv
<1>1. DOMAIN letters = {} /\ \A p \in Processes : creating[p] = {} /\ events[p] = {}
  BY DEF Init
<1> QED
  BY <1>1 DEF FreshInv, JobLetters, OperatorLetters, EventLetters

(***************************************************************************)
(* That a suppression sticks                                               *)
(***************************************************************************)
Sticks(i) ==
  i \in DOMAIN letters /\ letters[i] = "suppressed" /\ ~InReplay(i)
    => letters'[i] \in { "suppressed", "purged" } /\ (InReplay(i)' => << i, TRUE >> \in picked')

LEMMA MoverSticks ==
  ASSUME NEW i, ~InReplay(i), NEW e \in Executors, step[e] # "ended", Unmoved(e), UNCHANGED << target, marking, picked >>
  PROVE  ~InReplay(i)'
<1>1. i \notin marking /\ ~Picked(i) /\ \A o \in Operators : target[o] = i => step[o] = "ended"
  BY DEF InReplay, Picked
<1>2. \A o \in Operators : target'[o] = i => step'[o] = "ended"
  BY <1>1 DEF Unmoved, Executors
<1> QED
  BY <1>1, <1>2 DEF InReplay, Picked

LEMMA StillSticks ==
  ASSUME NEW i, ~InReplay(i), UNCHANGED << step, target >>, picked' \subseteq picked, i \notin marking => i \notin marking'
  PROVE  ~InReplay(i)'
  BY DEF InReplay, Picked

LEMMA BeginSticks ==
  ASSUME AlertTypes, NEW i, ~InReplay(i), NEW e \in Executors, step[e] # "ended", Unmoved(e), NEW k, k # i,
         target' = [target EXCEPT ![e] = k], marking' \subseteq marking \cup {k}, picked' \subseteq picked
  PROVE  ~InReplay(i)'
<1>1. i \notin marking /\ ~Picked(i) /\ \A o \in Operators : target[o] = i => step[o] = "ended"
  BY DEF InReplay, Picked
<1>2. target'[e] = k /\ \A o \in Executors : o # e => target'[o] = target[o]
  BY DEF AlertTypes, StoreTypes
<1>3. \A o \in Operators : target'[o] = i => step'[o] = "ended"
  BY <1>1, <1>2 DEF Unmoved, Executors
<1> QED
  BY <1>1, <1>3 DEF InReplay, Picked

LEMMA SticksStep ==
  ASSUME AlertTypes, FreshInv, [Next]_vars, NEW i
  PROVE  Sticks(i)
<1> SUFFICES ASSUME i \in DOMAIN letters, letters[i] = "suppressed", ~InReplay(i)
             PROVE  letters'[i] \in { "suppressed", "purged" } /\ (InReplay(i)' => << i, TRUE >> \in picked')
  BY DEF Sticks
<1> DEFINE Goal == letters'[i] \in { "suppressed", "purged" } /\ (InReplay(i)' => << i, TRUE >> \in picked')
<1>0. i \notin marking /\ ~Picked(i) /\ \A o \in Operators : target[o] = i => step[o] = "ended"
  BY DEF InReplay, Picked
<1>t. LettersTyped
  BY DEF AlertTypes, StoreTypes, LettersTyped
<1>m. ASSUME NEW e \in Executors, step[e] # "ended", Unmoved(e), UNCHANGED << target, marking, picked, letters >> PROVE Goal
  BY <1>m, MoverSticks
<1>1. ASSUME NEW j \in Jobs, Start(j) PROVE Goal
  <2>1. j \in Executors /\ step[j] # "ended" /\ Unmoved(j) /\ UNCHANGED << target, marking, picked, letters >>
    BY <1>1, StartEffect DEF restVars, Begun, Executors
  <2> QED
    BY <1>m, <2>1
<1>2. ASSUME NEW e \in Executors, Enter(e) \/ Log(e) PROVE Goal
  <2>1. step[e] # "ended" /\ Unmoved(e) /\ UNCHANGED << target, marking, picked, letters >>
    BY <1>2, EnterEffect, LogEffect DEF restVars, Advanced, Gone
  <2> QED
    BY <1>m, <2>1
<1>3. ASSUME NEW e \in Executors, Send(e) PROVE Goal
  <2>1. step[e] # "ended" /\ Unmoved(e) /\ UNCHANGED << target, marking, picked, letters >>
    BY <1>3, SendEffect DEF restVars, Advanced, Gone
  <2> QED
    BY <1>m, <2>1
<1>4. ASSUME NEW e \in Executors, LogFails(e) PROVE Goal
  <2>1. step[e] # "ended" /\ Unmoved(e) /\ UNCHANGED << target, marking, picked, letters >>
    BY <1>4, LogFailsEffect DEF otherVars, Advanced, Gone, Thrown
  <2> QED
    BY <1>m, <2>1
<1>5. ASSUME NEW e \in Executors, Crash(e) PROVE Goal
  <2>1. step[e] # "ended" /\ Unmoved(e) /\ UNCHANGED << target, marking, picked, letters >>
    BY <1>5, CrashEffect DEF letterVars, adminVars, Running
  <2> QED
    BY <1>m, <2>1
<1>6. ASSUME NEW e \in Executors, RecordDeadLetter(e) PROVE Goal
  <2>1. /\ step[e] = "fail" /\ Unmoved(e) /\ UNCHANGED << target, marking, picked >>
        /\ Create(ChannelLetter(e)) \/ letters' = letters
    BY <1>6, RecordEffect DEF adminVars, Advanced, Thrown
  <2>2. ~InReplay(i)'
    BY <2>1, MoverSticks
  <2>3. ChannelLetter(e) \notin DOMAIN letters
    BY <2>1, NewLetter DEF Running
  <2>4. PICK l : l = ChannelLetter(e)
    OBVIOUS
  <2>5. letters'[i] = letters[i]
    BY <1>t, <2>1, <2>3, <2>4, CreateMoves DEF OthersKept
  <2> QED
    BY <2>2, <2>5
<1>7. ASSUME NEW p \in Processes, NEW j \in Jobs, PersistQueueLetter(p, j) PROVE Goal
  <2>1. /\ UNCHANGED << step, target, marking, picked >> /\ j \in creating[p]
        /\ Create(QueueLetter(p, j)) \/ letters' = letters
    BY <1>7, PersistEffect DEF dispatchVars, adminVars
  <2>2. ~InReplay(i)'
    BY <2>1, StillSticks
  <2>3. QueueLetter(p, j) \notin DOMAIN letters
    BY <2>1 DEF FreshInv, EventLetters
  <2>4. PICK l : l = QueueLetter(p, j)
    OBVIOUS
  <2>5. letters'[i] = letters[i]
    BY <1>t, <2>1, <2>3, <2>4, CreateMoves DEF OthersKept
  <2> QED
    BY <2>2, <2>5
<1>8. ASSUME NEW p \in Processes, NEW j \in Jobs, HandleFailed(p, j) PROVE Goal
  <2>1. UNCHANGED << step, target, marking, picked, letters >>
    BY <1>8, HandleEffect DEF dispatchVars, adminVars
  <2> QED
    BY <2>1, StillSticks
<1>9. ASSUME NEW c \in Channels, GateExpire(c) PROVE Goal
  <2>1. UNCHANGED << step, target, marking, picked, letters >>
    BY <1>9, ExpireEffect DEF restVars
  <2> QED
    BY <2>1, StillSticks
<1>10. ASSUME NEW o \in Operators, Verify(o) PROVE Goal
  <2>1. o \in Executors /\ step[o] # "ended" /\ Unmoved(o) /\ UNCHANGED << target, marking, picked, letters >>
    BY <1>10, VerifyEffect DEF replayVars, Gone, Executors
  <2> QED
    BY <1>m, <2>1
<1>11. ASSUME NEW o \in Operators, Update(o) PROVE Goal
  <2>1. /\ o \in Executors /\ step[o] \in { "retried", "pending" } /\ Unmoved(o) /\ UNCHANGED << target, marking, picked >>
        /\ letters' = letters \/ SetLetter(target[o], step[o])
    BY <1>11, UpdateEffect DEF replayVars, Gone, Executors
  <2>2. ~InReplay(i)'
    BY <2>1, MoverSticks
  <2>3. target[o] # i
    BY <1>0, <2>1
  <2>4. letters'[i] = letters[i]
    BY <1>t, <2>1, <2>3 DEF SetLetter, LettersTyped
  <2> QED
    BY <2>2, <2>4
<1>12. ASSUME NEW o \in Operators, NEW k, Replay(o, k) PROVE Goal
  <2>1. /\ o \in Executors /\ step[o] # "ended" /\ Unmoved(o) /\ UNCHANGED << marking, picked, letters >>
        /\ letters[k] # "suppressed" /\ target' = [target EXCEPT ![o] = k]
    BY <1>12, ReplayEffect DEF replayVars, Begun, Executors
  <2>2. k # i
    BY <2>1
  <2> QED
    BY <2>1, <2>2, BeginSticks
<1>13. ASSUME NEW j \in Jobs, NEW k, AdminReplay(j, k) PROVE Goal
  <2>1. /\ j \in Executors /\ step[j] # "ended" /\ Unmoved(j) /\ letters' = letters /\ marking' = marking \cup {k}
        /\ Picked(k) /\ picked' \subseteq picked /\ target' = [target EXCEPT ![j] = k]
    BY <1>13, AdminEffect DEF Gone, Executors
  <2>2. k # i
    BY <1>0, <2>1
  <2> QED
    BY <2>1, <2>2, BeginSticks
<1>14. ASSUME NEW k, Suppress(k) PROVE Goal
  <2>1. UNCHANGED << step, target, marking, picked >> /\ SetLetter(k, "suppressed")
    BY <1>14, SuppressEffect DEF dispatchVars
  <2>2. letters'[i] = "suppressed"
    BY <1>t, <2>1 DEF SetLetter, LettersTyped
  <2> QED
    BY <2>1, <2>2, StillSticks
<1>15. ASSUME NEW k, AdminMark(k) PROVE Goal
  <2>1. /\ UNCHANGED << step, target, picked >> /\ marking' = marking \ {k} /\ k \in marking
        /\ SetLetter(k, "retried") \/ letters' = letters
    BY <1>15, MarkEffect DEF dispatchVars
  <2>2. k # i
    BY <1>0, <2>1
  <2>3. letters'[i] = letters[i]
    BY <1>t, <2>1, <2>2 DEF SetLetter, LettersTyped
  <2> QED
    BY <2>1, <2>3, StillSticks
<1>16. ASSUME Reading PROVE Goal
  <2>1. UNCHANGED << step, target, marking, letters >>
    BY <1>16, ReadingEffect DEF dispatchVars
  <2>2. CASE picked' \subseteq picked
    BY <2>1, <2>2, StillSticks
  <2>3. CASE \E ids \in SUBSET DOMAIN letters, force \in BOOLEAN : AdminSelect(ids, force)
    <3>1. PICK ids \in SUBSET DOMAIN letters, force \in BOOLEAN : AdminSelect(ids, force)
      BY <2>3
    <3>2. \A k, f : << k, f >> \in picked' /\ << k, f >> \notin picked => f = force /\ (force \/ letters[k] # "suppressed")
      BY <3>1 DEF AdminSelect
    <3>3. Picked(i)' => << i, TRUE >> \in picked'
      BY <1>0, <3>2 DEF Picked
    <3>4. \A o \in Operators : target'[o] = i => step'[o] = "ended"
      BY <1>0, <2>1
    <3>5. InReplay(i)' => Picked(i)'
      BY <1>0, <2>1, <3>4 DEF InReplay, Picked
    <3> QED
      BY <2>1, <3>3, <3>5
  <2>4. CASE \E st \in { "pending", "retried", "suppressed" } : PurgeSelect(st)
    BY <2>2, <2>4 DEF PurgeSelect
  <2>5. CASE \E l \in DOMAIN letters : AdminRefused(l)
    BY <2>2, <2>5 DEF AdminRefused
  <2> QED
    BY <1>16, <2>3, <2>4, <2>5 DEF Reading
<1>17. ASSUME PurgeDelete PROVE Goal
  <2>1. UNCHANGED << step, target, marking, picked >> /\ (letters'[i] = "purged" \/ letters'[i] = letters[i])
    BY <1>17, PurgeDeleteEffect DEF dispatchVars
  <2> QED
    BY <2>1, StillSticks
<1>18. ASSUME UNCHANGED vars PROVE Goal
  <2>1. UNCHANGED << step, target, marking, picked, letters >>
    BY <1>18 DEF vars
  <2> QED
    BY <2>1, StillSticks
<1> HIDE DEF Goal
<1>19. Goal
  BY <1>1, <1>2, <1>3, <1>4, <1>5, <1>6, <1>7, <1>8, <1>9, <1>10, <1>11, <1>12, <1>13, <1>14, <1>15, <1>16, <1>17, <1>18
     DEF Next, Reading, Dispatch, Handle, Finish, Quiescent
<1> QED
  BY <1>19 DEF Goal

\* DeadLettersService.suppress and DlqReplayService.replayJobs: a suppressed letter that
\* no replay has read is not made pending or retried, and only a replay that says force
\* picks it up, for every number of operators, jobs and overlapping requests.
THEOREM SuppressionHolds == Spec => SuppressionSticks
<1>1. Init => AlertTypes /\ FreshInv
  BY TypesInit, FreshInit
<1>2. AlertTypes /\ FreshInv /\ [Next]_vars => (AlertTypes /\ FreshInv)'
  BY TypesStep, FreshStep
<1>3. AlertTypes /\ FreshInv /\ [Next]_vars =>
        [\A i \in DOMAIN letters : letters[i] = "suppressed" /\ ~InReplay(i)
           => /\ letters'[i] \in { "suppressed", "purged" }
              /\ InReplay(i)' => << i, TRUE >> \in picked']_vars
  BY SticksStep DEF Sticks
<1> QED
  BY <1>1, <1>2, <1>3, PTL DEF Spec, SuppressionSticks

(***************************************************************************)
(* That no failure is lost                                                 *)
(***************************************************************************)
LEMMA CalmFacts == Calm => "db" \notin faults /\ "crash" \notin faults
  BY DEF Calm

\* Rows are never removed: a purged row keeps its place as such.
LEMMA RowsStay ==
  ASSUME AlertTypes, [Next]_vars
  PROVE  DOMAIN letters \subseteq DOMAIN letters'
<1>1. letters' = letters => DOMAIN letters \subseteq DOMAIN letters'
  OBVIOUS
<1>2. \A l : Create(l) => DOMAIN letters \subseteq DOMAIN letters'
  BY DEF Create
<1>3. \A l, st : SetLetter(l, st) => DOMAIN letters \subseteq DOMAIN letters'
  BY DEF SetLetter
<1>4. \A j \in Jobs : Start(j) => letters' = letters
  BY DEF Start, letterVars
<1>5. \A e \in Executors : Enter(e) \/ Send(e) \/ Log(e) \/ LogFails(e) \/ Crash(e) => letters' = letters
  BY DEF Enter, Send, Log, LogFails, Crash, letterVars
<1>6. \A e \in Executors : RecordDeadLetter(e) => Create(ChannelLetter(e)) \/ letters' = letters
  BY DEF RecordDeadLetter
<1>7. \A c \in Channels : GateExpire(c) => letters' = letters
  BY DEF GateExpire, letterVars
<1>8. \A p \in Processes, j \in Jobs : HandleFailed(p, j) => letters' = letters
  BY DEF HandleFailed
<1>9. \A p \in Processes, j \in Jobs : PersistQueueLetter(p, j) => Create(QueueLetter(p, j)) \/ letters' = letters
  BY DEF PersistQueueLetter
<1>10. \A o \in Operators : /\ Verify(o) => letters' = letters
                            /\ Update(o) => letters' = letters \/ SetLetter(target[o], step[o])
  BY DEF Verify, Update
<1>11. \A i : /\ \A o \in Operators : Replay(o, i) => letters' = letters
              /\ \A j \in Jobs : AdminReplay(j, i) => letters' = letters
              /\ Suppress(i) => SetLetter(i, "suppressed")
              /\ AdminMark(i) => letters' = letters \/ SetLetter(i, "retried")
  BY DEF Replay, AdminReplay, Suppress, AdminMark
<1>12. Reading => letters' = letters
  BY DEF Reading, PurgeSelect, AdminSelect, AdminRefused
<1>13. /\ UNCHANGED vars => letters' = letters
       /\ PurgeDelete => DOMAIN letters' = DOMAIN letters
  BY DEF vars, PurgeDelete
<1> QED
  BY <1>1, <1>2, <1>3, <1>4, <1>5, <1>6, <1>7, <1>8, <1>9, <1>10, <1>11, <1>12, <1>13
     DEF Next, Reading, Dispatch, Handle, Finish, Quiescent

\* A channel in somebody's hands stays there until it is delivered or has its letter.
HandKept(c) == InHand(c) => InHand(c)' \/ record'[c] = "sent" \/ \E i \in DOMAIN letters' : i.channel = c

LEMMA OthersHand ==
  ASSUME NEW e, Unmoved(e), setup' = setup, NEW c,
         e \in Executors => step[e] \notin { "send", "log", "fail" } \/ Channel(e) # c
  PROVE  HandKept(c)
<1> SUFFICES ASSUME InHand(c) PROVE InHand(c)'
  BY DEF HandKept
<1>1. PICK x \in Executors : step[x] \in { "send", "log", "fail" } /\ Channel(x) = c
  BY DEF InHand
<1>2. step'[x] = step[x] /\ Channel(x)' = Channel(x)
  BY <1>1, OthersSame
<1> QED
  BY <1>1, <1>2 DEF InHand

LEMMA StillHand ==
  ASSUME UNCHANGED << setup, step, stage >>, NEW c
  PROVE  HandKept(c)
<1>1. Unmoved(Nobody) /\ Nobody \notin Executors
  BY AlertsOK DEF Unmoved
<1> QED
  BY <1>1, OthersHand

LEMMA GoneHand ==
  ASSUME NEW e \in Executors, NEW l \in { "send", "log", "fail" }, Gone(e, l), setup' = setup, NEW c
  PROVE  HandKept(c)
<1>1. Channel(e)' = Channel(e) /\ step'[e] = l /\ Unmoved(e)
  BY DEF Gone, Channel, route
<1>2. CASE Channel(e) = c
  BY <1>1, <1>2 DEF HandKept, InHand
<1>3. CASE Channel(e) # c
  BY <1>1, <1>3, OthersHand
<1> QED
  BY <1>2, <1>3

LEMMA HandStep ==
  ASSUME AlertTypes, [Next]_vars, Calm, NEW c \in Throwing
  PROVE  HandKept(c)
<1>c. c \in Channels /\ c \notin Checked /\ c # "telegram" /\ "db" \notin faults /\ "crash" \notin faults
  BY ChannelKinds, CalmFacts
<1>1. ASSUME NEW j \in Jobs, Start(j) PROVE HandKept(c)
  <2>1. Unmoved(j) /\ step[j] = "waiting" /\ setup' = setup
    BY <1>1, StartEffect DEF Begun
  <2> QED
    BY <2>1, OthersHand
<1>2. ASSUME NEW e \in Executors, Enter(e) PROVE HandKept(c)
  <2>1. Unmoved(e) /\ step[e] = "enter" /\ setup' = setup
    BY <1>2, EnterEffect DEF Advanced, Gone
  <2> QED
    BY <2>1, OthersHand
<1>3. ASSUME NEW e \in Executors, Send(e) PROVE HandKept(c)
  <2>1. /\ setup' = setup
        /\ \/ Gone(e, "log") \/ Gone(e, "fail")
           \/ Channel(e) # c /\ Unmoved(e)
    BY <1>c, <1>3, SendEffect DEF Advanced
  <2> QED
    BY <2>1, GoneHand, OthersHand
<1>4. ASSUME NEW e \in Executors, Log(e) PROVE HandKept(c)
  <2>1. setup' = setup /\ Unmoved(e) /\ record' = [record EXCEPT ![Channel(e)] = "sent"]
    BY <1>4, LogEffect DEF Advanced
  <2>2. CASE Channel(e) # c
    BY <2>1, <2>2, OthersHand
  <2>3. CASE Channel(e) = c
    <3>1. record'[c] = "sent"
      BY <1>c, <2>1, <2>3 DEF AlertTypes, StoreTypes
    <3> QED
      BY <3>1 DEF HandKept
  <2> QED
    BY <2>2, <2>3
<1>5. \A e \in Executors : ~LogFails(e) /\ ~Crash(e)
  BY <1>c DEF LogFails, Crash
<1>6. ASSUME NEW e \in Executors, RecordDeadLetter(e) PROVE HandKept(c)
  <2>1. setup' = setup /\ Unmoved(e) /\ step[e] = "fail" /\ Create(ChannelLetter(e))
    BY <1>c, <1>6, RecordEffect DEF Advanced, Thrown
  <2>2. CASE Channel(e) # c
    BY <2>1, <2>2, OthersHand
  <2>3. CASE Channel(e) = c
    <3>1. PICK l : l = ChannelLetter(e)
      OBVIOUS
    <3>2. LettersTyped /\ step[e] \in Running
      BY <2>1 DEF AlertTypes, StoreTypes, LettersTyped, Running
    <3>l. DOMAIN letters' = DOMAIN letters \cup {l}
      BY <2>1, <3>1, <3>2, CreateMoves
    <3>m. l.channel = c
      BY <2>3, <3>1, <3>2, LetterName
    <3>3. l \in DOMAIN letters' /\ l.channel = c
      BY <3>l, <3>m
    <3> QED
      BY <3>3 DEF HandKept
  <2> QED
    BY <2>2, <2>3
<1>7. ASSUME NEW d \in Channels, GateExpire(d) PROVE HandKept(c)
  BY <1>7, ExpireEffect, StillHand
<1>8. ASSUME NEW p \in Processes, NEW j \in Jobs, HandleFailed(p, j) \/ PersistQueueLetter(p, j) PROVE HandKept(c)
  <2>1. UNCHANGED << setup, step, stage >>
    BY <1>8, HandleEffect, PersistEffect DEF dispatchVars
  <2> QED
    BY <2>1, StillHand
<1>9. ASSUME NEW o \in Operators, Verify(o) \/ Update(o) PROVE HandKept(c)
  <2>1. setup' = setup /\ Unmoved(o) /\ step[o] \in { "verify", "retried", "pending" }
    BY <1>9, VerifyEffect, UpdateEffect DEF replayVars, Gone
  <2> QED
    BY <2>1, OthersHand
<1>10. ASSUME NEW o \in Operators, NEW i, Replay(o, i) PROVE HandKept(c)
  <2>1. setup' = setup /\ Unmoved(o) /\ step[o] = "unused"
    BY <1>10, ReplayEffect DEF replayVars, Begun
  <2> QED
    BY <2>1, OthersHand
<1>11. ASSUME NEW j \in Jobs, NEW i, AdminReplay(j, i) PROVE HandKept(c)
  <2>1. setup' = setup /\ Unmoved(j) /\ step[j] = "unused"
    BY <1>11, AdminEffect DEF Gone
  <2> QED
    BY <2>1, OthersHand
<1>12. ASSUME NEW i, Suppress(i) \/ AdminMark(i) PROVE HandKept(c)
  <2>1. UNCHANGED << setup, step, stage >>
    BY <1>12, SuppressEffect, MarkEffect DEF dispatchVars
  <2> QED
    BY <2>1, StillHand
<1>13. ASSUME Reading PROVE HandKept(c)
  <2>1. UNCHANGED << setup, step, stage >>
    BY <1>13, ReadingEffect DEF dispatchVars
  <2> QED
    BY <2>1, StillHand
<1>14. ASSUME PurgeDelete \/ UNCHANGED vars PROVE HandKept(c)
  <2>1. UNCHANGED << setup, step, stage >>
    BY <1>14, PurgeDeleteEffect DEF dispatchVars, vars
  <2> QED
    BY <2>1, StillHand
<1> QED
  BY <1>1, <1>2, <1>3, <1>4, <1>5, <1>6, <1>7, <1>8, <1>9, <1>10, <1>11, <1>12, <1>13, <1>14
     DEF Next, Reading, Dispatch, Handle, Finish, Quiescent

LEMMA CoveredStep ==
  ASSUME AlertTypes, [Next]_vars, Calm, NEW c, Covered(c)
  PROVE  Covered(c)'
<1> SUFFICES ASSUME c \in Throwing
             PROVE  record'[c] = "sent" \/ InHand(c)' \/ \E i \in DOMAIN letters' : i.channel = c
  BY DEF Covered
<1>1. record[c] = "sent" \/ InHand(c) \/ \E i \in DOMAIN letters : i.channel = c
  BY DEF Covered
<1>2. record[c] = "sent" => record'[c] = "sent"
  BY RecordStep, ChannelKinds DEF RecordKept
<1>3. HandKept(c)
  BY HandStep
<1>4. DOMAIN letters \subseteq DOMAIN letters'
  BY RowsStay
<1> QED
  BY <1>1, <1>2, <1>3, <1>4 DEF HandKept

LEMMA QuietHolder ==
  ASSUME HolderInv, NEW e, Unmoved(e), e \in Executors => step[e] \notin { "send", "log" }, gate' = gate, setup' = setup
  PROVE  HolderInv'
<1> SUFFICES ASSUME NEW c \in Gated, NEW x \in Executors, gate'[c] = x PROVE Sending(x, c)'
  BY DEF HolderInv
<1>1. Sending(x, c)
  BY DEF HolderInv
<1>2. x # e
  BY <1>1 DEF Sending
<1> QED
  BY <1>1, <1>2, OthersSame DEF Sending

LEMMA StillHolder ==
  ASSUME HolderInv, UNCHANGED << setup, step, stage, gate >>
  PROVE  HolderInv'
<1>1. Unmoved(Nobody) /\ Nobody \notin Executors
  BY AlertsOK DEF Unmoved
<1> QED
  BY <1>1, QuietHolder

LEMMA EnterHolder ==
  ASSUME AlertTypes, HolderInv, NEW e \in Executors, Enter(e)
  PROVE  HolderInv'
<1> DEFINE d == Channel(e)
<1>0. /\ d \in Channels /\ step[e] = "enter" /\ setup' = setup
      /\ \/ Advanced(e) /\ gate' = gate
         \/ Gone(e, "send") /\ gate' = (IF d \in Gated THEN [gate EXCEPT ![d] = e] ELSE gate)
  BY EnterEffect
<1>1. CASE gate' = gate
  <2>1. Unmoved(e)
    BY <1>0 DEF Advanced, Gone
  <2> QED
    BY <1>0, <1>1, <2>1, QuietHolder
<1>2. CASE Gone(e, "send") /\ d \in Gated /\ gate' = [gate EXCEPT ![d] = e]
  <2>1. Channel(e)' = d /\ step'[e] = "send" /\ Unmoved(e)
    BY <1>0, <1>2 DEF Gone, Channel, route
  <2>2. gate \in [Channels -> Executors \cup {Nobody}]
    BY DEF AlertTypes, StoreTypes
  <2> HIDE DEF d
  <2> SUFFICES ASSUME NEW c \in Gated, NEW x \in Executors, gate'[c] = x PROVE Sending(x, c)'
    BY DEF HolderInv
  <2>3. CASE c = d
    <3>1. x = e
      BY <1>0, <1>2, <2>2, <2>3
    <3> QED
      BY <2>1, <2>3, <3>1 DEF Sending
  <2>4. CASE c # d
    <3>1. gate[c] = x
      BY <1>2, <2>2, <2>4, ChannelKinds
    <3>2. Sending(x, c)
      BY <3>1 DEF HolderInv
    <3>3. x # e
      BY <1>0, <3>2 DEF Sending
    <3> QED
      BY <1>0, <2>1, <3>2, <3>3, OthersSame DEF Sending
  <2> QED
    BY <2>3, <2>4
<1> QED
  BY <1>0, <1>1, <1>2

\* Who stops sending to a channel with a gate has let go of it.
LEMMA LeaveHolder ==
  ASSUME AlertTypes, HolderInv, NEW e \in Executors, Unmoved(e), setup' = setup, NEW d, d = Channel(e), d \in Channels,
         gate' = ReleaseGate(e, d) \/ (gate' = gate /\ d \notin Gated)
  PROVE  HolderInv'
<1> SUFFICES ASSUME NEW c \in Gated, NEW x \in Executors, gate'[c] = x PROVE Sending(x, c)'
  BY DEF HolderInv
<1>1. gate \in [Channels -> Executors \cup {Nobody}] /\ c \in Channels /\ x # Nobody
  BY ChannelKinds, AlertsOK DEF AlertTypes, StoreTypes
<1>2. gate[c] = x
  BY <1>1 DEF ReleaseGate
<1>3. Sending(x, c)
  BY <1>2 DEF HolderInv
<1>4. x # e
  <2> SUFFICES ASSUME x = e PROVE FALSE
    OBVIOUS
  <2>1. c = d
    BY <1>3 DEF Sending
  <2> QED
    BY <1>1, <1>2, <2>1 DEF ReleaseGate
<1> QED
  BY <1>3, <1>4, OthersSame DEF Sending

LEMMA SendHolder ==
  ASSUME AlertTypes, HolderInv, NEW e \in Executors, Send(e)
  PROVE  HolderInv'
<1>1. PICK d : d = Channel(e)
  OBVIOUS
<1>0. /\ d \in Channels /\ step[e] = "send" /\ setup' = setup
      /\ \/ d \notin Gated /\ Unmoved(e) /\ gate' = gate
         \/ Gone(e, "log") /\ gate' = gate
         \/ Unmoved(e) /\ gate' = ReleaseGate(e, d)
  BY <1>1, SendEffect, ChannelKinds DEF Advanced, Gone
<1>2. CASE Gone(e, "log") /\ gate' = gate
  <2>1. Channel(e)' = d /\ step'[e] = "log" /\ Unmoved(e)
    BY <1>0, <1>1, <1>2 DEF Gone, Channel, route
  <2> SUFFICES ASSUME NEW c \in Gated, NEW x \in Executors, gate'[c] = x PROVE Sending(x, c)'
    BY DEF HolderInv
  <2>2. Sending(x, c)
    BY <1>2 DEF HolderInv
  <2> QED
    BY <1>0, <1>1, <2>1, <2>2, OthersSame DEF Sending
<1>3. CASE Unmoved(e) /\ (gate' = ReleaseGate(e, d) \/ (gate' = gate /\ d \notin Gated))
  BY <1>0, <1>1, <1>3, LeaveHolder
<1> QED
  BY <1>0, <1>2, <1>3

LEMMA HolderStep ==
  ASSUME AlertTypes, HolderInv, [Next]_vars, Calm
  PROVE  HolderInv'
<1>c. \A e \in Executors : ~LogFails(e) /\ ~Crash(e)
  BY CalmFacts DEF LogFails, Crash
<1>1. ASSUME NEW j \in Jobs, Start(j) PROVE HolderInv'
  <2>1. Unmoved(j) /\ step[j] = "waiting" /\ UNCHANGED << gate, setup >>
    BY <1>1, StartEffect DEF Begun
  <2> QED
    BY <2>1, QuietHolder
<1>2. ASSUME NEW e \in Executors, RecordDeadLetter(e) PROVE HolderInv'
  <2>1. Unmoved(e) /\ step[e] = "fail" /\ UNCHANGED << gate, setup >>
    BY <1>2, RecordEffect DEF Advanced, Thrown
  <2> QED
    BY <2>1, QuietHolder
<1>3. ASSUME NEW e \in Executors, Log(e) PROVE HolderInv'
  <2>1. PICK d : d = Channel(e)
    OBVIOUS
  <2>2. Unmoved(e) /\ setup' = setup /\ d \in Channels /\ gate' = ReleaseGate(e, d)
    BY <1>3, <2>1, LogEffect DEF Advanced
  <2> QED
    BY <2>1, <2>2, LeaveHolder
<1>4. ASSUME NEW c \in Channels, GateExpire(c) PROVE HolderInv'
  <2>1. UNCHANGED << setup, step, stage >> /\ gate' = [gate EXCEPT ![c] = Nobody]
    BY <1>4, ExpireEffect
  <2>2. gate \in [Channels -> Executors \cup {Nobody}] /\ Nobody \notin Executors
    BY AlertsOK DEF AlertTypes, StoreTypes
  <2>3. \A d \in Gated : \A x \in Executors : gate'[d] = x => gate[d] = x
    BY <2>1, <2>2, ChannelKinds
  <2>4. \A x, d : Sending(x, d) => Sending(x, d)'
    BY <2>1 DEF Sending, Channel, route
  <2> QED
    BY <2>3, <2>4 DEF HolderInv
<1>5. ASSUME NEW p \in Processes, NEW j \in Jobs, HandleFailed(p, j) \/ PersistQueueLetter(p, j) PROVE HolderInv'
  <2>1. UNCHANGED << setup, step, stage, gate >>
    BY <1>5, HandleEffect, PersistEffect DEF dispatchVars
  <2> QED
    BY <2>1, StillHolder
<1>6. ASSUME NEW o \in Operators, Verify(o) \/ Update(o) PROVE HolderInv'
  <2>1. UNCHANGED << setup, gate >> /\ Unmoved(o) /\ step[o] \in { "verify", "retried", "pending" }
    BY <1>6, VerifyEffect, UpdateEffect DEF replayVars, Gone
  <2> QED
    BY <2>1, QuietHolder
<1>7. ASSUME NEW o \in Operators, NEW i, Replay(o, i) PROVE HolderInv'
  <2>1. UNCHANGED << setup, gate >> /\ Unmoved(o) /\ step[o] = "unused"
    BY <1>7, ReplayEffect DEF replayVars, Begun
  <2> QED
    BY <2>1, QuietHolder
<1>8. ASSUME NEW j \in Jobs, NEW i, AdminReplay(j, i) PROVE HolderInv'
  <2>1. UNCHANGED << setup, gate >> /\ Unmoved(j) /\ step[j] = "unused"
    BY <1>8, AdminEffect DEF Gone
  <2> QED
    BY <2>1, QuietHolder
<1>9. ASSUME NEW i, Suppress(i) \/ AdminMark(i) PROVE HolderInv'
  <2>1. UNCHANGED << setup, step, stage, gate >>
    BY <1>9, SuppressEffect, MarkEffect DEF dispatchVars
  <2> QED
    BY <2>1, StillHolder
<1>10. ASSUME Reading PROVE HolderInv'
  <2>1. UNCHANGED << setup, step, stage, gate >>
    BY <1>10, ReadingEffect DEF dispatchVars
  <2> QED
    BY <2>1, StillHolder
<1>11. ASSUME PurgeDelete \/ UNCHANGED vars PROVE HolderInv'
  <2>1. UNCHANGED << setup, step, stage, gate >>
    BY <1>11, PurgeDeleteEffect DEF dispatchVars, vars
  <2> QED
    BY <2>1, StillHolder
<1>12. ASSUME NEW e \in Executors, Enter(e) \/ Send(e) PROVE HolderInv'
  BY <1>12, EnterHolder, SendHolder
<1> QED
  BY <1>c, <1>1, <1>2, <1>3, <1>4, <1>5, <1>6, <1>7, <1>8, <1>9, <1>10, <1>11, <1>12
     DEF Next, Reading, Dispatch, Handle, Finish, Quiescent

CoverKept == \A c \in Channels : Covered(c) => Covered(c)'
HeardKept == step[First] = "failed" /\ made[First] >= MaxAttempts /\ Heard => Heard'

LEMMA HeardGrows ==
  ASSUME DOMAIN letters \subseteq DOMAIN letters', \A p \in Processes : events[p] \subseteq events'[p]
  PROVE  HeardKept
  BY DEF HeardKept, Heard, QueueTold

LEMMA FirstSame ==
  ASSUME FirstInv, NEW e, e # First, Unmoved(e), setup' = setup, made'[First] = made[First], CoverKept, HeardKept
  PROVE  FirstInv'
<1>1. step'[First] = step[First] /\ stage'[First] = stage[First]
  BY AlertsOK DEF Unmoved, Executors
<1>2. \A c : Passed(First, c)' <=> Passed(First, c)
  BY <1>1, PassedSame
<1>3. (\A c : InRoute(c)' <=> InRoute(c)) /\ MaxAttempts' = MaxAttempts
  BY DEF InRoute, route, MaxAttempts
<1>4. step'[First] = "failed" => made'[First] >= MaxAttempts' /\ Heard'
  BY <1>1, <1>3 DEF FirstInv, HeardKept
<1>5. step'[First] \in Running => \A c \in Channels : Passed(First, c)' => Covered(c)'
  BY <1>1, <1>2 DEF FirstInv, CoverKept
<1>6. step'[First] = "completed" => \A c \in Channels : InRoute(c)' => Covered(c)'
  BY <1>1, <1>3 DEF FirstInv, CoverKept
<1> QED
  BY <1>1, <1>4, <1>5, <1>6 DEF FirstInv

LEMMA FirstAdvanced ==
  ASSUME AlertTypes, FirstInv, step[First] \in Running, Advanced(First), setup' = setup, CoverKept,
         NEW d, d = Channel(First), Covered(d)'
  PROVE  FirstInv'
<1>0. First \in Jobs /\ First \in Executors
  BY AlertsOK DEF Executors
<1>1. Len(route) \in Nat /\ stage[First] \in 1..Len(route) /\ d = route[stage[First]] /\ route' = route
  BY <1>0, RouteFacts, ChannelFact DEF route
<1>2. \A c \in Channels : Passed(First, c) => Covered(c)'
  BY DEF FirstInv, CoverKept
<1>3. ASSUME NEW k \in 1..Len(route), k <= stage[First], NEW c \in Channels, c = route[k] PROVE Covered(c)'
  <2>1. CASE k = stage[First]
    BY <1>1, <1>3, <2>1
  <2>2. CASE k < stage[First]
    BY <1>2, <1>3, <2>2 DEF Passed
  <2> QED
    BY <1>1, <1>3, <2>1, <2>2
<1>4. CASE step'[First] = "enter" /\ stage'[First] = stage[First] + 1
  <2>1. ASSUME NEW c \in Channels, Passed(First, c)' PROVE Covered(c)'
    <3>1. PICK k \in 1..Len(route) : k < stage[First] + 1 /\ route[k] = c
      BY <1>1, <1>4, <2>1 DEF Passed
    <3>2. k <= stage[First]
      BY <1>1, <3>1
    <3> QED
      BY <1>3, <3>1, <3>2
  <2> QED
    BY <1>4, <2>1 DEF FirstInv
<1>5. CASE step'[First] = "completed" /\ stage[First] = Len(route)
  <2>1. ASSUME NEW c \in Channels, InRoute(c)' PROVE Covered(c)'
    <3>1. PICK k \in 1..Len(route) : route[k] = c
      BY <1>1, <2>1 DEF InRoute
    <3>2. k <= stage[First]
      BY <1>1, <1>5, <3>1
    <3> QED
      BY <1>3, <3>1, <3>2
  <2>2. "completed" \notin Running
    BY DEF Running
  <2> QED
    BY <1>5, <2>1, <2>2 DEF FirstInv
<1> QED
  BY <1>0, <1>4, <1>5 DEF Advanced

LEMMA FirstGone ==
  ASSUME FirstInv, step[First] \in Running, NEW l \in { "send", "log", "fail" }, Gone(First, l), setup' = setup, CoverKept
  PROVE  FirstInv'
<1>1. step'[First] = l /\ stage'[First] = stage[First]
  BY DEF Gone
<1>2. \A c : Passed(First, c)' <=> Passed(First, c)
  BY <1>1, PassedSame
<1> QED
  BY <1>1, <1>2 DEF FirstInv, CoverKept, Running

LEMMA FirstThrown ==
  ASSUME AlertTypes, FirstInv, step[First] \in Running, Thrown(First), setup' = setup
  PROVE  FirstInv'
<1>0. First \in Jobs /\ Processes # {} /\ MaxAttempts' = MaxAttempts /\ made \in [Jobs -> Nat]
  BY AlertsOK DEF MaxAttempts, AlertTypes, StoreTypes
<1>1. CASE step'[First] = "waiting"
  BY <1>1 DEF FirstInv, Running
<1>2. CASE /\ step'[First] = "failed" /\ events' = [p \in Processes |-> events[p] \cup {First}]
           /\ made' = [made EXCEPT ![First] = @ + 1] /\ made[First] + 1 >= MaxAttempts
  <2>1. made'[First] >= MaxAttempts'
    BY <1>0, <1>2
  <2>2. Heard'
    BY <1>0, <1>2 DEF Heard
  <2> QED
    BY <1>2, <2>1, <2>2 DEF FirstInv, Running
<1> QED
  BY <1>0, <1>1, <1>2 DEF Thrown

\* An execution other than the payment's job moves, and events are only added.
LEMMA OtherFirst ==
  ASSUME FirstInv, NEW e, e # First, Unmoved(e), setup' = setup, made'[First] = made[First], CoverKept,
         DOMAIN letters \subseteq DOMAIN letters', \A p \in Processes : events[p] \subseteq events'[p]
  PROVE  FirstInv'
  BY FirstSame, HeardGrows

LEMMA StillFirst ==
  ASSUME FirstInv, UNCHANGED << setup, step, stage, made >>, CoverKept, HeardKept
  PROVE  FirstInv'
<1>1. Unmoved(Nobody) /\ Nobody # First
  BY AlertsOK DEF Unmoved, Executors
<1> QED
  BY <1>1, FirstSame

LEMMA EnterFirst ==
  ASSUME AlertTypes, HolderInv, FirstInv, CoverKept, DOMAIN letters \subseteq DOMAIN letters', NEW e \in Executors, Enter(e)
  PROVE  FirstInv'
<1>1. PICK d : d = Channel(e)
  OBVIOUS
<1>0. /\ d \in Channels /\ step[e] = "enter" /\ UNCHANGED << setup, made, events >>
      /\ \/ /\ Advanced(e)
            /\ record[d] = "sent" \/ (d \in Gated /\ gate[d] # Nobody)
         \/ Gone(e, "send")
  BY <1>1, EnterEffect DEF restVars
<1>2. CASE e # First
  <2>1. Unmoved(e)
    BY <1>0 DEF Advanced, Gone
  <2> QED
    BY <1>0, <1>2, <2>1, OtherFirst
<1>3. CASE e = First /\ Gone(e, "send")
  BY <1>0, <1>3, FirstGone DEF Running
<1>4. CASE /\ e = First /\ Advanced(e)
           /\ record[d] = "sent" \/ (d \in Gated /\ gate[d] # Nobody)
  <2>1. Covered(d)
    <3>1. CASE record[d] = "sent"
      BY <3>1 DEF Covered
    <3>2. CASE d \in Gated /\ gate[d] # Nobody
      <4>1. PICK x \in Executors : gate[d] = x
        BY <1>0, <3>2 DEF AlertTypes, StoreTypes
      <4>2. Sending(x, d)
        BY <3>2, <4>1 DEF HolderInv
      <4> QED
        BY <4>1, <4>2 DEF Covered, InHand, Sending
    <3> QED
      BY <1>4, <3>1, <3>2
  <2>2. Covered(d)'
    BY <1>0, <2>1 DEF CoverKept
  <2> QED
    BY <1>0, <1>1, <1>4, <2>2, FirstAdvanced DEF Running
<1> QED
  BY <1>0, <1>2, <1>3, <1>4

LEMMA SendFirst ==
  ASSUME AlertTypes, FirstInv, CoverKept, DOMAIN letters \subseteq DOMAIN letters', NEW e \in Executors, Send(e)
  PROVE  FirstInv'
<1>1. PICK d : d = Channel(e)
  OBVIOUS
<1>0. /\ step[e] = "send" /\ UNCHANGED << setup, made, events >>
      /\ \/ Advanced(e) /\ d \notin Throwing
         \/ Gone(e, "log") \/ Gone(e, "fail")
  BY <1>1, SendEffect, ChannelKinds DEF restVars
<1>2. CASE e # First
  <2>1. Unmoved(e)
    BY <1>0 DEF Advanced, Gone
  <2> QED
    BY <1>0, <1>2, <2>1, OtherFirst
<1>3. CASE e = First /\ (Gone(e, "log") \/ Gone(e, "fail"))
  BY <1>0, <1>3, FirstGone DEF Running
<1>4. CASE e = First /\ Advanced(e) /\ d \notin Throwing
  <2>1. Covered(d)'
    BY <1>4 DEF Covered
  <2> QED
    BY <1>0, <1>1, <1>4, <2>1, FirstAdvanced DEF Running
<1> QED
  BY <1>0, <1>2, <1>3, <1>4

LEMMA LogFirst ==
  ASSUME AlertTypes, FirstInv, CoverKept, DOMAIN letters \subseteq DOMAIN letters', NEW e \in Executors, Log(e)
  PROVE  FirstInv'
<1>1. PICK d : d = Channel(e)
  OBVIOUS
<1>0. /\ d \in Channels /\ step[e] = "log" /\ UNCHANGED << setup, made, events >> /\ Advanced(e)
      /\ record' = [record EXCEPT ![d] = "sent"]
  BY <1>1, LogEffect DEF restVars
<1>2. CASE e # First
  <2>1. Unmoved(e)
    BY <1>0 DEF Advanced
  <2> QED
    BY <1>0, <1>2, <2>1, OtherFirst
<1>3. CASE e = First
  <2>1. record'[d] = "sent"
    BY <1>0 DEF AlertTypes, StoreTypes
  <2>2. Covered(d)'
    BY <2>1 DEF Covered
  <2> QED
    BY <1>0, <1>1, <1>3, <2>2, FirstAdvanced DEF Running
<1> QED
  BY <1>2, <1>3

LEMMA RecordFirst ==
  ASSUME AlertTypes, FirstInv, Calm, CoverKept, DOMAIN letters \subseteq DOMAIN letters', NEW e \in Executors, RecordDeadLetter(e)
  PROVE  FirstInv'
<1>1. PICK d : d = Channel(e)
  OBVIOUS
<1>0. /\ step[e] = "fail" /\ setup' = setup /\ Create(ChannelLetter(e))
      /\ Thrown(e) \/ (Advanced(e) /\ UNCHANGED << made, events >>)
  BY RecordEffect, CalmFacts
<1>r. step[e] \in Running
  BY <1>0 DEF Running
<1>2. CASE e # First
  <2>1. Unmoved(e)
    BY <1>0 DEF Advanced, Thrown
  <2>2. made \in [Jobs -> Nat] /\ events \in [Processes -> SUBSET Jobs] /\ First \in Jobs
    BY AlertsOK DEF AlertTypes, StoreTypes
  <2>3. made'[First] = made[First]
    BY <1>0, <1>2, <2>2 DEF Thrown
  <2>4. \A p \in Processes : events[p] \subseteq events'[p]
    BY <1>0, <2>2 DEF Thrown
  <2> QED
    BY <1>0, <1>2, <2>1, <2>3, <2>4, OtherFirst
<1>3. CASE e = First /\ Thrown(e)
  BY <1>0, <1>r, <1>3, FirstThrown
<1>4. CASE e = First /\ Advanced(e)
  <2>1. PICK l : l = ChannelLetter(e)
    OBVIOUS
  <2>2. LettersTyped
    BY DEF AlertTypes, StoreTypes, LettersTyped
  <2>l. DOMAIN letters' = DOMAIN letters \cup {l}
    BY <1>0, <2>1, <2>2, CreateMoves
  <2>m. l.channel = d
    BY <1>1, <1>r, <2>1, LetterName
  <2>3. l \in DOMAIN letters' /\ l.channel = d
    BY <2>l, <2>m
  <2>4. Covered(d)'
    BY <2>3 DEF Covered
  <2> QED
    BY <1>0, <1>1, <1>r, <1>4, <2>4, FirstAdvanced
<1> QED
  BY <1>0, <1>2, <1>3, <1>4

LEMMA HandleFirst ==
  ASSUME AlertTypes, FirstInv, CoverKept, NEW p \in Processes, NEW j \in Jobs, HandleFailed(p, j)
  PROVE  FirstInv'
<1>0. /\ UNCHANGED << setup, step, stage, made, letters >>
      /\ \/ made[j] < MaxAttempts /\ Handled(p, j)
         \/ Pending(j) /\ Handled(p, j)
         \/ events' = events
  BY HandleEffect DEF dispatchVars
<1>1. made[j] \in Nat /\ MaxAttempts \in Nat /\ events \in [Processes -> SUBSET Jobs]
  BY RouteFacts DEF AlertTypes, StoreTypes
<1>2. HeardKept
  <2> SUFFICES ASSUME made[First] >= MaxAttempts, Heard PROVE Heard'
    BY DEF HeardKept
  <2>1. CASE QueueTold
    BY <1>0, <2>1 DEF Heard, QueueTold
  <2>2. CASE events' = events
    BY <1>0, <2>2 DEF Heard, QueueTold
  <2>3. CASE Pending(j)
    BY <1>0, <2>3 DEF Heard, QueueTold, Pending, OfJob
  <2>4. CASE made[j] < MaxAttempts /\ Handled(p, j) /\ ~QueueTold
    <3>1. j # First
      BY <1>1, <2>4
    <3>2. PICK q \in Processes : First \in events[q]
      BY <2>4 DEF Heard
    <3>3. First \in events'[q]
      BY <1>1, <2>4, <3>1, <3>2 DEF Handled
    <3> QED
      BY <3>3 DEF Heard
  <2> QED
    BY <1>0, <2>1, <2>2, <2>3, <2>4
<1> QED
  BY <1>0, <1>2, StillFirst

LEMMA PersistFirst ==
  ASSUME AlertTypes, FirstInv, Calm, CoverKept, NEW p \in Processes, NEW j \in Jobs, PersistQueueLetter(p, j)
  PROVE  FirstInv'
<1>0. UNCHANGED << setup, step, stage, made >> /\ Create(QueueLetter(p, j))
  BY PersistEffect, CalmFacts DEF dispatchVars
<1>1. PICK l : l = QueueLetter(p, j)
  OBVIOUS
<1>2. LettersTyped /\ l.channel = "queue"
  BY <1>1 DEF AlertTypes, StoreTypes, LettersTyped, QueueLetter
<1>3. l \in DOMAIN letters'
  BY <1>0, <1>1, <1>2, CreateMoves
<1>4. HeardKept
  BY <1>2, <1>3 DEF HeardKept, Heard, QueueTold
<1> QED
  BY <1>0, <1>4, StillFirst

LEMMA LossStep ==
  ASSUME AlertTypes, LossInv, [Next]_vars
  PROVE  LossInv'
<1>0. setup' = setup
  BY DEF Next, vars, Dispatch, Handle, Finish, Quiescent, Start, Enter, Send, Log, LogFails, RecordDeadLetter, Crash,
         GateExpire, HandleFailed, PersistQueueLetter, Verify, Update, Replay, AdminSelect, AdminReplay, AdminRefused, Suppress,
         AdminMark, PurgeSelect, PurgeDelete, dispatchVars, replayVars
<1>f. Calm' <=> Calm
  BY <1>0 DEF Calm, faults
<1> SUFFICES ASSUME Calm PROVE HolderInv' /\ FirstInv'
  BY <1>f DEF LossInv
<1>i. HolderInv /\ FirstInv
  BY DEF LossInv
<1>h. HolderInv'
  BY <1>i, HolderStep
<1>k. CoverKept
  BY CoveredStep DEF CoverKept
<1>r. DOMAIN letters \subseteq DOMAIN letters'
  BY RowsStay
<1>j. First \in Jobs /\ First \in Executors /\ First \notin Operators /\ step[First] # "unused"
  BY <1>i, AlertsOK DEF Executors, FirstInv
<1>o. ASSUME NEW e, e # First, Unmoved(e), UNCHANGED << made, events >> PROVE FirstInv'
  BY <1>0, <1>i, <1>k, <1>r, <1>o, OtherFirst
<1>s. ASSUME UNCHANGED << step, stage, made, events >> PROVE FirstInv'
  <2>1. HeardKept
    BY <1>r, <1>s, HeardGrows
  <2> QED
    BY <1>0, <1>i, <1>k, <1>s, <2>1, StillFirst
<1>1. ASSUME NEW j \in Jobs, Start(j) PROVE FirstInv'
  <2>1. step[j] = "waiting" /\ Begun(j) /\ UNCHANGED << made, events >>
    BY <1>1, StartEffect DEF restVars
  <2>2. CASE j # First
    BY <1>o, <2>1, <2>2 DEF Begun
  <2>3. CASE j = First
    <3>1. Len(route) \in Nat /\ route' = route
      BY <1>0, RouteFacts DEF route
    <3>2. CASE step'[First] = "enter" /\ stage'[First] = 1
      <4>1. \A c : ~Passed(First, c)'
        BY <3>1, <3>2 DEF Passed
      <4> QED
        BY <3>2, <4>1 DEF FirstInv
    <3>3. CASE step'[First] = "completed" /\ Len(route) = 0
      <4>1. \A c : ~InRoute(c)'
        BY <3>1, <3>3 DEF InRoute
      <4> QED
        BY <3>3, <4>1 DEF FirstInv, Running
    <3> QED
      BY <1>j, <2>1, <2>3, <3>2, <3>3 DEF Begun
  <2> QED
    BY <2>2, <2>3
<1>2. ASSUME NEW e \in Executors, Enter(e) \/ Send(e) \/ Log(e) \/ RecordDeadLetter(e) PROVE FirstInv'
  BY <1>2, <1>i, <1>k, <1>r, EnterFirst, SendFirst, LogFirst, RecordFirst
<1>3. \A e \in Executors : ~LogFails(e) /\ ~Crash(e)
  BY CalmFacts DEF LogFails, Crash
<1>4. ASSUME NEW c \in Channels, GateExpire(c) PROVE FirstInv'
  <2>1. UNCHANGED << step, stage, made, events >>
    BY <1>4, ExpireEffect DEF restVars
  <2> QED
    BY <1>s, <2>1
<1>5. ASSUME NEW p \in Processes, NEW j \in Jobs, HandleFailed(p, j) \/ PersistQueueLetter(p, j) PROVE FirstInv'
  BY <1>5, <1>i, <1>k, HandleFirst, PersistFirst
<1>6. ASSUME NEW o \in Operators, Verify(o) \/ Update(o) PROVE FirstInv'
  <2>1. Unmoved(o) /\ UNCHANGED << made, events >>
    BY <1>6, VerifyEffect, UpdateEffect DEF replayVars, Gone
  <2> QED
    BY <1>j, <1>o, <2>1
<1>7. ASSUME NEW o \in Operators, NEW i, Replay(o, i) PROVE FirstInv'
  <2>1. Unmoved(o) /\ UNCHANGED << made, events >>
    BY <1>7, ReplayEffect DEF replayVars, Begun
  <2> QED
    BY <1>j, <1>o, <2>1
<1>8. ASSUME NEW j \in Jobs, NEW i, AdminReplay(j, i) PROVE FirstInv'
  <2>1. Unmoved(j) /\ step[j] = "unused" /\ UNCHANGED << made, events >>
    BY <1>8, AdminEffect DEF Gone
  <2> QED
    BY <1>j, <1>o, <2>1
<1>9. ASSUME NEW i, Suppress(i) \/ AdminMark(i) PROVE FirstInv'
  <2>1. UNCHANGED << step, stage, made, events >>
    BY <1>9, SuppressEffect, MarkEffect DEF dispatchVars
  <2> QED
    BY <1>s, <2>1
<1>10. ASSUME Reading PROVE FirstInv'
  <2>1. UNCHANGED << step, stage, made, events >>
    BY <1>10, ReadingEffect DEF dispatchVars
  <2> QED
    BY <1>s, <2>1
<1>11. ASSUME PurgeDelete \/ UNCHANGED vars PROVE FirstInv'
  <2>1. UNCHANGED << step, stage, made, events >>
    BY <1>11, PurgeDeleteEffect DEF dispatchVars, vars
  <2> QED
    BY <1>s, <2>1
<1>12. FirstInv'
  BY <1>1, <1>2, <1>3, <1>4, <1>5, <1>6, <1>7, <1>8, <1>9, <1>10, <1>11
     DEF Next, Reading, Dispatch, Handle, Finish, Quiescent
<1> QED
  BY <1>h, <1>12

LEMMA LossInit ==
  ASSUME Init
  PROVE  LossInv
<1>1. First \in Executors /\ Nobody \notin Executors
  BY AlertsOK DEF Executors
<1>2. step[First] = "waiting" /\ gate = [c \in Channels |-> Nobody]
  BY <1>1 DEF Init
<1>3. HolderInv
  BY <1>1, <1>2, ChannelKinds DEF HolderInv
<1>4. FirstInv
  BY <1>2 DEF FirstInv, Running
<1> QED
  BY <1>3, <1>4 DEF LossInv

LEMMA LossShows ==
  ASSUME AlertTypes, LossInv
  PROVE  NoSilentLoss
<1> SUFFICES ASSUME faults \subseteq { "lostReply" }, \A e \in Executors : AtRest(e), \A p \in Processes : events[p] = {},
                    NEW k \in DOMAIN route, route[k] \in Throwing, record[route[k]] # "sent"
             PROVE  \E i \in DOMAIN letters : i.channel \in { route[k], "queue" }
  BY DEF NoSilentLoss
<1>1. FirstInv /\ First \in Executors /\ First \in Jobs
  BY AlertsOK DEF LossInv, Calm, Executors
<1>2. PICK c : c = route[k]
  OBVIOUS
<1>3. c \in Channels /\ InRoute(c)
  <2>1. k \in 1..Len(route)
    BY RouteFacts
  <2> QED
    BY <1>2, <2>1, ChannelKinds DEF InRoute
<1>4. ~InHand(c)
  BY DEF InHand, AtRest
<1>5. step[First] \in { "completed", "failed" }
  <2>1. step[First] \in JobSteps /\ step[First] # "unused" /\ AtRest(First)
    BY <1>1 DEF AlertTypes, ExecTypes, FirstInv
  <2> QED
    BY <2>1 DEF AtRest, JobSteps, Running
<1>6. CASE step[First] = "completed"
  BY <1>1, <1>2, <1>3, <1>4, <1>6 DEF FirstInv, Covered
<1>7. CASE step[First] = "failed"
  BY <1>1, <1>7 DEF FirstInv, Heard, QueueTold
<1> QED
  BY <1>5, <1>6, <1>7

\* Without losses of a process or the database, an email or push that was not delivered
\* has left a dead letter, its own or that of the failed job, once everything is at rest:
\* also when the payment's job gave up on a gate that a replay was holding.
THEOREM NothingLostSilently == Spec => []NoSilentLoss
<1>1. Init => AlertTypes /\ LossInv
  BY TypesInit, LossInit
<1>2. AlertTypes /\ LossInv /\ [Next]_vars => (AlertTypes /\ LossInv)'
  BY TypesStep, LossStep
<1>3. AlertTypes /\ LossInv => NoSilentLoss
  BY LossShows
<1> QED
  BY <1>1, <1>2, <1>3, PTL DEF Spec
=============================================================================
