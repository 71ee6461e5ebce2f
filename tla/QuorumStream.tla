---------------------------- MODULE QuorumStream ----------------------------
(***************************************************************************)
(* streamPaymentsMultiNode (lib/stellar.ts): several Horizon nodes stream   *)
(* the same records, each in order; a record is handed on when most nodes   *)
(* have delivered it, or one second after the first did.  A node that fails *)
(* is connected again from the cursor of the call, beside its old stream.   *)
(***************************************************************************)
EXTENDS Naturals, Sequences, FiniteSets, SequencesExt

CONSTANTS
  Nodes,        \* this.servers
  Records,      \* the records after the cursor, numbered by paging token
  MaxRemembered,\* the bound of emittedPagingTokens, 10000 in the code
  MaxOpened     \* bound: streams opened, all nodes together

VARIABLES
  horizonTip,  \* records the ledger holds so far
  feed,        \* of each node: how far each of its streams is, Broken when it ended
  redial,      \* nodes about to connect: reconnectTimer
  votes,       \* pendingVotes in insertion order: [token, nodes]
  remembered,  \* emittedPagingTokens in insertion order
  emissions,   \* history: tokens handed to onMessage
  shut,        \* isClosed
  forgotten    \* history: tokens removed from emittedPagingTokens

Broken == Records + 1
QuorumSize == Cardinality(Nodes) \div 2 + 1
Streams == { << n, k >> : n \in Nodes, k \in 1..MaxOpened }

QuorumInit ==
  /\ horizonTip = 0
  /\ feed = [n \in Nodes |-> << >>] /\ redial = Nodes
  /\ votes = << >> /\ remembered = << >> /\ emissions = << >>
  /\ shut = FALSE /\ forgotten = {}

RecordAppears ==
  /\ horizonTip < Records
  /\ horizonTip' = horizonTip + 1
  /\ UNCHANGED << feed, redial, votes, remembered, emissions, shut, forgotten >>

Opened == MapThenSumSet(LAMBDA n : Len(feed[n]), Nodes)

Connect_FromTip(n) ==
  /\ n \in redial /\ ~shut /\ Opened < MaxOpened
  /\ feed' = [feed EXCEPT ![n] = Append(@, IF @ = << >> THEN 0 ELSE horizonTip)]
  /\ redial' = redial \ {n}
  /\ UNCHANGED << horizonTip, votes, remembered, emissions, shut, forgotten >>

\* Each stream of a node begins after the cursor of the call.  (A connection
\* that cannot be opened leaves the timer set.)
Connect(n) ==
  /\ n \in redial /\ ~shut /\ Opened < MaxOpened
  /\ feed' = [feed EXCEPT ![n] = Append(@, 0)]
  /\ redial' = redial \ {n}
  /\ UNCHANGED << horizonTip, votes, remembered, emissions, shut, forgotten >>

\* onerror: a new stream is due; the old one ends or goes on by itself.
StreamError(n, k) ==
  /\ k \in DOMAIN feed[n] /\ feed[n][k] # Broken /\ ~shut
  /\ redial' = redial \cup {n}
  /\ \/ UNCHANGED feed
     \/ feed' = [feed EXCEPT ![n][k] = Broken]
  /\ UNCHANGED << horizonTip, votes, remembered, emissions, shut, forgotten >>

\* pendingVotes.delete.
Without(token, ballot) ==
  RemoveAt(ballot, CHOOSE i \in DOMAIN ballot : ballot[i].token = token)

Emit_NotRemembered(token, ballot) ==
  /\ votes' = Without(token, ballot)
  /\ emissions' = Append(emissions, token)
  /\ UNCHANGED << remembered, forgotten >>

\* emit: the vote is closed and the token remembered, at the price of the oldest.
Emit(token, ballot) ==
  LET all == Append(remembered, token) IN
  IF Contains(remembered, token)
    THEN votes' = ballot /\ UNCHANGED << emissions, remembered, forgotten >>
    ELSE /\ votes' = Without(token, ballot)
         /\ emissions' = Append(emissions, token)
         /\ IF Len(all) > MaxRemembered
              THEN remembered' = Tail(all) /\ forgotten' = forgotten \cup {Head(all)}
              ELSE remembered' = all /\ UNCHANGED forgotten

\* The votes after node n has delivered the token.
Ballot(token, n) ==
  IF \E i \in DOMAIN votes : votes[i].token = token
    THEN [i \in DOMAIN votes |->
            IF votes[i].token = token THEN [votes[i] EXCEPT !.nodes = @ \cup {n}] ELSE votes[i]]
    ELSE Append(votes, [token |-> token, nodes |-> {n}])
HasQuorum(token, ballot) ==
  \E i \in DOMAIN ballot : ballot[i].token = token /\ Cardinality(ballot[i].nodes) >= QuorumSize

\* onmessage.
Deliver(n, k) ==
  /\ k \in DOMAIN feed[n] /\ feed[n][k] < horizonTip /\ ~shut
  /\ feed' = [feed EXCEPT ![n][k] = @ + 1]
  /\ LET token == feed[n][k] + 1
         ballot == Ballot(token, n)
     IN IF Contains(remembered, token) THEN UNCHANGED << votes, remembered, emissions, forgotten >>
        ELSE IF HasQuorum(token, ballot) THEN Emit(token, ballot)
        ELSE votes' = ballot /\ UNCHANGED << remembered, emissions, forgotten >>
  /\ UNCHANGED << horizonTip, redial, shut >>

Fallback_Never == FALSE /\ UNCHANGED << horizonTip, feed, redial, votes, remembered, emissions, shut, forgotten >>

\* STREAM_QUORUM_FALLBACK_MS after the first vote; equal timers fire in order.
Fallback ==
  /\ votes # << >> /\ ~shut
  /\ Emit(Head(votes).token, votes)
  /\ UNCHANGED << horizonTip, feed, redial, shut >>

CloseStreams ==
  /\ ~shut
  /\ shut' = TRUE /\ votes' = << >> /\ redial' = {}
  /\ UNCHANGED << horizonTip, feed, remembered, emissions, forgotten >>

QuorumNext ==
  \/ RecordAppears \/ Fallback \/ CloseStreams
  \/ \E n \in Nodes : Connect(n)
  \/ \E s \in Streams : StreamError(s[1], s[2]) \/ Deliver(s[1], s[2])

-----------------------------------------------------------------------------
(* Properties.                                                             *)

\* However the nodes lag, fail and repeat themselves, a record is handed on once,
\* unless it was forgotten to bound the memory.
HandedOnce ==
  \A i, j \in DOMAIN emissions :
    i # j /\ emissions[i] = emissions[j] => emissions[i] \in forgotten

\* No record is handed on before an earlier one: the watcher moves its cursor past
\* each record it is given, so an earlier one would be lost.
HandedInOrder ==
  \A i \in DOMAIN emissions : \A t \in 1..(emissions[i] - 1) :
    \E j \in 1..(i - 1) : emissions[j] = t

\* A record that one node delivered is handed on, though no other node ever has it.
SeenIsHandedOn ==
  \A t \in 1..Records :
    (\E i \in DOMAIN votes : votes[i].token = t) ~> (shut \/ Contains(emissions, t))
=============================================================================
