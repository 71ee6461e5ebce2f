-------------------------- MODULE DeliveryAbstract --------------------------
(***************************************************************************)
(* What deliverWithIdempotency promises for one delivery key, without      *)
(* gates, locks and jobs: attempts are numbered and made one at a time, a  *)
(* success is confirmed only of the attempt being made and only when the   *)
(* provider accepted it or the user had switched the message off, and      *)
(* after the confirmation no attempt is opened.                            *)
(***************************************************************************)
EXTENDS Naturals

VARIABLES
  opened,    \* attempts numbered so far
  current,   \* the attempt being made, 0 for none
  accepted,  \* attempts whose request the provider accepted
  waived,    \* attempts of a message the user has switched off
  confirmed  \* the attempt recorded as delivered, 0 for none

vars == << opened, current, accepted, waived, confirmed >>

Init == opened = 0 /\ current = 0 /\ accepted = {} /\ waived = {} /\ confirmed = 0

\* A new attempt is numbered; its author may be gone at once.
Open ==
  /\ current = 0 /\ confirmed = 0
  /\ opened' = opened + 1
  /\ current' \in {0, opened + 1}
  /\ UNCHANGED << accepted, waived, confirmed >>

\* The provider accepts the request; its answer may be lost.
Accept ==
  /\ current \notin accepted \cup waived \cup {0}
  /\ accepted' = accepted \cup {current}
  /\ current' \in {0, current}
  /\ UNCHANGED << opened, waived, confirmed >>

\* No request is made: the user does not want the message.
Waive ==
  /\ current \notin accepted \cup waived \cup {0}
  /\ waived' = waived \cup {current}
  /\ UNCHANGED << opened, current, accepted, confirmed >>

\* The attempt fails or its author dies.
Abandon ==
  /\ current # 0
  /\ current' = 0
  /\ UNCHANGED << opened, accepted, waived, confirmed >>

Confirm ==
  /\ current \in accepted \cup waived
  /\ confirmed' = current
  /\ current' = 0
  /\ UNCHANGED << opened, accepted, waived >>

Next == Open \/ Accept \/ Waive \/ Abandon \/ Confirm
Spec == Init /\ [][Next]_vars
=============================================================================
