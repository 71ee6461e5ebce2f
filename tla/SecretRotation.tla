--------------------------- MODULE SecretRotation ---------------------------
(***************************************************************************)
(* Rotation of a webhook's signing secret with a grace period for the       *)
(* previous one (modules/webhooks/webhooks.service.ts), and the signatures  *)
(* of deliveries that go on meanwhile.  Secrets are numbered by the call    *)
(* that made them: 0 is that of addWebhook, a rotation names its own.       *)
(***************************************************************************)
EXTENDS Naturals, Sequences

CONSTANTS
  Rotators,    \* calls of rotateSecret, as the numbers of their secrets
  Deliveries   \* deliveries of the webhook

VARIABLES
  secrets,     \* the row: [active, previous], previous = None for null
  graceOver,   \* rotations whose previousSecretExpiresAt has passed
  rotator,     \* "idle", "update" (row read), "done" per rotation
  demoted,     \* the active secret each rotation read
  configured,  \* the call whose answer the subscriber verifies with
  delivery,    \* "idle", "sign" (row read), "sent" per delivery
  loaded,      \* the row each delivery read
  lineage,     \* history: secrets in the order they became active
  clash,       \* history: a rotation read the row while another was to write it
  overtaken,   \* history: deliveries whose row was rotated before they signed
  rejected     \* history: deliveries a subscriber that keeps up did not accept, each
               \* with the call it was configured from

None == 99
Sealed == 98   \* what cryptoVault.encrypt makes of secret 0: not a signing secret
secretState == << secrets, graceOver, rotator, demoted, configured, delivery, loaded,
                  lineage, clash, overtaken, rejected >>
deliveryState == << delivery, loaded, rejected >>

SecretInit ==
  /\ secrets = [active |-> 0, previous |-> None] /\ graceOver = {}
  /\ rotator = [r \in Rotators |-> "idle"] /\ demoted = [r \in Rotators |-> None]
  /\ configured = 0
  /\ delivery = [d \in Deliveries |-> "idle"]
  /\ loaded = [d \in Deliveries |-> [active |-> 0, previous |-> None]]
  /\ lineage = << 0 >> /\ clash = FALSE /\ overtaken = {} /\ rejected = {}

\* The secret a call hands to the subscriber: addWebhook returns the ciphertext.
Returned(c) == IF c = 0 THEN Sealed ELSE c

\* rotateSecret reads the row ...
ReadWebhook(r) ==
  /\ rotator[r] = "idle"
  /\ rotator' = [rotator EXCEPT ![r] = "update"]
  /\ demoted' = [demoted EXCEPT ![r] = secrets.active]
  /\ clash' = (clash \/ \E q \in Rotators : rotator[q] = "update")
  /\ UNCHANGED << secrets, graceOver, configured, lineage, overtaken, deliveryState >>

Demote_Never(r) == secrets.previous

\* The secret that becomes the previous one.
Demote(r) == demoted[r]

\* ... and writes its secret, the one it read as the previous, and a new grace.
WriteSecrets(r) ==
  /\ rotator[r] = "update"
  /\ rotator' = [rotator EXCEPT ![r] = "done"]
  /\ secrets' = [active |-> r, previous |-> Demote(r)]
  /\ lineage' = Append(lineage, r)
  /\ overtaken' = overtaken \cup { d \in Deliveries : delivery[d] = "sign" }
  /\ UNCHANGED << graceOver, demoted, configured, clash, deliveryState >>

GraceEnds ==
  /\ secrets.previous # None /\ secrets.active \notin graceOver
  /\ graceOver' = graceOver \cup {secrets.active}
  /\ UNCHANGED << secrets, rotator, demoted, configured, lineage, clash, overtaken, deliveryState >>

\* decommissionExpiredPreviousSecret.
Decommission ==
  /\ secrets.active \in graceOver /\ secrets.previous # None
  /\ secrets' = [secrets EXCEPT !.previous = None]
  /\ UNCHANGED << graceOver, rotator, demoted, configured, lineage, clash, overtaken, deliveryState >>

\* The subscriber redeploys with the secret a rotation returned.
Redeploy(r) ==
  /\ rotator[r] = "done" /\ configured # r
  /\ configured' = r
  /\ UNCHANGED << secrets, graceOver, rotator, demoted, lineage, clash, overtaken, deliveryState >>

LoadWebhook(d) ==
  /\ delivery[d] = "idle"
  /\ delivery' = [delivery EXCEPT ![d] = "sign"]
  /\ loaded' = [loaded EXCEPT ![d] = secrets]
  /\ UNCHANGED << secrets, graceOver, rotator, demoted, configured, lineage, clash, overtaken, rejected >>

\* buildDualSignatureHeaders.
Signatures(row) == {row.active} \cup (IF row.active \in graceOver THEN {} ELSE {row.previous} \ {None})

\* The answer of the newest call, or of the one before it within its grace.
KeepsUp ==
  LET n == Len(lineage) IN
  \/ configured = lineage[n]
  \/ n > 1 /\ configured = lineage[n - 1] /\ lineage[n] \notin graceOver

SendSigned(d) ==
  /\ delivery[d] = "sign"
  /\ delivery' = [delivery EXCEPT ![d] = "sent"]
  /\ rejected' = IF KeepsUp /\ Returned(configured) \notin Signatures(loaded[d])
                   THEN rejected \cup { << d, configured >> } ELSE rejected
  /\ UNCHANGED << secrets, graceOver, rotator, demoted, configured, loaded, lineage, clash, overtaken >>

SecretNext ==
  \/ GraceEnds \/ Decommission
  \/ \E r \in Rotators : ReadWebhook(r) \/ WriteSecrets(r) \/ Redeploy(r)
  \/ \E d \in Deliveries : LoadWebhook(d) \/ SendSigned(d)

-----------------------------------------------------------------------------
(* Properties.                                                             *)

\* A subscriber with the secret of the newest rotation, or of the one before it and
\* within its grace, verifies every delivery, unless rotations overlapped or the
\* delivery had read the row before one.  One that still uses what the creation
\* returned is excepted: that is the stored ciphertext and verifies nothing.
SubscriberVerifies ==
  clash \/ \A d \in Deliveries, c \in Rotators : << d, c >> \in rejected => d \in overtaken
=============================================================================
