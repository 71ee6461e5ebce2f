------------------------------- MODULE SignIn -------------------------------
(***************************************************************************)
(* Signing in without a password (modules/auth/auth.service.ts): one magic  *)
(* link, whose token id is consumed by an atomic DEL, and the challenges of *)
(* one DID, kept under one Redis key that is read, then deleted.  Each      *)
(* await is an action; a visit is one call of verifyMagicLink or            *)
(* verifyDIDAuth, and its tokens and signatures are genuine or not.         *)
(***************************************************************************)
EXTENDS Naturals

CONSTANTS
  Visits,         \* verifications
  MaxChallenges   \* bound: challenges requested

VARIABLES
  linkKey,      \* magic_token:<jti> exists
  linkSent,     \* the link was requested
  challenge,    \* did:challenge:<did>, 0 when the key does not exist
  requested,    \* challenges requested so far
  aged,         \* challenges past isDIDChallengeExpired
  visit,        \* the await each verification is at, or how it ended
  shown,        \* the challenge each verification presents, 0 for the link
  sharedProof,  \* history: challenges read twice before a DEL, or whose DEL failed
  stored,       \* history: the newest challenge that was stored
  gone,         \* history: challenges that expired or were deleted by a visit showing them
  displaced     \* history: challenges stored while a visit was about to delete the key

signInState == << linkKey, linkSent, challenge, requested, aged, visit, shown, sharedProof,
                  stored, gone, displaced >>

SignInInit ==
  /\ linkKey = FALSE /\ linkSent = FALSE
  /\ challenge = 0 /\ requested = 0 /\ aged = {}
  /\ visit = [v \in Visits |-> "idle"] /\ shown = [v \in Visits |-> 0]
  /\ sharedProof = {} /\ stored = 0 /\ gone = {} /\ displaced = {}

VisitGoto(v, l) == visit' = [visit EXCEPT ![v] = l]
Magic == << linkKey, linkSent >>
Did == << challenge, requested, aged, shown, sharedProof, stored, gone, displaced >>

\* An error of Redis is logged and the link sent although it cannot work.
RequestMagicLink ==
  /\ ~linkSent
  /\ linkSent' = TRUE
  /\ linkKey' \in BOOLEAN
  /\ UNCHANGED << visit, Did >>

LinkExpires ==
  /\ linkKey
  /\ linkKey' = FALSE
  /\ UNCHANGED << linkSent, visit, Did >>

ConsumeLink_Reads(v) ==
  /\ visit[v] = "idle" /\ linkSent
  /\ VisitGoto(v, IF linkKey THEN "user" ELSE "refused")
  /\ UNCHANGED << Magic, Did >>

\* DEL answers 1 to one caller; without an answer the link is refused, whether
\* or not the key is gone.
ConsumeLink(v) ==
  /\ visit[v] = "idle" /\ linkSent
  /\ \/ linkKey' = FALSE /\ VisitGoto(v, IF linkKey THEN "user" ELSE "refused")
     \/ linkKey' \in {linkKey, FALSE} /\ VisitGoto(v, "refused")
  /\ UNCHANGED << linkSent, Did >>

\* The key is overwritten, or Redis fails and the old challenge stays.
RequestDIDChallenge ==
  /\ requested < MaxChallenges
  /\ requested' = requested + 1
  /\ \/ /\ challenge' = requested + 1 /\ stored' = requested + 1
        /\ displaced' = (IF \E v \in Visits : visit[v] \in { "consume", "drop" }
                           THEN displaced \cup {requested + 1} ELSE displaced)
     \/ UNCHANGED << challenge, stored, displaced >>
  /\ UNCHANGED << Magic, aged, visit, shown, sharedProof, gone >>

\* The time inside a challenge runs out before the key does.
ChallengeAges(c) ==
  /\ c \in 1..requested \ aged
  /\ aged' = aged \cup {c}
  /\ UNCHANGED << Magic, challenge, requested, visit, shown, sharedProof, stored, gone, displaced >>

ChallengeExpires ==
  /\ challenge \in aged
  /\ challenge' = 0
  /\ gone' = gone \cup {challenge}
  /\ UNCHANGED << Magic, requested, aged, visit, shown, sharedProof, stored, displaced >>

ReadChallenge_DropsOther(v, c) ==
  /\ visit[v] = "idle" /\ c \in 1..requested
  /\ shown' = [shown EXCEPT ![v] = c]
  /\ IF challenge = c
       THEN VisitGoto(v, IF c \in aged THEN "drop" ELSE "consume") /\ UNCHANGED challenge
       ELSE VisitGoto(v, "refused") /\ challenge' = 0
  /\ sharedProof' = (IF \E w \in Visits : visit[w] = "consume" /\ shown[w] = c
                       THEN sharedProof \cup {c} ELSE sharedProof)
  /\ UNCHANGED << Magic, requested, aged, stored, gone, displaced >>

\* GET, the comparison, the age and the signature: a Redis error counts as no
\* challenge, and a bad signature ends the visit.
ReadChallenge(v, c) ==
  /\ visit[v] = "idle" /\ c \in 1..requested
  /\ shown' = [shown EXCEPT ![v] = c]
  /\ \/ challenge = c /\ VisitGoto(v, IF c \in aged THEN "drop" ELSE "consume")
     \/ VisitGoto(v, "refused")
  /\ sharedProof' = (IF \E w \in Visits : visit[w] = "consume" /\ shown[w] = c
                       THEN sharedProof \cup {c} ELSE sharedProof)
  /\ UNCHANGED << Magic, challenge, requested, aged, stored, gone, displaced >>

ConsumeChallenge_Keeps(v) ==
  /\ visit[v] = "consume"
  /\ VisitGoto(v, "user")
  /\ UNCHANGED << Magic, Did >>

\* DEL of the key, whatever it holds by now, also for a visit that is refused
\* because its challenge is too old; an error is ignored.
ConsumeChallenge(v) ==
  /\ visit[v] \in { "consume", "drop" }
  /\ VisitGoto(v, IF visit[v] = "drop" THEN "refused" ELSE "user")
  /\ \/ /\ challenge' = 0
        /\ gone' = (IF challenge = shown[v] THEN gone \cup {challenge} ELSE gone)
        /\ UNCHANGED sharedProof
     \/ UNCHANGED << challenge, gone >> /\ sharedProof' = sharedProof \cup {shown[v]}
  /\ UNCHANGED << Magic, requested, aged, shown, stored, displaced >>

\* The user row and the session: an error leaves the visitor without one, the
\* link or challenge being spent.
IssueSession(v) ==
  /\ visit[v] = "user"
  /\ \E end \in { "session", "failed" } : VisitGoto(v, end)
  /\ UNCHANGED << Magic, Did >>

SignInNext ==
  \/ RequestMagicLink \/ LinkExpires \/ RequestDIDChallenge \/ ChallengeExpires
  \/ \E c \in 1..MaxChallenges : ChallengeAges(c)
  \/ \E v \in Visits : ConsumeLink(v) \/ ConsumeChallenge(v) \/ IssueSession(v)
                       \/ \E c \in 1..MaxChallenges : ReadChallenge(v, c)

-----------------------------------------------------------------------------
(* Properties.                                                             *)

SignedIn(v) == visit[v] = "session"

\* A magic link signs in one visitor at most, also when answers of Redis are lost.
LinkOnce ==
  \A v, w \in Visits : SignedIn(v) /\ SignedIn(w) /\ shown[v] = 0 /\ shown[w] = 0 => v = w

\* A challenge signs in once, unless a second visit read it before the first
\* deleted it, or the deletion failed.
ChallengeOnce ==
  \A v, w \in Visits :
    v # w /\ SignedIn(v) /\ SignedIn(w) /\ shown[v] = shown[w] /\ shown[v] # 0
      => shown[v] \in sharedProof

\* The newest challenge stays in the key until it expires or a visit that shows it
\* deletes it.  A visit of an older challenge, refused for its age or not, deletes it
\* too, but only one that had read the key before the newest was stored.
ChallengeStays == challenge = stored \/ stored \in gone \cup displaced
=============================================================================
