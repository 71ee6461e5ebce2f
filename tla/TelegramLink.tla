---------------------------- MODULE TelegramLink ----------------------------
(***************************************************************************)
(* Linking a Telegram chat by a one-time code                               *)
(* (modules/notifications/telegram-sync.service.ts), for one user: codes    *)
(* are generated, confirmed and invalidated in separate statements.  Any    *)
(* statement may fail or the process die, which ends the call.              *)
(***************************************************************************)
EXTENDS Naturals

CONSTANTS
  Generations,  \* calls of generateSyncCode; each names its code
  Confirms,     \* calls of confirmSync
  Unlinks       \* calls of unlinkTelegram

VARIABLES
  codes,        \* TelegramSyncCode rows of the user
  usedCodes,    \* those with isUsed
  pastDue,      \* those past expiresAt
  linkedBy,     \* the confirmation the preference comes from, NoLink when cleared
  generation,   \* the statement each generateSyncCode is at
  confirm,      \* the statement each confirmSync is at
  confirmCode,  \* the code it was given
  unlink,       \* the statement each unlinkTelegram is at
  links,        \* history: confirmations that wrote the preference
  rivals,       \* history: codes read by a second confirmation in time
  crossing,     \* history: generations that overlapped with another
  unlinked,     \* history: codes that existed when an unlink ended
  early         \* history: confirmations that had read their code by then

NoLink == "none"
Idle == "idle"

TelegramInit ==
  /\ codes = {} /\ usedCodes = {} /\ pastDue = {} /\ linkedBy = NoLink
  /\ generation = [g \in Generations |-> Idle]
  /\ confirm = [c \in Confirms |-> Idle] /\ confirmCode = [c \in Confirms |-> NoLink]
  /\ unlink = [u \in Unlinks |-> Idle]
  /\ links = {} /\ rivals = {} /\ crossing = {}
  /\ unlinked = {} /\ early = {}

confirmState == << confirm, confirmCode, links, rivals >>
unlinkState == << unlink, unlinked, early >>
Between == { g \in Generations : generation[g] = "create" }

Invalidate_Nothing(g) ==
  /\ generation[g] = Idle
  /\ generation' = [generation EXCEPT ![g] = "create"]
  /\ crossing' = (IF Between = {} THEN crossing ELSE crossing \cup Between \cup {g})
  /\ UNCHANGED << codes, usedCodes, pastDue, linkedBy, unlinkState, confirmState >>

\* generateSyncCode: the unused codes of the user are invalidated ...
Invalidate(g) ==
  /\ generation[g] = Idle
  /\ generation' = [generation EXCEPT ![g] = "create"]
  /\ usedCodes' = codes
  /\ crossing' = (IF Between = {} THEN crossing ELSE crossing \cup Between \cup {g})
  /\ UNCHANGED << codes, pastDue, linkedBy, unlinkState, confirmState >>

\* ... and a new one is created.
CreateCode(g) ==
  /\ generation[g] = "create"
  /\ generation' = [generation EXCEPT ![g] = "done"]
  /\ codes' = codes \cup {g}
  /\ UNCHANGED << usedCodes, pastDue, linkedBy, crossing, unlinkState, confirmState >>

CodeExpires(g) ==
  /\ g \in codes \ pastDue
  /\ pastDue' = pastDue \cup {g}
  /\ UNCHANGED << codes, usedCodes, linkedBy, generation, crossing, unlinkState, confirmState >>

\* confirmSync: the row is read and refused when unknown, used or expired ...
FindCode(c, g) ==
  /\ confirm[c] = Idle
  /\ confirmCode' = [confirmCode EXCEPT ![c] = g]
  /\ confirm' = [confirm EXCEPT ![c] = IF g \in codes \ (usedCodes \cup pastDue) THEN "mark" ELSE "refused"]
  /\ rivals' = (IF \E d \in Confirms : confirm[d] = "mark" /\ confirmCode[d] = g
                  THEN rivals \cup {g} ELSE rivals)
  /\ UNCHANGED << codes, usedCodes, pastDue, linkedBy, generation, links, crossing, unlinkState >>

MarkUsed_Skips(c) ==
  /\ confirm[c] = "mark"
  /\ confirm' = [confirm EXCEPT ![c] = "link"]
  /\ UNCHANGED << codes, usedCodes, pastDue, linkedBy, generation, confirmCode, links, rivals, crossing, unlinkState >>

\* ... marked as used, whatever has become of it ...
MarkUsed(c) ==
  /\ confirm[c] = "mark"
  /\ confirm' = [confirm EXCEPT ![c] = "link"]
  /\ usedCodes' = usedCodes \cup {confirmCode[c]}
  /\ UNCHANGED << codes, pastDue, linkedBy, generation, confirmCode, links, rivals, crossing, unlinkState >>

\* ... and the preference is written.
LinkChat(c) ==
  /\ confirm[c] = "link"
  /\ confirm' = [confirm EXCEPT ![c] = "done"]
  /\ linkedBy' = c
  /\ links' = links \cup {c}
  /\ UNCHANGED << codes, usedCodes, pastDue, generation, confirmCode, rivals, crossing, unlinkState >>

\* unlinkTelegram: the preference is cleared ...
ClearLink(u) ==
  /\ unlink[u] = Idle
  /\ unlink' = [unlink EXCEPT ![u] = "codes"]
  /\ linkedBy' = NoLink
  /\ UNCHANGED << codes, usedCodes, pastDue, generation, crossing, unlinked, early, confirmState >>

ClearCodes_None(u) ==
  /\ unlink[u] = "codes"
  /\ unlink' = [unlink EXCEPT ![u] = "done"]
  /\ unlinked' = codes
  /\ early' = early \cup { c \in Confirms : confirm[c] # Idle }
  /\ UNCHANGED << codes, usedCodes, pastDue, linkedBy, generation, crossing, confirmState >>

\* ... and the unused codes are invalidated.
ClearCodes(u) ==
  /\ unlink[u] = "codes"
  /\ unlink' = [unlink EXCEPT ![u] = "done"]
  /\ usedCodes' = codes
  /\ unlinked' = codes
  /\ early' = early \cup { c \in Confirms : confirm[c] # Idle }
  /\ UNCHANGED << codes, pastDue, linkedBy, generation, crossing, confirmState >>

\* A statement fails or the process dies: the call ends where it is.
CallFails ==
  /\ \/ \E g \in Generations :
          generation[g] = "create" /\ generation' = [generation EXCEPT ![g] = "done"] /\ UNCHANGED << confirm, unlink >>
     \/ \E c \in Confirms :
          confirm[c] \in { "mark", "link" } /\ confirm' = [confirm EXCEPT ![c] = "failed"] /\ UNCHANGED << generation, unlink >>
     \/ \E u \in Unlinks :
          unlink[u] = "codes" /\ unlink' = [unlink EXCEPT ![u] = "failed"] /\ UNCHANGED << generation, confirm >>
  /\ UNCHANGED << codes, usedCodes, pastDue, linkedBy, confirmCode, links, rivals, crossing,
                  unlinked, early >>

TelegramNext ==
  \/ \E g \in Generations : Invalidate(g) \/ CreateCode(g) \/ CodeExpires(g)
  \/ \E c \in Confirms : MarkUsed(c) \/ LinkChat(c) \/ \E g \in Generations : FindCode(c, g)
  \/ \E u \in Unlinks : ClearLink(u) \/ ClearCodes(u)
  \/ CallFails

-----------------------------------------------------------------------------
(* Properties.                                                             *)

\* A code links one chat, unless two confirmations read it before either marked it.
CodeLinksOnce ==
  \A c, d \in links : c # d /\ confirmCode[c] = confirmCode[d] => confirmCode[c] \in rivals

\* A user has one code that can be used, unless two generations overlapped.
OneUsableCode ==
  \A g, h \in codes \ usedCodes : g = h \/ {g, h} \cap crossing # {}

\* Once an unlink has ended, a code from before it links the chat again only by a
\* confirmation that had already read it.
UnlinkRevokes ==
  \A c \in links : confirmCode[c] \in unlinked => c \in early
=============================================================================
