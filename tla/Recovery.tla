------------------------------ MODULE Recovery ------------------------------
(***************************************************************************)
(* recoverAccountWithCode (modules/auth/mfa.service.ts) for one account:    *)
(* concurrent requests, the one-time recovery codes in Postgres and the     *)
(* attempt counter in memory.  The counter object is looked up before the   *)
(* first await and used after it, so an old object may still be counted on. *)
(***************************************************************************)
EXTENDS Naturals, FiniteSets

CONSTANTS
  Recoveries,   \* requests
  Codes,        \* recovery codes of the account
  MaxGuesses,   \* MAX_RECOVERY_ATTEMPTS
  MaxWindows    \* counter objects looked at

VARIABLES
  unused,     \* MfaRecoveryCode rows with used = false
  mfaEnabled, \* User.mfaEnabled
  window,     \* number of the counter object in recoveryRateLimits
  guesses,    \* attempts of each counter object
  recovery,   \* the await each request is at, or its result
  code,       \* the code of each request, "wrong" for any other string
  limit,      \* the counter object each request holds
  wins,       \* history: recoveries each code has paid for
  crowded     \* history: codes two requests were about to consume at once

accountVars == << unused, mfaEnabled >>
limitVars == << window, guesses >>
recoveryVars == << accountVars, limitVars, recovery, code, limit, wins, crowded >>

RecoveryInit ==
  /\ unused = Codes /\ mfaEnabled = TRUE
  /\ window = 1 /\ guesses = [w \in 1..MaxWindows |-> 0]
  /\ recovery = [r \in Recoveries |-> "idle"]
  /\ code = [r \in Recoveries |-> "wrong"]
  /\ limit = [r \in Recoveries |-> 1]
  /\ wins = [c \in Codes |-> 0] /\ crowded = {}

RStep(r, l) == recovery' = [recovery EXCEPT ![r] = l]

BeginRecovery_NoLimit(r, c) ==
  /\ recovery[r] \notin { "read", "consume", "reset" }
  /\ code' = [code EXCEPT ![r] = c]
  /\ limit' = [limit EXCEPT ![r] = window]
  /\ RStep(r, "read")
  /\ UNCHANGED << accountVars, limitVars, wins, crowded >>

\* The limit is checked first; a request that failed or ended may come again.
BeginRecovery(r, c) ==
  /\ recovery[r] \notin { "read", "consume", "reset" }
  /\ code' = [code EXCEPT ![r] = c]
  /\ limit' = [limit EXCEPT ![r] = window]
  /\ RStep(r, IF guesses[window] >= MaxGuesses THEN "limited" ELSE "read")
  /\ UNCHANGED << accountVars, limitVars, wins, crowded >>

\* RECOVERY_WINDOW_MS passes, or a success deletes the counter: the next request
\* finds none and makes another.
NewWindow == window < MaxWindows /\ window' = window + 1

WindowExpires ==
  /\ NewWindow
  /\ UNCHANGED << accountVars, guesses, recovery, code, limit, wins, crowded >>

\* The account and its unused codes are read together; a mismatch is counted on
\* the object the request holds, a match deletes the current one.
ReadCodes(r) ==
  /\ recovery[r] = "read"
  /\ IF mfaEnabled /\ code[r] \in unused
       THEN /\ RStep(r, "consume") /\ NewWindow
            /\ crowded' = (IF \E q \in Recoveries : recovery[q] = "consume" /\ code[q] = code[r]
                             THEN crowded \cup {code[r]} ELSE crowded)
            /\ UNCHANGED guesses
       ELSE /\ RStep(r, "failed")
            /\ guesses' = [guesses EXCEPT ![limit[r]] = @ + 1]
            /\ UNCHANGED << window, crowded >>
  /\ UNCHANGED << accountVars, code, limit, wins >>

ConsumeCode_Skips(r) ==
  /\ recovery[r] = "consume"
  /\ RStep(r, "reset")
  /\ UNCHANGED << accountVars, limitVars, code, limit, wins, crowded >>

\* The update of the code has no condition on used.
ConsumeCode(r) ==
  /\ recovery[r] = "consume"
  /\ unused' = unused \ {code[r]}
  /\ RStep(r, "reset")
  /\ UNCHANGED << mfaEnabled, limitVars, code, limit, wins, crowded >>

\* MFA is switched off, then the session token is issued.
ResetMfa(r) ==
  /\ recovery[r] = "reset"
  /\ mfaEnabled' = FALSE
  /\ RStep(r, "recovered")
  /\ wins' = [wins EXCEPT ![code[r]] = @ + 1]
  /\ UNCHANGED << unused, limitVars, code, limit, crowded >>

RecoveryNext ==
  \/ WindowExpires
  \/ \E r \in Recoveries :
       \/ \E c \in Codes \cup { "wrong" } : BeginRecovery(r, c)
       \/ ReadCodes(r) \/ ConsumeCode(r) \/ ResetMfa(r)

-----------------------------------------------------------------------------
(* Properties.                                                             *)

\* A recovery code recovers the account once, unless two requests matched it
\* before either had marked it used.
CodePaysOnce == \A c \in Codes \ crowded : wins[c] <= 1

\* Between two resets of the counter at most MAX_RECOVERY_ATTEMPTS wrong codes are
\* looked at, and one more for each further request that was under way.
GuessesBounded ==
  \A w \in 1..MaxWindows : guesses[w] <= MaxGuesses + Cardinality(Recoveries) - 1
=============================================================================
