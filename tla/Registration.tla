----------------------------- MODULE Registration -----------------------------
(***************************************************************************)
(* The registration of one address (auth/auth-service.ts): the pending row *)
(* with its mailed code, the confirmations that spend it, the wrong        *)
(* answers counted against it, and the account it becomes.                 *)
(***************************************************************************)
EXTENDS Integers, FiniteSets

CONSTANTS Registrant,   \* submissions of the form, each with a password of its own
          Confirmation, \* calls of confirmRegistration
          Code,         \* codes that can be mailed, in order: 1, 2, ...
          MaxCodeAttempts

ASSUME RegistrationAssumption ==
  /\ Code \subseteq Nat \ {0} /\ MaxCodeAttempts \in Nat \ {0}
  /\ IsFiniteSet(Confirmation)

NoRow == [by |-> 0, code |-> 0, attempts |-> 0]

VARIABLES
  pendingRow, \* the pending_registration row of the address, if any
  stale,      \* its expires_at has passed
  mailed,     \* the codes issued so far
  account,    \* the submission whose password the account has (0: no account)
  form,       \* form[r]: where submission r is
  attempt,    \* attempt[c]: where confirmation c is, what it was given and found
  answered    \* wrong answers that the present code has met (history)

registrationVars == <<pendingRow, stale, mailed, account, form, attempt, answered>>

Idle == [at |-> "IDLE", by |-> 0, code |-> 0]

RegistrationInit ==
  /\ pendingRow = NoRow
  /\ stale = FALSE
  /\ mailed = {}
  /\ account = 0
  /\ form = [r \in Registrant |-> "IDLE"]
  /\ attempt = [c \in Confirmation |-> Idle]
  /\ answered = 0

\* A code is mailed once: the first of those that are left.
IsNextCode(n) == n \notin mailed /\ \A m \in Code : m < n => m \in mailed
WriteRow(row) == pendingRow' = row /\ stale' = FALSE /\ answered' = 0
-----------------------------------------------------------------------------
\* beginRegistration() looks for an account with a statement of its own...
Submit(r) ==
  /\ form[r] = "IDLE"
  /\ form' = [form EXCEPT ![r] = IF account = 0 THEN "CHECKED" ELSE "REFUSED"]
  /\ UNCHANGED <<pendingRow, stale, mailed, account, attempt, answered>>

\* ...hashes the password, and then replaces the row of the address.
ReplacePending(r) ==
  /\ form[r] = "CHECKED"
  /\ \E n \in Code : /\ IsNextCode(n)
                    /\ WriteRow([by |-> r, code |-> n, attempts |-> 0])
                    /\ mailed' = mailed \cup {n}
  /\ form' = [form EXCEPT ![r] = "MAILED"]
  /\ UNCHANGED <<account, attempt>>

\* Another submission inserts its row between the DELETE and the INSERT of this
\* one: the unique index refuses it.
MeetOtherRow(r) ==
  /\ form[r] = "CHECKED"
  /\ \E q \in Registrant \ {r} : form[q] = "MAILED"
  /\ form' = [form EXCEPT ![r] = "REFUSED"]
  /\ UNCHANGED <<pendingRow, stale, mailed, account, attempt, answered>>

\* resendRegistrationCode(): a new code, a new life and no attempts.
ResendCode ==
  /\ pendingRow # NoRow
  /\ \E n \in Code : /\ IsNextCode(n)
                    /\ WriteRow([pendingRow EXCEPT !.code = n, !.attempts = 0])
                    /\ mailed' = mailed \cup {n}
  /\ UNCHANGED <<account, form, attempt>>

CodeExpires ==
  /\ pendingRow # NoRow /\ ~stale
  /\ stale' = TRUE
  /\ UNCHANGED <<pendingRow, mailed, account, form, attempt, answered>>

\* continueWithGoogle() makes the account of the address without the row.
GoogleAccount ==
  /\ account = 0
  /\ account' = -1
  /\ UNCHANGED <<pendingRow, stale, mailed, form, attempt, answered>>
-----------------------------------------------------------------------------
\* What the transaction of confirmRegistration() decides for a code and the
\* password of submission by.
Verdict(code, by) ==
  IF pendingRow = NoRow \/ stale THEN "REJECT"
  ELSE IF pendingRow.attempts >= MaxCodeAttempts THEN "LOCKED"
  ELSE IF code # pendingRow.code \/ by # pendingRow.by THEN "WRONG"
  ELSE IF account # 0 THEN "ALREADY_EXISTS" ELSE "OK"

\* The row is locked, so the decision is one step; the row goes with the account
\* it makes, with one that is there already, and when it has expired.
Decide(c, code, by) ==
  LET verdict == Verdict(code, by)
  IN /\ attempt[c] = Idle
     /\ attempt' = [attempt EXCEPT ![c] =
          [at |-> verdict, by |-> pendingRow.by, code |-> pendingRow.code]]
     /\ account' = IF verdict = "OK" THEN by ELSE account
     /\ IF verdict \in {"OK", "ALREADY_EXISTS", "REJECT"}
        THEN WriteRow(NoRow)
        ELSE /\ answered' = IF verdict = "WRONG" THEN answered + 1 ELSE answered
             /\ UNCHANGED <<pendingRow, stale>>
     /\ UNCHANGED <<mailed, form>>

\* (Mutant: the count is part of the transaction that is rolled back.)
CountWrongRolledBack(c) ==
  /\ attempt[c].at = "WRONG"
  /\ attempt' = [attempt EXCEPT ![c].at = "COUNTED"]
  /\ UNCHANGED <<pendingRow, stale, mailed, account, form, answered>>

\* A wrong answer is counted by a statement of its own, against the row by its
\* id, whatever code the row has by now.
CountWrong(c) ==
  /\ attempt[c].at = "WRONG"
  /\ attempt' = [attempt EXCEPT ![c].at = "COUNTED"]
  /\ pendingRow' = IF pendingRow # NoRow /\ pendingRow.by = attempt[c].by
                   THEN [pendingRow EXCEPT !.attempts = @ + 1] ELSE pendingRow
  /\ UNCHANGED <<stale, mailed, account, form, answered>>

\* The process dies before that statement.
ForgetWrong(c) ==
  /\ attempt[c].at = "WRONG"
  /\ attempt' = [attempt EXCEPT ![c].at = "LOST"]
  /\ UNCHANGED <<pendingRow, stale, mailed, account, form, answered>>

RegistrationNext ==
  \/ \E r \in Registrant : Submit(r) \/ ReplacePending(r) \/ MeetOtherRow(r)
  \/ ResendCode \/ CodeExpires \/ GoogleAccount
  \/ \E c \in Confirmation :
       \/ \E code \in mailed, by \in Registrant : Decide(c, code, by)
       \/ CountWrong(c) \/ ForgetWrong(c)

RegistrationSpec == RegistrationInit /\ [][RegistrationNext]_registrationVars
-----------------------------------------------------------------------------
RegistrationTypeOK ==
  /\ pendingRow \in [by : Registrant \cup {0}, code : Code \cup {0}, attempts : Nat]
  /\ stale \in BOOLEAN
  /\ mailed \subseteq Code
  /\ account \in Registrant \cup {0, -1}
  /\ form \in [Registrant -> {"IDLE", "CHECKED", "REFUSED", "MAILED"}]
  /\ attempt \in [Confirmation ->
       [at : {"IDLE", "REJECT", "LOCKED", "WRONG", "ALREADY_EXISTS", "OK", "COUNTED", "LOST"},
        by : Registrant \cup {0}, code : Code \cup {0}]]
  /\ answered \in Nat

\* Confirmations whose wrong answer to the present code is on its way to the
\* counter, or was lost with its process.
Uncounted ==
  {c \in Confirmation : /\ attempt[c].at \in {"WRONG", "LOST"}
                        /\ attempt[c].code = pendingRow.code
                        /\ attempt[c].by = pendingRow.by}

\* The lockout engages: of the wrong answers that a code has met, all but those
\* still on their way are in the counter, although each is counted outside the
\* transaction that judged it, and codes and rows are replaced in between
\* (confirmRegistration).
WrongAnswersCount ==
  pendingRow # NoRow =>
    answered <= pendingRow.attempts + Cardinality(Uncounted)
=============================================================================
