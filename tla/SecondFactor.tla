----------------------------- MODULE SecondFactor -----------------------------
(***************************************************************************)
(* The authenticator of one user (auth/auth-service.ts, domain/            *)
(* two-factor.ts): enrolment, the challenge with its codes by time step,   *)
(* the recovery codes, the lockout and the two ways of taking it off.      *)
(* A transaction that holds the user_totp row from its first statement is  *)
(* one step; what a call does in two transactions is two.  The reset by    *)
(* the staff begins with the recovery codes, and holds them, not the row.  *)
(***************************************************************************)
EXTENDS Integers, FiniteSets

CONSTANTS Step,        \* TOTP time steps: 1, 2, ...
          Secret,      \* secrets: 1, 2, ...
          Spare,       \* recovery codes of one list
          Enrolment,   \* calls of beginTotpEnrolment
          Challenge,   \* calls of answerChallenge
          ResetCall,   \* calls of resetTotpFor, each made again and again
          MaxChallengeAttempts

ASSUME SecondFactorAssumption ==
  /\ Step \subseteq Nat \ {0} /\ 1 \in Step /\ Secret \subseteq Nat \ {0}
  /\ MaxChallengeAttempts \in Nat \ {0}

VARIABLES
  step,       \* the time step of the clock
  totp,       \* the user_totp row (secret 0: none)
  generated,  \* secrets generated so far
  unspent,    \* recovery codes not used yet, each of the list of its secret
  locked,     \* the lockout of the last failure has not passed yet
  enrolling,  \* enrolling[e]: where enrolment e is
  challenge,  \* challenge[c]: where challenge c is
  level,      \* auth_level of the session
  resetting,  \* resetting[r]: where reset r is
  doomed,     \* doomed[r]: the recovery codes that its open transaction has deleted
  accepted,   \* accepted[k][n]: how often the code of step n of secret k let somebody in
  spent       \* how often each recovery code did

resetVars == <<resetting, doomed>>
secondFactorVars == <<step, totp, generated, unspent, locked, enrolling, challenge,
                      level, resetVars, accepted, spent>>

NoTotp == [secret |-> 0, confirmed |-> FALSE, last |-> 0, failed |-> 0]
SpareCode == Secret \X Spare

SecondFactorInit ==
  /\ step = 1
  /\ totp = NoTotp
  /\ generated = {} /\ unspent = {}
  /\ locked = FALSE
  /\ enrolling = [e \in Enrolment |-> "IDLE"]
  /\ challenge = [c \in Challenge |-> "IDLE"]
  /\ level = "PASSWORD"
  /\ resetting = [r \in ResetCall |-> "IDLE"]
  /\ doomed = [r \in ResetCall |-> {}]
  /\ accepted = [k \in Secret |-> [n \in Step |-> 0]]
  /\ spent = [r \in SpareCode |-> 0]

\* verifyTotp(): one step either side of the clock, nothing at or below the last
\* step that was used.
Drift == 1
Matches(n, last) == n \in Step /\ n - step \in -Drift .. Drift /\ n > last

\* A secret is random, and unlike any before.
NewSecret == CHOOSE k \in Secret \ generated : TRUE
\* A code that an open transaction has deleted: whoever needs its row waits.
Doomed == UNION {doomed[r] : r \in ResetCall}
Count(n) == accepted' = [accepted EXCEPT ![totp.secret][n] = @ + 1]
-----------------------------------------------------------------------------
StepPasses ==
  /\ step + 1 \in Step
  /\ step' = step + 1
  /\ UNCHANGED <<totp, generated, unspent, locked, enrolling, challenge, level, accepted,
                 spent, resetVars>>

\* beginTotpEnrolment() refuses when a confirmed row is there...
LookBeforeEnrolment(e) ==
  /\ enrolling[e] = "IDLE"
  /\ enrolling' = [enrolling EXCEPT ![e] = IF totp.confirmed THEN "REFUSED" ELSE "LOOKED"]
  /\ UNCHANGED <<step, totp, generated, unspent, locked, challenge, level, accepted,
                 spent, resetVars>>

\* ...and then writes its own, over whatever row is there by now.
WriteSecret(e) ==
  /\ enrolling[e] = "LOOKED" /\ Secret \ generated # {}
  /\ totp' = [NoTotp EXCEPT !.secret = NewSecret]
  /\ generated' = generated \cup {NewSecret}
  /\ enrolling' = [enrolling EXCEPT ![e] = "WRITTEN"]
  /\ locked' = FALSE
  /\ UNCHANGED <<step, unspent, challenge, level, accepted,
                 spent, resetVars>>

\* confirmTotpEnrolment(): ten recovery codes, and the session is raised.
ConfirmEnrolment(n) ==
  /\ totp.secret # 0 /\ ~totp.confirmed
  /\ Matches(n, 0)
  /\ totp' = [totp EXCEPT !.confirmed = TRUE, !.last = n, !.failed = 0]
  /\ unspent' = unspent \cup ({totp.secret} \X Spare)
  /\ level' = "TWO_FACTOR"
  /\ Count(n)
  /\ UNCHANGED <<step, generated, locked, enrolling, challenge, spent, resetVars>>
-----------------------------------------------------------------------------
Judged(c, verdict) == challenge' = [challenge EXCEPT ![c] = verdict]
MayAnswer(c) == challenge[c] = "IDLE" /\ totp.confirmed
Lockout == totp.failed >= MaxChallengeAttempts /\ locked

\* answerChallenge(): during a lockout nothing is judged.
AnswerLocked(c) ==
  /\ MayAnswer(c) /\ Lockout
  /\ Judged(c, "LOCKED")
  /\ UNCHANGED <<step, totp, generated, unspent, locked, enrolling, level, accepted,
                 spent, resetVars>>

\* (Mutant: the last step that was used is not looked at.)
AnswerCodeAgain(c, n) ==
  /\ MayAnswer(c) /\ ~Lockout
  /\ Matches(n, 0)
  /\ totp' = [totp EXCEPT !.failed = 0, !.last = n]
  /\ level' = "TWO_FACTOR"
  /\ Judged(c, "PASS")
  /\ Count(n)
  /\ UNCHANGED <<step, generated, unspent, locked, enrolling, spent, resetVars>>

AnswerCode(c, n) ==
  /\ MayAnswer(c) /\ ~Lockout
  /\ Matches(n, totp.last)
  /\ totp' = [totp EXCEPT !.failed = 0, !.last = n]
  /\ level' = "TWO_FACTOR"
  /\ Judged(c, "PASS")
  /\ Count(n)
  /\ UNCHANGED <<step, generated, unspent, locked, enrolling, spent, resetVars>>

\* A recovery code; COALESCE leaves last_used_step as it is.
AnswerSpare(c, r) ==
  /\ MayAnswer(c) /\ ~Lockout
  /\ r \in unspent \ Doomed
  /\ unspent' = unspent \ {r}
  /\ totp' = [totp EXCEPT !.failed = 0]
  /\ level' = "TWO_FACTOR"
  /\ Judged(c, "PASS")
  /\ spent' = [spent EXCEPT ![r] = @ + 1]
  /\ UNCHANGED <<step, generated, locked, enrolling, accepted, resetVars>>

AnswerWrong(c) ==
  /\ MayAnswer(c) /\ ~Lockout
  /\ Judged(c, "WRONG")
  /\ UNCHANGED <<step, totp, generated, unspent, locked, enrolling, level, accepted,
                 spent, resetVars>>

\* The failure is recorded by a transaction of its own, on whatever row is there.
CountFailure(c) ==
  /\ challenge[c] = "WRONG"
  /\ Judged(c, "COUNTED")
  /\ IF totp = NoTotp THEN UNCHANGED <<totp, locked>>
     ELSE totp' = [totp EXCEPT !.failed = @ + 1] /\ locked' = TRUE
  /\ UNCHANGED <<step, generated, unspent, enrolling, level, accepted,
                 spent, resetVars>>

\* lockedUntil() passes.  The attempts stay: only a success clears them.
LockoutPasses ==
  /\ locked
  /\ locked' = FALSE
  /\ UNCHANGED <<step, totp, generated, unspent, enrolling, challenge, level, accepted,
                 spent, resetVars>>
-----------------------------------------------------------------------------
\* disableTotp() asks for a code and for no more than that it matches the clock.
\* It holds the row and deletes the codes, and waits for those that are doomed.
DisableTotp(n) ==
  /\ totp.confirmed /\ Matches(n, 0)
  /\ Doomed = {}
  /\ totp' = NoTotp
  /\ unspent' = {} /\ locked' = FALSE
  /\ level' = "PASSWORD"
  /\ UNCHANGED <<step, generated, enrolling, challenge, accepted, spent, resetVars>>

\* resetTotpFor(), the reset by the staff, deletes the recovery codes first...
ClearSpares(r) ==
  /\ resetting[r] = "IDLE"
  /\ Doomed = {}
  /\ resetting' = [resetting EXCEPT ![r] = "CLEARED"]
  /\ doomed' = [doomed EXCEPT ![r] = unspent]
  /\ UNCHANGED <<step, totp, generated, unspent, locked, enrolling, challenge, level,
                 accepted, spent>>

\* The transaction ends; the codes written since it deleted the others stay.
ResetCommits(r) ==
  /\ unspent' = unspent \ doomed[r]
  /\ level' = "PASSWORD"
  /\ resetting' = [resetting EXCEPT ![r] = "IDLE"]
  /\ doomed' = [doomed EXCEPT ![r] = {}]
  /\ UNCHANGED <<step, generated, enrolling, challenge, accepted, spent>>

\* ...the row after them, and with the row locked nothing comes in between any
\* more until the session is revoked and the transaction commits...
ResetTotp(r) ==
  /\ resetting[r] = "CLEARED"
  /\ totp # NoTotp
  /\ totp' = NoTotp /\ locked' = FALSE
  /\ ResetCommits(r)

\* ...but when it finds no row it locks none, and an enrolment can still cross it.
ResetFindsNoTotp(r) ==
  /\ resetting[r] = "CLEARED"
  /\ totp = NoTotp
  /\ resetting' = [resetting EXCEPT ![r] = "MISSED"]
  /\ UNCHANGED <<step, totp, generated, unspent, locked, enrolling, challenge, level, doomed,
                 accepted, spent>>

RevokeAfterReset(r) ==
  /\ resetting[r] = "MISSED"
  /\ ResetCommits(r)
  /\ UNCHANGED <<totp, locked>>

\* It dies, or is the victim of a deadlock with a call that holds the row and
\* waits for a code.  (The other victim's call changes nothing either.)
ResetRollsBack(r) ==
  /\ resetting[r] # "IDLE"
  /\ resetting' = [resetting EXCEPT ![r] = "IDLE"]
  /\ doomed' = [doomed EXCEPT ![r] = {}]
  /\ UNCHANGED <<step, totp, generated, unspent, locked, enrolling, challenge, level,
                 accepted, spent>>

SecondFactorNext ==
  \/ StepPasses \/ LockoutPasses
  \/ \E r \in ResetCall :
       \/ ClearSpares(r) \/ ResetTotp(r) \/ ResetFindsNoTotp(r) \/ RevokeAfterReset(r)
       \/ ResetRollsBack(r)
  \/ \E e \in Enrolment : LookBeforeEnrolment(e) \/ WriteSecret(e)
  \/ \E n \in Step : ConfirmEnrolment(n) \/ DisableTotp(n)
  \/ \E c \in Challenge :
       \/ AnswerLocked(c) \/ AnswerWrong(c) \/ CountFailure(c)
       \/ \E n \in Step : AnswerCode(c, n)
       \/ \E r \in SpareCode : AnswerSpare(c, r)

SecondFactorSpec == SecondFactorInit /\ [][SecondFactorNext]_secondFactorVars
-----------------------------------------------------------------------------
SecondFactorTypeOK ==
  /\ step \in Step
  /\ totp \in [secret : Secret \cup {0}, confirmed : BOOLEAN, last : Step \cup {0}, failed : Nat]
  /\ generated \subseteq Secret /\ unspent \subseteq SpareCode
  /\ locked \in BOOLEAN
  /\ enrolling \in [Enrolment -> {"IDLE", "REFUSED", "LOOKED", "WRITTEN"}]
  /\ challenge \in [Challenge -> {"IDLE", "LOCKED", "PASS", "WRONG", "COUNTED"}]
  /\ level \in {"PASSWORD", "TWO_FACTOR"}
  /\ resetting \in [ResetCall -> {"IDLE", "CLEARED", "MISSED"}]
  /\ doomed \in [ResetCall -> SUBSET SpareCode]
  /\ accepted \in [Secret -> [Step -> Nat]]
  /\ spent \in [SpareCode -> Nat]

\* A code lets somebody in once, at the enrolment or at a challenge, although the
\* clock accepts it for three steps, enrolments replace one another's rows and
\* recovery codes pass without a step of their own (last_used_step, used_at).
CodesWorkOnce ==
  /\ \A k \in Secret, n \in Step : accepted[k][n] <= 1
  /\ \A r \in SpareCode : spent[r] <= 1
=============================================================================
