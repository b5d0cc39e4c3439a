----------------------------- MODULE AccountProofs -----------------------------
(***************************************************************************)
(* Proofs about the accounts.  For any number of logins, rotations,        *)
(* revocations, enrolments and challenges of one user: a sign-in is one    *)
(* live session, and a code of the second factor lets somebody in once.    *)
(* For any accounts, chats, numbers and codes: a closed account holds no   *)
(* live chat, and a proven phone number stays where it was proven.         *)
(*                                                                         *)
(* A rotation inserts its successor before the row it replaces is revoked. *)
(* LineageInv says that the two are never live together: the successor is  *)
(* invisible and belongs to no other rotation, and the row it replaces,    *)
(* locked, stays live until the commit.  For the codes, UsedInv says what  *)
(* becomes of a secret that was used: it is not generated again, and its   *)
(* row remembers the last step of all the codes that were accepted.        *)
(* CodeInv says that a link holds its code, and that a closure meets no    *)
(* link once it has deleted the codes.  FreedInv says that the rows a      *)
(* contact releases are not proven, and are not being proven by another.   *)
(*                                                                         *)
(* A registration, for any submissions, confirmations and codes: the wrong *)
(* answers to a code are in its counter but for those on their way there.  *)
(***************************************************************************)
EXTENDS Sessions, SecondFactor, Telegram, PhoneNumbers, Registration, FiniteSetTheorems, TLAPS

\* The part of SessionsTypeOK that the proof needs.
LineageTyped ==
  /\ row \in [Session -> {"NONE", "LIVE", "REVOKED", "EXPIRED"}]
  /\ origin \in [Session -> Login]
  /\ rotation \in [Session -> Session \cup {0}]
  /\ signingIn \in [Login -> {"IDLE", "HASHING", "REFUSED", "IN"}]

LineageInv ==
  /\ \A s \in Session : rotation[s] # 0 =>
       /\ row[s] = "LIVE" /\ row[rotation[s]] = "NONE"
       /\ origin[rotation[s]] = origin[s]
  /\ \A s, t \in Session : rotation[s] = rotation[t] /\ rotation[s] # 0 => s = t
  /\ \A s \in Live : signingIn[origin[s]] = "IN"

SessionsInv == LineageTyped /\ LineageInv /\ OneLivePerLogin
-----------------------------------------------------------------------------
LEMMA SessionsInvInit ==
  ASSUME SessionsInit, Login # {}
  PROVE  SessionsInv
<1>1. (CHOOSE l \in Login : TRUE) \in Login
  OBVIOUS
<1> QED
  BY <1>1 DEF SessionsInit, SessionsInv, LineageTyped, LineageInv, OneLivePerLogin, Live,
              SessionsWith

LEMMA NewRowIsUnused ==
  ASSUME Unused # {}
  PROVE  /\ NewRow \in Session /\ row[NewRow] = "NONE"
         /\ \A s \in Session : rotation[s] # NewRow
<1>1. NewRow \in Unused
  BY DEF NewRow
<1> QED
  BY <1>1 DEF Unused, SessionsWith

LEMMA LoginKeeps ==
  ASSUME SessionsAssumption, SessionsInv, NEW l \in Login, RightPassword(l)
  PROVE  SessionsInv'
<1> USE DEF SessionsInv, LineageTyped, SessionsAssumption
<1>1. CASE failures < MaxFailedLogins
  <2>1. /\ signingIn[l] = "HASHING" /\ signingIn' = [signingIn EXCEPT ![l] = "IN"]
        /\ row' = [row EXCEPT ![NewRow] = "LIVE"]
        /\ origin' = [origin EXCEPT ![NewRow] = l]
        /\ UNCHANGED rotation
        /\ NewRow \in Session /\ row[NewRow] = "NONE" /\ \A s \in Session : rotation[s] # NewRow
    BY <1>1, NewRowIsUnused DEF RightPassword
  <2>2. LineageTyped'
    BY <2>1
  <2>3. LineageInv'
    BY <2>1 DEF LineageInv, Live, SessionsWith
  <2>4. OneLivePerLogin'
    BY <2>1 DEF LineageInv, OneLivePerLogin, Live, SessionsWith
  <2> QED
    BY <2>2, <2>3, <2>4
<1>2. CASE ~(failures < MaxFailedLogins)
  BY <1>2 DEF RightPassword, LineageInv, OneLivePerLogin, Live, SessionsWith
<1> QED
  BY <1>1, <1>2

LEMMA BeginRotationKeeps ==
  ASSUME SessionsAssumption, SessionsInv, NEW s \in Session, BeginRotation(s)
  PROVE  SessionsInv'
<1> USE DEF SessionsInv, LineageTyped, SessionsAssumption
<1>1. /\ row[s] = "LIVE" /\ rotation[s] = 0
      /\ rotation' = [rotation EXCEPT ![s] = NewRow]
      /\ origin' = [origin EXCEPT ![NewRow] = origin[s]]
      /\ UNCHANGED <<row, signingIn>>
      /\ NewRow \in Session /\ row[NewRow] = "NONE" /\ \A t \in Session : rotation[t] # NewRow
  BY NewRowIsUnused DEF BeginRotation, Locked
<1>2. LineageTyped'
  BY <1>1
<1>3. LineageInv'
  BY <1>1 DEF LineageInv, Live, SessionsWith
<1>4. OneLivePerLogin'
  BY <1>1 DEF OneLivePerLogin, Live, SessionsWith
<1> QED
  BY <1>2, <1>3, <1>4

LEMMA CommitRotationKeeps ==
  ASSUME SessionsAssumption, SessionsInv, NEW s \in Session, CommitRotation(s)
  PROVE  SessionsInv'
<1> USE DEF SessionsInv, LineageTyped, SessionsAssumption
<1> DEFINE n == rotation[s]
<1>1. /\ n \in Session /\ n # 0 /\ row[s] = "LIVE" /\ row[n] = "NONE" /\ origin[n] = origin[s]
      /\ row' = [row EXCEPT ![s] = "REVOKED", ![n] = "LIVE"]
      /\ rotation' = [rotation EXCEPT ![s] = 0]
      /\ UNCHANGED <<origin, signingIn>>
  BY DEF CommitRotation, Locked, LineageInv
<1>2. /\ row'[n] = "LIVE" /\ row'[s] = "REVOKED"
      /\ \A t \in Session \ {s, n} : row'[t] = row[t]
      /\ rotation'[s] = 0 /\ \A t \in Session \ {s} : rotation'[t] = rotation[t] /\ rotation[t] # n
  BY <1>1 DEF LineageInv
<1>3. LineageTyped'
  BY <1>1
<1>4. LineageInv'
  <2>1. ASSUME NEW t \in Session, rotation'[t] # 0
        PROVE  /\ row'[t] = "LIVE" /\ row'[rotation'[t]] = "NONE"
               /\ origin'[rotation'[t]] = origin'[t]
    <3>1. /\ t # s /\ rotation'[t] = rotation[t] /\ rotation[t] # n
          /\ row[t] = "LIVE" /\ row[rotation[t]] = "NONE" /\ origin[rotation[t]] = origin[t]
      BY <1>2, <2>1 DEF LineageInv
    <3>2. t # n /\ rotation[t] # s /\ rotation[t] \in Session
      BY <1>1, <2>1, <3>1
    <3> QED
      BY <1>1, <1>2, <3>1, <3>2
  <2>2. \A t, u \in Session : rotation'[t] = rotation'[u] /\ rotation'[t] # 0 => t = u
    BY <1>2 DEF LineageInv
  <2>3. \A t \in Live' : signingIn'[origin'[t]] = "IN"
    BY <1>1, <1>2 DEF LineageInv, Live, SessionsWith
  <2> QED
    BY <2>1, <2>2, <2>3 DEF LineageInv
<1>5. OneLivePerLogin'
  BY <1>1, <1>2 DEF OneLivePerLogin, Live, SessionsWith
<1> QED
  BY <1>3, <1>4, <1>5

\* What only ends live sessions that no rotation has locked.
LEMMA EndingKeeps ==
  ASSUME SessionsInv,
         row' \in [Session -> {"NONE", "LIVE", "REVOKED", "EXPIRED"}],
         \A s \in Session :
           row'[s] = row[s] \/ (row[s] = "LIVE" /\ rotation[s] = 0 /\ row'[s] # "LIVE"
                                  /\ row'[s] # "NONE"),
         signingIn' \in [Login -> {"IDLE", "HASHING", "REFUSED", "IN"}],
         \A l \in Login : signingIn[l] = "IN" => signingIn'[l] = "IN",
         UNCHANGED <<origin, rotation>>
  PROVE  SessionsInv'
<1> USE DEF SessionsInv, LineageTyped
<1>1. LineageTyped'
  OBVIOUS
<1>2. LineageInv'
  BY DEF LineageInv, Live, SessionsWith
<1>3. OneLivePerLogin'
  BY DEF OneLivePerLogin, Live, SessionsWith
<1> QED
  BY <1>1, <1>2, <1>3

LEMMA SessionsInvNext ==
  ASSUME SessionsAssumption, SessionsInv, [SessionsNext]_sessionsVars
  PROVE  SessionsInv'
<1> USE DEF SessionsInv, LineageTyped
<1>1. ASSUME NEW l \in Login, BeginLogin(l) \/ WrongPassword(l)
      PROVE  SessionsInv'
  BY <1>1, EndingKeeps DEF BeginLogin, WrongPassword
<1>2. ASSUME NEW s \in Session, LoseRotation(s)
      PROVE  SessionsInv'
  BY <1>2 DEF LoseRotation, LineageInv, OneLivePerLogin, Live, SessionsWith
<1>3. ASSUME NEW s \in Session, Logout(s) \/ SessionExpires(s)
      PROVE  SessionsInv'
  BY <1>3, EndingKeeps DEF Logout, SessionExpires, Locked
<1>4. ASSUME NEW v \in Revocation, CommitRevocation(v)
      PROVE  SessionsInv'
  BY <1>4, EndingKeeps DEF CommitRevocation, Locked
<1>5. CASE UNCHANGED <<row, origin, rotation, signingIn>>
  BY <1>5, EndingKeeps
<1>6. ASSUME NEW t \in ResetToken, TokenExpires(t) \/ \E meets \in SUBSET ResetToken : IssueToken(t, meets)
      PROVE  SessionsInv'
  BY <1>5, <1>6 DEF TokenExpires, IssueToken
<1>7. ASSUME NEW v \in Revocation, LoseRevocation(v)
                \/ (\E kept \in SUBSET Live : BeginRevocation(v, kept))
                \/ (\E t \in ResetToken : BeginReset(v, t))
      PROVE  SessionsInv'
  BY <1>5, <1>7 DEF LoseRevocation, BeginRevocation, BeginReset
<1>8. CASE FailuresAge \/ UNCHANGED sessionsVars
  BY <1>5, <1>8 DEF FailuresAge, sessionsVars
<1> QED
  BY <1>1, <1>2, <1>3, <1>4, <1>6, <1>7, <1>8, LoginKeeps, BeginRotationKeeps,
     CommitRotationKeeps
  DEF SessionsNext

\* What the sessions do not depend on.
RevokingTyped ==
  /\ failures \in Nat
  /\ token \in [ResetToken -> {"NONE", "ISSUED", "CONSUMED", "USED"}]
  /\ revoking \in [Revocation -> [at : {"IDLE", "SEEN", "DONE", "LOST"},
                                  seen : SUBSET Session, token : ResetToken \cup {0}]]

LEMMA RevokingTypedNext ==
  ASSUME RevokingTyped, [SessionsNext]_sessionsVars
  PROVE  RevokingTyped'
<1> USE DEF RevokingTyped
<1>1. ASSUME NEW l \in Login, BeginLogin(l) \/ WrongPassword(l) \/ RightPassword(l)
      PROVE  RevokingTyped'
  BY <1>1 DEF BeginLogin, WrongPassword, RightPassword
<1>2. ASSUME NEW s \in Session, BeginRotation(s) \/ CommitRotation(s) \/ LoseRotation(s)
                                \/ Logout(s) \/ SessionExpires(s)
      PROVE  RevokingTyped'
  BY <1>2 DEF BeginRotation, CommitRotation, LoseRotation, Logout, SessionExpires
<1>3. ASSUME NEW t \in ResetToken,
             TokenExpires(t) \/ \E meets \in SUBSET ResetToken : IssueToken(t, meets)
      PROVE  RevokingTyped'
  BY <1>3 DEF TokenExpires, IssueToken
<1>4. ASSUME NEW v \in Revocation, NEW kept \in SUBSET Live, BeginRevocation(v, kept)
      PROVE  RevokingTyped'
  BY <1>4 DEF BeginRevocation, Live, SessionsWith
<1>5. ASSUME NEW v \in Revocation, NEW t \in ResetToken, BeginReset(v, t)
      PROVE  RevokingTyped'
  BY <1>5 DEF BeginReset, Live, SessionsWith
<1>6. ASSUME NEW v \in Revocation, CommitRevocation(v) \/ LoseRevocation(v)
      PROVE  RevokingTyped'
  BY <1>6 DEF CommitRevocation, LoseRevocation, NoRevocation
<1>7. CASE FailuresAge \/ UNCHANGED sessionsVars
  BY <1>7 DEF FailuresAge, sessionsVars
<1> QED
  BY <1>1, <1>2, <1>3, <1>4, <1>5, <1>6, <1>7 DEF SessionsNext

LEMMA SessionsTypes == SessionsSpec => []SessionsTypeOK
<1>1. SessionsInit => SessionsInv /\ RevokingTyped
  BY SessionsInvInit, SessionsAssumption
  DEF SessionsAssumption, SessionsInit, RevokingTyped, NoRevocation
<1>2. SessionsInv /\ RevokingTyped /\ [SessionsNext]_sessionsVars
        => SessionsInv' /\ RevokingTyped'
  BY SessionsInvNext, RevokingTypedNext, SessionsAssumption
<1>3. SessionsInv /\ RevokingTyped => SessionsTypeOK
  BY DEF SessionsInv, LineageTyped, RevokingTyped, SessionsTypeOK
<1> QED
  BY <1>1, <1>2, <1>3, PTL DEF SessionsSpec

\* One sign-in is one live session, however rotations of a token race with each
\* other, with a logout and with what revokes every session (rotateSession).
THEOREM OneSessionPerLogin == SessionsSpec => []OneLivePerLogin
<1>1. SessionsInit => SessionsInv
  BY SessionsInvInit, SessionsAssumption DEF SessionsAssumption
<1>2. SessionsInv /\ [SessionsNext]_sessionsVars => SessionsInv'
  BY SessionsInvNext, SessionsAssumption
<1>3. SessionsInv => OneLivePerLogin
  BY DEF SessionsInv
<1> QED
  BY <1>1, <1>2, <1>3, PTL DEF SessionsSpec
-----------------------------------------------------------------------------
\* The part of SecondFactorTypeOK that the proof needs.
FactorTyped ==
  /\ totp \in [secret : Secret \cup {0}, confirmed : BOOLEAN, last : Step \cup {0}, failed : Nat]
  /\ generated \subseteq Secret
  /\ unspent \subseteq SpareCode
  /\ accepted \in [Secret -> [Step -> Nat]]
  /\ spent \in [SpareCode -> Nat]

\* A code that was used belongs to a secret that is confirmed, for as long as it
\* is the one in the row, and its step is not after the last one.
UsedInv ==
  /\ totp.secret # 0 => totp.secret \in generated
  /\ totp.confirmed => totp.secret # 0
  /\ \A k \in Secret, n \in Step : accepted[k][n] # 0 =>
       /\ k \in generated
       /\ k = totp.secret => totp.confirmed /\ n <= totp.last
  /\ \A r \in SpareCode : spent[r] # 0 =>
       /\ r \notin unspent /\ r[1] \in generated
       /\ r[1] = totp.secret => totp.confirmed
  /\ \A r \in unspent : r[1] \in generated

FactorInv == FactorTyped /\ UsedInv /\ CodesWorkOnce
-----------------------------------------------------------------------------
LEMMA FactorInvInit ==
  ASSUME SecondFactorAssumption, SecondFactorInit
  PROVE  FactorInv
BY DEF SecondFactorAssumption, SecondFactorInit, FactorInv, FactorTyped, UsedInv, CodesWorkOnce,
       NoTotp

LEMMA StepsAreNumbers ==
  ASSUME SecondFactorAssumption, NEW n \in Step \cup {0}
  PROVE  n \in Nat
BY DEF SecondFactorAssumption

\* The code of step n of the secret in the row is accepted, and was not before.
LEMMA AcceptKeeps ==
  ASSUME SecondFactorAssumption, FactorInv, NEW n \in Step, totp.secret # 0, Count(n),
         accepted[totp.secret][n] = 0,
         \A m \in Step : accepted[totp.secret][m] # 0 => m <= n,
         totp' = [totp EXCEPT !.confirmed = TRUE, !.last = n, !.failed = 0],
         \/ unspent' = unspent
         \/ unspent' = unspent \cup ({totp.secret} \X Spare) /\ ~totp.confirmed,
         UNCHANGED <<generated, spent>>
  PROVE  FactorInv'
<1> USE DEF FactorInv, FactorTyped, SecondFactorAssumption
<1> DEFINE k == totp.secret
<1>1. /\ k \in generated /\ k \in Secret
      /\ accepted'[k] = [accepted[k] EXCEPT ![n] = 1]
      /\ \A j \in Secret \ {k} : accepted'[j] = accepted[j]
      /\ totp'.secret = k /\ totp'.confirmed /\ totp'.last = n
  BY DEF UsedInv, Count
<1>2. /\ accepted' \in [Secret -> [Step -> Nat]]
      /\ \A j \in Secret, m \in Step : accepted'[j][m] # 0 =>
           /\ j \in generated
           /\ j = k => m <= n
      /\ \A j \in Secret, m \in Step : accepted'[j][m] <= 1
  BY <1>1 DEF UsedInv, CodesWorkOnce, Count
<1>3. FactorTyped'
  BY <1>1, <1>2 DEF SpareCode
<1>4. ASSUME NEW r \in SpareCode, spent[r] # 0
      PROVE  r \notin unspent'
  BY <1>4 DEF UsedInv
<1>5. \A r \in unspent' : r[1] \in generated
  BY <1>1 DEF UsedInv
<1> QED
  BY <1>1, <1>2, <1>3, <1>4, <1>5 DEF UsedInv, CodesWorkOnce

LEMMA SpareKeeps ==
  ASSUME SecondFactorAssumption, FactorInv, NEW c \in Challenge, NEW r \in SpareCode,
         AnswerSpare(c, r)
  PROVE  FactorInv'
<1> USE DEF FactorInv, FactorTyped, SecondFactorAssumption
<1>1. /\ totp.confirmed /\ r \in unspent /\ spent[r] = 0
      /\ unspent' = unspent \ {r}
      /\ totp' = [totp EXCEPT !.failed = 0]
      /\ spent' = [spent EXCEPT ![r] = 1]
      /\ UNCHANGED <<generated, accepted>>
  <2>1. totp.confirmed /\ r \in unspent
    BY DEF AnswerSpare, MayAnswer
  <2>2. spent[r] = 0
    BY <2>1 DEF UsedInv
  <2> QED
    BY <2>1, <2>2 DEF AnswerSpare
<1>2. FactorTyped'
  BY <1>1
<1>3. UsedInv'
  BY <1>1 DEF UsedInv
<1>4. CodesWorkOnce'
  BY <1>1 DEF CodesWorkOnce
<1> QED
  BY <1>2, <1>3, <1>4

LEMMA FactorInvNext ==
  ASSUME SecondFactorAssumption, FactorInv, [SecondFactorNext]_secondFactorVars
  PROVE  FactorInv'
<1> USE DEF FactorInv, FactorTyped, SecondFactorAssumption
<1>1. CASE UNCHANGED <<totp, generated, unspent, accepted, spent>>
  BY <1>1 DEF UsedInv, CodesWorkOnce
<1>2. ASSUME NEW e \in Enrolment, WriteSecret(e)
      PROVE  FactorInv'
  <2>1. /\ NewSecret \in Secret \ generated /\ generated' = generated \cup {NewSecret}
        /\ totp' = [secret |-> NewSecret, confirmed |-> FALSE, last |-> 0, failed |-> 0]
        /\ UNCHANGED <<unspent, accepted, spent>>
    BY <1>2 DEF WriteSecret, NewSecret, NoTotp
  <2>2. FactorTyped'
    BY <2>1
  <2>3. UsedInv'
    BY <2>1 DEF UsedInv
  <2>4. CodesWorkOnce'
    BY <2>1 DEF CodesWorkOnce
  <2> QED
    BY <2>2, <2>3, <2>4
<1>3. ASSUME NEW n \in Step, ConfirmEnrolment(n)
      PROVE  FactorInv'
  <2>1. \A m \in Step : accepted[totp.secret][m] = 0
    BY <1>3 DEF ConfirmEnrolment, UsedInv
  <2> QED
    BY <1>3, <2>1, AcceptKeeps DEF ConfirmEnrolment
<1>4. ASSUME NEW c \in Challenge, NEW n \in Step, AnswerCode(c, n)
      PROVE  FactorInv'
  <2>1. totp.confirmed /\ totp.secret # 0 /\ n > totp.last
    BY <1>4 DEF AnswerCode, MayAnswer, Matches, UsedInv
  <2>2. totp' = [totp EXCEPT !.confirmed = TRUE, !.last = n, !.failed = 0]
    BY <1>4, <2>1 DEF AnswerCode
  <2>3. \A m \in Step : accepted[totp.secret][m] # 0 => m <= totp.last
    BY <2>1 DEF UsedInv
  <2>4. totp.last \in Nat /\ n \in Nat
    <3>1. totp.last \in Step \cup {0}
      OBVIOUS
    <3> QED
      BY <3>1, StepsAreNumbers
  <2>5. accepted[totp.secret][n] = 0
    BY <2>1, <2>3, <2>4
  <2>6. \A m \in Step : accepted[totp.secret][m] # 0 => m <= n
    BY <2>1, <2>3, <2>4
  <2>7. Count(n) /\ unspent' = unspent /\ UNCHANGED <<generated, spent>>
    BY <1>4 DEF AnswerCode
  <2> QED
    BY <2>1, <2>2, <2>5, <2>6, <2>7, AcceptKeeps
<1>5. ASSUME NEW c \in Challenge, CountFailure(c)
      PROVE  FactorInv'
  <2>1. /\ totp' \in {totp, [totp EXCEPT !.failed = @ + 1]}
        /\ UNCHANGED <<generated, unspent, accepted, spent>>
    BY <1>5 DEF CountFailure
  <2> QED
    BY <2>1 DEF UsedInv, CodesWorkOnce
<1>6. ASSUME totp' \in {totp, NoTotp}, unspent' \subseteq unspent,
             UNCHANGED <<generated, accepted, spent>>
      PROVE  FactorInv'
  <2>1. /\ \/ totp' = totp
           \/ totp' = [secret |-> 0, confirmed |-> FALSE, last |-> 0, failed |-> 0]
        /\ unspent' \subseteq unspent /\ UNCHANGED <<generated, accepted, spent>>
    BY <1>6 DEF NoTotp
  <2>2. FactorTyped'
    <3>1. CASE totp' = totp
      BY <2>1, <3>1 DEF SpareCode
    <3>2. CASE totp' = [secret |-> 0, confirmed |-> FALSE, last |-> 0, failed |-> 0]
      BY <2>1, <3>2 DEF SpareCode
    <3> QED
      BY <2>1, <3>1, <3>2
  <2>3. UsedInv'
    BY <2>1 DEF UsedInv, SpareCode
  <2>4. CodesWorkOnce'
    BY <2>1 DEF CodesWorkOnce
  <2> QED
    BY <2>2, <2>3, <2>4
<1>7. ASSUME NEW c \in Challenge, AnswerLocked(c) \/ AnswerWrong(c)
      PROVE  FactorInv'
  BY <1>1, <1>7 DEF AnswerLocked, AnswerWrong
<1>8. CASE StepPasses \/ LockoutPasses \/ \E e \in Enrolment : LookBeforeEnrolment(e)
  BY <1>1, <1>8 DEF StepPasses, LockoutPasses, LookBeforeEnrolment
<1>9. CASE UNCHANGED secondFactorVars
  BY <1>1, <1>9 DEF secondFactorVars
<1>10. ASSUME NEW n \in Step, DisableTotp(n)
       PROVE  FactorInv'
  BY <1>6, <1>10 DEF DisableTotp
<1>11. ASSUME NEW r \in ResetCall,
              \/ ClearSpares(r) \/ ResetTotp(r) \/ ResetFindsNoTotp(r) \/ RevokeAfterReset(r)
              \/ ResetRollsBack(r)
       PROVE  FactorInv'
  <2>1. /\ totp' \in {totp, NoTotp} /\ unspent' \subseteq unspent
        /\ UNCHANGED <<generated, accepted, spent>>
    BY <1>11 DEF ClearSpares, ResetTotp, ResetFindsNoTotp, RevokeAfterReset, ResetRollsBack,
                 ResetCommits
  <2> QED
    BY <1>6, <2>1
<1> QED
  BY <1>2, <1>3, <1>4, <1>5, <1>7, <1>8, <1>9, <1>10, <1>11, SpareKeeps DEF SecondFactorNext

\* What the codes do not depend on.
ChallengeTyped ==
  /\ step \in Step /\ locked \in BOOLEAN
  /\ enrolling \in [Enrolment -> {"IDLE", "REFUSED", "LOOKED", "WRITTEN"}]
  /\ challenge \in [Challenge -> {"IDLE", "LOCKED", "PASS", "WRONG", "COUNTED"}]
  /\ level \in {"PASSWORD", "TWO_FACTOR"}
  /\ resetting \in [ResetCall -> {"IDLE", "CLEARED", "MISSED"}]
  /\ doomed \in [ResetCall -> SUBSET SpareCode]

LEMMA ChallengeTypedNext ==
  ASSUME ChallengeTyped, unspent \subseteq SpareCode, [SecondFactorNext]_secondFactorVars
  PROVE  ChallengeTyped'
<1> USE DEF ChallengeTyped
<1>1. CASE StepPasses \/ LockoutPasses
  BY <1>1 DEF StepPasses, LockoutPasses, resetVars
<1>2. ASSUME NEW e \in Enrolment, LookBeforeEnrolment(e) \/ WriteSecret(e)
      PROVE  ChallengeTyped'
  BY <1>2 DEF LookBeforeEnrolment, WriteSecret, resetVars
<1>3. ASSUME NEW n \in Step, ConfirmEnrolment(n) \/ DisableTotp(n)
      PROVE  ChallengeTyped'
  BY <1>3 DEF ConfirmEnrolment, DisableTotp, resetVars
<1>4. ASSUME NEW c \in Challenge, AnswerLocked(c) \/ AnswerWrong(c) \/ CountFailure(c)
      PROVE  ChallengeTyped'
  BY <1>4 DEF AnswerLocked, AnswerWrong, CountFailure, Judged, resetVars
<1>5. ASSUME NEW c \in Challenge,
             (\E n \in Step : AnswerCode(c, n)) \/ (\E r \in SpareCode : AnswerSpare(c, r))
      PROVE  ChallengeTyped'
  BY <1>5 DEF AnswerCode, AnswerSpare, Judged, resetVars
<1>6. CASE UNCHANGED secondFactorVars
  BY <1>6 DEF secondFactorVars, resetVars
<1>7. ASSUME NEW r \in ResetCall,
             \/ ClearSpares(r) \/ ResetTotp(r) \/ ResetFindsNoTotp(r) \/ RevokeAfterReset(r)
             \/ ResetRollsBack(r)
      PROVE  ChallengeTyped'
  BY <1>7
  DEF ClearSpares, ResetTotp, ResetFindsNoTotp, RevokeAfterReset, ResetRollsBack, ResetCommits
<1> QED
  BY <1>1, <1>2, <1>3, <1>4, <1>5, <1>6, <1>7 DEF SecondFactorNext

LEMMA SecondFactorTypes == SecondFactorSpec => []SecondFactorTypeOK
<1>1. SecondFactorInit => FactorInv /\ ChallengeTyped
  BY FactorInvInit, SecondFactorAssumption
  DEF SecondFactorAssumption, SecondFactorInit, ChallengeTyped
<1>2. FactorInv /\ ChallengeTyped /\ [SecondFactorNext]_secondFactorVars
        => FactorInv' /\ ChallengeTyped'
  BY FactorInvNext, ChallengeTypedNext, SecondFactorAssumption DEF FactorInv, FactorTyped
<1>3. FactorInv /\ ChallengeTyped => SecondFactorTypeOK
  BY DEF FactorInv, FactorTyped, ChallengeTyped, SecondFactorTypeOK
<1> QED
  BY <1>1, <1>2, <1>3, PTL DEF SecondFactorSpec

\* A code lets somebody in once, however enrolments replace one another and
\* challenges race (last_used_step, used_at).
THEOREM CodesAreSpent == SecondFactorSpec => []CodesWorkOnce
<1>1. SecondFactorInit => FactorInv
  BY FactorInvInit, SecondFactorAssumption
<1>2. FactorInv /\ [SecondFactorNext]_secondFactorVars => FactorInv'
  BY FactorInvNext, SecondFactorAssumption
<1>3. FactorInv => CodesWorkOnce
  BY DEF FactorInv
<1> QED
  BY <1>1, <1>2, <1>3, PTL DEF SecondFactorSpec
-----------------------------------------------------------------------------
\* A link that is under way holds a live code; a closure that has deleted the codes
\* of its account meets no link; a live code of a closed account was minted late.
CodeInv ==
  /\ \A t \in Token : link[t].at # "IDLE" => code[t] = "LIVE"
  /\ \A t \in Token : TokensDeleted(TokenOf[t]) => link[t].at = "IDLE"
  /\ \A t \in Token : TokenOf[t] \in closed /\ code[t] = "LIVE" => t \in late

TelegramInv == TelegramTypeOK /\ CodeInv /\ ClosedHoldsNoChat

LEMMA TelegramInvInit ==
  ASSUME TelegramAssumption, TelegramInit
  PROVE  TelegramInv
BY DEF TelegramAssumption, TelegramInit, TelegramInv, TelegramTypeOK, CodeInv, ClosedHoldsNoChat,
       NoLink, TokensDeleted

LEMMA CommitLinkKeeps ==
  ASSUME TelegramAssumption, TelegramInv, NEW t \in Token, CommitLink(t)
  PROVE  TelegramInv'
<1> USE DEF TelegramAssumption, TelegramInv, TelegramTypeOK, CommitLink, NoLink
<1>1. TelegramTypeOK'
  OBVIOUS
<1>2. CodeInv'
  BY DEF CodeInv, TokensDeleted
<1>3. ClosedHoldsNoChat'
  <2>1. TokenOf[t] \in closed => t \in late
    BY DEF CodeInv
  <2> QED
    BY <2>1 DEF ClosedHoldsNoChat
<1> QED
  BY <1>1, <1>2, <1>3

LEMMA CommitClosureKeeps ==
  ASSUME TelegramAssumption, TelegramInv, NEW u \in Account, CommitClosure(u)
  PROVE  TelegramInv'
<1> USE DEF TelegramAssumption, TelegramInv, TelegramTypeOK, CommitClosure, CloseAt
<1>1. TelegramTypeOK'
  OBVIOUS
<1>2. CodeInv'
  <2>1. \A t \in Token : TokenOf[t] = u => link[t].at = "IDLE"
    BY DEF CodeInv, TokensDeleted
  <2>2. \A t \in Token : TokenOf[t] = u => code'[t] # "LIVE"
    OBVIOUS
  <2>3. \A t \in Token : TokenOf[t] # u => code'[t] = code[t]
    OBVIOUS
  <2> QED
    BY <2>1, <2>2, <2>3 DEF CodeInv, TokensDeleted
<1>3. ClosedHoldsNoChat'
  BY DEF ClosedHoldsNoChat
<1> QED
  BY <1>1, <1>2, <1>3

LEMMA TelegramInvNext ==
  ASSUME TelegramAssumption, TelegramInv, [TelegramNext]_telegramVars
  PROVE  TelegramInv'
<1> USE DEF TelegramAssumption, TelegramInv, TelegramTypeOK
<1>1. ASSUME NEW t \in Token, AskToken(t) \/ MintToken(t) \/ ExpireToken(t)
      PROVE  TelegramInv'
  <2>1. TelegramTypeOK'
    BY <1>1 DEF AskToken, MintToken, ExpireToken
  <2>2. CodeInv'
    BY <1>1 DEF AskToken, MintToken, ExpireToken, CodeInv, TokensDeleted
  <2>3. ClosedHoldsNoChat'
    BY <1>1 DEF AskToken, MintToken, ExpireToken, ClosedHoldsNoChat
  <2> QED
    BY <2>1, <2>2, <2>3
<1>2. ASSUME NEW t \in Token, (\E c \in Chat : ConsumeToken(t, c)) \/ LinkChat(t) \/ LoseLink(t)
      PROVE  TelegramInv'
  <2>1. TelegramTypeOK'
    <3>1. CASE \E c \in Chat : ConsumeToken(t, c)
      BY <3>1 DEF ConsumeToken
    <3>2. CASE LinkChat(t)
      <4>1. link' = [link EXCEPT ![t] = NoLink] \/ link' = [link EXCEPT ![t].at = "LINKED"]
        BY <3>2 DEF LinkChat
      <4> QED
        BY <3>2, <4>1 DEF LinkChat, NoLink
    <3>3. CASE LoseLink(t)
      BY <3>3 DEF LoseLink, NoLink
    <3> QED
      BY <1>2, <3>1, <3>2, <3>3
  <2>2. CodeInv'
    BY <1>2 DEF ConsumeToken, LinkChat, LoseLink, NoLink, CodeInv, TokensDeleted
  <2>3. ClosedHoldsNoChat'
    BY <1>2 DEF ConsumeToken, LinkChat, LoseLink, ClosedHoldsNoChat
  <2> QED
    BY <2>1, <2>2, <2>3
<1>3. ASSUME NEW u \in Account, Unlink(u)
      PROVE  TelegramInv'
  BY <1>3 DEF Unlink, CodeInv, TokensDeleted, ClosedHoldsNoChat
<1>4. ASSUME NEW u \in Account, NEW at \in {"IDLE", "LOCKED", "DELETED", "UNLINKED"}, CloseAt(u, at),
             at = "DELETED" => \A t \in Token : TokenOf[t] = u => link[t].at = "IDLE",
             at = "UNLINKED" => closing[u] = "DELETED",
             UNCHANGED <<closed, code, late, link, live, known>>
      PROVE  TelegramInv'
  <2>1. TelegramTypeOK'
    BY <1>4 DEF CloseAt
  <2>2. CodeInv'
    BY <1>4 DEF CloseAt, CodeInv, TokensDeleted
  <2> QED
    BY <1>4, <2>1, <2>2 DEF ClosedHoldsNoChat
<1>5. ASSUME NEW u \in Account, LockAccount(u) \/ DeleteTokens(u) \/ UnlinkClosing(u) \/ LoseClosure(u)
      PROVE  TelegramInv'
  BY <1>4, <1>5 DEF LockAccount, DeleteTokens, UnlinkClosing, LoseClosure
<1>6. CASE UNCHANGED telegramVars
  BY <1>6 DEF telegramVars, CodeInv, TokensDeleted, ClosedHoldsNoChat
<1> QED
  BY <1>1, <1>2, <1>3, <1>5, <1>6, CommitLinkKeeps, CommitClosureKeeps
  DEF TelegramNext, TokenStep, AccountStep

\* A closed account holds no live chat, unless a code of its own was minted after
\* the closure, wherever links and closures meet (closeAccount, linkChat).
THEOREM ClosedAccountsAreSilent == TelegramSpec => []ClosedHoldsNoChat
<1>1. TelegramInit => TelegramInv
  BY TelegramInvInit, TelegramAssumption
<1>2. TelegramInv /\ [TelegramNext]_telegramVars => TelegramInv'
  BY TelegramInvNext, TelegramAssumption
<1>3. TelegramInv => ClosedHoldsNoChat
  BY DEF TelegramInv
<1> QED
  BY <1>1, <1>2, <1>3, PTL DEF TelegramSpec
-----------------------------------------------------------------------------
\* A contact under way is of an account and a number.  The rows it has released are of
\* accounts that have not proven the number, and that no other contact is about to prove.
FreedInv ==
  \A k \in Contact :
    /\ share[k].at \in {"SHARED", "FREED", "GRANTED"} =>
         share[k].by \in Owner /\ share[k].number \in Number
    /\ share[k].freed \cap proven = {}
    /\ \A j \in Contact \ {k} : share[j].at = "GRANTED" => share[j].by \notin share[k].freed

PhoneInv == PhoneTypeOK /\ FreedInv

LEMMA PhoneInvInit ==
  ASSUME PhoneInit
  PROVE  PhoneInv
BY DEF PhoneInit, PhoneInv, PhoneTypeOK, FreedInv, NoShare

LEMMA PhoneInvNext ==
  ASSUME PhoneNumbersAssumption, PhoneInv, [PhoneNext]_phoneVars
  PROVE  PhoneInv'
<1> USE DEF PhoneInv, PhoneTypeOK, PhoneNumbersAssumption
<1>1. ASSUME NEW k \in Contact, NEW u \in Owner, NEW n \in Number, ShareContact(k, u, n)
      PROVE  PhoneInv'
  BY <1>1 DEF ShareContact, FreedInv
<1>2. ASSUME NEW k \in Contact, FreeClaims(k)
      PROVE  PhoneInv'
  <2>1. \A j \in Contact \ {k} : share[j].at = "GRANTED" => share[j].by \notin Releasable(k)
    BY <1>2 DEF FreeClaims, Release, HeldByOther, Wrote
  <2>2. share' = [share EXCEPT ![k].at = "FREED", ![k].freed = Releasable(k)]
    BY <1>2 DEF FreeClaims, Release
  <2>3. /\ UNCHANGED <<phone, proven>>
        /\ Releasable(k) \subseteq Owner /\ Releasable(k) \cap proven = {}
    BY <1>2 DEF FreeClaims, Release, Releasable, Claimants
  <2>4. /\ share'[k].at = "FREED" /\ share'[k].freed = Releasable(k)
        /\ \A j \in Contact \ {k} : share'[j] = share[j]
    BY <2>2
  <2>5. PhoneTypeOK'
    BY <2>2, <2>3
  <2>6. FreedInv'
    <3>1. share'[k].by = share[k].by /\ share'[k].number = share[k].number
      BY <2>2
    <3>2. share[k].at = "SHARED"
      BY <1>2 DEF FreeClaims, Release
    <3> QED
      BY <2>1, <2>3, <2>4, <3>1, <3>2 DEF FreedInv
  <2> QED
    BY <2>5, <2>6
<1>3. ASSUME NEW k \in Contact, GiveUp(k)
      PROVE  PhoneInv'
  BY <1>3 DEF GiveUp, NoShare, FreedInv
<1>4. ASSUME NEW k \in Contact, GrantLevel(k)
      PROVE  PhoneInv'
  <2>1. \A j \in Contact \ {k} : share[k].by \notin share[j].freed
    BY <1>4 DEF GrantLevel, HeldByOther, Wrote
  <2>2. share' = [share EXCEPT ![k].at = "GRANTED"] /\ UNCHANGED <<phone, proven>>
    BY <1>4 DEF GrantLevel
  <2>3. share[k].at = "FREED"
    BY <1>4 DEF GrantLevel
  <2> QED
    BY <2>1, <2>2, <2>3 DEF FreedInv
<1>5. ASSUME NEW k \in Contact, CommitContact(k)
      PROVE  PhoneInv'
  <2>1. share[k].by \in Owner /\ share[k].number \in Number
    BY <1>5 DEF CommitContact, FreedInv
  <2> QED
    BY <1>5, <2>1 DEF CommitContact, NoShare, FreedInv
<1>6. CASE UNCHANGED phoneVars
  BY <1>6 DEF phoneVars, FreedInv
<1> QED
  BY <1>1, <1>2, <1>3, <1>4, <1>5, <1>6 DEF PhoneNext, MeetHolder, LoseContact

\* A proven number is replaced by its owner's own contact and by nothing else, for
\* any accounts that claim it and any contacts at a time (grantPhoneVerifiedLevel).
THEOREM ProofsOutlastClaims == PhoneSpec => ProvenNumbersStay
<1>1. PhoneInit => PhoneInv
  BY PhoneInvInit
<1>2. PhoneInv /\ [PhoneNext]_phoneVars => PhoneInv'
  BY PhoneInvNext, PhoneNumbersAssumption
<1>3. PhoneInv /\ [PhoneNext]_phoneVars =>
        [\A u \in proven :
           /\ u \in proven'
           /\ phone'[u] # phone[u] => \E k \in Contact : share[k].by = u /\ share[k].at = "GRANTED"
                                                          /\ share'[k].at = "OVER"]_phoneVars
  <2> SUFFICES ASSUME PhoneInv, PhoneNext, NEW u \in proven
               PROVE  /\ u \in proven'
                      /\ phone'[u] # phone[u] =>
                           \E k \in Contact : share[k].by = u /\ share[k].at = "GRANTED"
                                                /\ share'[k].at = "OVER"
    OBVIOUS
  <2>1. CASE UNCHANGED <<phone, proven>>
    BY <2>1
  <2>2. ASSUME NEW k \in Contact, CommitContact(k)
        PROVE  /\ u \in proven'
               /\ phone'[u] # phone[u] =>
                    share[k].by = u /\ share[k].at = "GRANTED" /\ share'[k].at = "OVER"
    <3>1. u \in Owner /\ u \notin share[k].freed
      BY DEF PhoneInv, PhoneTypeOK, FreedInv
    <3>2. share'[k].at = "OVER"
      BY <2>2 DEF CommitContact, NoShare, PhoneInv, PhoneTypeOK
    <3> QED
      BY <2>2, <3>1, <3>2 DEF CommitContact
  <2> QED
    BY <2>1, <2>2 DEF PhoneNext, ShareContact, FreeClaims, Release, MeetHolder, GrantLevel,
                      LoseContact, GiveUp
<1> QED
  BY <1>1, <1>2, <1>3, PTL DEF PhoneSpec, ProvenNumbersStay
-----------------------------------------------------------------------------
RegistrationInv == RegistrationTypeOK /\ WrongAnswersCount

LEMMA UncountedIsFinite ==
  /\ IsFiniteSet(Uncounted) /\ Cardinality(Uncounted) \in Nat
  /\ IsFiniteSet(Uncounted') /\ Cardinality(Uncounted') \in Nat
<1>1. Uncounted \subseteq Confirmation /\ Uncounted' \subseteq Confirmation
  BY DEF Uncounted
<1> QED
  BY <1>1, RegistrationAssumption, FS_Subset, FS_CardinalityType

LEMMA RegistrationInvInit == RegistrationInit => RegistrationInv
<1> SUFFICES ASSUME RegistrationInit PROVE RegistrationInv
  OBVIOUS
<1>1. RegistrationTypeOK
  BY DEF RegistrationInit, RegistrationTypeOK, NoRow, Idle
<1>2. WrongAnswersCount
  BY DEF RegistrationInit, WrongAnswersCount
<1> QED
  BY <1>1, <1>2 DEF RegistrationInv

\* A row that has just been written has met no answer.
LEMMA NewRowKeeps ==
  ASSUME NEW new, WriteRow(new), new.attempts = 0
  PROVE  WrongAnswersCount'
<1>1. answered' = 0 /\ pendingRow'.attempts = 0
  BY DEF WriteRow
<1> QED
  BY <1>1, UncountedIsFinite DEF WrongAnswersCount

LEMMA DecideKeeps ==
  ASSUME RegistrationInv, NEW c \in Confirmation, NEW given \in mailed, NEW by \in Registrant,
         Decide(c, given, by)
  PROVE  RegistrationInv'
<1> DEFINE verdict == Verdict(given, by)
<1>1. verdict \in {"REJECT", "LOCKED", "WRONG", "ALREADY_EXISTS", "OK"}
  BY DEF Verdict
<1>2. /\ attempt[c] = Idle
      /\ attempt' = [attempt EXCEPT ![c] =
           [at |-> verdict, by |-> pendingRow.by, code |-> pendingRow.code]]
      /\ account' = IF verdict = "OK" THEN by ELSE account
      /\ mailed' = mailed /\ form' = form
  BY DEF Decide
<1>3. CASE verdict \in {"OK", "ALREADY_EXISTS", "REJECT"}
  <2>1. WriteRow(NoRow)
    BY <1>3 DEF Decide
  <2>2. RegistrationTypeOK'
    BY <1>1, <1>2, <2>1 DEF RegistrationInv, RegistrationTypeOK, WriteRow, NoRow
  <2> QED
    BY <2>1, <2>2 DEF RegistrationInv, WriteRow, WrongAnswersCount
<1>4. CASE verdict \in {"LOCKED", "WRONG"}
  <2>1. /\ answered' = IF verdict = "WRONG" THEN answered + 1 ELSE answered
        /\ pendingRow' = pendingRow /\ stale' = stale
    BY <1>4 DEF Decide
  <2>2. RegistrationTypeOK'
    BY <1>1, <1>2, <2>1 DEF RegistrationInv, RegistrationTypeOK
  <2>3. c \notin Uncounted
    BY <1>2 DEF Uncounted, Idle
  <2>4. Uncounted' = IF verdict = "WRONG" THEN Uncounted \cup {c} ELSE Uncounted
    <3>1. attempt \in [Confirmation -> [at : {"IDLE", "REJECT", "LOCKED", "WRONG",
              "ALREADY_EXISTS", "OK", "COUNTED", "LOST"},
             by : Registrant \cup {0}, code : Code \cup {0}]]
      BY DEF RegistrationInv, RegistrationTypeOK
    <3> HIDE DEF verdict
    <3> QED
      BY <1>2, <1>4, <2>1, <2>3, <3>1 DEF Uncounted
  <2>5. Cardinality(Uncounted') = IF verdict = "WRONG" THEN Cardinality(Uncounted) + 1
                                                       ELSE Cardinality(Uncounted)
    BY <2>3, <2>4, UncountedIsFinite, FS_AddElement
  <2>6. WrongAnswersCount'
    <3> HIDE DEF verdict
    <3> QED
      BY <2>1, <2>5, UncountedIsFinite
         DEF RegistrationInv, RegistrationTypeOK, WrongAnswersCount
  <2> QED
    BY <2>2, <2>6 DEF RegistrationInv
<1> QED
  BY <1>1, <1>3, <1>4

\* The answer leaves those that are still on their way in the step in which it
\* enters the counter, if it was an answer to the code that the row has now.
LEMMA CountWrongKeeps ==
  ASSUME RegistrationInv, NEW c \in Confirmation, CountWrong(c)
  PROVE  RegistrationInv'
<1> USE DEF RegistrationInv, RegistrationTypeOK
<1>1. /\ attempt[c].at = "WRONG" /\ attempt' = [attempt EXCEPT ![c].at = "COUNTED"]
      /\ UNCHANGED <<stale, mailed, account, form, answered>>
  BY DEF CountWrong
<1>2. CASE pendingRow # NoRow /\ pendingRow.by = attempt[c].by
  <2>1. pendingRow' = [pendingRow EXCEPT !.attempts = @ + 1]
    BY <1>2 DEF CountWrong
  <2>2. RegistrationTypeOK'
    BY <1>1, <2>1
  <2>3. Uncounted' = Uncounted \ {c}
    BY <1>1, <2>1 DEF Uncounted
  <2>4. Cardinality(Uncounted') >= Cardinality(Uncounted) - 1
    BY <2>3, UncountedIsFinite, FS_RemoveElement
  <2>5. answered <= pendingRow.attempts + Cardinality(Uncounted)
    BY <1>2 DEF WrongAnswersCount
  <2>6. WrongAnswersCount'
    BY <1>1, <2>1, <2>4, <2>5, UncountedIsFinite DEF WrongAnswersCount
  <2> QED
    BY <2>2, <2>6
<1>3. CASE ~(pendingRow # NoRow /\ pendingRow.by = attempt[c].by)
  <2>1. pendingRow' = pendingRow
    BY <1>3 DEF CountWrong
  <2>2. RegistrationTypeOK'
    BY <1>1, <2>1
  <2>3. pendingRow # NoRow => Uncounted' = Uncounted
    BY <1>1, <1>3, <2>1 DEF Uncounted
  <2> QED
    BY <1>1, <2>1, <2>2, <2>3 DEF WrongAnswersCount
<1> QED
  BY <1>2, <1>3

LEMMA RegistrationInvNext ==
  ASSUME RegistrationInv, [RegistrationNext]_registrationVars
  PROVE  RegistrationInv'
<1> USE DEF RegistrationInv
<1>1. ASSUME NEW r \in Registrant, Submit(r) \/ MeetOtherRow(r)
      PROVE  RegistrationInv'
  <2>1. UNCHANGED <<pendingRow, stale, mailed, account, attempt, answered>>
    BY <1>1 DEF Submit, MeetOtherRow
  <2>2. RegistrationTypeOK'
    BY <1>1 DEF Submit, MeetOtherRow, RegistrationTypeOK
  <2> QED
    BY <2>1, <2>2 DEF WrongAnswersCount, Uncounted
<1>2. ASSUME NEW r \in Registrant, ReplacePending(r)
      PROVE  RegistrationInv'
  <2>1. PICK n \in Code : /\ WriteRow([by |-> r, code |-> n, attempts |-> 0])
                          /\ mailed' = mailed \cup {n}
    BY <1>2 DEF ReplacePending
  <2>2. RegistrationTypeOK'
    BY <1>2, <2>1 DEF ReplacePending, WriteRow, RegistrationTypeOK
  <2>3. WrongAnswersCount'
    BY <2>1, NewRowKeeps
  <2> QED
    BY <2>2, <2>3
<1>3. CASE ResendCode
  <2>1. PICK n \in Code : /\ WriteRow([pendingRow EXCEPT !.code = n, !.attempts = 0])
                          /\ mailed' = mailed \cup {n}
    BY <1>3 DEF ResendCode
  <2>2. RegistrationTypeOK'
    BY <1>3, <2>1 DEF ResendCode, WriteRow, RegistrationTypeOK
  <2>3. [pendingRow EXCEPT !.code = n, !.attempts = 0].attempts = 0
    BY DEF RegistrationTypeOK
  <2>4. WrongAnswersCount'
    BY <2>1, <2>3, NewRowKeeps
  <2> QED
    BY <2>2, <2>4
<1>4. CASE CodeExpires
  BY <1>4 DEF CodeExpires, RegistrationTypeOK, WrongAnswersCount, Uncounted
<1>5. CASE GoogleAccount
  BY <1>5 DEF GoogleAccount, RegistrationTypeOK, WrongAnswersCount, Uncounted
<1>6. ASSUME NEW c \in Confirmation, NEW given \in mailed, NEW by \in Registrant,
             Decide(c, given, by)
      PROVE  RegistrationInv'
  BY <1>6, DecideKeeps
<1>7. ASSUME NEW c \in Confirmation, CountWrong(c)
      PROVE  RegistrationInv'
  BY <1>7, CountWrongKeeps
<1>8. ASSUME NEW c \in Confirmation, ForgetWrong(c)
      PROVE  RegistrationInv'
  <2>1. RegistrationTypeOK'
    BY <1>8 DEF ForgetWrong, RegistrationTypeOK
  <2>2. Uncounted' = Uncounted
    BY <1>8 DEF ForgetWrong, RegistrationTypeOK, Uncounted
  <2> QED
    BY <1>8, <2>1, <2>2 DEF ForgetWrong, WrongAnswersCount
<1>9. CASE UNCHANGED registrationVars
  BY <1>9 DEF registrationVars, RegistrationTypeOK, WrongAnswersCount, Uncounted
<1> QED
  BY <1>1, <1>2, <1>3, <1>4, <1>5, <1>6, <1>7, <1>8, <1>9 DEF RegistrationNext

\* For any submissions, confirmations and codes: no wrong answer to the present code
\* is forgotten except on its way to the counter (confirmRegistration).
THEOREM WrongAnswersAreCounted == RegistrationSpec => []WrongAnswersCount
<1>1. RegistrationInit => RegistrationInv
  BY RegistrationInvInit
<1>2. RegistrationInv /\ [RegistrationNext]_registrationVars => RegistrationInv'
  BY RegistrationInvNext
<1>3. RegistrationInv => WrongAnswersCount
  BY DEF RegistrationInv
<1> QED
  BY <1>1, <1>2, <1>3, PTL DEF RegistrationSpec
=============================================================================
