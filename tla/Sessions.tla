------------------------------- MODULE Sessions -------------------------------
(***************************************************************************)
(* The sessions of one user (auth/auth-service.ts): login behind the count *)
(* of failures, rotation of the token, and everything that revokes:        *)
(* logout, a password reset or change, "sign out elsewhere", the reset of  *)
(* the second factor.  Rotations and revocations are transactions and are  *)
(* modelled statement by statement.                                        *)
(***************************************************************************)
EXTENDS Naturals, FiniteSets

CONSTANTS Session,        \* session rows: 1, 2, ...
          Login,          \* calls of login
          Revocation,     \* calls that revoke every session but one
          ResetToken,     \* tokens of password resets, in order: 1, 2, ...
          MaxFailedLogins

ASSUME SessionsAssumption ==
  /\ Session \subseteq Nat \ {0} /\ ResetToken \subseteq Nat \ {0} /\ Login # {}
  /\ MaxFailedLogins \in Nat \ {0}

VARIABLES
  row,        \* row[s]: the committed state of the session
  origin,     \* origin[s]: the login that the session descends from
  rotation,   \* rotation[s]: the uncommitted successor of s, locked by it (0: none)
  failures,   \* login failures of the last 15 minutes in the audit log
  signingIn,  \* signingIn[l]: where login l is
  token,      \* token[t]: the state of reset token t
  revoking    \* revoking[v]: where revocation v is and what it has seen

sessionsVars == <<row, origin, rotation, failures, signingIn, token, revoking>>

NoRevocation == [at |-> "IDLE", seen |-> {}, token |-> 0]

SessionsInit ==
  /\ row = [s \in Session |-> "NONE"]
  /\ origin = [s \in Session |-> CHOOSE l \in Login : TRUE]
  /\ rotation = [s \in Session |-> 0]
  /\ failures = 0
  /\ signingIn = [l \in Login |-> "IDLE"]
  /\ token = [t \in ResetToken |-> "NONE"]
  /\ revoking = [v \in Revocation |-> NoRevocation]

SessionsWith(state) == {s \in Session : row[s] = state}
Live == SessionsWith("LIVE")
Unused == SessionsWith("NONE") \ {rotation[s] : s \in Session}
\* One id is as good as another.
NewRow == CHOOSE s \in Unused : TRUE
-----------------------------------------------------------------------------
\* login(): the failures are counted, then the password is hashed...
BeginLogin(l) ==
  /\ signingIn[l] = "IDLE"
  /\ signingIn' = [signingIn EXCEPT ![l] = IF failures < MaxFailedLogins THEN "HASHING" ELSE "REFUSED"]
  /\ UNCHANGED <<row, origin, rotation, failures, token, revoking>>

\* ...a wrong one is recorded...
WrongPassword(l) ==
  /\ signingIn[l] = "HASHING"
  /\ failures' = failures + 1
  /\ signingIn' = [signingIn EXCEPT ![l] = "REFUSED"]
  /\ UNCHANGED <<row, origin, rotation, token, revoking>>

\* ...and for a right one the failures are counted again.
RightPassword(l) ==
  /\ signingIn[l] = "HASHING" /\ Unused # {}
  /\ IF failures < MaxFailedLogins
     THEN /\ row' = [row EXCEPT ![NewRow] = "LIVE"]
          /\ origin' = [origin EXCEPT ![NewRow] = l]
          /\ signingIn' = [signingIn EXCEPT ![l] = "IN"]
     ELSE /\ signingIn' = [signingIn EXCEPT ![l] = "REFUSED"]
          /\ UNCHANGED <<row, origin>>
  /\ UNCHANGED <<rotation, failures, token, revoking>>

\* Fifteen minutes pass.
FailuresAge ==
  /\ failures > 0
  /\ failures' = 0
  /\ UNCHANGED <<row, origin, rotation, signingIn, token, revoking>>
-----------------------------------------------------------------------------
Locked(s) == rotation[s] # 0

\* (Mutant: the row is found by its token, live or not.)
BeginRotationOfAny(s) ==
  /\ row[s] \in {"LIVE", "REVOKED"} /\ ~Locked(s) /\ Unused # {}
  /\ rotation' = [rotation EXCEPT ![s] = NewRow]
  /\ origin' = [origin EXCEPT ![NewRow] = origin[s]]
  /\ UNCHANGED <<row, failures, signingIn, token, revoking>>

\* rotateSession(): the live row is locked and its successor inserted...
BeginRotation(s) ==
  /\ row[s] = "LIVE" /\ ~Locked(s) /\ Unused # {}
  /\ rotation' = [rotation EXCEPT ![s] = NewRow]
  /\ origin' = [origin EXCEPT ![NewRow] = origin[s]]
  /\ UNCHANGED <<row, failures, signingIn, token, revoking>>

\* ...and the row revoked: both become visible at once.
CommitRotation(s) ==
  /\ Locked(s)
  /\ row' = [row EXCEPT ![s] = "REVOKED", ![rotation[s]] = "LIVE"]
  /\ rotation' = [rotation EXCEPT ![s] = 0]
  /\ UNCHANGED <<origin, failures, signingIn, token, revoking>>

LoseRotation(s) ==
  /\ Locked(s)
  /\ rotation' = [rotation EXCEPT ![s] = 0]
  /\ UNCHANGED <<row, origin, failures, signingIn, token, revoking>>

\* logout() waits for the row, and does nothing to one that is not live.
Logout(s) ==
  /\ row[s] = "LIVE" /\ ~Locked(s)
  /\ row' = [row EXCEPT ![s] = "REVOKED"]
  /\ UNCHANGED <<origin, rotation, failures, signingIn, token, revoking>>

\* expires_at passes: no statement changes the row again.
SessionExpires(s) ==
  /\ row[s] = "LIVE" /\ ~Locked(s)
  /\ row' = [row EXCEPT ![s] = "EXPIRED"]
  /\ UNCHANGED <<origin, rotation, failures, signingIn, token, revoking>>
-----------------------------------------------------------------------------
\* requestPasswordReset(): the earlier tokens are consumed and one is issued.  A
\* second request at the same time does not see the first one's token, and
\* leaves it alone (meets).
IssueToken(t, meets) ==
  /\ token[t] = "NONE" /\ \A u \in ResetToken : u < t => token[u] # "NONE"
  /\ token' = [u \in ResetToken |->
       IF u = t THEN "ISSUED"
       ELSE IF token[u] = "ISSUED" /\ u \notin meets THEN "CONSUMED" ELSE token[u]]
  /\ UNCHANGED <<row, origin, rotation, failures, signingIn, revoking>>

TokenExpires(t) ==
  /\ token[t] = "ISSUED"
  /\ token' = [token EXCEPT ![t] = "CONSUMED"]
  /\ UNCHANGED <<row, origin, rotation, failures, signingIn, revoking>>

\* A revocation sees the live sessions, all but the one it is asked to keep:
\* revokeOtherSessions() and changePassword() keep the caller's own,
\* revokeAllSessions() and resetTotpFor() none.
BeginRevocation(v, kept) ==
  /\ revoking[v] = NoRevocation
  /\ kept \subseteq Live /\ Cardinality(kept) <= 1
  /\ revoking' = [revoking EXCEPT ![v] = [at |-> "SEEN", seen |-> Live \ kept, token |-> 0]]
  /\ UNCHANGED <<row, origin, rotation, failures, signingIn, token>>

\* resetPassword(): the token is consumed first, in the same transaction; its row
\* is locked until the end, and another call with it waits.
BeginReset(v, t) ==
  /\ revoking[v] = NoRevocation
  /\ token[t] = "ISSUED"
  /\ \A w \in Revocation : revoking[w].at = "SEEN" => revoking[w].token # t
  /\ revoking' = [revoking EXCEPT ![v] = [at |-> "SEEN", seen |-> Live, token |-> t]]
  /\ UNCHANGED <<row, origin, rotation, failures, signingIn, token>>

\* The UPDATE waits for the rows that a rotation has locked and looks at each
\* again; what such a rotation has inserted it has not seen.
CommitRevocation(v) ==
  /\ revoking[v].at = "SEEN"
  /\ \A s \in revoking[v].seen : ~Locked(s)
  /\ row' = [s \in Session |->
       IF s \in revoking[v].seen /\ row[s] = "LIVE" THEN "REVOKED" ELSE row[s]]
  /\ token' = [t \in ResetToken |-> IF t = revoking[v].token THEN "USED" ELSE token[t]]
  /\ revoking' = [revoking EXCEPT ![v].at = "DONE"]
  /\ UNCHANGED <<origin, rotation, failures, signingIn>>

LoseRevocation(v) ==
  /\ revoking[v].at = "SEEN"
  /\ revoking' = [revoking EXCEPT ![v] = [NoRevocation EXCEPT !.at = "LOST"]]
  /\ UNCHANGED <<row, origin, rotation, failures, signingIn, token>>

SessionsNext ==
  \/ \E l \in Login : BeginLogin(l) \/ WrongPassword(l) \/ RightPassword(l)
  \/ FailuresAge
  \/ \E s \in Session : \/ BeginRotation(s) \/ CommitRotation(s) \/ LoseRotation(s)
                        \/ Logout(s) \/ SessionExpires(s)
  \/ \E t \in ResetToken : TokenExpires(t) \/ \E meets \in SUBSET ResetToken : IssueToken(t, meets)
  \/ \E v \in Revocation :
       \/ \E kept \in SUBSET Live : BeginRevocation(v, kept)
       \/ \E t \in ResetToken : BeginReset(v, t)
       \/ CommitRevocation(v) \/ LoseRevocation(v)

SessionsSpec == SessionsInit /\ [][SessionsNext]_sessionsVars
-----------------------------------------------------------------------------
SessionsTypeOK ==
  /\ row \in [Session -> {"NONE", "LIVE", "REVOKED", "EXPIRED"}]
  /\ origin \in [Session -> Login]
  /\ rotation \in [Session -> Session \cup {0}]
  /\ failures \in Nat
  /\ signingIn \in [Login -> {"IDLE", "HASHING", "REFUSED", "IN"}]
  /\ token \in [ResetToken -> {"NONE", "ISSUED", "CONSUMED", "USED"}]
  /\ revoking \in [Revocation -> [at : {"IDLE", "SEEN", "DONE", "LOST"},
                                  seen : SUBSET Session, token : ResetToken \cup {0}]]

\* One sign-in is one live session: however rotations of a token race with each
\* other, with a logout and with what revokes every session, a session has one
\* successor and never lives beside it (rotateSession locks the live row).
OneLivePerLogin ==
  \A s, t \in Live : origin[s] = origin[t] => s = t
=============================================================================
