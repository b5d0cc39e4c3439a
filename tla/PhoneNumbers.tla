------------------------------ MODULE PhoneNumbers ------------------------------
(***************************************************************************)
(* Which account a phone number belongs to, once Telegram proves it        *)
(* (services/notification-service.ts                                       *)
(* completePhoneVerificationTelegramContact, grantPhoneVerifiedLevel).     *)
(* The chat a contact comes from belongs to whatever account Telegram.tla  *)
(* has linked by then.  Every contact is a READ COMMITTED transaction of   *)
(* three statements.  A closure that holds the row of an account only      *)
(* delays them and is left out.                                            *)
(***************************************************************************)
EXTENDS Naturals

CONSTANTS Owner,     \* accounts
          Emailed,   \* those with an e-mail address; the others have their phone alone
          Contact,   \* contacts shared with the bot
          Number,    \* phone numbers
          NoNumber, NoOwner

ASSUME PhoneNumbersAssumption ==
  NoNumber \notin Number /\ NoOwner \notin Owner /\ Emailed \subseteq Owner

VARIABLES
  phone,    \* app_user.phone
  proven,   \* accounts with phone_verified_at
  share     \* share[k]: how far contact k is, whose it is, the number, and the
            \* accounts whose claims it has released and not committed

phoneVars == <<phone, proven, share>>

NoShare(at) == [at |-> at, by |-> NoOwner, number |-> NoNumber, freed |-> {}]

\* Numbers may be claimed by accounts that never proved them, and are by those that
\* have no other contact (app_user_has_contact).
PhoneInit ==
  /\ phone \in [Owner -> Number \cup {NoNumber}]
  /\ \A u, v \in Owner : phone[u] = phone[v] /\ phone[u] # NoNumber => u = v
  /\ \A u \in Owner \ Emailed : phone[u] # NoNumber
  /\ proven = {}
  /\ share = [k \in Contact |-> NoShare("IDLE")]

\* The rows contact k has written: those it released, and in the end its own.
Wrote(k) == share[k].freed \cup (IF share[k].at = "GRANTED" THEN {share[k].by} ELSE {})
HeldByOther(u, k) == \E j \in Contact \ {k} : u \in Wrote(j)
\* Other accounts that hold the number, as far as it is committed.
Claimants(k) == { v \in Owner \ {share[k].by} : phone[v] = share[k].number }
\* The claims that may be released: never proven, and not the only contact.
Releasable(k) == (Claimants(k) \cap Emailed) \ proven
-----------------------------------------------------------------------------
\* The account of the chat, read without a lock.
ShareContact(k, u, n) ==
  /\ share[k].at = "IDLE"
  /\ share' = [share EXCEPT ![k] = [at |-> "SHARED", by |-> u, number |-> n, freed |-> {}]]
  /\ UNCHANGED <<phone, proven>>

\* The UPDATE waits for a row that somebody is writing, and looks at it again.
Release(k, claims) ==
  /\ share[k].at = "SHARED"
  /\ \A v \in claims : ~HeldByOther(v, k)
  /\ share' = [share EXCEPT ![k].at = "FREED", ![k].freed = claims]
  /\ UNCHANGED <<phone, proven>>

\* (Mutant: the UPDATE without phone_verified_at IS NULL.)
FreeEveryClaim(k) == Release(k, Claimants(k) \cap Emailed)

FreeClaims(k) == Release(k, Releasable(k))

\* The transaction is rolled back.
GiveUp(k) ==
  /\ share' = [share EXCEPT ![k] = NoShare("OVER")]
  /\ UNCHANGED <<phone, proven>>

\* Another account still holds the number, proven or its only contact: a conflict,
\* found by the SELECT, or by the unique index when it has committed since.
MeetHolder(k) ==
  /\ share[k].at = "FREED" /\ Claimants(k) \ share[k].freed # {}
  /\ GiveUp(k)

\* The UPDATE of the own row waits for whoever is writing it, and by the unique
\* index for whoever is writing the number.
GrantLevel(k) ==
  /\ share[k].at = "FREED" /\ Claimants(k) \ share[k].freed = {}
  /\ ~HeldByOther(share[k].by, k)
  /\ \A j \in Contact \ {k} : ~(share[j].at = "GRANTED" /\ share[j].number = share[k].number)
  /\ share' = [share EXCEPT ![k].at = "GRANTED"]
  /\ UNCHANGED <<phone, proven>>

CommitContact(k) ==
  /\ share[k].at = "GRANTED"
  /\ phone' = [v \in Owner |-> IF v = share[k].by THEN share[k].number
                               ELSE IF v \in share[k].freed THEN NoNumber ELSE phone[v]]
  /\ proven' = proven \cup {share[k].by}
  /\ share' = [share EXCEPT ![k] = NoShare("OVER")]

\* A deadlock, a lost connection, a restart.
LoseContact(k) == share[k].at \in {"SHARED", "FREED", "GRANTED"} /\ GiveUp(k)

PhoneNext ==
  \E k \in Contact :
    \/ \E u \in Owner, n \in Number : ShareContact(k, u, n)
    \/ FreeClaims(k) \/ MeetHolder(k) \/ GrantLevel(k) \/ CommitContact(k) \/ LoseContact(k)
PhoneSpec == PhoneInit /\ [][PhoneNext]_phoneVars
-----------------------------------------------------------------------------
\* Types, bounded by the constants.
PhoneTypeOK ==
  /\ phone \in [Owner -> Number \cup {NoNumber}]
  /\ proven \subseteq Owner
  /\ share \in [Contact -> [at : {"IDLE", "SHARED", "FREED", "GRANTED", "OVER"},
                            by : Owner \cup {NoOwner}, number : Number \cup {NoNumber},
                            freed : SUBSET Owner]]

\* A number proven through Telegram is never taken away: not by an account that claimed
\* it first, not by one that shares it at the same moment; only its owner's own contact
\* replaces it (grantPhoneVerifiedLevel, the UPDATE that releases unproven claims).
ProvenNumbersStay ==
  [][\A u \in proven :
       /\ u \in proven'
       /\ phone'[u] # phone[u] => \E k \in Contact : share[k].by = u /\ share[k].at = "GRANTED"
                                                      /\ share'[k].at = "OVER"]_phoneVars
================================================================================
