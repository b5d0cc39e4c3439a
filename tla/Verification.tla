------------------------------ MODULE Verification ------------------------------
(***************************************************************************)
(* The requests of one landlord to have the right to let one property      *)
(* confirmed (services/verification-service.ts, domain/verification.ts):   *)
(* submissions that supersede an earlier request, the staff's decisions,   *)
(* and the documents.  A submission is a READ COMMITTED transaction of     *)
(* several statements that locks only the row it closes; an action of the  *)
(* staff locks the request in its first statement and is one step.         *)
(***************************************************************************)
EXTENDS Integers, FiniteSets

CONSTANTS Application,  \* calls of submit, each inserting the row of its name
          Paper,        \* documents that can be attached
          NoRequest     \* not an application

ASSUME VerificationAssumption == NoRequest \notin Application

OpenStatus == {"SUBMITTED", "IN_REVIEW", "NEEDS_INFO"}
VerificationStatus == OpenStatus \cup {"APPROVED", "REJECTED", "EXPIRED"}
VerificationAction == {"TAKE", "REQUEST_INFO", "APPROVE", "REJECT", "EXPIRE"}

\* VERIFICATION_TRANSITIONS: where an action leads from a status ("": nowhere).
VerificationMove(from, action) ==
  IF from \notin OpenStatus THEN ""
  ELSE CASE action = "TAKE" /\ from # "IN_REVIEW" -> "IN_REVIEW"
         [] action = "REQUEST_INFO" /\ from # "NEEDS_INFO" -> "NEEDS_INFO"
         [] action = "APPROVE" /\ from = "IN_REVIEW" -> "APPROVED"
         [] action = "REJECT" -> "REJECTED"
         [] action = "EXPIRE" -> "EXPIRED"
         [] OTHER -> ""

VARIABLES
  request,    \* request[r]: the status of the row of application r ("NONE")
  basis,      \* the requests that declare an ownership basis
  applying,   \* applying[c]: where submission c is
  prior,      \* prior[c]: the request that c supersedes
  closes,     \* submissions that have marked their prior EXPIRED, uncommitted
  paper,      \* paper[d]: the request of document d and how far it has come
  collecting, \* the feature flag verification.property_documents
  trustLevel, \* app_user.verification_level
  confirmed   \* property.property_verified_at is set

verificationVars == <<request, basis, applying, prior, closes, paper, collecting, trustLevel,
                      confirmed>>
paperVars == <<paper, collecting>>
badgeVars == <<trustLevel, confirmed>>

VerificationInit ==
  /\ request = [c \in Application |-> "NONE"]
  /\ basis = {}
  /\ applying = [c \in Application |-> "IDLE"]
  /\ prior = [c \in Application |-> NoRequest]
  /\ closes = {}
  /\ paper = [d \in Paper |-> [of |-> NoRequest, at |-> "NONE"]]
  /\ collecting = TRUE
  /\ trustLevel = 1   \* a verified phone; without it nothing can be submitted
  /\ confirmed = FALSE

\* Evidence that act() counts: documents attached and not purged.
PapersOf(r) == { d \in Paper : paper[d].of = r /\ paper[d].at \in {"STORED", "DUE"} }
EvidenceSufficient(r) == collecting /\ PapersOf(r) # {} /\ r \in basis

RowLocked(r) == \E c \in closes : prior[c] = r
Proceed(c, at) == applying' = [applying EXCEPT ![c] = at]
\* The call is over and holds nothing.
End(c) ==
  /\ Proceed(c, "OVER")
  /\ prior' = [prior EXCEPT ![c] = NoRequest]
  /\ closes' = closes \ {c}
-----------------------------------------------------------------------------
\* submit(): the request to supersede is read without a lock.
BeginSubmit(c, p) ==
  /\ applying[c] = "IDLE"
  /\ p # NoRequest => request[p] \in {"REJECTED", "NEEDS_INFO", "EXPIRED"}
  /\ prior' = [prior EXCEPT ![c] = p]
  /\ Proceed(c, IF p # NoRequest /\ request[p] = "NEEDS_INFO" THEN "CLOSE" ELSE "LOOK")
  /\ UNCHANGED <<request, basis, closes>> /\ UNCHANGED paperVars /\ UNCHANGED badgeVars

\* (Mutant: an UPDATE by the id alone, without status = 'NEEDS_INFO'.)
ClosePriorById(c) ==
  /\ applying[c] = "CLOSE"
  /\ ~RowLocked(prior[c])
  /\ closes' = closes \cup {c}
  /\ Proceed(c, "LOOK")
  /\ UNCHANGED <<request, basis, prior>> /\ UNCHANGED paperVars /\ UNCHANGED badgeVars

\* The UPDATE of a NEEDS_INFO prior waits for its row and looks again.
ClosePrior(c) ==
  /\ applying[c] = "CLOSE"
  /\ ~RowLocked(prior[c])
  /\ closes' = IF request[prior[c]] = "NEEDS_INFO" THEN closes \cup {c} ELSE closes
  /\ Proceed(c, "LOOK")
  /\ UNCHANGED <<request, basis, prior>> /\ UNCHANGED paperVars /\ UNCHANGED badgeVars

\* The live requests as submission c sees them, its own UPDATE included.
LiveFor(c) ==
  { r \in Application : request[r] \in OpenStatus /\ ~(c \in closes /\ prior[c] = r) }

\* A live request is answered with instead of a second one.
LookForLive(c) ==
  /\ applying[c] = "LOOK"
  /\ Proceed(c, IF LiveFor(c) # {} THEN "ANSWER" ELSE "INSERT")
  /\ UNCHANGED <<request, basis, prior, closes>> /\ UNCHANGED paperVars /\ UNCHANGED badgeVars

\* The INSERT waits for every transaction that has changed what the unique index
\* sees, and fails on a live row that is committed: the whole call is undone.
InsertRequest(c) ==
  /\ applying[c] = "INSERT"
  /\ \A d \in Application \ {c} : applying[d] # "INSERTED" /\ d \notin closes
  /\ IF LiveFor(c) = {}
     THEN Proceed(c, "INSERTED") /\ UNCHANGED <<prior, closes>>
     ELSE End(c)
  /\ UNCHANGED <<request, basis>> /\ UNCHANGED paperVars /\ UNCHANGED badgeVars

CommitSubmit(c) ==
  /\ applying[c] \in {"INSERTED", "ANSWER"}
  /\ \E declares \in BOOLEAN :
       basis' = IF declares /\ applying[c] = "INSERTED" THEN basis \cup {c} ELSE basis
  /\ request' = [r \in Application |->
                   IF c \in closes /\ r = prior[c] THEN "EXPIRED"
                   ELSE IF r = c /\ applying[c] = "INSERTED" THEN "SUBMITTED"
                   ELSE request[r]]
  /\ End(c)
  /\ UNCHANGED paperVars /\ UNCHANGED badgeVars

\* The connection or the process dies: PostgreSQL rolls back.
LoseSubmit(c) ==
  /\ applying[c] \in {"CLOSE", "LOOK", "INSERT", "INSERTED", "ANSWER"}
  /\ End(c)
  /\ UNCHANGED <<request, basis>> /\ UNCHANGED paperVars /\ UNCHANGED badgeVars
-----------------------------------------------------------------------------
\* act() by somebody with every permission and a reason.  An approval stamps the
\* property and raises the level; a decision lets the documents fall due.
Act(r, action) ==
  LET to == VerificationMove(request[r], action) IN
  /\ to # "" /\ ~RowLocked(r)
  /\ to = "APPROVED" => EvidenceSufficient(r)
  /\ request' = [request EXCEPT ![r] = to]
  /\ paper' = [d \in Paper |->
                 IF to \in {"APPROVED", "REJECTED"} /\ d \in PapersOf(r)
                 THEN [paper[d] EXCEPT !.at = "DUE"] ELSE paper[d]]
  /\ confirmed' = (confirmed \/ to = "APPROVED")
  /\ trustLevel' = IF to = "APPROVED" /\ trustLevel >= 1 THEN 2 ELSE trustLevel
  /\ UNCHANGED <<basis, applying, prior, closes, collecting>>

\* attachDocument(): the status is checked in one statement...
AllowPaper(d, r) ==
  /\ paper[d].at = "NONE"
  /\ request[r] \in OpenStatus /\ collecting
  /\ paper' = [paper EXCEPT ![d] = [of |-> r, at |-> "ALLOWED"]]
  /\ UNCHANGED <<request, basis, applying, prior, closes, collecting>> /\ UNCHANGED badgeVars

\* ...and the document inserted in another, with no date to be purged.
StorePaper(d) ==
  /\ paper[d].at = "ALLOWED"
  /\ paper' = [paper EXCEPT ![d].at = "STORED"]
  /\ UNCHANGED <<request, basis, applying, prior, closes, collecting>> /\ UNCHANGED badgeVars

\* An administrator turns the collection of documents off or on.
SwitchCollection ==
  /\ collecting' = ~collecting
  /\ UNCHANGED <<request, basis, applying, prior, closes, paper>> /\ UNCHANGED badgeVars

VerificationNext ==
  \/ \E c \in Application :
       \/ \E p \in Application \cup {NoRequest} : BeginSubmit(c, p)
       \/ ClosePrior(c) \/ LookForLive(c) \/ InsertRequest(c) \/ CommitSubmit(c) \/ LoseSubmit(c)
       \/ \E a \in VerificationAction : Act(c, a)
       \/ \E d \in Paper : AllowPaper(d, c)
  \/ \E d \in Paper : StorePaper(d)
  \/ SwitchCollection

VerificationSpec == VerificationInit /\ [][VerificationNext]_verificationVars
-----------------------------------------------------------------------------
VerificationTypeOK ==
  /\ request \in [Application -> VerificationStatus \cup {"NONE"}]
  /\ basis \subseteq Application
  /\ applying \in [Application -> {"IDLE", "CLOSE", "LOOK", "INSERT", "INSERTED", "ANSWER",
                                   "OVER"}]
  /\ prior \in [Application -> Application \cup {NoRequest}]
  /\ closes \subseteq Application
  /\ paper \in [Paper -> [of : Application \cup {NoRequest},
                          at : {"NONE", "ALLOWED", "STORED", "DUE"}]]
  /\ collecting \in BOOLEAN
  /\ trustLevel \in 1..2 /\ confirmed \in BOOLEAN

\* However the applicant's taps and the staff's decisions meet, there is at most
\* one live request for the property: two verifiers never work on the same case.
OneLiveApplication == \A r, s \in Application : {request[r], request[s]} \subseteq OpenStatus => r = s

\* A decision is final.  In particular a submission that read NEEDS_INFO and
\* closes the request afterwards cannot turn a decision taken meanwhile into
\* EXPIRED, nor open a decided request again.
DecisionsAreFinal ==
  [][\A r \in Application : request[r] \in {"APPROVED", "REJECTED"} => request'[r] = request[r]]_request
=============================================================================
