------------------------------ MODULE DeskProofs ------------------------------
(***************************************************************************)
(* Proofs about what passes the desks of the staff.                        *)
(*                                                                         *)
(* The verification of a property, for any number of submissions and       *)
(* documents: there is at most one live request, and a decision is final.  *)
(* A submission acts on what it read without a lock.  CloseInv says that   *)
(* the row it closes is still waiting for it when it commits, and          *)
(* InsertInv that the unique index has made it the only one whose request  *)
(* can become live.                                                        *)
(*                                                                         *)
(* A support ticket, for any number of requests of the author and of the   *)
(* staff: it waits on its author only behind a question.  FileInv says     *)
(* that what a request has read under the row lock is still true when it   *)
(* writes.                                                                 *)
(*                                                                         *)
(* The two reviews of a rental are written blind: BlindInv says that what  *)
(* can be read before both are there is read at the deadline or after it.  *)
(*                                                                         *)
(* A listing, for any calls of its owner and of the moderators: AuditInv   *)
(* says that the audit log tells when it was a moderator who decided last, *)
(* unless that call was overtaken by another.                              *)
(***************************************************************************)
EXTENDS Verification, Tickets, Reviews, Listings, FiniteSetTheorems, TLAPS

\* A submission that has closed its prior holds that row, which stays as it was;
\* the row a submission inserts is not there before the end.
CloseInv ==
  /\ \A c \in Application : applying[c] = "CLOSE" => prior[c] \in Application
  /\ \A c \in closes : /\ applying[c] \in {"LOOK", "INSERT", "INSERTED", "ANSWER"}
                       /\ prior[c] \in Application /\ request[prior[c]] = "NEEDS_INFO"
  /\ \A c, d \in closes : prior[c] = prior[d] => c = d
  /\ \A c \in Application : applying[c] # "OVER" => request[c] = "NONE"

\* One submission at a time has passed the unique index, and nothing it saw there
\* has come to life since.
InsertInv ==
  \A c \in Application : applying[c] = "INSERTED" =>
    /\ LiveFor(c) = {}
    /\ \A d \in Application : applying[d] = "INSERTED" => d = c

VerificationInv == VerificationTypeOK /\ CloseInv /\ InsertInv /\ OneLiveApplication

\* A request that is open after a step was open before it.
NothingOpens ==
  \A r \in Application : request'[r] \in OpenStatus => request[r] \in OpenStatus
-----------------------------------------------------------------------------
LEMMA VerificationInvInit ==
  ASSUME VerificationInit
  PROVE  VerificationInv
<1>1. VerificationTypeOK
  <2>1. trustLevel \in 1..2
    BY DEF VerificationInit
  <2>2. paper \in [Paper -> [of : Application \cup {NoRequest},
                            at : {"NONE", "ALLOWED", "STORED", "DUE"}]]
    BY DEF VerificationInit
  <2> QED
    BY <2>1, <2>2 DEF VerificationInit, VerificationTypeOK
<1>2. CloseInv /\ InsertInv
  BY DEF VerificationInit, CloseInv, InsertInv
<1>3. OneLiveApplication
  BY DEF VerificationInit, OneLiveApplication, OpenStatus
<1> QED
  BY <1>1, <1>2, <1>3 DEF VerificationInv

LEMMA MovesTyped ==
  ASSUME NEW from, NEW action
  PROVE  VerificationMove(from, action) \in VerificationStatus \cup {""}
  BY DEF VerificationMove, VerificationStatus, OpenStatus

LEMMA MovesStartOpen ==
  ASSUME NEW from, NEW action, VerificationMove(from, action) # ""
  PROVE  from \in OpenStatus
  BY DEF VerificationMove

\* What opens nothing leaves one live request at most.
LEMMA OneLiveKept ==
  ASSUME OneLiveApplication, NothingOpens
  PROVE  OneLiveApplication'
  BY DEF OneLiveApplication, NothingOpens

\* The end of call c, which has not inserted a row.
LEMMA EndKeeps ==
  ASSUME VerificationAssumption, VerificationInv, NEW c \in Application, End(c),
         UNCHANGED <<request, basis>>, UNCHANGED paperVars, UNCHANGED badgeVars
  PROVE  VerificationInv'
<1> USE DEF VerificationInv, VerificationTypeOK, VerificationAssumption
<1>1. /\ applying' = [applying EXCEPT ![c] = "OVER"]
      /\ prior' = [prior EXCEPT ![c] = NoRequest]
      /\ closes' = closes \ {c}
      /\ UNCHANGED <<request, basis, paper, collecting, trustLevel, confirmed>>
  BY DEF End, Proceed, paperVars, badgeVars
<1>2. VerificationTypeOK'
  BY <1>1
<1>3. CloseInv'
  BY <1>1 DEF CloseInv
<1>4. InsertInv'
  BY <1>1 DEF InsertInv, LiveFor
<1>5. OneLiveApplication'
  BY <1>1 DEF OneLiveApplication
<1> QED
  BY <1>2, <1>3, <1>4, <1>5

\* A step of submission c that only moves it on, with its prior still open.
LEMMA MoveOnKeeps ==
  ASSUME VerificationAssumption, VerificationInv, NEW c \in Application,
         applying[c] # "OVER",
         NEW place \in {"LOOK", "INSERT", "ANSWER"}, Proceed(c, place),
         c \in closes => applying[c] # "CLOSE",
         UNCHANGED <<request, basis, prior, closes>>, UNCHANGED paperVars, UNCHANGED badgeVars
  PROVE  VerificationInv'
<1> USE DEF VerificationInv, VerificationTypeOK, VerificationAssumption
<1>1. applying' = [applying EXCEPT ![c] = place]
      /\ UNCHANGED <<paper, collecting, trustLevel, confirmed>>
  BY DEF Proceed, paperVars, badgeVars
<1>2. VerificationTypeOK'
  BY <1>1
<1>3. CloseInv'
  BY <1>1 DEF CloseInv
<1>4. InsertInv'
  BY <1>1 DEF InsertInv, LiveFor
<1>5. OneLiveApplication'
  BY DEF OneLiveApplication
<1> QED
  BY <1>2, <1>3, <1>4, <1>5

LEMMA BeginKeeps ==
  ASSUME VerificationAssumption, VerificationInv, NEW c \in Application,
         NEW p \in Application \cup {NoRequest}, BeginSubmit(c, p)
  PROVE  VerificationInv'
<1> USE DEF VerificationInv, VerificationTypeOK, VerificationAssumption
<1>1. /\ applying[c] = "IDLE" /\ prior' = [prior EXCEPT ![c] = p]
      /\ UNCHANGED <<request, basis, closes, paper, collecting, trustLevel, confirmed>>
  BY DEF BeginSubmit, paperVars, badgeVars
<1>2. PICK place \in {"CLOSE", "LOOK"} :
        /\ applying' = [applying EXCEPT ![c] = place]
        /\ place = "CLOSE" => p \in Application
  BY DEF BeginSubmit, Proceed
<1>3. c \notin closes
  BY <1>1 DEF CloseInv
<1>4. VerificationTypeOK'
  BY <1>1, <1>2
<1>5. CloseInv'
  BY <1>1, <1>2, <1>3 DEF CloseInv
<1>6. InsertInv'
  BY <1>1, <1>2 DEF InsertInv, LiveFor
<1>7. OneLiveApplication'
  BY <1>1 DEF OneLiveApplication
<1> QED
  BY <1>4, <1>5, <1>6, <1>7

\* The UPDATE of the prior finds it NEEDS_INFO, in nobody's hands.
LEMMA CloseKeeps ==
  ASSUME VerificationAssumption, VerificationInv, NEW c \in Application, ClosePrior(c),
         request[prior[c]] = "NEEDS_INFO"
  PROVE  VerificationInv'
<1> USE DEF VerificationInv, VerificationTypeOK, VerificationAssumption
<1>1. /\ applying[c] = "CLOSE" /\ applying' = [applying EXCEPT ![c] = "LOOK"]
      /\ closes' = closes \cup {c}
      /\ \A d \in closes : prior[d] # prior[c]
      /\ UNCHANGED <<request, basis, prior, paper, collecting, trustLevel, confirmed>>
  BY DEF ClosePrior, Proceed, RowLocked, paperVars, badgeVars
<1>2. VerificationTypeOK'
  BY <1>1
<1>3. CloseInv'
  BY <1>1 DEF CloseInv
<1>4. InsertInv'
  BY <1>1 DEF InsertInv, LiveFor
<1>5. OneLiveApplication'
  BY <1>1 DEF OneLiveApplication
<1> QED
  BY <1>2, <1>3, <1>4, <1>5

\* The index lets the row of c in.
LEMMA InsertKeeps ==
  ASSUME VerificationAssumption, VerificationInv, NEW c \in Application, InsertRequest(c),
         LiveFor(c) = {}
  PROVE  VerificationInv'
<1> USE DEF VerificationInv, VerificationTypeOK, VerificationAssumption
<1>1. /\ applying[c] = "INSERT" /\ applying' = [applying EXCEPT ![c] = "INSERTED"]
      /\ \A d \in Application \ {c} : applying[d] # "INSERTED"
      /\ UNCHANGED <<request, basis, prior, closes, paper, collecting, trustLevel, confirmed>>
  BY DEF InsertRequest, Proceed, paperVars, badgeVars
<1>2. VerificationTypeOK'
  BY <1>1
<1>3. CloseInv'
  BY <1>1 DEF CloseInv
<1>4. InsertInv'
  BY <1>1 DEF InsertInv, LiveFor
<1>5. OneLiveApplication'
  BY <1>1 DEF OneLiveApplication
<1> QED
  BY <1>2, <1>3, <1>4, <1>5

\* A submission commits: its prior expires and its own row becomes live.
LEMMA CommitKeeps ==
  ASSUME VerificationAssumption, VerificationInv, NEW c \in Application, CommitSubmit(c)
  PROVE  VerificationInv'
<1> USE DEF VerificationInv, VerificationTypeOK, VerificationAssumption
<1>1. /\ applying[c] \in {"INSERTED", "ANSWER"}
      /\ applying' = [applying EXCEPT ![c] = "OVER"]
      /\ prior' = [prior EXCEPT ![c] = NoRequest]
      /\ closes' = closes \ {c}
      /\ basis' \in {basis, basis \cup {c}}
      /\ UNCHANGED <<paper, collecting, trustLevel, confirmed>>
  BY DEF CommitSubmit, End, Proceed, paperVars, badgeVars
<1>2. /\ request' \in [Application -> VerificationStatus \cup {"NONE"}]
      /\ \A r \in Application :
           request'[r] = IF c \in closes /\ r = prior[c] THEN "EXPIRED"
                         ELSE IF r = c /\ applying[c] = "INSERTED" THEN "SUBMITTED"
                         ELSE request[r]
  BY DEF CommitSubmit, VerificationStatus, OpenStatus
<1>3. VerificationTypeOK'
  BY <1>1, <1>2
<1>4. CloseInv'
  <2>1. ASSUME NEW d \in closes'
        PROVE  request'[prior'[d]] = "NEEDS_INFO"
    <3>1. d \in closes /\ d # c /\ prior'[d] = prior[d]
      BY <1>1, <2>1
    <3>2. prior[d] # c /\ prior[d] \in Application /\ request[prior[d]] = "NEEDS_INFO"
      BY <1>1, <3>1 DEF CloseInv
    <3>3. ~(c \in closes /\ prior[d] = prior[c])
      BY <3>1 DEF CloseInv
    <3> QED
      BY <1>2, <3>1, <3>2, <3>3
  <2>2. \A d \in Application : applying'[d] # "OVER" => request'[d] = "NONE"
    BY <1>1, <1>2 DEF CloseInv
  <2> QED
    BY <1>1, <2>1, <2>2 DEF CloseInv
<1>5. applying[c] # "INSERTED" => NothingOpens
  BY <1>2 DEF NothingOpens, OpenStatus
<1>6. InsertInv'
  <2> SUFFICES ASSUME NEW d \in Application, applying'[d] = "INSERTED"
               PROVE  /\ LiveFor(d)' = {}
                      /\ \A e \in Application : applying'[e] = "INSERTED" => e = d
    BY DEF InsertInv
  <2>1. d # c /\ applying[d] = "INSERTED" /\ LiveFor(d) = {} /\ applying[c] # "INSERTED"
    BY <1>1 DEF InsertInv
  <2>2. LiveFor(d)' = {}
    BY <1>1, <1>5, <2>1 DEF LiveFor, NothingOpens
  <2> QED
    BY <1>1, <2>1, <2>2 DEF InsertInv
<1>7. OneLiveApplication'
  <2>1. CASE applying[c] = "INSERTED"
    <3>1. LiveFor(c) = {}
      BY <2>1 DEF InsertInv
    <3>2. \A r \in Application : request'[r] \in OpenStatus => r = c
      BY <1>2, <3>1 DEF LiveFor, OpenStatus
    <3> QED
      BY <3>2 DEF OneLiveApplication
  <2> QED
    BY <1>5, <2>1, OneLiveKept
<1> QED
  BY <1>3, <1>4, <1>6, <1>7

LEMMA ActKeeps ==
  ASSUME VerificationAssumption, VerificationInv, NEW r \in Application, NEW action,
         Act(r, action)
  PROVE  VerificationInv'
<1> USE DEF VerificationInv, VerificationTypeOK, VerificationAssumption
<1> DEFINE to == VerificationMove(request[r], action)
<1>1. /\ to \in VerificationStatus /\ request[r] \in OpenStatus
      /\ \A c \in closes : prior[c] # r
      /\ request' = [request EXCEPT ![r] = to]
      /\ UNCHANGED <<basis, applying, prior, closes, collecting>>
  BY MovesTyped, MovesStartOpen DEF Act, RowLocked
<1>2. VerificationTypeOK'
  <2>1. paper' \in [Paper -> [of : Application \cup {NoRequest},
                             at : {"NONE", "ALLOWED", "STORED", "DUE"}]]
    <3> HIDE DEF to
    <3> QED
      BY DEF Act
  <2>2. confirmed' \in BOOLEAN
    BY DEF Act
  <2>3. trustLevel' \in 1..2
    <3>1. trustLevel' = 2 \/ trustLevel' = trustLevel
      BY Zenon DEF Act
    <3> QED
      BY <3>1
  <2>4. request' \in [Application -> VerificationStatus \cup {"NONE"}]
    <3> HIDE DEF to
    <3> QED
      BY <1>1
  <2> QED
    BY <1>1, <2>1, <2>2, <2>3, <2>4
<1>3. CloseInv'
  BY <1>1 DEF CloseInv, OpenStatus
<1>4. NothingOpens
  BY <1>1 DEF NothingOpens
<1>5. InsertInv'
  BY <1>1, <1>4 DEF InsertInv, LiveFor, NothingOpens
<1> QED
  BY <1>2, <1>3, <1>4, <1>5, OneLiveKept
-----------------------------------------------------------------------------
LEMMA VerificationInvNext ==
  ASSUME VerificationAssumption, VerificationInv, [VerificationNext]_verificationVars
  PROVE  VerificationInv'
<1> USE DEF VerificationInv, VerificationTypeOK, VerificationAssumption
<1>1. ASSUME NEW c \in Application, ClosePrior(c)
      PROVE  VerificationInv'
  <2>1. CASE request[prior[c]] = "NEEDS_INFO"
    BY <1>1, <2>1, CloseKeeps
  <2>2. CASE request[prior[c]] # "NEEDS_INFO"
    BY <1>1, <2>2, MoveOnKeeps DEF ClosePrior, CloseInv
  <2> QED
    BY <2>1, <2>2
<1>2. ASSUME NEW c \in Application, LookForLive(c)
      PROVE  VerificationInv'
  BY <1>2, MoveOnKeeps DEF LookForLive
<1>3. ASSUME NEW c \in Application, InsertRequest(c)
      PROVE  VerificationInv'
  BY <1>3, InsertKeeps, EndKeeps DEF InsertRequest
<1>4. ASSUME NEW c \in Application, LoseSubmit(c)
      PROVE  VerificationInv'
  BY <1>4, EndKeeps DEF LoseSubmit
<1>5. ASSUME NEW d \in Paper, NEW r \in Application, AllowPaper(d, r)
      PROVE  VerificationInv'
  BY <1>5 DEF AllowPaper, badgeVars, CloseInv, InsertInv, LiveFor, OneLiveApplication
<1>6. ASSUME NEW d \in Paper, StorePaper(d)
      PROVE  VerificationInv'
  BY <1>6 DEF StorePaper, badgeVars, CloseInv, InsertInv, LiveFor, OneLiveApplication
<1>7. CASE SwitchCollection
  BY <1>7 DEF SwitchCollection, badgeVars, CloseInv, InsertInv, LiveFor, OneLiveApplication
<1>8. CASE UNCHANGED verificationVars
  BY <1>8 DEF verificationVars, CloseInv, InsertInv, LiveFor, OneLiveApplication
<1> QED
  BY <1>1, <1>2, <1>3, <1>4, <1>5, <1>6, <1>7, <1>8, BeginKeeps, CommitKeeps, ActKeeps
  DEF VerificationNext

LEMMA VerificationInvariant == VerificationSpec => []VerificationInv
<1>1. VerificationInv /\ [VerificationNext]_verificationVars => VerificationInv'
  BY VerificationInvNext, VerificationAssumption
<1> QED
  BY VerificationInvInit, <1>1, PTL DEF VerificationSpec
-----------------------------------------------------------------------------
\* Whatever submissions run at a time, at most one request for the property is
\* live (submit, and the unique index that it relies on).
THEOREM OneLive == VerificationSpec => []OneLiveApplication
<1>1. VerificationInv => OneLiveApplication
  BY DEF VerificationInv
<1> QED
  BY <1>1, VerificationInvariant, PTL

\* Nothing changes a request that was decided: not the staff, and not a
\* submission that read NEEDS_INFO before the decision (submit, act).
THEOREM DecisionsStayFinal == VerificationSpec => DecisionsAreFinal
<1> DEFINE Kept ==
      \A r \in Application : request[r] \in {"APPROVED", "REJECTED"} => request'[r] = request[r]
<1>1. ASSUME VerificationInv, [VerificationNext]_verificationVars
      PROVE  [Kept]_request
  <2> USE DEF VerificationInv, VerificationTypeOK
  <2>1. CASE UNCHANGED request
    BY <2>1
  <2>2. ASSUME NEW c \in Application, CommitSubmit(c)
        PROVE  Kept
    BY <1>1, <2>2 DEF CommitSubmit, CloseInv
  <2>3. ASSUME NEW r \in Application, NEW action, Act(r, action)
        PROVE  Kept
    <3>1. request[r] \in OpenStatus
      BY <2>3, MovesStartOpen DEF Act
    <3> QED
      BY <1>1, <2>3, <3>1 DEF Act, OpenStatus
  <2> QED
    BY <1>1, <2>1, <2>2, <2>3
    DEF VerificationNext, BeginSubmit, ClosePrior, LookForLive, InsertRequest, LoseSubmit,
        AllowPaper, StorePaper, SwitchCollection, End, verificationVars
<1> QED
  BY <1>1, VerificationInvariant, PTL DEF VerificationSpec, DecisionsAreFinal
-----------------------------------------------------------------------------
\* One transaction holds the row, and what it read is what is there.  Only the
\* parties to a dispute join a case.
FileInv ==
  \A c \in DeskCall :
    /\ Holds(c) => rowHeld = c /\ desk[c].read = file.status
    /\ desk[c].at = "JOINING" => kind = "DISPUTE"

TicketsInv == TicketsTypeOK /\ FileInv /\ WaitsOnAQuestion

\* The table leads to a status of the file, and to a ticket's waiting only by a
\* question.
LEMMA MovesLead ==
  ASSUME NEW k \in {"TICKET", "DISPUTE"}, NEW m \in MovesOf(k)
  PROVE  /\ m.to \in FileStatus
         /\ k = "TICKET" /\ m.to = "WAITING_ON_USER" => m.action \in Question
<1>1. CASE k = "TICKET"
  <2>1. m \in TicketTransitions
    BY <1>1 DEF MovesOf
  <2>2. m.to \in FileStatus
    BY <2>1 DEF FileStatus
  <2>3. m.to = "WAITING_ON_USER" => m.action = "REQUEST_INFO"
    BY <2>1 DEF TicketTransitions, Move
  <2> QED
    BY <2>2, <2>3 DEF Question
<1>2. CASE k = "DISPUTE"
  <2>1. m \in DisputeTransitions
    BY <1>2 DEF MovesOf
  <2>2. m.to \in CaseStatus
    BY <2>1 DEF DisputeTransitions, Move, CaseStatus, OpenCaseStatus
  <2> QED
    BY <1>2, <2>2 DEF FileStatus
<1> QED
  BY <1>1, <1>2

LEMMA TicketsInvInit ==
  ASSUME TicketsInit
  PROVE  TicketsInv
BY DEF TicketsInit, TicketsInv, TicketsTypeOK, FileInv, WaitsOnAQuestion, AtRest, Request, Holds,
       FileStatus, CaseStatus, Work

\* A request that ends, or comes to rest with nothing written.
LEMMA RestKeeps ==
  ASSUME TicketsInv, NEW c \in DeskCall,
         desk' \in [DeskCall -> [at : {"IDLE", "LOCKED", "WRITTEN", "JOINING"}, work : Work,
                                  read : FileStatus]],
         ~Holds(c)', desk'[c].at = "JOINING" => kind = "DISPUTE",
         \A d \in DeskCall \ {c} : desk'[d] = desk[d],
         rowHeld' = rowHeld \/ (rowHeld' = NoCall /\ rowHeld = c),
         notices' \subseteq Question,
         UNCHANGED kind, UNCHANGED fileVars
  PROVE  TicketsInv'
BY DEF TicketsInv, TicketsTypeOK, FileInv, WaitsOnAQuestion, Holds, fileVars

\* The transaction that holds the row writes it and commits.
LEMMA WriteKeeps ==
  ASSUME TicketsInv, NEW c \in DeskCall, Holds(c), CommitDesk(c),
         file' \in [status : FileStatus, assigned : Handler \cup {NoHandler}, decision : BOOLEAN],
         lastWord' \in {"AUTHOR", "STAFF"},
         WaitsOnAQuestion'
  PROVE  TicketsInv'
<1>1. /\ desk' = [desk EXCEPT ![c] = [at |-> "WRITTEN", work |-> desk[c].work, read |-> "OPEN"]]
      /\ rowHeld' = NoCall
      /\ UNCHANGED <<kind, notices>>
  BY DEF CommitDesk, Request
<1>2. TicketsTypeOK'
  BY <1>1 DEF TicketsInv, TicketsTypeOK, FileStatus, CaseStatus
<1>3. \A d \in DeskCall : ~Holds(d)'
  BY <1>1 DEF TicketsInv, TicketsTypeOK, FileInv, Holds
<1>4. FileInv'
  BY <1>1, <1>3 DEF TicketsInv, TicketsTypeOK, FileInv, Holds
<1> QED
  BY <1>2, <1>4 DEF TicketsInv

LEMMA TicketsInvNext ==
  ASSUME TicketsAssumption, TicketsInv, [TicketsNext]_ticketsVars
  PROVE  TicketsInv'
<1> USE DEF TicketsInv, TicketsTypeOK
<1>1. ASSUME NEW c \in DeskCall, NEW w \in Work, LockFile(c, w)
      PROVE  TicketsInv'
  <2>1. /\ rowHeld = NoCall /\ rowHeld' = c
        /\ desk' = [desk EXCEPT ![c] = [at |-> "LOCKED", work |-> w, read |-> file.status]]
        /\ UNCHANGED <<kind, notices, file, lastWord>>
    BY <1>1 DEF LockFile, fileVars
  <2>2. \A d \in DeskCall : ~Holds(d)
    BY <2>1, TicketsAssumption DEF FileInv, TicketsAssumption
  <2>3. TicketsTypeOK'
    BY <2>1
  <2> QED
    BY <2>1, <2>2, <2>3 DEF FileInv, Holds, WaitsOnAQuestion
<1>2. ASSUME NEW c \in DeskCall, RefuseWork(c) \/ LoseDesk(c) \/ SendNotice(c)
      PROVE  TicketsInv'
  <2>1. desk' = [desk EXCEPT ![c] = AtRest]
    BY <1>2 DEF RefuseWork, LoseDesk, SendNotice, EndWork
  <2>2. /\ rowHeld' = rowHeld \/ (rowHeld' = NoCall /\ rowHeld = c)
        /\ notices' \subseteq Question /\ UNCHANGED kind /\ UNCHANGED fileVars
    BY <1>2 DEF RefuseWork, LoseDesk, SendNotice, FileInv
  <2>3. AtRest \in [at : {"IDLE"}, work : Work, read : FileStatus]
    BY DEF AtRest, Request, Work, FileStatus, CaseStatus
  <2> QED
    BY <2>1, <2>2, <2>3, RestKeeps DEF Holds
<1>3. ASSUME NEW c \in DeskCall, JoinCase(c)
      PROVE  TicketsInv'
  <2>1. desk' = [desk EXCEPT ![c] = [at |-> "JOINING", work |-> "NOTE", read |-> "OPEN"]]
    BY <1>3 DEF JoinCase, Request
  <2> QED
    <3>1. [at |-> "JOINING", work |-> "NOTE", read |-> "OPEN"]
            \in [at : {"JOINING"}, work : Work, read : FileStatus]
      BY DEF Work, FileStatus, CaseStatus
    <3>2. /\ kind = "DISPUTE" /\ UNCHANGED <<kind, rowHeld, notices>> /\ UNCHANGED fileVars
      BY <1>3 DEF JoinCase
    <3> QED
      BY <2>1, <3>1, <3>2, RestKeeps DEF Holds
<1>4. ASSUME NEW c \in DeskCall, AddAccount(c)
      PROVE  TicketsInv'
  <2>1. /\ desk' = [desk EXCEPT ![c] = AtRest] /\ lastWord' = "AUTHOR"
        /\ desk[c].at = "JOINING" /\ UNCHANGED <<kind, file, rowHeld, notices>>
    BY <1>4 DEF AddAccount, EndWork
  <2>2. kind = "DISPUTE"
    BY <2>1 DEF FileInv
  <2>3. AtRest \in [at : {"IDLE"}, work : Work, read : FileStatus]
    BY DEF AtRest, Request, Work, FileStatus, CaseStatus
  <2>4. TicketsTypeOK'
    BY <2>1, <2>3
  <2> QED
    BY <2>1, <2>2, <2>3, <2>4 DEF FileInv, Holds, WaitsOnAQuestion
<1>5. ASSUME NEW c \in DeskCall, WriteReply(c)
      PROVE  TicketsInv'
  <2>1. Holds(c) /\ desk[c].read = file.status
    BY <1>5 DEF WriteReply, FileInv
  <2>2. file' = IF file.status = "WAITING_ON_USER" THEN [file EXCEPT !.status = "IN_PROGRESS"]
                ELSE file
    BY <1>5, <2>1 DEF WriteReply
  <2>3. "IN_PROGRESS" \in FileStatus
    <3>1. Move("OPEN", "TAKE", "IN_PROGRESS") \in TicketTransitions
      BY DEF TicketTransitions
    <3> QED
      BY <3>1 DEF FileStatus, Move
  <2>4. WaitsOnAQuestion'
    BY <2>2 DEF WaitsOnAQuestion
  <2> QED
    BY <1>5, <2>1, <2>2, <2>3, <2>4, WriteKeeps DEF WriteReply
<1>6. ASSUME NEW c \in DeskCall, WriteMove(c)
      PROVE  TicketsInv'
  <2>1. PICK m \in MovesFor(c) :
          file' = [file EXCEPT !.status = m.to, !.decision = @ \/ m.to \in Decided]
    BY <1>6 DEF WriteMove
  <2>2. m \in MovesOf(kind) /\ m.action = desk[c].work
    BY <2>1 DEF MovesFor
  <2>3. /\ m.to \in FileStatus
        /\ kind = "TICKET" /\ m.to = "WAITING_ON_USER" => desk[c].work \in Question
    BY <2>2, MovesLead
  <2>4. file' \in [status : FileStatus, assigned : Handler \cup {NoHandler}, decision : BOOLEAN]
    BY <2>1, <2>3
  <2>5. lastWord' = IF desk[c].work \in Question THEN "STAFF" ELSE lastWord
    BY <1>6 DEF WriteMove
  <2>6. WaitsOnAQuestion'
    BY <1>6, <2>1, <2>3, <2>5 DEF WaitsOnAQuestion, WriteMove, CommitDesk
  <2> QED
    BY <1>6, <2>4, <2>5, <2>6, WriteKeeps DEF WriteMove
<1>7. ASSUME NEW c \in DeskCall, WriteAssignment(c)
      PROVE  TicketsInv'
  <2>1. PICK h \in Handler \cup {NoHandler} : file' = [file EXCEPT !.assigned = h]
    BY <1>7 DEF WriteAssignment
  <2>2. Holds(c) /\ CommitDesk(c) /\ lastWord' = lastWord /\ kind' = kind
    BY <1>7 DEF WriteAssignment, CommitDesk
  <2> QED
    BY <2>1, <2>2, WriteKeeps DEF WaitsOnAQuestion
<1>8. ASSUME NEW c \in DeskCall, WriteNote(c)
      PROVE  TicketsInv'
  <2>1. Holds(c) /\ CommitDesk(c) /\ lastWord' = lastWord /\ file' = file /\ kind' = kind
    BY <1>8 DEF WriteNote, CommitDesk, fileVars
  <2> QED
    BY <2>1, WriteKeeps DEF WaitsOnAQuestion
<1>9. CASE UNCHANGED ticketsVars
  BY <1>9 DEF ticketsVars, FileInv, Holds, WaitsOnAQuestion
<1> QED
  BY <1>1, <1>2, <1>3, <1>4, <1>5, <1>6, <1>7, <1>8, <1>9 DEF TicketsNext, DeskStep

\* A ticket never waits for an author who has had the last word, whatever replies,
\* questions and other requests cross (the row lock of reply() and act()).
THEOREM QuestionsAreAnswered == TicketsSpec => []WaitsOnAQuestion
<1>1. TicketsInit => TicketsInv
  BY TicketsInvInit
<1>2. TicketsInv /\ [TicketsNext]_ticketsVars => TicketsInv'
  BY TicketsInvNext, TicketsAssumption
<1>3. TicketsInv => WaitsOnAQuestion
  BY DEF TicketsInv
<1> QED
  BY <1>1, <1>2, <1>3, PTL DEF TicketsSpec
-----------------------------------------------------------------------------
\* What is published has a stamp; a stamp before the other party has written is
\* a stamp of the deadline, and so is whatever anybody could read before
\* writing.  Who had read and passes the check under the lock is at the deadline.
BlindInv ==
  /\ \A s \in Side : review[s] = "PUBLISHED" => s \in stamped
  /\ \A s \in stamped : ~Written(Other(s)) => window # "OPEN"
  /\ \A s \in informed : /\ window # "OPEN"
                         /\ writing[s] = "LOCKED" => s \in tardy

ReviewsInv == ReviewsTypeOK /\ BlindInv /\ DoubleBlind

LEMMA OtherSide == \A s \in Side : /\ Other(s) \in Side /\ Other(s) # s
                                   /\ Other(Other(s)) = s
BY DEF Side, Other

LEMMA ReviewsInvInit == ReviewsInit => ReviewsInv
BY DEF ReviewsInit, ReviewsInv, ReviewsTypeOK, ReviewStatus, BlindInv, DoubleBlind, Written

LEMMA ReviewsInvNext ==
  ASSUME ReviewsInv, [ReviewsNext]_reviewsVars
  PROVE  ReviewsInv'
<1> USE DEF ReviewsInv, ReviewsTypeOK, ReviewStatus
<1>1. CASE ReviewClock
  BY <1>1 DEF ReviewClock, BlindInv, DoubleBlind, Written
<1>2. CASE PublishExpired
  BY <1>2, OtherSide DEF PublishExpired, BlindInv, DoubleBlind, Written
<1>3. ASSUME NEW s \in Side, Compose(s)
      PROVE  ReviewsInv'
  BY <1>3, OtherSide DEF Compose, BlindInv, DoubleBlind, Written
<1>4. ASSUME NEW s \in Side, LockRental(s)
      PROVE  ReviewsInv'
  <2>1. ReviewsTypeOK'
    BY <1>4 DEF LockRental
  <2>2. BlindInv' /\ DoubleBlind'
    BY <1>4 DEF LockRental, BlindInv, DoubleBlind, Written
  <2> QED
    BY <2>1, <2>2
<1>5. ASSUME NEW s \in Side, CommitReview(s)
      PROVE  ReviewsInv'
  <2>1. ReviewsTypeOK'
    BY <1>5 DEF CommitReview
  <2>2. BlindInv'
    <3>1. Other(s) \in Side /\ Side = {s, Other(s)} /\ Other(Other(s)) = s /\ Other(s) # s
      BY DEF Side, Other
    <3>2. /\ window' = window /\ informed' = informed /\ tardy' = tardy
          /\ \A t \in informed : writing'[t] = "LOCKED" => writing[t] = "LOCKED"
      BY <1>5 DEF CommitReview
    <3>3. CASE Written(Other(s))
      <4>1. /\ \A t \in Side : review'[t] = "PUBLISHED" => t \in stamped'
            /\ \A t \in Side : Written(t)'
        BY <1>5, <3>1, <3>3 DEF CommitReview, BlindInv, Written
      <4> QED
        BY <2>1, <3>2, <4>1, OtherSide DEF BlindInv, Written
    <3>4. CASE ~Written(Other(s))
      <4>1. /\ stamped' = stamped
            /\ \A t \in Side : review'[t] = "PUBLISHED" => review[t] = "PUBLISHED"
            /\ \A t \in Side : review[t] # "NONE" => review'[t] # "NONE"
        BY <1>5, <3>1, <3>4 DEF CommitReview, Written
      <4>2. \A t \in Side : review'[t] = "PUBLISHED" => t \in stamped'
        BY <4>1 DEF BlindInv
      <4>3. \A t \in stamped' : ~Written(Other(t))' => window' # "OPEN"
        BY <3>2, <4>1, OtherSide DEF BlindInv, Written
      <4>4. \A t \in informed' : window' # "OPEN" /\ (writing'[t] = "LOCKED" => t \in tardy')
        BY <3>2 DEF BlindInv
      <4> QED
        BY <4>2, <4>3, <4>4 DEF BlindInv
    <3> QED
      BY <3>3, <3>4
  <2>3. DoubleBlind'
    BY <1>5 DEF CommitReview, BlindInv, DoubleBlind, Written
  <2> QED
    BY <2>1, <2>2, <2>3
<1>6. ASSUME NEW s \in Side, LoseReview(s)
      PROVE  ReviewsInv'
  BY <1>6 DEF LoseReview, BlindInv, DoubleBlind, Written
<1>7. ASSUME NEW s \in Side, ReportReview(s)
      PROVE  ReviewsInv'
  BY <1>7 DEF ReportReview, BlindInv, DoubleBlind, Written
<1>8. ASSUME NEW s \in Side, NEW d \in Decision, Moderate(s, d)
      PROVE  ReviewsInv'
  <2>1. ReviewsTypeOK'
    BY <1>8 DEF Moderate, Decision
  <2>2. BlindInv' /\ DoubleBlind'
    BY <1>8, OtherSide DEF Moderate, RowAllowed, Decision, BlindInv, DoubleBlind, Written
  <2> QED
    BY <2>1, <2>2
<1>9. CASE UNCHANGED reviewsVars
  BY <1>9 DEF reviewsVars, BlindInv, DoubleBlind, Written
<1> QED
  BY <1>1, <1>2, <1>3, <1>4, <1>5, <1>6, <1>7, <1>8, <1>9 DEF ReviewsNext

\* Nobody who passes the check before the deadline has read the other's review,
\* whichever of submission, publication and moderation comes first (submit() under
\* the row lock, publishExpiredWindows() without one).
THEOREM ReviewsAreBlind == ReviewsSpec => []DoubleBlind
<1>1. ReviewsInit => ReviewsInv
  BY ReviewsInvInit
<1>2. ReviewsInv /\ [ReviewsNext]_reviewsVars => ReviewsInv'
  BY ReviewsInvNext
<1>3. ReviewsInv => DoubleBlind
  BY DEF ReviewsInv
<1> QED
  BY <1>1, <1>2, <1>3, PTL DEF ReviewsSpec
-----------------------------------------------------------------------------
\* There is one cover as long as there is a photo.
OneCover ==
  IF Photos = {} THEN cover = {} ELSE \E p \in Photos : cover = {p}

\* A call that no other has overtaken began after the latest row of the audit log, and
\* when the one that decided last was such a call of a moderator, that row is its own.
AuditInv ==
  /\ latest.time <= clock
  /\ \A c \in StatusCall : began[c] <= clock
  /\ \A c \in StatusCall \ overtaken : began[c] > 0 => began[c] > latest.time
  /\ decider = "MODERATOR" /\ ~crossed => latest.by = "MODERATOR"

ListingsInv == ListingsTypeOK /\ AuditInv /\ OneCover

\* The photos that a listing has are counted by a number.
LEMMA PhotosAreCounted == Cardinality(Photos) \in Nat
<1>1. Photos \subseteq Photo
  BY DEF Photos
<1> QED
  BY <1>1, ListingsAssumption, FS_Subset, FS_CardinalityType

LEMMA OwnerMoves == \A from \in ListingStatus : OwnerMay(from) \subseteq ListingStatus
BY DEF OwnerMay, ListingStatus

LEMMA ModeratorMoves ==
  \A from \in ListingStatus : /\ ModeratorMay(from) \subseteq ListingStatus
                              /\ ModeratorMay(from) # {} => from # "DRAFT"
BY DEF ModeratorMay, ListingStatus

LEMMA ListingsInvInit == ListingsInit => ListingsInv
<1> SUFFICES ASSUME ListingsInit PROVE ListingsInv
  OBVIOUS
<1>1. ListingsTypeOK
  <2>1. -1 \in -1 .. (MaxPhotos - 1)
    BY ListingsAssumption
  <2>2. order \in [Photo -> -1 .. (MaxPhotos - 1)] /\ cover \subseteq Photo
    BY <2>1 DEF ListingsInit
  <2>3. latest \in [time : Nat, by : {"OWNER", "MODERATOR"}]
    BY DEF ListingsInit
  <2>4. /\ status \in ListingStatus /\ complete \in BOOLEAN /\ ownerGone \in BOOLEAN
        /\ decider \in {"OWNER", "MODERATOR", "CLOSURE"}
        /\ overtaken \subseteq StatusCall /\ crossed \in BOOLEAN
    BY DEF ListingsInit, ListingStatus
  <2>5. clock \in Nat /\ began \in [StatusCall -> Int]
    BY DEF ListingsInit
  <2> QED
    BY <2>2, <2>3, <2>4, <2>5 DEF ListingsTypeOK
<1>2. AuditInv
  BY DEF ListingsInit, AuditInv
<1>3. OneCover
  BY DEF ListingsInit, OneCover, Photos
<1> QED
  BY <1>1, <1>2, <1>3 DEF ListingsInv

\* What neither changes the photos nor the cover.
LEMMA CoverStays ==
  ASSUME OneCover, UNCHANGED photoVars
  PROVE  OneCover'
BY DEF OneCover, Photos, photoVars

\* A call that ends with the status written and a row about it.
LEMMA SetStatusKeeps ==
  ASSUME ListingsInv, NEW c \in StatusCall, began[c] > 0, NEW next \in ListingStatus,
         NEW by \in {"OWNER", "MODERATOR"}, SetStatus(c, next, by)
  PROVE  ListingsInv'
<1> USE DEF ListingsInv, ListingsTypeOK
<1>1. /\ status' = next /\ decider' = by
      /\ UNCHANGED <<complete, ownerGone, clock>>
      /\ UNCHANGED photoVars
      /\ began' = [began EXCEPT ![c] = -1]
      /\ overtaken' = { d \in StatusCall \ {c} : began[d] > 0 }
      /\ crossed' = (c \in overtaken)
      /\ latest' = IF began[c] > latest.time THEN [time |-> began[c], by |-> by] ELSE latest
  BY DEF SetStatus
<1>2. latest' \in [time : Nat, by : {"OWNER", "MODERATOR"}] /\ latest'.time <= clock'
  BY <1>1 DEF AuditInv
<1>3. ListingsTypeOK'
  BY <1>1, <1>2 DEF photoVars
<1>4. AuditInv'
  <2>1. \A d \in StatusCall : began'[d] <= clock' /\ (began'[d] > 0 => d \in overtaken')
    BY <1>1 DEF AuditInv
  <2>2. c \notin overtaken => latest' = [time |-> began[c], by |-> by]
    BY <1>1 DEF AuditInv
  <2>3. ASSUME decider' = "MODERATOR", ~crossed' PROVE latest'.by = "MODERATOR"
    <3>1. c \notin overtaken
      BY <1>1, <2>3, Zenon
    <3>2. by = "MODERATOR"
      BY <1>1, <2>3
    <3> QED
      BY <2>2, <3>1, <3>2
  <2> QED
    BY <1>2, <2>1, <2>3 DEF AuditInv
<1> QED
  BY <1>1, <1>3, <1>4, CoverStays

LEMMA ListingsInvNext ==
  ASSUME ListingsInv, [ListingsNext]_listingsVars
  PROVE  ListingsInv'
<1> USE DEF ListingsInv
<1>1. CASE UpdateListing
  <2>1. UNCHANGED photoVars /\ UNCHANGED statusVars
    BY <1>1 DEF UpdateListing
  <2>2. ListingsTypeOK'
    BY <1>1 DEF UpdateListing, ListingsTypeOK, photoVars, statusVars
  <2>3. AuditInv'
    BY <2>1 DEF AuditInv, statusVars
  <2> QED
    BY <2>1, <2>2, <2>3, CoverStays
<1>2. CASE SubmitForModeration
  <2>1. UNCHANGED photoVars /\ UNCHANGED statusVars
    BY <1>2 DEF SubmitForModeration
  <2>2. ListingsTypeOK'
    BY <1>2 DEF SubmitForModeration, ListingsTypeOK, ListingStatus, photoVars, statusVars
  <2>3. AuditInv'
    BY <2>1 DEF AuditInv, statusVars
  <2> QED
    BY <2>1, <2>2, <2>3, CoverStays
<1>3. CASE OwnerLeaves
  <2>1. UNCHANGED photoVars
    BY <1>3 DEF OwnerLeaves
  <2>2. ListingsTypeOK'
    BY <1>3 DEF OwnerLeaves, ListingsTypeOK, ListingStatus, photoVars
  <2>3. AuditInv'
    BY <1>3 DEF OwnerLeaves, AuditInv
  <2> QED
    BY <2>1, <2>2, <2>3, CoverStays
<1>4. ASSUME NEW p \in Photo, AddPhoto(p)
      PROVE  ListingsInv'
  <2>1. /\ UNCHANGED <<status, complete, ownerGone>> /\ UNCHANGED statusVars
        /\ Cardinality(Photos) \in 0 .. (MaxPhotos - 1)
        /\ order' = [order EXCEPT ![p] = Cardinality(Photos)]
        /\ cover' = IF Photos = {} THEN cover \cup {p} ELSE cover
        /\ p \notin Photos
    BY <1>4, PhotosAreCounted, ListingsAssumption DEF AddPhoto, Photos
  <2>2. ListingsTypeOK'
    BY <2>1 DEF ListingsTypeOK, statusVars
  <2>3. AuditInv'
    BY <2>1 DEF AuditInv, statusVars
  <2>4. Photos' = Photos \cup {p}
    <3> DEFINE n == Cardinality(Photos)
    <3> HIDE DEF n
    <3>1. n \in Nat /\ order' = [order EXCEPT ![p] = n]
      BY <2>1, PhotosAreCounted DEF n
    <3>2. order \in [Photo -> Int]
      BY ListingsAssumption DEF ListingsTypeOK
    <3> QED
      BY <3>1, <3>2 DEF Photos
  <2>5. OneCover'
    BY <2>1, <2>4 DEF OneCover
  <2> QED
    BY <2>2, <2>3, <2>5
<1>5. ASSUME NEW p \in Photo, SetCoverPhoto(p)
      PROVE  ListingsInv'
  <2>1. /\ UNCHANGED <<status, complete, order, ownerGone>> /\ UNCHANGED statusVars
        /\ p \in Photos /\ Photos' = Photos /\ cover' = {p}
    BY <1>5 DEF SetCoverPhoto, Photos
  <2>2. ListingsTypeOK' /\ AuditInv'
    BY <2>1 DEF ListingsTypeOK, AuditInv, statusVars
  <2>3. OneCover'
    BY <2>1 DEF OneCover
  <2> QED
    BY <2>2, <2>3
<1>6. ASSUME NEW p \in Photo, RemovePhoto(p)
      PROVE  ListingsInv'
  <2>1. /\ UNCHANGED <<status, complete, ownerGone>> /\ UNCHANGED statusVars
        /\ order' = [order EXCEPT ![p] = -1] /\ p \in Photos
    BY <1>6 DEF RemovePhoto
  <2>2. AuditInv'
    BY <2>1 DEF AuditInv, statusVars
  <2>3. Photos' = Photos \ {p}
    BY <2>1 DEF Photos, ListingsTypeOK
  <2>4. CASE p \in cover /\ Photos \ {p} # {}
    <3>1. PICK q \in Photos \ {p} : cover' = (cover \ {p}) \cup {q}
      BY <1>6, <2>4 DEF RemovePhoto
    <3>2. cover = {p}
      BY <2>4 DEF OneCover
    <3>3. OneCover'
      BY <2>3, <3>1, <3>2 DEF OneCover
    <3>4. ListingsTypeOK'
      BY <2>1, <3>1, ListingsAssumption DEF ListingsTypeOK, statusVars, Photos
    <3> QED
      BY <2>2, <3>3, <3>4
  <2>5. CASE ~(p \in cover /\ Photos \ {p} # {})
    <3>1. cover' = cover \ {p}
      BY <1>6, <2>5 DEF RemovePhoto
    <3>2. OneCover'
      BY <2>1, <2>3, <2>5, <3>1 DEF OneCover
    <3>3. ListingsTypeOK'
      BY <2>1, <3>1, ListingsAssumption DEF ListingsTypeOK, statusVars
    <3> QED
      BY <2>2, <3>2, <3>3
  <2> QED
    BY <2>4, <2>5
<1>7. ASSUME NEW c \in StatusCall, BeginStatus(c)
      PROVE  ListingsInv'
  <2>1. UNCHANGED photoVars
    BY <1>7 DEF BeginStatus
  <2>2. ListingsTypeOK'
    BY <1>7 DEF BeginStatus, ListingsTypeOK, photoVars
  <2>3. AuditInv'
    <3>1. /\ clock \in Nat /\ clock' = clock + 1
          /\ began \in [StatusCall -> Int] /\ began' = [began EXCEPT ![c] = clock + 1]
          /\ latest' = latest /\ decider' = decider /\ latest.time \in Nat
      BY <1>7 DEF BeginStatus, ListingsTypeOK
    <3>2. latest'.time <= clock' /\ \A d \in StatusCall : began'[d] <= clock'
      BY <3>1 DEF AuditInv
    <3>3. overtaken' = overtaken /\ crossed' = crossed
      BY <1>7 DEF BeginStatus
    <3> QED
      BY <3>1, <3>2, <3>3 DEF AuditInv
  <2> QED
    BY <2>1, <2>2, <2>3, CoverStays
<1>8. ASSUME NEW c \in StatusCall, RefuseStatus(c)
      PROVE  ListingsInv'
  <2>1. UNCHANGED photoVars
    BY <1>8 DEF RefuseStatus
  <2>2. ListingsTypeOK'
    BY <1>8 DEF RefuseStatus, ListingsTypeOK, photoVars
  <2>3. AuditInv'
    BY <1>8 DEF RefuseStatus, AuditInv, ListingsTypeOK
  <2> QED
    BY <2>1, <2>2, <2>3, CoverStays
<1>9. ASSUME NEW c \in StatusCall, NEW s \in ListingStatus, SetStatusByOwner(c, s)
      PROVE  ListingsInv'
  BY <1>9, SetStatusKeeps DEF SetStatusByOwner
<1>10. ASSUME NEW c \in StatusCall, NEW s \in ListingStatus, ModerateListing(c, s)
       PROVE  ListingsInv'
  BY <1>10, SetStatusKeeps DEF ModerateListing
<1>11. CASE UNCHANGED listingsVars
  <2>1. UNCHANGED photoVars
    BY <1>11 DEF listingsVars, photoVars
  <2>2. ListingsTypeOK' /\ AuditInv'
    BY <1>11 DEF listingsVars, ListingsTypeOK, AuditInv
  <2> QED
    BY <2>1, <2>2, CoverStays
<1> QED
  BY <1>1, <1>2, <1>3, <1>4, <1>5, <1>6, <1>7, <1>8, <1>9, <1>10, <1>11 DEF ListingsNext

LEMMA ListingsInvariant == ListingsSpec => []ListingsInv
<1>1. ListingsInit => ListingsInv
  BY ListingsInvInit
<1>2. ListingsInv /\ [ListingsNext]_listingsVars => ListingsInv'
  BY ListingsInvNext
<1> QED
  BY <1>1, <1>2, PTL DEF ListingsSpec

\* A listing with photos has exactly one cover, whatever is added, chosen and
\* removed (addPhoto, setCoverPhoto, removePhoto).
THEOREM ListingsHaveOneCover == ListingsSpec => []OneCover
<1>1. ListingsInv => OneCover
  BY DEF ListingsInv
<1> QED
  BY <1>1, ListingsInvariant, PTL

\* For any calls of owners and moderators, in any order: what a moderator paused is not
\* published by its owner, unless the pausing call was itself overtaken by another
\* (assertPausedByOwnerNotModerator).
THEOREM ModeratorsHaveTheLastWord == ListingsSpec => PauseOutranksOwner
<1>1. ListingsInv /\ [ListingsNext]_listingsVars =>
        [status = "PAUSED" /\ status' = "PUBLISHED" /\ decider = "MODERATOR" /\ ~crossed
           => decider' = "MODERATOR"]_listingsVars
  <2> SUFFICES ASSUME ListingsInv, ListingsNext, status = "PAUSED", status' = "PUBLISHED",
                      decider = "MODERATOR", ~crossed
               PROVE  decider' = "MODERATOR"
    OBVIOUS
  <2>1. PausedByModerator
    BY DEF PausedByModerator, ListingsInv, AuditInv
  <2>2. ~UpdateListing /\ ~SubmitForModeration /\ ~OwnerLeaves
    BY DEF UpdateListing, SubmitForModeration, OwnerLeaves, statusVars
  <2>3. \A p \in Photo : ~AddPhoto(p) /\ ~SetCoverPhoto(p) /\ ~RemovePhoto(p)
    BY DEF AddPhoto, SetCoverPhoto, RemovePhoto
  <2>4. \A c \in StatusCall : ~BeginStatus(c) /\ ~RefuseStatus(c)
    BY DEF BeginStatus, RefuseStatus
  <2>5. \A c \in StatusCall, s \in ListingStatus : ~SetStatusByOwner(c, s)
    BY <2>1 DEF SetStatusByOwner, SetStatus
  <2>6. PICK c \in StatusCall, s \in ListingStatus : ModerateListing(c, s)
    BY <2>2, <2>3, <2>4, <2>5 DEF ListingsNext
  <2> QED
    BY <2>6 DEF ModerateListing, SetStatus
<1> QED
  BY <1>1, ListingsInvariant, PTL DEF ListingsSpec, PauseOutranksOwner
=============================================================================
