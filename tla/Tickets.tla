-------------------------------- MODULE Tickets --------------------------------
(***************************************************************************)
(* The file the staff work on: a support ticket (support-ticket-service.ts *)
(* and domain/support-ticket.ts) or a dispute case (dispute-service.ts),   *)
(* and the notices the routes send about it.  Every call is a transaction  *)
(* that locks the file's row in its first statement; the notice is written *)
(* by another transaction after the commit, from a row read anew.  What is *)
(* said is abstracted to who said the last word the author can see.        *)
(* Permissions, written reasons and the texts come from the caller and are *)
(* left out.                                                               *)
(***************************************************************************)
EXTENDS DisputeStates

CONSTANTS DeskCall,  \* requests in progress, of the author and of the staff
          Handler,   \* staff members a file can be assigned to
          NoHandler, \* assigned_to IS NULL
          NoCall     \* no transaction holds the row

ASSUME TicketsAssumption == NoHandler \notin Handler /\ NoCall \notin DeskCall

\* TICKET_TRANSITIONS.
TicketTransitions ==
  { Move("OPEN", "TAKE", "IN_PROGRESS"), Move("OPEN", "CLOSE", "CLOSED"),
    Move("IN_PROGRESS", "REQUEST_INFO", "WAITING_ON_USER"),
    Move("WAITING_ON_USER", "REQUEST_INFO", "WAITING_ON_USER"),
    Move("WAITING_ON_USER", "RESUME", "IN_PROGRESS") }
  \cup { Move(from, "RESOLVE", "RESOLVED") : from \in {"IN_PROGRESS", "WAITING_ON_USER"} }
  \cup { Move(from, "CLOSE", "CLOSED") : from \in {"IN_PROGRESS", "WAITING_ON_USER"} }
  \cup { Move(from, "REOPEN", "IN_PROGRESS") : from \in {"RESOLVED", "CLOSED"} }

MovesOf(k) == IF k = "TICKET" THEN TicketTransitions ELSE DisputeTransitions
DeskAction == { m.action : m \in TicketTransitions \cup DisputeTransitions }
FileStatus == CaseStatus \cup { m.to : m \in TicketTransitions }
Decided == {"RESOLVED", "CLOSED"}
Question == {"REQUEST_INFO", "REQUEST_INFORMATION"}
\* A request is a move of the table, or one of the calls beside it.
Work == DeskAction \cup {"REPLY", "NOTE", "ASSIGN"}

VARIABLES
  kind,      \* "TICKET" or "DISPUTE"
  file,      \* the row: status, assigned_to, resolution and resolved_by set
  lastWord,  \* whose is the last PARTIES event: "AUTHOR" or "STAFF"
  desk,      \* desk[c]: how far request c is, what it does, what it has read
  rowHeld,   \* the transaction that holds the row
  notices    \* the questions whose dedupe key is in the outbox

ticketsVars == <<kind, file, lastWord, desk, rowHeld, notices>>
fileVars == <<file, lastWord>>

\* A request that has forgotten what it read.
Request(at, work) == [at |-> at, work |-> work, read |-> "OPEN"]
AtRest == Request("IDLE", "NOTE")

\* create(), openDispute(): the author's own account is the first word.
TicketsInit ==
  /\ kind \in {"TICKET", "DISPUTE"}
  /\ file = [status |-> "OPEN", assigned |-> NoHandler, decision |-> FALSE]
  /\ lastWord = "AUTHOR"
  /\ desk = [c \in DeskCall |-> AtRest]
  /\ rowHeld = NoCall
  /\ notices = {}

EndWork(c) == desk' = [desk EXCEPT ![c] = AtRest]
Holds(c) == desk[c].at = "LOCKED"
\* The move that the table allows from the status read under the lock.
MovesFor(c) ==
  { m \in MovesOf(kind) : m.from = desk[c].read /\ m.action = desk[c].work }
-----------------------------------------------------------------------------
\* (Mutant: the status is read without FOR UPDATE.)
ReadFile(c, w) ==
  /\ desk[c].at = "IDLE"
  /\ w = "REPLY" => kind = "TICKET"
  /\ desk' = [desk EXCEPT ![c] = [at |-> "LOCKED", work |-> w, read |-> file.status]]
  /\ UNCHANGED <<kind, rowHeld, notices>> /\ UNCHANGED fileVars

\* lockTicket(), lockCase() and the SELECT ... FOR UPDATE of reply().  The
\* parties to a dispute have no reply of their own.
LockFile(c, w) ==
  /\ desk[c].at = "IDLE" /\ rowHeld = NoCall
  /\ w = "REPLY" => kind = "TICKET"
  /\ rowHeld' = c
  /\ desk' = [desk EXCEPT ![c] = [at |-> "LOCKED", work |-> w, read |-> file.status]]
  /\ UNCHANGED <<kind, notices>> /\ UNCHANGED fileVars

\* A decided ticket takes no reply, and the table refuses every other move.
RefuseWork(c) ==
  /\ Holds(c)
  /\ IF desk[c].work = "REPLY" THEN desk[c].read \in Decided
     ELSE desk[c].work \in DeskAction /\ MovesFor(c) = {}
  /\ EndWork(c)
  /\ rowHeld' = NoCall
  /\ UNCHANGED <<kind, notices>> /\ UNCHANGED fileVars

\* The row is let go; the route goes on with what the service returned.
CommitDesk(c) ==
  /\ desk' = [desk EXCEPT ![c] = Request("WRITTEN", desk[c].work)]
  /\ rowHeld' = NoCall
  /\ UNCHANGED <<kind, notices>>

\* reply(): the author's answer resumes a ticket that waits for it.
WriteReply(c) ==
  /\ Holds(c) /\ desk[c].work = "REPLY" /\ desk[c].read \notin Decided
  /\ lastWord' = "AUTHOR"
  /\ file' = IF desk[c].read = "WAITING_ON_USER" THEN [file EXCEPT !.status = "IN_PROGRESS"]
             ELSE file
  /\ CommitDesk(c)

\* openDispute() on a booking that has an open case: the case is found without a
\* lock, and the party's account is added to it, whatever has become of it, as soon
\* as the foreign key of the event can lock the row.  Its status stays as it is.
JoinCase(c) ==
  /\ desk[c].at = "IDLE" /\ kind = "DISPUTE" /\ file.status \in OpenCaseStatus
  /\ desk' = [desk EXCEPT ![c] = Request("JOINING", "NOTE")]
  /\ UNCHANGED <<kind, rowHeld, notices>> /\ UNCHANGED fileVars

AddAccount(c) ==
  /\ desk[c].at = "JOINING" /\ rowHeld = NoCall
  /\ lastWord' = "AUTHOR"
  /\ EndWork(c)
  /\ UNCHANGED <<kind, file, rowHeld, notices>>

\* act(): a question is the one event of the staff that the author sees; a
\* decision is recorded, and stays recorded when the file is reopened.
WriteMove(c) ==
  /\ Holds(c)
  /\ \E m \in MovesFor(c) :
       file' = [file EXCEPT !.status = m.to, !.decision = @ \/ m.to \in Decided]
  /\ lastWord' = IF desk[c].work \in Question THEN "STAFF" ELSE lastWord
  /\ CommitDesk(c)

\* assign(): to any member of the staff, or to nobody, whatever the status.
WriteAssignment(c) ==
  /\ Holds(c) /\ desk[c].work = "ASSIGN"
  /\ \E h \in Handler \cup {NoHandler} : file' = [file EXCEPT !.assigned = h]
  /\ UNCHANGED lastWord
  /\ CommitDesk(c)

\* addNote(): an event that the author never sees.
WriteNote(c) ==
  /\ Holds(c) /\ desk[c].work = "NOTE"
  /\ UNCHANGED fileVars
  /\ CommitDesk(c)

\* The route enqueues the author's notice once the service has committed.  It is keyed
\* by the action and the status it led to, so that a later question of the same file
\* meets the row of the first.  Only the questions' keys are kept: the other notices
\* carry no words.
SendNotice(c) ==
  /\ desk[c].at = "WRITTEN"
  /\ notices' = notices \cup ({desk[c].work} \cap Question)
  /\ EndWork(c)
  /\ UNCHANGED <<kind, rowHeld>> /\ UNCHANGED fileVars

\* The process dies: a transaction is rolled back, a notice is never written.
LoseDesk(c) ==
  /\ desk[c].at \in {"LOCKED", "WRITTEN", "JOINING"}
  /\ EndWork(c)
  /\ rowHeld' = IF rowHeld = c THEN NoCall ELSE rowHeld
  /\ UNCHANGED <<kind, notices>> /\ UNCHANGED fileVars

DeskStep(c) ==
  \/ \E w \in Work : LockFile(c, w)
  \/ RefuseWork(c) \/ WriteReply(c) \/ WriteMove(c) \/ WriteAssignment(c) \/ WriteNote(c)
  \/ JoinCase(c) \/ AddAccount(c) \/ SendNotice(c) \/ LoseDesk(c)

TicketsNext == \E c \in DeskCall : DeskStep(c)
TicketsSpec == TicketsInit /\ [][TicketsNext]_ticketsVars
-----------------------------------------------------------------------------
\* Types, bounded by the constants.
TicketsTypeOK ==
  /\ kind \in {"TICKET", "DISPUTE"}
  /\ file \in [status : FileStatus, assigned : Handler \cup {NoHandler}, decision : BOOLEAN]
  /\ lastWord \in {"AUTHOR", "STAFF"}
  /\ desk \in [DeskCall -> [at : {"IDLE", "LOCKED", "WRITTEN", "JOINING"}, work : Work,
                            read : FileStatus]]
  /\ rowHeld \in DeskCall \cup {NoCall}
  /\ notices \subseteq Question

\* A ticket waits on its author only while the last word the author can see is a
\* question of the staff: an answer that crosses a follow-up question, or any other
\* request, never leaves a ticket waiting for somebody who has already answered.  It
\* needs the row lock and the resumption inside reply(), and is what the status in the
\* author's own view is read as (support-ticket-service.ts reply, act).  A dispute has
\* no such rule: a party who joins a waiting case leaves it waiting.
WaitsOnAQuestion ==
  kind = "TICKET" /\ file.status = "WAITING_ON_USER" => lastWord = "STAFF"
================================================================================
