-------------------------- MODULE BookingTransactions --------------------------
(***************************************************************************)
(* The calls on one property's calendar at the grain of their SQL          *)
(* statements: READ COMMITTED transactions that run side by side, wait for *)
(* each other's locks and uncommitted rows, deadlock, lose their           *)
(* connection, roll back or commit.  BookingService takes each of them as  *)
(* one step; here it is shown when that is right, and what the concurrency *)
(* shows its callers.                                                      *)
(*                                                                         *)
(* What PostgreSQL does is modelled from how the code uses it: FOR UPDATE  *)
(* row locks, the FOR KEY SHARE lock a foreign key takes on its target,    *)
(* the wait of an INSERT for an uncommitted row with its key, and the      *)
(* deadlock detector.                                                      *)
(***************************************************************************)
EXTENDS Integers, FiniteSets, SequencesExt, BookingStates

CONSTANTS
  Bookings, Block, Request, Period,   \* as in BookingService, on one property
  Landlord, MinNights, MaxNights,     \* of that property
  FirstStatus,    \* the statuses the calls start from
  FirstThread,    \* the conversations they start from
  Tx,             \* the transactions that may run, one per call
  Call,           \* of a transaction: the event and the booking or block
  Free, NoTx, NoBooking

Event(t) == Call[t].event
On(t) == Call[t].on
Stay(c) == IF c \in Bookings THEN Request[c] ELSE Period[c]
Footprint(c) == Stay(c).from .. (Stay(c).to - 1)
Night == UNION { Footprint(c) : c \in Bookings \cup Block }
Overlap(c, d) == Footprint(c) \cap Footprint(d) # {}
Tenant == { Request[b].tenant : b \in Bookings }

Pending == {"REQUESTED", "OFFER_PENDING"}
Simple == {"DECLINE_REQUEST", "WITHDRAW", "CANCEL_BY_TENANT", "CANCEL_BY_LANDLORD"}
Creating == {"REQUEST", "INSTANT_BOOK"}
Ended == { "COMMITTED", "ILLEGAL_TRANSITION", "DATES_UNAVAILABLE", "CONFLICT", "DUPLICATE",
           "DEADLOCK", "LOST" }

ASSUME TransactionsAssumption ==
  /\ \A c, d \in Bookings \cup Block : Stay(c).property = Stay(d).property
  /\ \A c \in Bookings \cup Block : Stay(c).from \in Nat /\ Stay(c).to \in Nat
  /\ MinNights \in Nat \ {0} /\ MaxNights \in Nat
  /\ FirstStatus \in [Bookings -> BookingState \cup {"NONE"}]
  /\ FirstThread \in [Tenant -> [release : {"NONE", "BLOCKED", "RELEASED"},
                                 booking : Bookings \cup {NoBooking}]]
  /\ Free \notin Bookings \cup Block /\ NoTx \notin Tx /\ NoBooking \notin Bookings
  /\ Bookings \cap Block = {} /\ IsFiniteSet(Bookings)
  \* Each call is a method on one booking or one block; a booking that a call
  \* creates is not there yet, and has an id that no other call creates.  Calls
  \* refused for what they ask (the owner's own listing, the wrong number of
  \* nights, an empty block) write nothing and are left out.
  /\ \A t \in Tx :
       \/ Event(t) \in Simple \cup {"ACCEPT_REQUEST"} /\ On(t) \in Bookings
       \/ /\ Event(t) \in Creating /\ On(t) \in Bookings /\ FirstStatus[On(t)] = "NONE"
          /\ Request[On(t)].tenant # Landlord
          /\ Request[On(t)].to - Request[On(t)].from \in MinNights .. MaxNights
       \/ Event(t) = "BLOCK" /\ On(t) \in Block /\ Period[On(t)].from < Period[On(t)].to
  /\ \A t, u \in Tx :
       t # u /\ Event(t) \in Creating /\ Event(u) \in Creating => On(t) # On(u)
  \* The calls start from a calendar that respects its primary key.
  /\ \A x, y \in Bookings :
       x # y /\ StatusOccupies(FirstStatus[x]) /\ StatusOccupies(FirstStatus[y]) =>
         ~Overlap(x, y)

VARIABLES
  status,      \* committed booking.status
  expires,     \* the bookings whose committed expires_at is set
  blocks,      \* committed rows of calendar_block
  night,       \* committed property_occupancy: the claimant of each night
  thread,      \* committed conversation of each tenant: release state and booking_id
  pc,          \* per transaction: its next statement, or how it ended
  inserted,    \* per transaction: the nights it has inserted and not committed
  rowLock,     \* per booking: the transaction that holds its row FOR UPDATE
  sharing,     \* the transactions with a FOR KEY SHARE lock on the property
  exclusive,   \* the transaction that holds the property FOR UPDATE
  todo         \* per transaction: the competing requests it has yet to lock

locks == <<rowLock, sharing, exclusive>>
committed == <<status, expires, blocks, night, thread>>
vars == <<committed, pc, inserted, locks, todo>>

\* The first statement of each call.
FirstStep(event) ==
  CASE event \in Simple \cup {"ACCEPT_REQUEST"}  -> "lock"
    [] event \in Creating                        -> "check"
    [] event = "BLOCK"                           -> "exclusive"

Init ==
  /\ status = FirstStatus
  \* A request that was declined or withdrawn keeps its expires_at.
  /\ expires = { b \in Bookings : FirstStatus[b] \in {"REQUESTED", "DECLINED", "WITHDRAWN"} }
  /\ thread = FirstThread
  /\ blocks = {}
  /\ night = [n \in Night |->
       LET by == { b \in Bookings : StatusOccupies(FirstStatus[b]) /\ n \in Footprint(b) }
       IN IF by = {} THEN Free ELSE CHOOSE b \in by : TRUE]
  /\ pc = [t \in Tx |-> FirstStep(Event(t))]
  /\ inserted = [t \in Tx |-> {}]
  /\ rowLock = [b \in Bookings |-> NoTx]
  /\ sharing = {}
  /\ exclusive = {}
  /\ todo = [t \in Tx |-> <<>>]
-----------------------------------------------------------------------------
(* Ending a transaction.                                                   *)

Goto(t, step) == pc' = [pc EXCEPT ![t] = step]

ReleaseLocks(t) ==
  /\ rowLock' = [b \in Bookings |-> IF rowLock[b] = t THEN NoTx ELSE rowLock[b]]
  /\ sharing' = sharing \ {t}
  /\ exclusive' = exclusive \ {t}
  /\ inserted' = [inserted EXCEPT ![t] = {}]
  /\ todo' = [todo EXCEPT ![t] = <<>>]

\* An exception leaves the callback of transaction(): ROLLBACK.  (Mutant: the
\* connection goes back to the pool with its transaction open.)
RollbackForgotten(t, why) ==
  /\ Goto(t, why)
  /\ UNCHANGED <<committed, inserted, locks, todo>>

Rollback(t, why) ==
  /\ Goto(t, why)
  /\ ReleaseLocks(t)
  /\ UNCHANGED committed
-----------------------------------------------------------------------------
(* Statements, and whom each waits for.                                    *)

\* transition.to, computed when the row was read and written as it is.
TargetOf(event) == CHOOSE s \in { r.to : r \in { x \in Transitions : x.event = event } } : TRUE

SameTenant(b, d) == Request[b].tenant = Request[d].tenant

\* lockBooking(), then applyEvent() on the row as it is once the lock is held.
LockBooking(t) ==
  /\ pc[t] = "lock" /\ rowLock[On(t)] = NoTx
  /\ \/ /\ \E actor \in {T, L} : Targets(status[On(t)], Event(t), actor) # {}
        /\ rowLock' = [rowLock EXCEPT ![On(t)] = t]
        /\ Goto(t, IF Event(t) = "ACCEPT_REQUEST" THEN "claim" ELSE "commit")
        /\ UNCHANGED <<committed, inserted, sharing, exclusive, todo>>
     \/ /\ \A actor \in {T, L} : Targets(status[On(t)], Event(t), actor) = {}
        /\ Rollback(t, "ILLEGAL_TRANSITION")

\* The UPDATE of a step that leaves the occupying statuses has deleted the
\* booking's rows, and not committed yet.
Deleting(u, n) ==
  pc[u] = "commit" /\ Event(u) \in Simple /\ night[n] = On(u)

\* The trigger inserts night by night, from the first on.
IsNext(t, n) ==
  /\ n \in Footprint(On(t)) \ inserted[t]
  /\ \A m \in Footprint(On(t)) \ inserted[t] : n <= m

\* Whose uncommitted writes an INSERT of the night waits for.  (Mutant: only the
\* committed rows are looked at.)
NightWritersCommitted(t, n) == { u \in Tx \ {t} : Deleting(u, n) }
NightWriters(t, n) == { u \in Tx \ {t} : n \in inserted[u] \/ Deleting(u, n) }

ClaimNight(t) ==
  /\ pc[t] = "claim"
  /\ \E n \in Night :
       /\ IsNext(t, n) /\ NightWriters(t, n) = {}
       /\ \/ /\ night[n] = Free
             /\ inserted' = [inserted EXCEPT ![t] = @ \cup {n}]
             /\ UNCHANGED <<committed, pc, locks, todo>>
          \/ /\ night[n] # Free
             /\ Rollback(t, IF Event(t) = "BLOCK" THEN "CONFLICT" ELSE "DATES_UNAVAILABLE")

\* The rows are in; property_occupancy.property_id is checked next.
Claimed(t) ==
  /\ pc[t] = "claim" /\ Footprint(On(t)) \subseteq inserted[t]
  /\ Goto(t, IF Event(t) = "ACCEPT_REQUEST" THEN "share" ELSE "commit")
  /\ UNCHANGED <<committed, inserted, locks, todo>>

\* A foreign key to the property: FOR KEY SHARE on its row.
ShareProperty(t) ==
  /\ pc[t] = "share" /\ exclusive = {}
  /\ sharing' = sharing \cup {t}
  /\ Goto(t, CASE Event(t) = "ACCEPT_REQUEST" -> "scan"
               [] Event(t) = "INSTANT_BOOK"   -> "claim"
               [] Event(t) = "REQUEST"        -> "commit")
  /\ UNCHANGED <<committed, inserted, rowLock, exclusive, todo>>

\* SELECT losers ... FOR UPDATE: the statement's snapshot decides which rows it
\* will lock, in whatever order it meets them.
ScanLosers(t) ==
  /\ pc[t] = "scan"
  /\ \E seq \in SetToSeqs({ x \in Bookings \ {On(t)} :
                              status[x] \in Pending /\ Overlap(x, On(t)) }) :
       todo' = [todo EXCEPT ![t] = seq]
  /\ Goto(t, "losers")
  /\ UNCHANGED <<committed, inserted, locks>>

LockLoser(t) ==
  /\ pc[t] = "losers" /\ todo[t] # <<>>
  /\ rowLock[Head(todo[t])] = NoTx
  /\ rowLock' = [rowLock EXCEPT ![Head(todo[t])] = t]
  /\ todo' = [todo EXCEPT ![t] = Tail(@)]
  /\ UNCHANGED <<committed, pc, inserted, sharing, exclusive>>

LosersLocked(t) ==
  /\ pc[t] = "losers" /\ todo[t] = <<>>
  /\ Goto(t, "commit")
  /\ UNCHANGED <<committed, inserted, locks, todo>>

\* A row that was waited for is tested again: only what is still pending then
\* is declined.  (Mutant: the list of the snapshot is declined as it was.)
LosersUnchecked(t) == { x \in Bookings \ {On(t)} : rowLock[x] = t }
Losers(t) ==
  { x \in Bookings \ {On(t)} : rowLock[x] = t /\ status[x] \in Pending }

\* requestBooking(): the check for a live request of the same tenant.
CheckDuplicate(t) ==
  /\ pc[t] = "check" /\ Event(t) \in Creating
  /\ \/ /\ \E d \in Bookings :
             /\ SameTenant(d, On(t)) /\ Overlap(d, On(t))
             /\ status[d] \in {"REQUESTED", "OFFER_PENDING", "CONFIRMED", "CHECKED_IN"}
        /\ Rollback(t, "DUPLICATE")
     \/ /\ \A d \in Bookings :
             SameTenant(d, On(t)) /\ Overlap(d, On(t)) =>
               status[d] \notin {"REQUESTED", "OFFER_PENDING", "CONFIRMED", "CHECKED_IN"}
        /\ Goto(t, "share")
        /\ UNCHANGED <<committed, inserted, locks, todo>>

\* block(): SELECT ... FROM property ... FOR UPDATE...
LockProperty(t) ==
  /\ pc[t] = "exclusive" /\ exclusive = {} /\ sharing = {}
  /\ exclusive' = {t}
  /\ Goto(t, "check")
  /\ UNCHANGED <<committed, inserted, rowLock, sharing, todo>>

\* ...and the courtesy check of the committed calendar.
CheckCalendar(t) ==
  /\ pc[t] = "check" /\ Event(t) = "BLOCK"
  /\ \/ /\ \E n \in Footprint(On(t)) : night[n] \in Bookings
        /\ Rollback(t, "CONFLICT")
     \/ /\ \A n \in Footprint(On(t)) : night[n] \notin Bookings
        /\ Goto(t, "claim")
        /\ UNCHANGED <<committed, inserted, locks, todo>>

\* COMMIT: what the transaction wrote becomes visible, all of it at once.
NewStatus(t, b) ==
  CASE b = On(t)      -> TargetOf(Event(t))
    [] b \in Losers(t) -> TargetOf("DECLINE_REQUEST")
    [] OTHER          -> status[b]

\* requestBooking() sets expires_at on a request, acceptRequest() clears it.
NewExpires(t) ==
  CASE Event(t) = "REQUEST"        -> expires \cup {On(t)}
    [] Event(t) = "ACCEPT_REQUEST" -> expires \ {On(t)}
    [] OTHER                       -> expires

\* ensureConversation(), and the UPDATE that releases the contacts.  Both are the
\* last statement that can wait, and take the conversation as it is once they
\* hold its row, which is as it is at their COMMIT.
NewThread(t, u) ==
  CASE Event(t) \in Creating /\ u = Request[On(t)].tenant ->
         [release |-> IF BlocksCalendar(TargetOf(Event(t))) THEN "RELEASED"
                      ELSE IF thread[u].release = "NONE" THEN "BLOCKED"
                      ELSE thread[u].release,
          booking |-> On(t)]
    [] Event(t) = "ACCEPT_REQUEST" /\ thread[u].booking = On(t)
                                   /\ thread[u].release = "BLOCKED" ->
         [thread[u] EXCEPT !.release = "RELEASED"]
    [] OTHER -> thread[u]

Commit(t) ==
  /\ pc[t] = "commit"
  /\ status' = [b \in Bookings |-> NewStatus(t, b)]
  /\ expires' = NewExpires(t)
  /\ thread' = [u \in Tenant |-> NewThread(t, u)]
  /\ blocks' = IF Event(t) = "BLOCK" THEN blocks \cup {On(t)} ELSE blocks
  /\ night' = [n \in Night |-> IF n \in inserted[t] THEN On(t)
                               ELSE IF Deleting(t, n) THEN Free ELSE night[n]]
  /\ Goto(t, "COMMITTED")
  /\ ReleaseLocks(t)
-----------------------------------------------------------------------------
(* Waiting.                                                                *)

WaitsFor(t) ==
  (CASE pc[t] = "lock"                         -> {rowLock[On(t)]}
     [] pc[t] = "losers" /\ todo[t] # <<>>     -> {rowLock[Head(todo[t])]}
     [] pc[t] = "claim" -> { u \in Tx : \E n \in Night : IsNext(t, n) /\ u \in NightWriters(t, n) }
     [] pc[t] = "share"                        -> exclusive
     [] pc[t] = "exclusive"                    -> sharing \cup exclusive
     [] OTHER                                  -> {}) \ {NoTx}

\* The transactions that wait for each other in a circle: from every part of
\* the group somebody waits for the rest of it.
Deadlocked ==
  LET waits == [t \in Tx |-> WaitsFor(t)]
      Circle(group) ==
        /\ Cardinality(group) > 1
        /\ \A part \in SUBSET group \ {{}, group} :
             \E t \in part : waits[t] \cap (group \ part) # {}
  IN UNION { group \in SUBSET { t \in Tx : waits[t] # {} } : Circle(group) }

\* One of them is rolled back with 40P01; any may be the one.
DeadlockDetected(t) ==
  /\ t \in Deadlocked
  /\ Rollback(t, "DEADLOCK")

\* The process or its connection dies before COMMIT.
ConnectionLost(t) ==
  /\ pc[t] \notin Ended
  /\ Rollback(t, "LOST")

Step(t) ==
  \/ LockBooking(t) \/ ClaimNight(t) \/ Claimed(t) \/ ShareProperty(t)
  \/ ScanLosers(t) \/ LockLoser(t) \/ LosersLocked(t)
  \/ CheckDuplicate(t) \/ LockProperty(t) \/ CheckCalendar(t)
  \/ Commit(t) \/ DeadlockDetected(t)

AllEnded == \A t \in Tx : pc[t] \in Ended

\* Every call has returned.
Done == AllEnded /\ UNCHANGED vars

Next == (\E t \in Tx : Step(t) \/ ConnectionLost(t)) \/ Done

Spec == Init /\ [][Next]_vars

\* A transaction whose next statement can run is run, and the detector wakes up.
FairSpec == Spec /\ \A t \in Tx : WF_vars(Step(t))
=============================================================================
