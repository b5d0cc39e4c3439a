--------------------------- MODULE TransactionProofs ---------------------------
(***************************************************************************)
(* What TLAPS proves of the transactions on one property, for any number   *)
(* of bookings, blocks and calls and any dates: the committed calendar is  *)
(* exact at every moment, whatever is waiting, rolled back or cut off, it  *)
(* changes by whole stays only, and every decision that is committed is    *)
(* one the service takes on the statuses of that moment.                   *)
(*                                                                         *)
(* CommittedCalendarExact is not inductive: COMMIT publishes a status that *)
(* was computed, and nights that were inserted, many statements earlier.   *)
(* TransactionInv says what keeps them true in the meantime: the row lock  *)
(* on the booking, and the key of property_occupancy.  DecisionInv says    *)
(* which rows a call may hold, and that what it read there is still so.    *)
(*                                                                         *)
(* The last part proves that BookingService, one action per call, is what  *)
(* the committed tables go through.  A check or a scan that an earlier     *)
(* statement made is then looked at again at the COMMIT: AskedInv says     *)
(* when the duplicate check still holds, ScannedInv when the scan of the   *)
(* competing requests does.                                                *)
(***************************************************************************)
EXTENDS TransactionProperties, FiniteSetTheorems, TLAPS

Claiming == {"ACCEPT_REQUEST", "INSTANT_BOOK", "BLOCK"}

Statement == {"lock", "check", "exclusive", "claim", "share", "scan", "losers", "commit"}

\* The statements of each call, in no order.
StepsOf(event) ==
  CASE event \in Simple           -> {"lock", "commit"}
    [] event = "ACCEPT_REQUEST"   -> {"lock", "claim", "share", "scan", "losers", "commit"}
    [] event = "REQUEST"          -> {"check", "share", "commit"}
    [] event = "INSTANT_BOOK"     -> {"check", "share", "claim", "commit"}
    [] event = "BLOCK"            -> {"exclusive", "check", "claim", "commit"}

TransactionTypeOK ==
  /\ status \in [Bookings -> BookingState \cup {"NONE"}]
  /\ blocks \in SUBSET Block
  /\ night \in [Night -> Subject \cup {Free}]
  /\ pc \in [Tx -> Statement \cup Ended]
  /\ \A t \in Tx : pc[t] \in StepsOf(Event(t)) \cup Ended
  /\ inserted \in [Tx -> SUBSET Night]
  /\ rowLock \in [Bookings -> Tx \cup {NoTx}]
  /\ sharing \in SUBSET Tx /\ exclusive \in SUBSET Tx
  /\ todo \in [Tx -> Seq(Bookings)]

\* The call has all its nights.
HasClaimed(t) ==
  /\ Event(t) \in Claiming
  /\ pc[t] \in {"scan", "losers", "commit"} \/ (pc[t] = "share" /\ Event(t) = "ACCEPT_REQUEST")

\* The call has passed lockBooking().
HasLocked(t) ==
  /\ Event(t) \in Simple \cup {"ACCEPT_REQUEST"}
  /\ pc[t] \notin {"lock"} \cup Ended

\* Uncommitted rows: nights of the stay that nobody holds or is inserting, all
\* of them once the INSERT is over, and none when the call has ended.
InsertedInv ==
  /\ \A t \in Tx : \A n \in inserted[t] : n \in Footprint(On(t)) /\ night[n] = Free
  /\ \A t, u \in Tx : t # u => inserted[t] \cap inserted[u] = {}
  /\ \A t \in Tx : inserted[t] # {} => Event(t) \in Claiming /\ (pc[t] = "claim" \/ HasClaimed(t))
  /\ \A t \in Tx : HasClaimed(t) => Footprint(On(t)) \subseteq inserted[t]

\* A booking whose row a call has locked is still as the call has read it.
LockedInv ==
  \A t \in Tx : HasLocked(t) =>
    /\ rowLock[On(t)] = t /\ status[On(t)] # "NONE"
    /\ Event(t) = "ACCEPT_REQUEST" => status[On(t)] = "REQUESTED"

\* A booking is not there before the call that creates it has committed.
CreatedInv ==
  \A t \in Tx : Event(t) \in Creating /\ pc[t] \notin Ended => status[On(t)] = "NONE"

TransactionInv ==
  /\ TransactionTypeOK
  /\ CommittedCalendarExact
  /\ InsertedInv
  /\ LockedInv
  /\ CreatedInv
-----------------------------------------------------------------------------
(* Facts about the calls and the table of transitions.                     *)

\* The events are different, so each call has its own statements.
LEMMA StepsFacts ==
  /\ \A t \in Tx : StepsOf(Event(t)) \subseteq Statement
  /\ \A e \in Simple : StepsOf(e) = {"lock", "commit"} /\ FirstStep(e) = "lock"
  /\ StepsOf("ACCEPT_REQUEST") = {"lock", "claim", "share", "scan", "losers", "commit"}
  /\ StepsOf("REQUEST") = {"check", "share", "commit"}
  /\ StepsOf("INSTANT_BOOK") = {"check", "share", "claim", "commit"}
  /\ StepsOf("BLOCK") = {"exclusive", "check", "claim", "commit"}
  /\ FirstStep("ACCEPT_REQUEST") = "lock" /\ FirstStep("BLOCK") = "exclusive"
  /\ \A e \in Creating : FirstStep(e) = "check"
<1>1. \A t \in Tx : Event(t) \in Simple \cup Creating \cup {"ACCEPT_REQUEST", "BLOCK"}
  BY TransactionsAssumption
<1> QED
  BY <1>1 DEF StepsOf, FirstStep, Simple, Creating, Statement

LEMMA CallFacts ==
  ASSUME NEW t \in Tx
  PROVE  /\ Event(t) \in Simple \cup Creating \cup {"ACCEPT_REQUEST", "BLOCK"}
         /\ Event(t) = "BLOCK" <=> On(t) \in Block
         /\ Event(t) # "BLOCK" <=> On(t) \in Bookings
         /\ On(t) \in Subject
         /\ Footprint(On(t)) \subseteq Night
         /\ FirstStep(Event(t)) \in StepsOf(Event(t)) /\ FirstStep(Event(t)) \notin Ended
<1>1. \/ Event(t) \in Simple \cup {"ACCEPT_REQUEST"} /\ On(t) \in Bookings
      \/ Event(t) \in Creating /\ On(t) \in Bookings
      \/ Event(t) = "BLOCK" /\ On(t) \in Block
  BY TransactionsAssumption
<1>2. Bookings \cap Block = {}
  BY TransactionsAssumption
<1>3. /\ Event(t) \in Simple \cup Creating \cup {"ACCEPT_REQUEST", "BLOCK"}
      /\ Event(t) = "BLOCK" <=> On(t) \in Block
      /\ Event(t) # "BLOCK" <=> On(t) \in Bookings
      /\ On(t) \in Subject
  BY <1>1, <1>2 DEF Simple, Creating, Subject
<1>4. Footprint(On(t)) \subseteq Night
  BY <1>3 DEF Night, Subject
<1>5. FirstStep(Event(t)) \in StepsOf(Event(t)) /\ FirstStep(Event(t)) \notin Ended
  BY <1>3, StepsFacts DEF Simple, Creating, Ended
<1> QED
  BY <1>3, <1>4, <1>5

\* A transition leads where its event says; only the two that confirm a booking
\* lead to a status that holds nights.
LEMMA TargetFacts ==
  /\ TargetOf("ACCEPT_REQUEST") = "CONFIRMED" /\ TargetOf("INSTANT_BOOK") = "CONFIRMED"
  /\ TargetOf("REQUEST") = "REQUESTED"
  /\ TargetOf("DECLINE_REQUEST") = "DECLINED" /\ TargetOf("WITHDRAW") = "WITHDRAWN"
  /\ TargetOf("CANCEL_BY_TENANT") = "CANCELLED_BY_TENANT"
  /\ TargetOf("CANCEL_BY_LANDLORD") = "CANCELLED_BY_LANDLORD"
<1> DEFINE Expected ==
             [event \in Simple \cup Creating \cup {"ACCEPT_REQUEST"} |->
                CASE event \in {"ACCEPT_REQUEST", "INSTANT_BOOK"} -> "CONFIRMED"
                  [] event = "REQUEST"            -> "REQUESTED"
                  [] event = "DECLINE_REQUEST"    -> "DECLINED"
                  [] event = "WITHDRAW"           -> "WITHDRAWN"
                  [] event = "CANCEL_BY_TENANT"   -> "CANCELLED_BY_TENANT"
                  [] event = "CANCEL_BY_LANDLORD" -> "CANCELLED_BY_LANDLORD"]
           One(from, event, to, actors, effects) ==
             Rule(from, event, to, actors, effects) \in Transitions
<1>1. \A r \in Transitions : r.event \in DOMAIN Expected => r.to = Expected[r.event]
  BY DEF Transitions, Rule, Simple, Creating
<1>2. \A e \in DOMAIN Expected : \E r \in Transitions : r.event = e
  <2>1. /\ One("REQUESTED", "ACCEPT_REQUEST", "CONFIRMED", {L}, ConfirmEffects)
        /\ One("INQUIRY", "INSTANT_BOOK", "CONFIRMED", {T}, ConfirmEffects)
        /\ One("INQUIRY", "REQUEST", "REQUESTED", {T}, {})
        /\ One("REQUESTED", "DECLINE_REQUEST", "DECLINED", {L}, {})
        /\ One("REQUESTED", "WITHDRAW", "WITHDRAWN", {T}, {})
        /\ One("CONFIRMED", "CANCEL_BY_TENANT", "CANCELLED_BY_TENANT", {T}, ReleaseEffects)
        /\ One("CONFIRMED", "CANCEL_BY_LANDLORD", "CANCELLED_BY_LANDLORD", {L}, ReleaseEffects \cup {"RECORD_FRAUD_SIGNAL"})
    BY DEF Transitions
  <2>2. \A from, event, to, actors, effects : Rule(from, event, to, actors, effects).event = event
    BY DEF Rule
  <2> QED
    BY <2>1, <2>2 DEF Simple, Creating
<1>3. \A e \in DOMAIN Expected : TargetOf(e) = Expected[e]
  <2> HIDE DEF Expected
  <2> TAKE e \in DOMAIN Expected
  <2>1. { r.to : r \in { x \in Transitions : x.event = e } } = {Expected[e]}
    BY <1>1, <1>2
  <2> QED
    BY <2>1 DEF TargetOf
<1> QED
  BY <1>3 DEF Simple, Creating

\* No call starts from a booking that is not there.
LEMMA NothingFromNothing ==
  \A event, actor : Targets("NONE", event, actor) = {}
<1>1. \A r \in Transitions : r.from # "NONE"
  BY DEF Transitions, Rule
<1> QED
  BY <1>1 DEF Targets

\* A request is accepted as long as it is one.
LEMMA AcceptedFrom ==
  \A s, actor : Targets(s, "ACCEPT_REQUEST", actor) # {} => s = "REQUESTED"
<1>1. \A r \in Transitions : r.event = "ACCEPT_REQUEST" => r.from = "REQUESTED"
  BY DEF Transitions, Rule
<1> QED
  BY <1>1 DEF Targets

LEMMA NewStatusTyped ==
  ASSUME TransactionTypeOK, NEW t \in Tx, Event(t) # "BLOCK"
  PROVE  TargetOf(Event(t)) \in BookingState
  BY TargetFacts, CallFacts DEF Simple, Creating, BookingState
-----------------------------------------------------------------------------
(* The invariant, action by action.                                        *)

LEMMA TransactionInit == Init => TransactionInv
<1> SUFFICES ASSUME Init PROVE TransactionInv
  OBVIOUS
<1> DEFINE By(n) == { b \in Bookings : StatusOccupies(FirstStatus[b]) /\ n \in Footprint(b) }
<1>1. \A n \in Night : night[n] = IF By(n) = {} THEN Free ELSE CHOOSE b \in By(n) : TRUE
  BY DEF Init
<1>2. ASSUME NEW n \in Night, NEW b \in By(n) PROVE By(n) = {b}
  BY TransactionsAssumption DEF Overlap
<1>3. \A n \in Night : \/ By(n) = {} /\ night[n] = Free
                       \/ \E b \in Bookings : By(n) = {b} /\ night[n] = b
  <2> HIDE DEF By
  <2> TAKE n \in Night
  <2>1. CASE By(n) = {}
    BY <1>1, <2>1
  <2>2. ASSUME NEW b \in By(n)
        PROVE  \E d \in Bookings : By(n) = {d} /\ night[n] = d
    <3>1. b \in Bookings
      BY DEF By
    <3> QED
      BY <1>1, <1>2, <3>1
  <2> QED
    BY <2>1, <2>2
<1>4. CommittedCalendarExact
  <2> SUFFICES ASSUME NEW n \in Night, NEW c \in Subject
               PROVE  night[n] = c <=> /\ n \in Footprint(c)
                                       /\ c \in blocks \/ (c \in Bookings /\ StatusOccupies(status[c]))
    BY DEF CommittedCalendarExact
  <2>1. c \notin blocks /\ c # Free
    BY TransactionsAssumption DEF Init, Subject
  <2>2. c \in By(n) <=> /\ n \in Footprint(c)
                        /\ c \in Bookings /\ StatusOccupies(status[c])
    BY DEF Init
  <2> HIDE DEF By
  <2> QED
    BY <1>3, <2>1, <2>2
<1>5. TransactionTypeOK
  <2>1. night \in [Night -> Subject \cup {Free}]
    <3>1. night = [n \in Night |-> night[n]]
      BY DEF Init
    <3> HIDE DEF By
    <3> QED
      BY <1>3, <3>1 DEF Subject
  <2>2. pc \in [Tx -> Statement \cup Ended] /\ \A t \in Tx : pc[t] \in StepsOf(Event(t)) \cup Ended
    BY CallFacts, StepsFacts DEF Init
  <2> QED
    BY <2>1, <2>2, TransactionsAssumption DEF Init, TransactionTypeOK
<1>6. \A t \in Tx : pc[t] \in {"lock", "check", "exclusive"} /\ ~HasClaimed(t) /\ ~HasLocked(t)
  BY CallFacts, StepsFacts DEF Init, HasClaimed, HasLocked, Simple, Creating
<1>7. InsertedInv /\ LockedInv
  BY <1>6 DEF Init, InsertedInv, LockedInv
<1>8. CreatedInv
  <2>1. \A t \in Tx : Event(t) \in Creating => FirstStatus[On(t)] = "NONE"
    BY TransactionsAssumption DEF Simple, Creating
  <2> QED
    BY <2>1 DEF Init, CreatedInv
<1> QED
  BY <1>4, <1>5, <1>7, <1>8 DEF TransactionInv

\* A ROLLBACK undoes what nobody has seen.
LEMMA RollbackKeeps ==
  ASSUME TransactionInv, NEW t \in Tx, NEW why \in Ended, Rollback(t, why)
  PROVE  TransactionInv'
<1> USE DEF Rollback, ReleaseLocks, Goto, committed
<1>1. /\ pc'[t] = why /\ inserted'[t] = {}
      /\ \A u \in Tx \ {t} : pc'[u] = pc[u] /\ inserted'[u] = inserted[u]
      /\ \A b \in Bookings : rowLock'[b] = IF rowLock[b] = t THEN NoTx ELSE rowLock[b]
  BY DEF TransactionInv, TransactionTypeOK
<1>2. TransactionTypeOK'
  BY <1>1 DEF TransactionInv, TransactionTypeOK
<1>3. CommittedCalendarExact'
  BY DEF TransactionInv, CommittedCalendarExact
<1>4. /\ ~HasClaimed(t)' /\ ~HasLocked(t)'
      /\ \A u \in Tx \ {t} : (HasClaimed(u)' <=> HasClaimed(u)) /\ (HasLocked(u)' <=> HasLocked(u))
  BY <1>1 DEF HasClaimed, HasLocked, Ended
<1>5. InsertedInv'
  BY <1>1, <1>4 DEF TransactionInv, InsertedInv
<1>6. LockedInv'
  <2> SUFFICES ASSUME NEW u \in Tx \ {t}, HasLocked(u)
               PROVE  /\ rowLock'[On(u)] = u /\ status[On(u)] # "NONE"
                      /\ Event(u) = "ACCEPT_REQUEST" => status[On(u)] = "REQUESTED"
    BY <1>4 DEF LockedInv
  <2>1. On(u) \in Bookings
    BY CallFacts DEF HasLocked, Simple
  <2> QED
    BY <1>1, <2>1 DEF TransactionInv, LockedInv
<1>7. CreatedInv'
  BY <1>1 DEF TransactionInv, CreatedInv
<1> QED
  BY <1>2, <1>3, <1>5, <1>6, <1>7 DEF TransactionInv

\* A statement that writes no row: the call only goes on.
LEMMA MoveKeeps ==
  ASSUME TransactionInv, NEW t \in Tx, NEW step \in StepsOf(Event(t)), Goto(t, step),
         pc[t] \notin {"lock"} \cup Ended,
         UNCHANGED <<committed, inserted, rowLock>>,
         sharing' \in SUBSET Tx, exclusive' \in SUBSET Tx, todo' \in [Tx -> Seq(Bookings)],
         HasClaimed(t)' => Footprint(On(t)) \subseteq inserted[t],
         inserted[t] # {} => Event(t) \in Claiming /\ (step = "claim" \/ HasClaimed(t)')
  PROVE  TransactionInv'
<1> USE DEF Goto, committed
<1>1. pc'[t] = step /\ \A u \in Tx \ {t} : pc'[u] = pc[u]
  BY DEF TransactionInv, TransactionTypeOK
<1>2. TransactionTypeOK'
  BY <1>1, StepsFacts DEF TransactionInv, TransactionTypeOK
<1>3. CommittedCalendarExact'
  BY DEF TransactionInv, CommittedCalendarExact
<1>4. /\ HasLocked(t)' => HasLocked(t)
      /\ \A u \in Tx \ {t} : (HasClaimed(u)' <=> HasClaimed(u)) /\ (HasLocked(u)' <=> HasLocked(u))
  BY <1>1 DEF HasClaimed, HasLocked
<1>5. InsertedInv'
  BY <1>1, <1>4 DEF TransactionInv, InsertedInv
<1>6. LockedInv'
  BY <1>4 DEF TransactionInv, LockedInv
<1>7. CreatedInv'
  BY <1>1 DEF TransactionInv, CreatedInv
<1> QED
  BY <1>2, <1>3, <1>5, <1>6, <1>7 DEF TransactionInv

\* A row lock that is taken from nobody takes nothing from anybody.
LEMMA TakingARowKeeps ==
  ASSUME TransactionInv, NEW t \in Tx, NEW b \in Bookings, rowLock[b] = NoTx,
         rowLock' = [rowLock EXCEPT ![b] = t]
  PROVE  /\ rowLock' \in [Bookings -> Tx \cup {NoTx}]
         /\ rowLock'[b] = t
         /\ \A u \in Tx : HasLocked(u) => rowLock'[On(u)] = u
<1>1. NoTx \notin Tx
  BY TransactionsAssumption
<1>2. \A u \in Tx : HasLocked(u) => On(u) \in Bookings /\ rowLock[On(u)] = u
  BY CallFacts DEF TransactionInv, LockedInv, HasLocked, Simple
<1> QED
  BY <1>1, <1>2 DEF TransactionInv, TransactionTypeOK

LEMMA LockBookingKeeps ==
  ASSUME TransactionInv, NEW t \in Tx, LockBooking(t)
  PROVE  TransactionInv'
<1>1. CASE Rollback(t, "ILLEGAL_TRANSITION")
  BY <1>1, RollbackKeeps DEF Ended
<1>2. CASE ~Rollback(t, "ILLEGAL_TRANSITION")
  <2> DEFINE step == IF Event(t) = "ACCEPT_REQUEST" THEN "claim" ELSE "commit"
  <2>1. /\ pc[t] = "lock" /\ rowLock[On(t)] = NoTx
        /\ rowLock' = [rowLock EXCEPT ![On(t)] = t] /\ pc' = [pc EXCEPT ![t] = step]
        /\ UNCHANGED <<committed, inserted, sharing, exclusive, todo>>
    BY <1>2 DEF LockBooking, Goto
  <2>2. /\ Event(t) \in Simple \cup {"ACCEPT_REQUEST"} /\ On(t) \in Bookings
        /\ step \in StepsOf(Event(t)) /\ Event(t) \notin Creating
    <3>1. pc[t] \in StepsOf(Event(t)) \cup Ended
      BY DEF TransactionInv, TransactionTypeOK
    <3> QED
      BY <2>1, <3>1, CallFacts, StepsFacts DEF Ended, Simple, Creating
  <2>3. status[On(t)] # "NONE" /\ (Event(t) = "ACCEPT_REQUEST" => status[On(t)] = "REQUESTED")
    BY <1>2, NothingFromNothing, AcceptedFrom DEF LockBooking
  <2>4. pc'[t] = step /\ \A u \in Tx \ {t} : pc'[u] = pc[u]
    BY <2>1 DEF TransactionInv, TransactionTypeOK
  <2>5. TransactionTypeOK'
    BY <2>1, <2>2, <2>4, TakingARowKeeps, StepsFacts DEF TransactionInv, TransactionTypeOK, committed
  <2>6. CommittedCalendarExact'
    BY <2>1 DEF TransactionInv, CommittedCalendarExact, committed
  <2>7. inserted[t] = {} /\ ~HasClaimed(t)'
    BY <2>1, <2>2, <2>4 DEF TransactionInv, InsertedInv, HasClaimed, Claiming, Simple
  <2>8. \A u \in Tx \ {t} : (HasClaimed(u)' <=> HasClaimed(u)) /\ (HasLocked(u)' <=> HasLocked(u))
    BY <2>4 DEF HasClaimed, HasLocked
  <2>9. InsertedInv'
    BY <2>1, <2>4, <2>7, <2>8 DEF TransactionInv, InsertedInv, committed
  <2>10. LockedInv'
    BY <2>1, <2>2, <2>3, <2>8, TakingARowKeeps DEF TransactionInv, LockedInv, committed
  <2>11. CreatedInv'
    BY <2>1, <2>2, <2>4 DEF TransactionInv, CreatedInv, committed
  <2> QED
    BY <2>5, <2>6, <2>9, <2>10, <2>11 DEF TransactionInv
<1> QED
  BY <1>1, <1>2

LEMMA LockLoserKeeps ==
  ASSUME TransactionInv, NEW t \in Tx, LockLoser(t)
  PROVE  TransactionInv'
<1> DEFINE b == Head(todo[t])
<1>1. /\ rowLock[b] = NoTx /\ rowLock' = [rowLock EXCEPT ![b] = t]
      /\ todo' = [todo EXCEPT ![t] = Tail(@)] /\ todo[t] # <<>>
      /\ UNCHANGED <<committed, pc, inserted, sharing, exclusive>>
  BY DEF LockLoser
<1>2. todo[t] \in Seq(Bookings)
  BY DEF TransactionInv, TransactionTypeOK
<1>3. b \in Bookings /\ Tail(todo[t]) \in Seq(Bookings)
  BY <1>1, <1>2
<1>4. TransactionTypeOK'
  BY <1>1, <1>3, TakingARowKeeps DEF TransactionInv, TransactionTypeOK, committed
<1>5. CommittedCalendarExact' /\ CreatedInv'
  BY <1>1 DEF TransactionInv, CommittedCalendarExact, CreatedInv, committed
<1>6. \A u \in Tx : (HasClaimed(u)' <=> HasClaimed(u)) /\ (HasLocked(u)' <=> HasLocked(u))
  BY <1>1 DEF HasClaimed, HasLocked
<1>7. InsertedInv'
  BY <1>1, <1>6 DEF TransactionInv, InsertedInv, committed
<1>8. LockedInv'
  BY <1>1, <1>3, <1>6, TakingARowKeeps DEF TransactionInv, LockedInv, committed
<1> QED
  BY <1>4, <1>5, <1>7, <1>8 DEF TransactionInv

\* A night goes in when it is free and nobody else is putting it in.
LEMMA ClaimNightKeeps ==
  ASSUME TransactionInv, NEW t \in Tx, ClaimNight(t)
  PROVE  TransactionInv'
<1>1. PICK n \in Night :
        /\ pc[t] = "claim" /\ IsNext(t, n) /\ NightWriters(t, n) = {}
        /\ \/ /\ night[n] = Free
              /\ inserted' = [inserted EXCEPT ![t] = @ \cup {n}]
              /\ UNCHANGED <<committed, pc, locks, todo>>
           \/ /\ night[n] # Free
              /\ Rollback(t, IF Event(t) = "BLOCK" THEN "CONFLICT" ELSE "DATES_UNAVAILABLE")
  BY DEF ClaimNight
<1>2. CASE night[n] # Free
  BY <1>1, <1>2, RollbackKeeps DEF Ended
<1>3. CASE night[n] = Free
  <2>1. /\ inserted' = [inserted EXCEPT ![t] = @ \cup {n}]
        /\ UNCHANGED <<committed, pc, locks, todo>>
    BY <1>1, <1>3
  <2>2. n \in Footprint(On(t)) /\ \A u \in Tx \ {t} : n \notin inserted[u]
    BY <1>1 DEF IsNext, NightWriters
  <2>3. Event(t) \in Claiming
    <3>1. pc[t] \in StepsOf(Event(t)) \cup Ended
      BY DEF TransactionInv, TransactionTypeOK
    <3> QED
      BY <1>1, <3>1, CallFacts, StepsFacts DEF Ended, Simple, Creating, Claiming
  <2>4. /\ inserted'[t] = inserted[t] \cup {n}
        /\ \A u \in Tx \ {t} : inserted'[u] = inserted[u]
    BY <2>1 DEF TransactionInv, TransactionTypeOK
  <2>5. TransactionTypeOK'
    BY <2>1, <2>4 DEF TransactionInv, TransactionTypeOK, committed, locks
  <2>6. CommittedCalendarExact' /\ CreatedInv'
    BY <2>1 DEF TransactionInv, CommittedCalendarExact, CreatedInv, committed
  <2>7. \A u \in Tx : (HasClaimed(u)' <=> HasClaimed(u)) /\ (HasLocked(u)' <=> HasLocked(u))
    BY <2>1 DEF HasClaimed, HasLocked
  <2>8. ~HasClaimed(t)
    BY <1>1 DEF HasClaimed
  <2>9. InsertedInv'
    <3>1. \A u \in Tx : \A m \in inserted'[u] : m \in Footprint(On(u)) /\ night'[m] = Free
      BY <1>3, <2>1, <2>2, <2>4 DEF TransactionInv, InsertedInv, committed
    <3>2. \A u, v \in Tx : u # v => inserted'[u] \cap inserted'[v] = {}
      BY <2>2, <2>4 DEF TransactionInv, InsertedInv
    <3>3. \A u \in Tx : inserted'[u] # {} => Event(u) \in Claiming /\ (pc'[u] = "claim" \/ HasClaimed(u)')
      BY <1>1, <2>1, <2>3, <2>4, <2>7 DEF TransactionInv, InsertedInv
    <3>4. \A u \in Tx : HasClaimed(u)' => Footprint(On(u)) \subseteq inserted'[u]
      BY <2>4, <2>7, <2>8 DEF TransactionInv, InsertedInv
    <3> QED
      BY <3>1, <3>2, <3>3, <3>4 DEF InsertedInv
  <2>10. LockedInv'
    BY <2>1, <2>7 DEF TransactionInv, LockedInv, committed, locks
  <2> QED
    BY <2>5, <2>6, <2>9, <2>10 DEF TransactionInv
<1> QED
  BY <1>2, <1>3

\* A scan may meet the rows in any order, but each is a booking.
LEMMA ScansAreTyped ==
  ASSUME NEW S \in SUBSET Bookings, NEW seq \in SetToSeqs(S)
  PROVE  seq \in Seq(Bookings)
<1>1. IsFiniteSet(S)
  BY FS_Subset, TransactionsAssumption
<1>2. Cardinality(S) \in Nat
  BY <1>1, FS_CardinalityType
<1>3. seq \in [1..Cardinality(S) -> S]
  BY DEF SetToSeqs
<1> QED
  BY <1>2, <1>3

LEMMA OtherStepsKeep ==
  ASSUME TransactionInv, NEW t \in Tx,
         \/ Claimed(t) \/ ShareProperty(t) \/ ScanLosers(t) \/ LosersLocked(t)
         \/ CheckDuplicate(t) \/ LockProperty(t) \/ CheckCalendar(t)
  PROVE  TransactionInv'
<1>1. /\ pc[t] \in StepsOf(Event(t)) \cup Ended
      /\ sharing \in SUBSET Tx /\ exclusive \in SUBSET Tx /\ todo \in [Tx -> Seq(Bookings)]
      /\ pc \in [Tx -> Statement \cup Ended]
      /\ inserted[t] # {} => Event(t) \in Claiming /\ (pc[t] = "claim" \/ HasClaimed(t))
      /\ HasClaimed(t) => Footprint(On(t)) \subseteq inserted[t]
  BY DEF TransactionInv, TransactionTypeOK, InsertedInv
<1> USE CallFacts, StepsFacts DEF Goto
<1>2. CASE Claimed(t)
  <2> DEFINE step == IF Event(t) = "ACCEPT_REQUEST" THEN "share" ELSE "commit"
  <2>1. pc[t] = "claim" /\ Goto(t, step) /\ Footprint(On(t)) \subseteq inserted[t]
        /\ UNCHANGED <<committed, inserted, locks, todo>>
    BY <1>2 DEF Claimed
  <2>2. Event(t) \in Claiming /\ step \in StepsOf(Event(t))
    BY <1>1, <2>1 DEF Ended, Simple, Creating, Claiming
  <2>3. HasClaimed(t)'
    BY <1>1, <2>1, <2>2 DEF HasClaimed
  <2> QED
    BY <1>1, <2>1, <2>2, <2>3, MoveKeeps DEF locks, Ended
<1>3. CASE ShareProperty(t)
  <2> DEFINE step == CASE Event(t) = "ACCEPT_REQUEST" -> "scan"
                       [] Event(t) = "INSTANT_BOOK"   -> "claim"
                       [] Event(t) = "REQUEST"        -> "commit"
  <2>1. pc[t] = "share" /\ Goto(t, step) /\ sharing' = sharing \cup {t}
        /\ UNCHANGED <<committed, inserted, rowLock, exclusive, todo>>
    BY <1>3 DEF ShareProperty
  <2>2. Event(t) \in {"ACCEPT_REQUEST", "INSTANT_BOOK", "REQUEST"} /\ step \in StepsOf(Event(t))
    BY <1>1, <2>1 DEF Ended, Simple, Creating
  <2>3. pc'[t] = step
    BY <1>1, <2>1
  <2>4. HasClaimed(t)' => Footprint(On(t)) \subseteq inserted[t]
    BY <1>1, <2>1, <2>2, <2>3 DEF HasClaimed, Claiming
  <2>5. inserted[t] # {} => Event(t) \in Claiming /\ (step = "claim" \/ HasClaimed(t)')
    BY <1>1, <2>1, <2>2, <2>3 DEF HasClaimed, Claiming
  <2> QED
    BY <1>1, <2>1, <2>2, <2>4, <2>5, MoveKeeps DEF Ended
<1>4. CASE ScanLosers(t)
  <2> DEFINE S == { x \in Bookings \ {On(t)} : status[x] \in Pending /\ Overlap(x, On(t)) }
  <2>1. PICK seq \in SetToSeqs(S) : todo' = [todo EXCEPT ![t] = seq]
    BY <1>4 DEF ScanLosers
  <2>2. pc[t] = "scan" /\ Goto(t, "losers") /\ UNCHANGED <<committed, inserted, locks>>
    BY <1>4 DEF ScanLosers
  <2>3. todo' \in [Tx -> Seq(Bookings)]
    <3>1. S \in SUBSET Bookings
      OBVIOUS
    <3> HIDE DEF S
    <3> QED
      BY <1>1, <2>1, <3>1, ScansAreTyped
  <2>4. Event(t) = "ACCEPT_REQUEST" /\ "losers" \in StepsOf(Event(t))
    BY <1>1, <2>2 DEF Ended, Simple, Creating
  <2>5. HasClaimed(t) /\ HasClaimed(t)'
    BY <1>1, <2>2, <2>4 DEF HasClaimed, Claiming
  <2> QED
    BY <1>1, <2>2, <2>3, <2>4, <2>5, MoveKeeps DEF locks, Ended, Claiming
<1>5. CASE LosersLocked(t)
  <2>1. pc[t] = "losers" /\ Goto(t, "commit") /\ UNCHANGED <<committed, inserted, locks, todo>>
    BY <1>5 DEF LosersLocked
  <2>2. Event(t) = "ACCEPT_REQUEST" /\ "commit" \in StepsOf(Event(t))
    BY <1>1, <2>1 DEF Ended, Simple, Creating
  <2>3. HasClaimed(t) /\ HasClaimed(t)'
    BY <1>1, <2>1, <2>2 DEF HasClaimed, Claiming
  <2> QED
    BY <1>1, <2>1, <2>2, <2>3, MoveKeeps DEF locks, Ended, Claiming
<1>6. CASE CheckDuplicate(t)
  <2>1. CASE Rollback(t, "DUPLICATE")
    BY <2>1, RollbackKeeps DEF Ended
  <2>2. CASE ~Rollback(t, "DUPLICATE")
    <3>1. /\ pc[t] = "check" /\ Event(t) \in Creating
          /\ Goto(t, "share") /\ UNCHANGED <<committed, inserted, locks, todo>>
      BY <1>6, <2>2 DEF CheckDuplicate
    <3>2. "share" \in StepsOf(Event(t)) /\ inserted[t] = {}
      BY <1>1, <3>1 DEF Creating, HasClaimed
    <3>3. ~HasClaimed(t)'
      BY <1>1, <3>1 DEF HasClaimed, Creating
    <3> QED
      BY <1>1, <3>1, <3>2, <3>3, MoveKeeps DEF locks, Ended
  <2> QED
    BY <2>1, <2>2
<1>7. CASE LockProperty(t)
  <2>1. pc[t] = "exclusive" /\ Goto(t, "check") /\ exclusive' = {t}
        /\ UNCHANGED <<committed, inserted, rowLock, sharing, todo>>
    BY <1>7 DEF LockProperty
  <2>2. "check" \in StepsOf(Event(t)) /\ inserted[t] = {} /\ ~HasClaimed(t)'
    BY <1>1, <2>1 DEF Ended, Simple, Creating, HasClaimed
  <2> QED
    BY <1>1, <2>1, <2>2, MoveKeeps DEF Ended
<1>8. CASE CheckCalendar(t)
  <2>1. CASE Rollback(t, "CONFLICT")
    BY <2>1, RollbackKeeps DEF Ended
  <2>2. CASE ~Rollback(t, "CONFLICT")
    <3>1. /\ pc[t] = "check" /\ Event(t) = "BLOCK"
          /\ Goto(t, "claim") /\ UNCHANGED <<committed, inserted, locks, todo>>
      BY <1>8, <2>2 DEF CheckCalendar
    <3>2. "claim" \in StepsOf(Event(t)) /\ inserted[t] = {} /\ ~HasClaimed(t)'
      BY <1>1, <3>1 DEF HasClaimed
    <3> QED
      BY <1>1, <3>1, <3>2, MoveKeeps DEF locks, Ended
  <2> QED
    BY <2>1, <2>2
<1> QED
  BY <1>2, <1>3, <1>4, <1>5, <1>6, <1>7, <1>8

\* What a COMMIT does to the statuses and the nights, one call at a time.
LEMMA CommitFacts ==
  ASSUME TransactionInv, NEW t \in Tx, Commit(t)
  PROVE  /\ pc[t] = "commit" /\ pc'[t] = "COMMITTED" /\ inserted'[t] = {}
         /\ \A u \in Tx \ {t} : pc'[u] = pc[u] /\ inserted'[u] = inserted[u]
         /\ \A b \in Bookings : rowLock'[b] = IF rowLock[b] = t THEN NoTx ELSE rowLock[b]
         /\ \A b \in Bookings \ {On(t)} :
              IF b \in Losers(t) THEN status[b] \in Pending /\ status'[b] = "DECLINED"
                                 ELSE status'[b] = status[b]
         /\ Event(t) # "BLOCK" => On(t) \in Bookings /\ status'[On(t)] = TargetOf(Event(t))
         /\ blocks' = IF Event(t) = "BLOCK" THEN blocks \cup {On(t)} ELSE blocks
         /\ \A n \in Night : night'[n] = IF n \in inserted[t] THEN On(t)
                                         ELSE IF Event(t) \in Simple /\ night[n] = On(t) THEN Free
                                         ELSE night[n]
<1>1. /\ pc[t] = "commit" /\ pc' = [pc EXCEPT ![t] = "COMMITTED"]
      /\ inserted' = [inserted EXCEPT ![t] = {}]
      /\ rowLock' = [b \in Bookings |-> IF rowLock[b] = t THEN NoTx ELSE rowLock[b]]
      /\ status' = [b \in Bookings |-> NewStatus(t, b)]
      /\ blocks' = IF Event(t) = "BLOCK" THEN blocks \cup {On(t)} ELSE blocks
      /\ night' = [n \in Night |-> IF n \in inserted[t] THEN On(t)
                                   ELSE IF Deleting(t, n) THEN Free ELSE night[n]]
  BY DEF Commit, Goto, ReleaseLocks
<1>2. pc \in [Tx -> Statement \cup Ended] /\ inserted \in [Tx -> SUBSET Night]
  BY DEF TransactionInv, TransactionTypeOK
<1>3. \A b \in Bookings : status'[b] = NewStatus(t, b)
  BY <1>1
<1>4. \A b \in Losers(t) : b \in Bookings \ {On(t)} /\ status[b] \in Pending
  BY DEF Losers
<1>5. \A n : Deleting(t, n) <=> Event(t) \in Simple /\ night[n] = On(t)
  BY <1>1 DEF Deleting
<1>6. \A b \in Bookings \ {On(t)} :
        IF b \in Losers(t) THEN status[b] \in Pending /\ status'[b] = "DECLINED"
                           ELSE status'[b] = status[b]
  BY <1>3, <1>4, TargetFacts DEF NewStatus
<1>7. Event(t) # "BLOCK" => On(t) \in Bookings /\ status'[On(t)] = TargetOf(Event(t))
  <2>1. Event(t) # "BLOCK" => On(t) \in Bookings
    BY CallFacts
  <2> QED
    BY <1>3, <1>4, <2>1 DEF NewStatus
<1>8. \A n \in Night : night'[n] = IF n \in inserted[t] THEN On(t)
                                   ELSE IF Event(t) \in Simple /\ night[n] = On(t) THEN Free
                                   ELSE night[n]
  BY <1>1, <1>5
<1> QED
  BY <1>1, <1>2, <1>6, <1>7, <1>8

\* Only what the call itself has claimed or let go changes hands, and the status
\* it commits agrees with it.
LEMMA CommitKeepsCalendar ==
  ASSUME TransactionInv, NEW t \in Tx, Commit(t)
  PROVE  CommittedCalendarExact'
<1> DEFINE Holds(c) == c \in blocks \/ (c \in Bookings /\ StatusOccupies(status[c]))
           HoldsNext(c) == c \in blocks' \/ (c \in Bookings /\ StatusOccupies(status'[c]))
<1>1. \A n \in Night, c \in Subject : night[n] = c <=> n \in Footprint(c) /\ Holds(c)
  BY DEF TransactionInv, CommittedCalendarExact
<1>2. /\ \A n \in inserted[t] : n \in Footprint(On(t)) /\ night[n] = Free
      /\ inserted[t] # {} => Event(t) \in Claiming
      /\ Event(t) \in Claiming => Footprint(On(t)) \subseteq inserted[t]
  BY CommitFacts DEF TransactionInv, InsertedInv, HasClaimed
<1>3. Free \notin Subject /\ Bookings \cap Block = {} /\ blocks \in SUBSET Block
  BY TransactionsAssumption DEF Subject, TransactionInv, TransactionTypeOK
<1>4. ASSUME NEW c \in Subject, c # On(t)
      PROVE  HoldsNext(c) <=> Holds(c)
  BY <1>3, <1>4, CommitFacts DEF Pending, StatusOccupies
<1>5. ASSUME NEW n \in Night, NEW c \in Subject, c # On(t)
      PROVE  night'[n] = c <=> night[n] = c
  BY <1>2, <1>3, <1>5, CommitFacts
<1>6. HoldsNext(On(t)) <=> Event(t) \in Claiming
  BY <1>3, CommitFacts, CallFacts, TargetFacts
     DEF Claiming, Simple, Creating, StatusOccupies
<1>7. Event(t) = "REQUEST" => ~Holds(On(t))
  <2>1. Event(t) = "REQUEST" => status[On(t)] = "NONE" /\ On(t) \notin Block
    BY <1>3, CommitFacts, CallFacts DEF TransactionInv, CreatedInv, Creating, Ended
  <2> QED
    BY <1>3, <2>1 DEF StatusOccupies
<1>8. Event(t) \in {"ACCEPT_REQUEST", "INSTANT_BOOK"} => ~Holds(On(t))
  <2>1. On(t) \in Block <=> Event(t) = "BLOCK"
    BY CallFacts
  <2>2. Event(t) = "ACCEPT_REQUEST" => status[On(t)] = "REQUESTED"
    BY CommitFacts DEF TransactionInv, LockedInv, HasLocked, Ended
  <2>3. Event(t) = "INSTANT_BOOK" => status[On(t)] = "NONE"
    BY CommitFacts DEF TransactionInv, CreatedInv, Creating, Ended
  <2> QED
    BY <1>3, <2>1, <2>2, <2>3 DEF StatusOccupies
<1>9. ASSUME NEW n \in Night
      PROVE  night'[n] = On(t) <=> n \in Footprint(On(t)) /\ Event(t) \in Claiming
  <2>1. On(t) \in Subject
    BY CallFacts
  <2>2. CASE n \in inserted[t]
    BY <1>2, <2>2, CommitFacts
  <2>3. CASE n \notin inserted[t] /\ Event(t) \in Simple
    BY <1>2, <1>3, <2>1, <2>3, CommitFacts DEF Simple, Claiming
  <2>4. CASE n \notin inserted[t] /\ Event(t) = "REQUEST"
    BY <1>1, <1>7, <2>1, <2>4, CommitFacts DEF Simple, Claiming
  <2>5. CASE n \notin inserted[t] /\ Event(t) \in Claiming
    <3>1. n \notin Footprint(On(t))
      BY <1>2, <2>5
    <3>2. night'[n] = night[n]
      BY <2>5, CommitFacts DEF Simple, Claiming
    <3> QED
      BY <1>1, <2>1, <3>1, <3>2
  <2> QED
    BY <2>2, <2>3, <2>4, <2>5, CallFacts DEF Creating, Claiming
<1>10. \A n \in Night, c \in Subject : night'[n] = c <=> n \in Footprint(c) /\ HoldsNext(c)
  <2> HIDE DEF Holds, HoldsNext
  <2> QED
    BY <1>1, <1>4, <1>5, <1>6, <1>9
<1> QED
  BY <1>10 DEF CommittedCalendarExact

\* Nobody else's booking or nights are touched by a COMMIT.
LEMMA CommitSparesOthers ==
  ASSUME TransactionInv, NEW t \in Tx, Commit(t), NEW u \in Tx, u # t
  PROVE  /\ \A n \in inserted[u] : night'[n] = Free
         /\ HasLocked(u) => rowLock'[On(u)] = u /\ status'[On(u)] = status[On(u)]
         /\ Event(u) \in Creating /\ pc[u] \notin Ended => status'[On(u)] = "NONE"
<1>1. \A n \in inserted[u] : n \in Night /\ n \notin inserted[t] /\ night[n] = Free
  BY DEF TransactionInv, TransactionTypeOK, InsertedInv
<1>2. \A n \in inserted[u] : night'[n] = Free
  BY <1>1, CommitFacts
<1>3. ASSUME On(t) \in Bookings
      PROVE  \/ HasLocked(t) /\ rowLock[On(t)] = t /\ status[On(t)] # "NONE"
             \/ Event(t) \in Creating /\ status[On(t)] = "NONE"
  <2>1. Event(t) \in Simple \cup {"ACCEPT_REQUEST"} \cup Creating
    BY <1>3, CallFacts
  <2>2. Event(t) \in Simple \cup {"ACCEPT_REQUEST"} => HasLocked(t)
    BY CommitFacts DEF HasLocked, Ended
  <2>3. Event(t) \in Creating => status[On(t)] = "NONE"
    BY CommitFacts DEF TransactionInv, CreatedInv, Ended
  <2> QED
    BY <2>1, <2>2, <2>3 DEF TransactionInv, LockedInv
<1>4. ASSUME HasLocked(u)
      PROVE  rowLock'[On(u)] = u /\ status'[On(u)] = status[On(u)]
  <2>1. On(u) \in Bookings /\ rowLock[On(u)] = u /\ status[On(u)] # "NONE"
    BY <1>4, CallFacts DEF HasLocked, Simple, TransactionInv, LockedInv
  <2>2. On(u) # On(t)
    BY <1>3, <2>1
  <2>3. On(u) \notin Losers(t)
    BY <2>1 DEF Losers
  <2> QED
    BY <2>1, <2>2, <2>3, CommitFacts
<1>5. ASSUME Event(u) \in Creating, pc[u] \notin Ended
      PROVE  status'[On(u)] = "NONE"
  <2>1. On(u) \in Bookings /\ status[On(u)] = "NONE"
    BY <1>5, CallFacts DEF Creating, TransactionInv, CreatedInv
  <2>2. On(u) # On(t)
    BY <1>3, <1>5, <2>1, TransactionsAssumption
  <2>3. On(u) \notin Losers(t)
    BY <2>1 DEF Losers, Pending
  <2> QED
    BY <2>1, <2>2, <2>3, CommitFacts
<1> QED
  BY <1>2, <1>4, <1>5

LEMMA CommitKeeps ==
  ASSUME TransactionInv, NEW t \in Tx, Commit(t)
  PROVE  TransactionInv'
<1>1. /\ pc'[t] = "COMMITTED" /\ inserted'[t] = {}
      /\ \A u \in Tx \ {t} : pc'[u] = pc[u] /\ inserted'[u] = inserted[u]
  BY CommitFacts
<1>2. TransactionTypeOK'
  <2>1. status' \in [Bookings -> BookingState \cup {"NONE"}]
    <3>1. \A b \in Bookings : status'[b] \in BookingState \cup {"NONE"}
      <4>1. status \in [Bookings -> BookingState \cup {"NONE"}] /\ "DECLINED" \in BookingState
        BY DEF TransactionInv, TransactionTypeOK, BookingState
      <4>2. Event(t) # "BLOCK" => TargetOf(Event(t)) \in BookingState
        BY NewStatusTyped DEF TransactionInv
      <4>3. Event(t) = "BLOCK" => On(t) \notin Bookings
        BY CallFacts, TransactionsAssumption
      <4> QED
        BY <4>1, <4>2, <4>3, CommitFacts
    <3>2. status' = [b \in Bookings |-> NewStatus(t, b)]
      BY DEF Commit
    <3> QED
      BY <3>1, <3>2
  <2>2. blocks' \in SUBSET Block
    BY CommitFacts, CallFacts DEF TransactionInv, TransactionTypeOK
  <2>3. night' \in [Night -> Subject \cup {Free}]
    <3>1. \A n \in Night : night'[n] \in Subject \cup {Free}
      <4>1. \A n \in Night : night[n] \in Subject \cup {Free}
        BY DEF TransactionInv, TransactionTypeOK
      <4>2. On(t) \in Subject
        BY CallFacts
      <4> QED
        BY <4>1, <4>2, CommitFacts
    <3>2. night' = [n \in Night |-> IF n \in inserted[t] THEN On(t)
                                    ELSE IF Deleting(t, n) THEN Free ELSE night[n]]
      BY DEF Commit
    <3> QED
      BY <3>1, <3>2
  <2>4. pc' \in [Tx -> Statement \cup Ended] /\ \A u \in Tx : pc'[u] \in StepsOf(Event(u)) \cup Ended
    BY <1>1 DEF TransactionInv, TransactionTypeOK, Commit, Goto, Ended
  <2>5. /\ inserted' \in [Tx -> SUBSET Night]
        /\ rowLock' \in [Bookings -> Tx \cup {NoTx}]
        /\ sharing' \in SUBSET Tx /\ exclusive' \in SUBSET Tx
        /\ todo' \in [Tx -> Seq(Bookings)]
    BY DEF TransactionInv, TransactionTypeOK, Commit, ReleaseLocks
  <2> QED
    BY <2>1, <2>2, <2>3, <2>4, <2>5 DEF TransactionTypeOK
<1>3. /\ ~HasClaimed(t)' /\ ~HasLocked(t)'
      /\ \A u \in Tx \ {t} : (HasClaimed(u)' <=> HasClaimed(u)) /\ (HasLocked(u)' <=> HasLocked(u))
  BY <1>1 DEF HasClaimed, HasLocked, Ended
<1>4. InsertedInv'
  BY <1>1, <1>3, CommitSparesOthers DEF TransactionInv, InsertedInv
<1>5. LockedInv'
  BY <1>3, CommitSparesOthers DEF TransactionInv, LockedInv
<1>6. CreatedInv'
  BY <1>1, CommitSparesOthers DEF TransactionInv, CreatedInv, Ended
<1> QED
  BY <1>2, <1>4, <1>5, <1>6, CommitKeepsCalendar DEF TransactionInv

LEMMA TransactionNext == TransactionInv /\ [Next]_vars => TransactionInv'
<1> SUFFICES ASSUME TransactionInv, [Next]_vars PROVE TransactionInv'
  OBVIOUS
<1>1. ASSUME NEW t \in Tx, Step(t) PROVE TransactionInv'
  <2>1. CASE DeadlockDetected(t)
    BY <2>1, RollbackKeeps DEF DeadlockDetected, Ended
  <2> QED
    BY <1>1, <2>1, LockBookingKeeps, ClaimNightKeeps, LockLoserKeeps, OtherStepsKeep, CommitKeeps
       DEF Step
<1>2. ASSUME NEW t \in Tx, ConnectionLost(t) PROVE TransactionInv'
  BY <1>2, RollbackKeeps DEF ConnectionLost, Ended
<1>3. CASE UNCHANGED vars
  <2> USE <1>3 DEF vars, committed, locks
  <2>1. TransactionTypeOK' /\ CommittedCalendarExact' /\ CreatedInv'
    BY DEF TransactionInv, TransactionTypeOK, CommittedCalendarExact, CreatedInv
  <2>2. \A u \in Tx : (HasClaimed(u)' <=> HasClaimed(u)) /\ (HasLocked(u)' <=> HasLocked(u))
    BY DEF HasClaimed, HasLocked
  <2>3. InsertedInv' /\ LockedInv'
    BY <2>2 DEF TransactionInv, InsertedInv, LockedInv
  <2> QED
    BY <2>1, <2>3 DEF TransactionInv
<1> QED
  BY <1>1, <1>2, <1>3 DEF Next, Done

LEMMA TransactionInvariant == Spec => []TransactionInv
  BY TransactionInit, TransactionNext, PTL DEF Spec

\* Whatever the calls do to each other - wait, deadlock, fail, lose their
\* connection - the committed nights are those of the committed statuses and
\* blocks: the locks of the service and the key of the table suffice for it.
THEOREM CalendarIsExact == Spec => []CommittedCalendarExact
<1>1. TransactionInv => CommittedCalendarExact
  BY DEF TransactionInv
<1> QED
  BY <1>1, TransactionInvariant, PTL
-----------------------------------------------------------------------------
(* The committed calendar implements the abstract one.                     *)

\* The committed rows of property_occupancy, and the rows a stay stands for.
TakenNights == { [night |-> n, claimant |-> night[n]] : n \in { m \in Night : night[m] # Free } }
StayRows == [c \in Subject |-> { [night |-> n, claimant |-> c] : n \in Footprint(c) }]

Committed == INSTANCE Calendar WITH Claimant <- Subject, RowsOf <- StayRows, claims <- TakenNights

\* A COMMIT that claims takes every night of its stay, and each was free...
LEMMA ClaimIsWhole ==
  ASSUME TransactionInv, TransactionInv', NEW t \in Tx, Commit(t), Event(t) \in Claiming
  PROVE  Committed!Claim(On(t))
<1>1. On(t) \in Subject /\ Footprint(On(t)) \subseteq Night
  BY CallFacts
<1>2. /\ Footprint(On(t)) = inserted[t]
      /\ \A n \in inserted[t] : night[n] = Free
  <2>1. HasClaimed(t)
    BY CommitFacts DEF HasClaimed
  <2>2. \A n \in inserted[t] : n \in Footprint(On(t)) /\ night[n] = Free
    BY DEF TransactionInv, InsertedInv
  <2>3. Footprint(On(t)) \subseteq inserted[t]
    BY <2>1 DEF TransactionInv, InsertedInv
  <2> QED
    BY <2>2, <2>3
<1>3. \A n \in Night : night'[n] = IF n \in inserted[t] THEN On(t) ELSE night[n]
  BY CommitFacts DEF Claiming, Simple
<1>4. StayRows[On(t)] = { [night |-> n, claimant |-> On(t)] : n \in Footprint(On(t)) }
  BY <1>1 DEF StayRows
<1>5. \A row \in StayRows[On(t)], taken \in TakenNights : taken.night # row.night
  BY <1>2, <1>4 DEF TakenNights
<1>6. On(t) # Free
  BY <1>1, TransactionsAssumption DEF Subject
<1>7. TakenNights' = TakenNights \cup StayRows[On(t)]
  <2>1. ASSUME NEW n \in Night, night'[n] # Free
        PROVE  [night |-> n, claimant |-> night'[n]] \in TakenNights \cup StayRows[On(t)]
    BY <1>2, <1>3, <1>4, <2>1 DEF TakenNights
  <2>2. TakenNights' \subseteq TakenNights \cup StayRows[On(t)]
    BY <2>1 DEF TakenNights
  <2>3. ASSUME NEW n \in Night, night[n] # Free
        PROVE  [night |-> n, claimant |-> night[n]] \in TakenNights'
    <3>1. night'[n] = night[n]
      BY <1>2, <1>3, <2>3
    <3> QED
      BY <2>3, <3>1 DEF TakenNights
  <2>4. ASSUME NEW n \in Footprint(On(t))
        PROVE  [night |-> n, claimant |-> On(t)] \in TakenNights'
    <3>1. n \in Night /\ night'[n] = On(t)
      BY <1>1, <1>2, <1>3
    <3> QED
      BY <1>6, <3>1 DEF TakenNights
  <2>5. TakenNights \subseteq TakenNights'
    BY <2>3 DEF TakenNights
  <2>6. StayRows[On(t)] \subseteq TakenNights'
    BY <1>4, <2>4
  <2> QED
    BY <2>2, <2>5, <2>6
<1> QED
  BY <1>5, <1>7 DEF Committed!Claim

\* ...and one that lets go gives back every night of its stay, or had none.
LEMMA ReleaseIsWhole ==
  ASSUME TransactionInv, NEW t \in Tx, Commit(t), Event(t) \in Simple
  PROVE  Committed!Release(On(t)) \/ UNCHANGED TakenNights
<1>1. On(t) \in Subject /\ On(t) \in Bookings /\ Footprint(On(t)) \subseteq Night
  BY CallFacts DEF Simple
<1>2. On(t) # Free /\ On(t) \notin blocks
  BY <1>1, TransactionsAssumption DEF TransactionInv, TransactionTypeOK
<1>3. inserted[t] = {}
  BY DEF TransactionInv, InsertedInv, Simple, Claiming
<1>4. \A n \in Night : night'[n] = IF night[n] = On(t) THEN Free ELSE night[n]
  BY <1>3, CommitFacts
<1>5. \A n \in Night : night[n] = On(t) <=> n \in Footprint(On(t)) /\ StatusOccupies(status[On(t)])
  BY <1>1, <1>2 DEF TransactionInv, CommittedCalendarExact
<1>6. StayRows[On(t)] = { [night |-> n, claimant |-> On(t)] : n \in Footprint(On(t)) }
  BY <1>1 DEF StayRows
<1>7. CASE StatusOccupies(status[On(t)])
  <2>1. StayRows[On(t)] \subseteq TakenNights
    BY <1>1, <1>2, <1>5, <1>6, <1>7 DEF TakenNights
  <2>2. TakenNights' = TakenNights \ StayRows[On(t)]
    <3>1. ASSUME NEW n \in Night, night'[n] # Free
          PROVE  [night |-> n, claimant |-> night'[n]] \in TakenNights \ StayRows[On(t)]
      BY <1>4, <1>6, <3>1 DEF TakenNights
    <3>2. ASSUME NEW n \in Night, night[n] # Free,
                 [night |-> n, claimant |-> night[n]] \notin StayRows[On(t)]
          PROVE  [night |-> n, claimant |-> night[n]] \in TakenNights'
      <4>1. night[n] # On(t)
        BY <1>5, <1>6, <3>2
      <4>2. night'[n] = night[n]
        BY <1>4, <4>1
      <4> QED
        BY <3>2, <4>2 DEF TakenNights
    <3>3. TakenNights' \subseteq TakenNights \ StayRows[On(t)]
      BY <3>1 DEF TakenNights
    <3>4. TakenNights \ StayRows[On(t)] \subseteq TakenNights'
      BY <3>2 DEF TakenNights
    <3> QED
      BY <3>3, <3>4
  <2> QED
    BY <2>1, <2>2 DEF Committed!Release
<1>8. CASE ~StatusOccupies(status[On(t)])
  <2>1. \A n \in Night : night'[n] = night[n]
    BY <1>4, <1>5, <1>8
  <2> QED
    BY <2>1 DEF TakenNights
<1> QED
  BY <1>7, <1>8

\* Readers of the committed calendar see whole stays come and go: at the grain
\* of SQL statements too, each step claims all nights of one booking or block,
\* each of them free before, or gives all of them back, or changes none.
THEOREM CommitsAreWholeStays == Spec => [][Committed!Next]_TakenNights
<1>1. ASSUME TransactionInv, TransactionInv', [Next]_vars
      PROVE  [Committed!Next]_TakenNights
  <2>1. ASSUME NEW t \in Tx, Commit(t) PROVE [Committed!Next]_TakenNights
    <3>1. On(t) \in Subject
      BY CallFacts
    <3>2. CASE Event(t) \in Claiming
      BY <1>1, <2>1, <3>1, <3>2, ClaimIsWhole DEF Committed!Next
    <3>3. CASE Event(t) \in Simple
      BY <1>1, <2>1, <3>1, <3>3, ReleaseIsWhole DEF Committed!Next
    <3>4. CASE Event(t) = "REQUEST"
      <4>1. \A n \in Night : night'[n] = night[n]
        BY <1>1, <2>1, <3>4, CommitFacts DEF TransactionInv, InsertedInv, Claiming, Simple
      <4> QED
        BY <4>1 DEF TakenNights
    <3> QED
      BY <3>2, <3>3, <3>4, CallFacts DEF Claiming, Creating
  <2>2. CASE UNCHANGED night
    BY <2>2 DEF TakenNights
  <2>3. (\E t \in Tx : Commit(t)) \/ UNCHANGED night
    <3>1. ASSUME NEW t \in Tx, Step(t), ~Commit(t) PROVE UNCHANGED night
      BY <3>1 DEF Step, LockBooking, ClaimNight, Claimed, ShareProperty, ScanLosers, LockLoser,
                  LosersLocked, CheckDuplicate, LockProperty, CheckCalendar, DeadlockDetected,
                  Rollback, committed
    <3>2. ASSUME NEW t \in Tx, ConnectionLost(t) PROVE UNCHANGED night
      BY <3>2 DEF ConnectionLost, Rollback, committed
    <3> QED
      BY <1>1, <3>1, <3>2 DEF Next, Done, vars, committed
  <2> QED
    BY <2>1, <2>2, <2>3
<1> QED
  BY <1>1, TransactionInvariant, PTL DEF Spec
-----------------------------------------------------------------------------
(* Every decision still stands when it is committed.                       *)

\* The table allows the event from the status the booking has now.
Legal(t) == \E actor \in {T, L} : Targets(status[On(t)], Event(t), actor) # {}

\* A call that holds its booking holds its decision; it locks, or is about to
\* lock, no other row than those of requests that compete with it, and only an
\* acceptance does.
DecisionInv ==
  /\ \A t \in Tx : HasLocked(t) => Legal(t)
  /\ \A t \in Tx, x \in Bookings :
       rowLock[x] = t /\ x # On(t) => Event(t) = "ACCEPT_REQUEST" /\ Overlap(x, On(t))
  /\ \A t \in Tx : \A i \in 1..Len(todo[t]) : Overlap(todo[t][i], On(t))

\* What one call does to the statuses, as BookingService has it in one step: the
\* move of its event from the status of that moment, and for an acceptance the
\* declining of requests for the same nights.
Decision(t) ==
  /\ \/ /\ Event(t) \in Creating /\ status[On(t)] = "NONE"
        /\ status'[On(t)] \in Targets("INQUIRY", Event(t), T)
     \/ /\ Event(t) \in Simple \cup {"ACCEPT_REQUEST"}
        /\ \E actor \in {T, L} : status'[On(t)] \in Targets(status[On(t)], Event(t), actor)
     \/ Event(t) = "BLOCK"
  /\ \A x \in Bookings \ {On(t)} :
       status'[x] # status[x] =>
         /\ Event(t) = "ACCEPT_REQUEST" /\ Overlap(x, On(t))
         /\ status'[x] \in Targets(status[x], "DECLINE_REQUEST", L)

DecisionsStand == [][\E t \in Tx : Decision(t)]_status

\* An event that can be fired leads where its transitions lead.
LEMMA MovesLeadToTarget ==
  ASSUME NEW from, NEW event \in Simple \cup {"ACCEPT_REQUEST"}, NEW actor,
         Targets(from, event, actor) # {}
  PROVE  TargetOf(event) \in Targets(from, event, actor)
<1>1. PICK r \in Transitions : r.from = from /\ r.event = event /\ actor \in r.actors
  BY DEF Targets
<1>2. \A x \in Transitions :
        /\ x.event = "ACCEPT_REQUEST"     => x.to = "CONFIRMED"
        /\ x.event = "DECLINE_REQUEST"    => x.to = "DECLINED"
        /\ x.event = "WITHDRAW"           => x.to = "WITHDRAWN"
        /\ x.event = "CANCEL_BY_TENANT"   => x.to = "CANCELLED_BY_TENANT"
        /\ x.event = "CANCEL_BY_LANDLORD" => x.to = "CANCELLED_BY_LANDLORD"
  BY DEF Transitions, Rule
<1>3. TargetOf(event) = r.to
  BY <1>1, <1>2, TargetFacts DEF Simple
<1> QED
  BY <1>1, <1>3 DEF Targets

\* Requests and instant bookings come out of an inquiry, and what is pending can
\* be declined.
LEMMA CreatedAndDeclined ==
  /\ \A e \in Creating : TargetOf(e) \in Targets("INQUIRY", e, T)
  /\ \A s \in Pending : "DECLINED" \in Targets(s, "DECLINE_REQUEST", L)
<1>1. /\ Rule("INQUIRY", "REQUEST", "REQUESTED", {T}, {}) \in Transitions
      /\ Rule("INQUIRY", "INSTANT_BOOK", "CONFIRMED", {T}, ConfirmEffects) \in Transitions
      /\ Rule("REQUESTED", "DECLINE_REQUEST", "DECLINED", {L}, {}) \in Transitions
      /\ Rule("OFFER_PENDING", "DECLINE_REQUEST", "DECLINED", {L}, {}) \in Transitions
  BY DEF Transitions
<1>2. \A from, event, to, actor, effects :
        Rule(from, event, to, {actor}, effects) \in Transitions => to \in Targets(from, event, actor)
  BY DEF Targets, Rule
<1> QED
  BY <1>1, <1>2, TargetFacts DEF Creating, Pending

LEMMA DecisionInit == Init => DecisionInv
<1> SUFFICES ASSUME Init PROVE DecisionInv
  OBVIOUS
<1>1. \A t \in Tx : ~HasLocked(t)
  BY CallFacts, StepsFacts DEF Init, HasLocked, Simple, Creating
<1>2. \A t \in Tx, x \in Bookings : rowLock[x] # t
  BY TransactionsAssumption DEF Init
<1>3. \A t \in Tx : todo[t] = <<>>
  BY DEF Init
<1> QED
  BY <1>1, <1>2, <1>3 DEF DecisionInv

\* Locks that are only given back, and lists that only get shorter.
LEMMA LettingGoKeeps ==
  ASSUME DecisionInv, NEW t \in Tx,
         \A u \in Tx : HasLocked(u)' => HasLocked(u) /\ status'[On(u)] = status[On(u)],
         \A u \in Tx, x \in Bookings : rowLock'[x] = u => rowLock[x] = u,
         \A u \in Tx : todo'[u] \in {todo[u], <<>>}
  PROVE  DecisionInv'
<1>1. \A u \in Tx : HasLocked(u)' => Legal(u)'
  BY DEF DecisionInv, Legal
<1>2. \A u \in Tx, x \in Bookings :
        rowLock'[x] = u /\ x # On(u) => Event(u) = "ACCEPT_REQUEST" /\ Overlap(x, On(u))
  BY DEF DecisionInv
<1>3. \A u \in Tx : \A i \in 1..Len(todo'[u]) : Overlap(todo'[u][i], On(u))
  <2> SUFFICES ASSUME NEW u \in Tx, NEW i \in 1..Len(todo'[u]) PROVE Overlap(todo'[u][i], On(u))
    OBVIOUS
  <2>1. todo'[u] = todo[u]
    OBVIOUS
  <2> QED
    BY <2>1 DEF DecisionInv
<1> QED
  BY <1>1, <1>2, <1>3 DEF DecisionInv

LEMMA DecisionRollback ==
  ASSUME TransactionInv, DecisionInv, NEW t \in Tx, NEW why \in Ended, Rollback(t, why)
  PROVE  DecisionInv'
<1> USE DEF Rollback, ReleaseLocks, Goto, committed
<1>1. /\ pc'[t] = why /\ todo'[t] = <<>>
      /\ \A u \in Tx \ {t} : pc'[u] = pc[u] /\ todo'[u] = todo[u]
      /\ \A b \in Bookings : rowLock'[b] = IF rowLock[b] = t THEN NoTx ELSE rowLock[b]
  BY DEF TransactionInv, TransactionTypeOK
<1>2. NoTx \notin Tx
  BY TransactionsAssumption
<1>3. \A u \in Tx : HasLocked(u)' => HasLocked(u) /\ status'[On(u)] = status[On(u)]
  BY <1>1 DEF HasLocked
<1>4. \A u \in Tx, x \in Bookings : rowLock'[x] = u => rowLock[x] = u
  BY <1>1, <1>2
<1>5. \A u \in Tx : todo'[u] \in {todo[u], <<>>}
  BY <1>1
<1> QED
  BY <1>3, <1>4, <1>5, LettingGoKeeps

LEMMA DecisionCommit ==
  ASSUME TransactionInv, DecisionInv, NEW t \in Tx, Commit(t)
  PROVE  DecisionInv'
<1>1. /\ pc'[t] = "COMMITTED"
      /\ \A u \in Tx \ {t} : pc'[u] = pc[u]
      /\ \A b \in Bookings : rowLock'[b] = IF rowLock[b] = t THEN NoTx ELSE rowLock[b]
  BY CommitFacts
<1>2. NoTx \notin Tx
  BY TransactionsAssumption
<1>3. \A u \in Tx : HasLocked(u)' => u # t /\ HasLocked(u)
  BY <1>1 DEF HasLocked, Ended
<1>4. \A u \in Tx : HasLocked(u)' => HasLocked(u) /\ status'[On(u)] = status[On(u)]
  BY <1>3, CommitSparesOthers
<1>5. \A u \in Tx, x \in Bookings : rowLock'[x] = u => rowLock[x] = u
  BY <1>1, <1>2
<1>6. \A u \in Tx : todo'[u] \in {todo[u], <<>>}
  BY DEF Commit, ReleaseLocks, TransactionInv, TransactionTypeOK
<1> QED
  BY <1>4, <1>5, <1>6, LettingGoKeeps

LEMMA DecisionLock ==
  ASSUME TransactionInv, DecisionInv, NEW t \in Tx, LockBooking(t)
  PROVE  DecisionInv'
<1>1. CASE Rollback(t, "ILLEGAL_TRANSITION")
  BY <1>1, DecisionRollback DEF Ended
<1>2. CASE ~Rollback(t, "ILLEGAL_TRANSITION")
  <2>1. /\ rowLock[On(t)] = NoTx /\ rowLock' = [rowLock EXCEPT ![On(t)] = t]
        /\ \E step : pc' = [pc EXCEPT ![t] = step]
        /\ Legal(t) /\ status' = status /\ todo' = todo
    BY <1>2 DEF LockBooking, Goto, Legal, committed
  <2>2. \A u \in Tx \ {t} : pc'[u] = pc[u]
    BY <2>1 DEF TransactionInv, TransactionTypeOK
  <2>3. \A u \in Tx : HasLocked(u)' => Legal(u)'
    BY <2>1, <2>2 DEF DecisionInv, HasLocked, Legal
  <2>4. \A u \in Tx, x \in Bookings :
          rowLock'[x] = u /\ x # On(u) => Event(u) = "ACCEPT_REQUEST" /\ Overlap(x, On(u))
    BY <2>1 DEF DecisionInv, TransactionInv, TransactionTypeOK
  <2> QED
    BY <2>1, <2>3, <2>4 DEF DecisionInv
<1> QED
  BY <1>1, <1>2

\* The rows of a scan are those of the statement's snapshot.
LEMMA ScansMeetTheirRows ==
  ASSUME NEW S \in SUBSET Bookings, NEW seq \in SetToSeqs(S)
  PROVE  \A i \in 1..Len(seq) : seq[i] \in S
<1>1. IsFiniteSet(S)
  BY FS_Subset, TransactionsAssumption
<1>2. Cardinality(S) \in Nat
  BY <1>1, FS_CardinalityType
<1>3. seq \in [1..Cardinality(S) -> S]
  BY DEF SetToSeqs
<1> QED
  BY <1>2, <1>3

LEMMA DecisionScan ==
  ASSUME TransactionInv, DecisionInv, NEW t \in Tx, ScanLosers(t)
  PROVE  DecisionInv'
<1> DEFINE S == { x \in Bookings \ {On(t)} : status[x] \in Pending /\ Overlap(x, On(t)) }
<1>1. PICK seq \in SetToSeqs(S) : todo' = [todo EXCEPT ![t] = seq]
  BY DEF ScanLosers
<1>2. /\ pc[t] = "scan" /\ pc' = [pc EXCEPT ![t] = "losers"]
      /\ status' = status /\ rowLock' = rowLock
  BY DEF ScanLosers, Goto, committed, locks
<1>3. \A u \in Tx : HasLocked(u)' => HasLocked(u)
  BY <1>2 DEF HasLocked, TransactionInv, TransactionTypeOK, Ended
<1>4. \A i \in 1..Len(seq) : Overlap(seq[i], On(t))
  <2>1. S \in SUBSET Bookings /\ \A x \in S : Overlap(x, On(t))
    OBVIOUS
  <2> HIDE DEF S
  <2> QED
    BY <1>1, <2>1, ScansMeetTheirRows
<1>5. todo'[t] = seq /\ \A u \in Tx \ {t} : todo'[u] = todo[u]
  BY <1>1 DEF TransactionInv, TransactionTypeOK
<1>6. \A u \in Tx : \A i \in 1..Len(todo'[u]) : Overlap(todo'[u][i], On(u))
  BY <1>4, <1>5 DEF DecisionInv
<1> QED
  BY <1>2, <1>3, <1>6 DEF DecisionInv, Legal

LEMMA DecisionLoser ==
  ASSUME TransactionInv, DecisionInv, NEW t \in Tx, LockLoser(t)
  PROVE  DecisionInv'
<1> DEFINE b == Head(todo[t])
<1>1. /\ pc[t] = "losers" /\ todo[t] # <<>>
      /\ rowLock' = [rowLock EXCEPT ![b] = t]
      /\ todo' = [todo EXCEPT ![t] = Tail(@)]
      /\ pc' = pc /\ status' = status
  BY DEF LockLoser, committed
<1>2. todo[t] \in Seq(Bookings)
  BY DEF TransactionInv, TransactionTypeOK
<1>3. b \in Bookings /\ Overlap(b, On(t))
  BY <1>1, <1>2 DEF DecisionInv
<1>4. Event(t) = "ACCEPT_REQUEST"
  <2>1. pc[t] \in StepsOf(Event(t)) \cup Ended
    BY DEF TransactionInv, TransactionTypeOK
  <2> QED
    BY <1>1, <2>1, CallFacts, StepsFacts DEF Ended, Simple, Creating
<1>5. todo'[t] = Tail(todo[t]) /\ \A u \in Tx \ {t} : todo'[u] = todo[u]
  BY <1>1 DEF TransactionInv, TransactionTypeOK
<1>6. \A i \in 1..Len(Tail(todo[t])) : Overlap(Tail(todo[t])[i], On(t))
  <2> TAKE i \in 1..Len(Tail(todo[t]))
  <2>1. i + 1 \in 1..Len(todo[t]) /\ Tail(todo[t])[i] = todo[t][i + 1]
    BY <1>1, <1>2
  <2> QED
    BY <2>1 DEF DecisionInv
<1>7. \A u \in Tx : \A i \in 1..Len(todo'[u]) : Overlap(todo'[u][i], On(u))
  BY <1>5, <1>6 DEF DecisionInv
<1>8. \A u \in Tx, x \in Bookings :
        rowLock'[x] = u /\ x # On(u) => Event(u) = "ACCEPT_REQUEST" /\ Overlap(x, On(u))
  <2> HIDE DEF b
  <2> QED
    BY <1>1, <1>3, <1>4 DEF DecisionInv, TransactionInv, TransactionTypeOK
<1>9. \A u \in Tx : HasLocked(u)' => Legal(u)'
  BY <1>1 DEF DecisionInv, HasLocked, Legal
<1> QED
  BY <1>7, <1>8, <1>9 DEF DecisionInv

\* A statement that takes no row lock moves the call on, or rolls it back.
LEMMA DecisionOther ==
  ASSUME TransactionInv, DecisionInv, NEW t \in Tx,
         \/ ClaimNight(t) \/ Claimed(t) \/ ShareProperty(t) \/ LosersLocked(t)
         \/ CheckDuplicate(t) \/ LockProperty(t) \/ CheckCalendar(t)
  PROVE  DecisionInv'
<1>1. CASE \E why \in Ended : Rollback(t, why)
  BY <1>1, DecisionRollback
<1>2. CASE ~\E why \in Ended : Rollback(t, why)
  <2>1. "DATES_UNAVAILABLE" \in Ended /\ "CONFLICT" \in Ended /\ "DUPLICATE" \in Ended
    BY DEF Ended
  <2>2. /\ status' = status /\ rowLock' = rowLock /\ todo' = todo
        /\ pc[t] \notin {"lock"} \cup Ended
    BY <1>2, <2>1 DEF ClaimNight, Claimed, ShareProperty, LosersLocked, CheckDuplicate,
                      LockProperty, CheckCalendar, committed, locks, Ended
  <2>3. \A u \in Tx \ {t} : pc'[u] = pc[u]
    BY <1>2, <2>1 DEF ClaimNight, Claimed, ShareProperty, LosersLocked, CheckDuplicate,
                      LockProperty, CheckCalendar, Goto, TransactionInv, TransactionTypeOK
  <2>4. \A u \in Tx : HasLocked(u)' => HasLocked(u)
    BY <2>2, <2>3 DEF HasLocked
  <2> QED
    BY <2>2, <2>4, LettingGoKeeps
<1> QED
  BY <1>1, <1>2

LEMMA DecisionNext ==
  ASSUME TransactionInv, DecisionInv, [Next]_vars
  PROVE  DecisionInv'
<1>1. ASSUME NEW t \in Tx, Step(t) PROVE DecisionInv'
  <2>1. CASE DeadlockDetected(t)
    BY <2>1, DecisionRollback DEF DeadlockDetected, Ended
  <2> QED
    BY <1>1, <2>1, DecisionLock, DecisionScan, DecisionLoser, DecisionOther, DecisionCommit DEF Step
<1>2. ASSUME NEW t \in Tx, ConnectionLost(t) PROVE DecisionInv'
  BY <1>2, DecisionRollback DEF ConnectionLost, Ended
<1>3. CASE UNCHANGED vars
  BY <1>3 DEF vars, committed, locks, DecisionInv, HasLocked, Legal
<1> QED
  BY <1>1, <1>2, <1>3 DEF Next, Done

LEMMA DecisionInvariant == Spec => []DecisionInv
<1>1. Init => DecisionInv
  BY DecisionInit
<1>2. TransactionInv /\ DecisionInv /\ [Next]_vars => DecisionInv'
  BY DecisionNext
<1> QED
  BY <1>1, <1>2, TransactionInvariant, PTL DEF Spec

LEMMA CommitDecides ==
  ASSUME TransactionInv, DecisionInv, NEW t \in Tx, Commit(t)
  PROVE  Decision(t)
<1>1. CASE Event(t) \in Creating
  <2>1. status[On(t)] = "NONE" /\ status'[On(t)] = TargetOf(Event(t))
    BY <1>1, CommitFacts DEF Creating, TransactionInv, CreatedInv, Ended
  <2> QED
    BY <1>1, <2>1, CommitFacts, CreatedAndDeclined DEF Decision, Losers, DecisionInv, Creating
<1>2. CASE Event(t) \in Simple \cup {"ACCEPT_REQUEST"}
  <2>1. HasLocked(t) /\ status'[On(t)] = TargetOf(Event(t))
    BY <1>2, CommitFacts DEF HasLocked, Ended, Simple
  <2>2. PICK actor \in {T, L} : Targets(status[On(t)], Event(t), actor) # {}
    BY <2>1 DEF DecisionInv, Legal
  <2>3. status'[On(t)] \in Targets(status[On(t)], Event(t), actor)
    BY <1>2, <2>1, <2>2, MovesLeadToTarget
  <2>4. \A x \in Bookings \ {On(t)} :
          status'[x] # status[x] =>
            /\ Event(t) = "ACCEPT_REQUEST" /\ Overlap(x, On(t))
            /\ status'[x] \in Targets(status[x], "DECLINE_REQUEST", L)
    BY CommitFacts, CreatedAndDeclined DEF Losers, DecisionInv
  <2> QED
    BY <1>2, <2>3, <2>4 DEF Decision
<1>3. CASE Event(t) = "BLOCK"
  BY <1>3, CommitFacts DEF Decision, Losers, DecisionInv
<1> QED
  BY <1>1, <1>2, <1>3, CallFacts

\* Whatever happened between the statement that read a booking and the COMMIT, the
\* decision that is committed is one that BookingService takes on the statuses of
\* that very moment: the event is still allowed by the table, and no request is
\* declined that does not compete (lockBooking(), applyEvent() under the lock).
THEOREM CommitsAreDecisions == Spec => DecisionsStand
<1>1. TransactionInv /\ DecisionInv /\ [Next]_vars => [\E t \in Tx : Decision(t)]_status
  <2> SUFFICES ASSUME TransactionInv, DecisionInv, [Next]_vars, status' # status
               PROVE  \E t \in Tx : Decision(t)
    OBVIOUS
  <2>1. \A t \in Tx : Step(t) => Commit(t)
    BY DEF Step, LockBooking, ClaimNight, Claimed, ShareProperty, ScanLosers, LockLoser,
           LosersLocked, CheckDuplicate, LockProperty, CheckCalendar, DeadlockDetected,
           Rollback, committed
  <2>2. \A t \in Tx : ~ConnectionLost(t)
    BY DEF ConnectionLost, Rollback, committed
  <2>3. \E t \in Tx : Commit(t)
    BY <2>1, <2>2 DEF Next, Done, vars, committed
  <2> QED
    BY <2>3, CommitDecides
<1> QED
  BY <1>1, DecisionInvariant, TransactionInvariant, PTL DEF Spec, DecisionsStand

\* Two stays that hold the calendar never share a night, and neither do a stay and
\* a block, although every call decides on rows that others are changing: what
\* BookingService promises holds at the grain of its SQL statements.
NoDoubleStay ==
  \A c, d \in Subject :
    /\ c \in blocks \/ (c \in Bookings /\ StatusOccupies(status[c]))
    /\ d \in blocks \/ (d \in Bookings /\ StatusOccupies(status[d]))
    /\ Overlap(c, d)
    => c = d

THEOREM NeverDoubleCommitted == Spec => []NoDoubleStay
<1>1. CommittedCalendarExact => NoDoubleStay
  <2> SUFFICES ASSUME CommittedCalendarExact, NEW c \in Subject, NEW d \in Subject,
                      c \in blocks \/ (c \in Bookings /\ StatusOccupies(status[c])),
                      d \in blocks \/ (d \in Bookings /\ StatusOccupies(status[d])),
                      Overlap(c, d)
               PROVE  c = d
    BY DEF NoDoubleStay
  <2>1. PICK n \in Footprint(c) : n \in Footprint(d)
    BY DEF Overlap
  <2>2. n \in Night
    BY <2>1 DEF Night, Subject
  <2>3. night[n] = c /\ night[n] = d
    BY <2>1, <2>2 DEF CommittedCalendarExact
  <2> QED
    BY <2>3
<1> QED
  BY <1>1, CalendarIsExact, PTL
-----------------------------------------------------------------------------
(* Every commit is a step of BookingService.                               *)

\* Two calls that create bookings for one tenant never ask for a night in common.
\* Without it both pass the duplicate check (TxDoubleTap).
NoTwins ==
  \A t, u \in Tx :
    t # u /\ Event(t) \in Creating /\ Event(u) \in Creating /\ SameTenant(On(t), On(u)) =>
      ~Overlap(On(t), On(u))

\* No request is made for nights of another booking while that is being accepted.
\* Without it a request that commits after acceptRequest() has selected its
\* competitors stays pending beside the stay just confirmed.  The calls of TxRace
\* satisfy both hypotheses.
NoLateRequest ==
  \A t, u \in Tx :
    Event(t) = "ACCEPT_REQUEST" /\ Event(u) = "REQUEST" /\ On(t) # On(u) =>
      ~Overlap(On(u), On(t))

Live == {"REQUESTED", "OFFER_PENDING", "CONFIRMED", "CHECKED_IN"}

\* What the duplicate check has ruled out stays ruled out.
AskedInv ==
  \A t \in Tx : Event(t) \in Creating /\ pc[t] \in {"share", "claim", "commit"} =>
    \A d \in Bookings : SameTenant(d, On(t)) /\ Overlap(d, On(t)) => status[d] \notin Live

\* A request that competes with an acceptance is locked by it, or still to be.
ScannedInv ==
  \A t \in Tx : Event(t) = "ACCEPT_REQUEST" /\ pc[t] \in {"losers", "commit"} =>
    \A x \in Bookings \ {On(t)} :
      status[x] \in Pending /\ Overlap(x, On(t)) =>
        \/ rowLock[x] = t
        \/ pc[t] = "losers" /\ \E i \in 1..Len(todo[t]) : todo[t][i] = x

\* A booking becomes live or pending only by the commit that creates it.
LEMMA CommitTurnsLive ==
  ASSUME TransactionInv, NEW t \in Tx, Commit(t), NEW x \in Bookings
  PROVE  /\ status'[x] \in Live =>
              status[x] \in Live \/ (Event(t) \in Creating /\ x = On(t))
         /\ status'[x] \in Pending =>
              status[x] \in Pending \/ (Event(t) = "REQUEST" /\ x = On(t))
<1>1. CASE x # On(t)
  BY <1>1, CommitFacts DEF Live, Pending
<1>2. CASE x = On(t) /\ Event(t) = "BLOCK"
  <2>1. On(t) \in Block /\ Bookings \cap Block = {}
    BY <1>2, CallFacts, TransactionsAssumption
  <2> QED
    BY <1>2, <2>1
<1>3. CASE x = On(t) /\ Event(t) \in Creating
  BY <1>3, CommitFacts, TargetFacts DEF Live, Pending, Creating
<1>4. CASE x = On(t) /\ Event(t) \in Simple
  BY <1>4, CommitFacts, TargetFacts DEF Live, Pending, Simple
<1>5. CASE x = On(t) /\ Event(t) = "ACCEPT_REQUEST"
  <2>1. status[x] = "REQUESTED"
    BY <1>5, CommitFacts DEF TransactionInv, LockedInv, HasLocked, Ended
  <2>2. status'[x] = "CONFIRMED"
    BY <1>5, CommitFacts, TargetFacts
  <2> QED
    BY <2>1, <2>2 DEF Live, Pending
<1> QED
  BY <1>1, <1>2, <1>3, <1>4, <1>5, CallFacts

\* A step that is not a COMMIT leaves the statuses alone.
LEMMA OnlyCommits ==
  ASSUME NEW t \in Tx, Step(t) \/ ConnectionLost(t), ~Commit(t)
  PROVE  UNCHANGED committed
  BY DEF Step, ConnectionLost, LockBooking, ClaimNight, Claimed, ShareProperty, ScanLosers,
         LockLoser, LosersLocked, CheckDuplicate, LockProperty, CheckCalendar,
         DeadlockDetected, Rollback

\* A step of one call moves no other.
LEMMA OneMoves ==
  ASSUME TransactionInv, NEW t \in Tx, Step(t) \/ ConnectionLost(t)
  PROVE  \A u \in Tx \ {t} : pc'[u] = pc[u]
<1>1. pc \in [Tx -> Statement \cup Ended]
  BY DEF TransactionInv, TransactionTypeOK
<1>2. pc' = pc \/ \E step : pc' = [pc EXCEPT ![t] = step]
  BY DEF Step, ConnectionLost, LockBooking, ClaimNight, Claimed, ShareProperty, ScanLosers,
         LockLoser, LosersLocked, CheckDuplicate, LockProperty, CheckCalendar, Commit,
         DeadlockDetected, Rollback, Goto
<1> QED
  BY <1>1, <1>2

LEMMA AskedNext ==
  ASSUME NoTwins, TransactionInv, AskedInv, NEW t \in Tx, Step(t) \/ ConnectionLost(t)
  PROVE  AskedInv'
<1> SUFFICES ASSUME NEW u \in Tx, Event(u) \in Creating,
                    pc'[u] \in {"share", "claim", "commit"},
                    NEW d \in Bookings, SameTenant(d, On(u)), Overlap(d, On(u))
             PROVE  status'[d] \notin Live
  BY DEF AskedInv
<1>1. CASE Commit(t)
  <2>1. u # t /\ pc[u] = pc'[u]
    BY <1>1, CommitFacts
  <2>2. status[d] \notin Live
    BY <2>1 DEF AskedInv
  <2>3. ~(Event(t) \in Creating /\ d = On(t))
    BY <2>1 DEF NoTwins, Overlap, SameTenant
  <2> QED
    BY <1>1, <2>2, <2>3, CommitTurnsLive
<1>2. CASE ~Commit(t)
  <2>1. status' = status
    BY <1>2, OnlyCommits DEF committed
  <2>2. CASE pc[u] \in {"share", "claim", "commit"}
    BY <2>1, <2>2 DEF AskedInv
  <2>3. CASE pc[u] \notin {"share", "claim", "commit"}
    <3>1. u = t
      BY <2>3, OneMoves
    <3>2. pc[u] \in {"check"} \cup Ended /\ Event(u) \notin Simple \cup {"ACCEPT_REQUEST", "BLOCK"}
      <4>1. pc[u] \in StepsOf(Event(u)) \cup Ended
        BY DEF TransactionInv, TransactionTypeOK
      <4> QED
        BY <2>3, <4>1, StepsFacts DEF Creating, Simple
    <3>3. \A why \in Ended : ~Rollback(t, why)
      <4>1. pc \in [Tx -> Statement \cup Ended]
        BY DEF TransactionInv, TransactionTypeOK
      <4> QED
        BY <3>1, <4>1 DEF Rollback, Goto, Ended
    <3>4. CheckDuplicate(t)
      BY <1>2, <3>1, <3>2, <3>3 DEF Step, ConnectionLost, LockBooking, ClaimNight, Claimed,
         ShareProperty, ScanLosers, LockLoser, LosersLocked, LockProperty, CheckCalendar,
         DeadlockDetected, Ended
    <3> QED
      BY <2>1, <3>1, <3>3, <3>4 DEF CheckDuplicate, Live, Ended, SameTenant
  <2> QED
    BY <2>2, <2>3
<1> QED
  BY <1>1, <1>2

\* A scan lists every request it meets.
LEMMA ScansMissNothing ==
  ASSUME NEW S \in SUBSET Bookings, NEW seq \in SetToSeqs(S), NEW x \in S
  PROVE  \E i \in 1..Len(seq) : seq[i] = x
<1>1. IsFiniteSet(S)
  BY FS_Subset, TransactionsAssumption
<1>2. Cardinality(S) \in Nat
  BY <1>1, FS_CardinalityType
<1>3. seq \in Injection(1..Cardinality(S), S) /\ seq \in [1..Cardinality(S) -> S]
  BY DEF SetToSeqs, Injection, IsInjective
<1>4. Cardinality(1..Cardinality(S)) = Cardinality(S)
  BY <1>2, FS_Interval
<1>5. seq \in Surjection(1..Cardinality(S), S)
  BY <1>1, <1>3, <1>4, FS_Injection
<1>6. Len(seq) = Cardinality(S)
  BY <1>2, <1>3
<1> QED
  BY <1>5, <1>6 DEF Surjection

LEMMA ScannedCommit ==
  ASSUME NoLateRequest, TransactionInv, ScannedInv, NEW t \in Tx, Commit(t)
  PROVE  ScannedInv'
<1> SUFFICES ASSUME NEW u \in Tx, Event(u) = "ACCEPT_REQUEST", pc'[u] \in {"losers", "commit"},
                    NEW x \in Bookings \ {On(u)}, status'[x] \in Pending, Overlap(x, On(u))
             PROVE  \/ rowLock'[x] = u
                    \/ pc'[u] = "losers" /\ \E i \in 1..Len(todo'[u]) : todo'[u][i] = x
  BY DEF ScannedInv
<1>1. u # t /\ pc[u] = pc'[u]
  BY CommitFacts
<1>2. ~(Event(t) = "REQUEST" /\ x = On(t))
  BY DEF NoLateRequest
<1>3. status[x] \in Pending
  BY <1>2, CommitTurnsLive
<1>4. todo'[u] = todo[u]
  BY <1>1 DEF Commit, ReleaseLocks, TransactionInv, TransactionTypeOK
<1>5. rowLock[x] = u => rowLock'[x] = u
  BY <1>1, CommitFacts
<1> QED
  BY <1>1, <1>3, <1>4, <1>5 DEF ScannedInv

LEMMA ScannedRollback ==
  ASSUME TransactionInv, ScannedInv, NEW t \in Tx, NEW why \in Ended, Rollback(t, why)
  PROVE  ScannedInv'
<1>1. /\ pc'[t] = why /\ status' = status
      /\ \A u \in Tx \ {t} : pc'[u] = pc[u] /\ todo'[u] = todo[u]
      /\ \A b \in Bookings : rowLock'[b] = IF rowLock[b] = t THEN NoTx ELSE rowLock[b]
  BY DEF Rollback, ReleaseLocks, Goto, committed, TransactionInv, TransactionTypeOK
<1>2. \A u \in Tx : pc'[u] \in {"losers", "commit"} => u # t
  BY <1>1 DEF Ended
<1> QED
  BY <1>1, <1>2 DEF ScannedInv

LEMMA ScannedLock ==
  ASSUME TransactionInv, ScannedInv, NEW t \in Tx, LockBooking(t)
  PROVE  ScannedInv'
<1>1. CASE Rollback(t, "ILLEGAL_TRANSITION")
  BY <1>1, ScannedRollback DEF Ended
<1>2. CASE ~Rollback(t, "ILLEGAL_TRANSITION")
  <2>1. /\ rowLock[On(t)] = NoTx /\ rowLock' = [rowLock EXCEPT ![On(t)] = t]
        /\ pc' = [pc EXCEPT ![t] = IF Event(t) = "ACCEPT_REQUEST" THEN "claim" ELSE "commit"]
        /\ status' = status /\ todo' = todo
    BY <1>2 DEF LockBooking, Goto, committed
  <2>2. pc \in [Tx -> Statement \cup Ended] /\ rowLock \in [Bookings -> Tx \cup {NoTx}]
    BY DEF TransactionInv, TransactionTypeOK
  <2>3. \A u \in Tx : Event(u) = "ACCEPT_REQUEST" /\ pc'[u] \in {"losers", "commit"} =>
          pc'[u] = pc[u]
    BY <2>1, <2>2
  <2>4. \A u \in Tx, x \in Bookings : rowLock[x] = u => rowLock'[x] = u
    BY <2>1, <2>2, TransactionsAssumption
  <2> QED
    BY <2>1, <2>3, <2>4 DEF ScannedInv
<1> QED
  BY <1>1, <1>2

LEMMA ScannedScan ==
  ASSUME TransactionInv, ScannedInv, NEW t \in Tx, ScanLosers(t)
  PROVE  ScannedInv'
<1> DEFINE S == { x \in Bookings \ {On(t)} : status[x] \in Pending /\ Overlap(x, On(t)) }
<1>1. PICK seq \in SetToSeqs(S) : todo' = [todo EXCEPT ![t] = seq]
  BY DEF ScanLosers
<1>2. /\ pc' = [pc EXCEPT ![t] = "losers"]
      /\ status' = status /\ rowLock' = rowLock
  BY DEF ScanLosers, Goto, committed, locks
<1>3. /\ todo'[t] = seq /\ pc'[t] = "losers"
      /\ \A u \in Tx \ {t} : todo'[u] = todo[u] /\ pc'[u] = pc[u]
  BY <1>1, <1>2 DEF TransactionInv, TransactionTypeOK
<1>4. \A x \in S : \E i \in 1..Len(seq) : seq[i] = x
  <2>1. S \in SUBSET Bookings
    OBVIOUS
  <2> HIDE DEF S
  <2> QED
    BY <1>1, <2>1, ScansMissNothing
<1> QED
  BY <1>2, <1>3, <1>4 DEF ScannedInv

LEMMA ScannedLoser ==
  ASSUME TransactionInv, ScannedInv, NEW t \in Tx, LockLoser(t)
  PROVE  ScannedInv'
<1> DEFINE b == Head(todo[t])
<1>1. /\ pc[t] = "losers" /\ todo[t] # <<>> /\ rowLock[b] = NoTx
      /\ rowLock' = [rowLock EXCEPT ![b] = t]
      /\ todo' = [todo EXCEPT ![t] = Tail(@)]
      /\ pc' = pc /\ status' = status
  BY DEF LockLoser, committed
<1>2. todo[t] \in Seq(Bookings) /\ rowLock \in [Bookings -> Tx \cup {NoTx}]
  BY DEF TransactionInv, TransactionTypeOK
<1>3. b \in Bookings /\ b = todo[t][1]
  BY <1>1, <1>2
<1>4. todo'[t] = Tail(todo[t]) /\ \A u \in Tx \ {t} : todo'[u] = todo[u]
  BY <1>1 DEF TransactionInv, TransactionTypeOK
<1>5. ASSUME NEW i \in 1..Len(todo[t])
      PROVE  todo[t][i] = b \/ \E j \in 1..Len(todo'[t]) : todo'[t][j] = todo[t][i]
  <2>1. CASE i = 1
    BY <1>3, <2>1
  <2>2. CASE i # 1
    <3>1. i - 1 \in 1..Len(Tail(todo[t])) /\ Tail(todo[t])[i - 1] = todo[t][i]
      BY <1>1, <1>2, <2>2
    <3> QED
      BY <1>4, <3>1
  <2> QED
    BY <2>1, <2>2
<1>6. /\ rowLock'[b] = t
      /\ \A u \in Tx, x \in Bookings : rowLock[x] = u => rowLock'[x] = u
  <2> HIDE DEF b
  <2> QED
    BY <1>1, <1>2, <1>3, TransactionsAssumption
<1> HIDE DEF b
<1>7. ASSUME NEW u \in Tx, Event(u) = "ACCEPT_REQUEST", pc[u] \in {"losers", "commit"},
             NEW x \in Bookings \ {On(u)}, status[x] \in Pending, Overlap(x, On(u))
      PROVE  \/ rowLock'[x] = u
             \/ pc[u] = "losers" /\ \E i \in 1..Len(todo'[u]) : todo'[u][i] = x
  <2>1. \/ rowLock[x] = u
        \/ pc[u] = "losers" /\ \E i \in 1..Len(todo[u]) : todo[u][i] = x
    BY <1>7 DEF ScannedInv
  <2>2. CASE rowLock[x] = u
    BY <1>6, <2>2
  <2>3. CASE u # t
    BY <1>4, <1>6, <2>1, <2>3
  <2>4. CASE u = t /\ \E i \in 1..Len(todo[u]) : todo[u][i] = x
    <3>1. PICK i \in 1..Len(todo[t]) : todo[t][i] = x
      BY <2>4
    <3>2. x = b \/ \E j \in 1..Len(todo'[t]) : todo'[t][j] = x
      BY <1>5, <3>1
    <3> QED
      BY <1>1, <1>6, <2>4, <3>2
  <2> QED
    BY <2>1, <2>2, <2>3, <2>4
<1> QED
  BY <1>1, <1>7 DEF ScannedInv

\* A statement that takes no row lock comes before the scan or after the last row.
LEMMA ScannedOther ==
  ASSUME TransactionInv, ScannedInv, NEW t \in Tx,
         \/ ClaimNight(t) \/ Claimed(t) \/ ShareProperty(t) \/ LosersLocked(t)
         \/ CheckDuplicate(t) \/ LockProperty(t) \/ CheckCalendar(t)
  PROVE  ScannedInv'
<1>1. CASE \E why \in Ended : Rollback(t, why)
  BY <1>1, ScannedRollback
<1>2. CASE ~\E why \in Ended : Rollback(t, why)
  <2>1. "DATES_UNAVAILABLE" \in Ended /\ "CONFLICT" \in Ended /\ "DUPLICATE" \in Ended
    BY DEF Ended
  <2>2. status' = status /\ rowLock' = rowLock /\ todo' = todo
    BY <1>2, <2>1 DEF ClaimNight, Claimed, ShareProperty, LosersLocked, CheckDuplicate,
                      LockProperty, CheckCalendar, committed, locks
  <2>3. pc \in [Tx -> Statement \cup Ended]
    BY DEF TransactionInv, TransactionTypeOK
  <2>4. CASE LosersLocked(t)
    <3>1. pc[t] = "losers" /\ todo[t] = <<>> /\ pc' = [pc EXCEPT ![t] = "commit"]
      BY <2>4 DEF LosersLocked, Goto
    <3>2. pc'[t] = "commit" /\ \A u \in Tx \ {t} : pc'[u] = pc[u]
      BY <2>3, <3>1
    <3>3. ~\E i \in 1..Len(todo[t]) : TRUE
      BY <3>1
    <3> QED
      BY <2>2, <3>1, <3>2, <3>3 DEF ScannedInv
  <2>5. CASE ~LosersLocked(t)
    <3>1. \A u \in Tx : Event(u) = "ACCEPT_REQUEST" /\ pc'[u] \in {"losers", "commit"} =>
            pc'[u] = pc[u]
      BY <1>2, <2>1, <2>3, <2>5
         DEF ClaimNight, Claimed, ShareProperty, CheckDuplicate, LockProperty,
             CheckCalendar, Goto, Creating
    <3> QED
      BY <2>2, <3>1 DEF ScannedInv
  <2> QED
    BY <2>4, <2>5
<1> QED
  BY <1>1, <1>2

LEMMA AskedInvariant ==
  ASSUME NoTwins
  PROVE  Spec => []AskedInv
<1>1. Init => AskedInv
  BY CallFacts, StepsFacts DEF Init, AskedInv, Simple, Creating
<1>2. TransactionInv /\ AskedInv /\ [Next]_vars => AskedInv'
  <2>1. CASE UNCHANGED vars
    BY <2>1 DEF vars, committed, AskedInv
  <2> QED
    BY <2>1, AskedNext DEF Next, Done
<1> QED
  BY <1>1, <1>2, TransactionInvariant, PTL DEF Spec

LEMMA ScannedInvariant ==
  ASSUME NoLateRequest
  PROVE  Spec => []ScannedInv
<1>1. Init => ScannedInv
  BY CallFacts, StepsFacts DEF Init, ScannedInv, Simple, Creating
<1>2. TransactionInv /\ ScannedInv /\ [Next]_vars => ScannedInv'
  <2> SUFFICES ASSUME TransactionInv, ScannedInv, [Next]_vars PROVE ScannedInv'
    OBVIOUS
  <2>1. ASSUME NEW t \in Tx, Step(t) \/ ConnectionLost(t) PROVE ScannedInv'
    <3>1. CASE ConnectionLost(t) \/ DeadlockDetected(t)
      BY <3>1, ScannedRollback DEF ConnectionLost, DeadlockDetected, Ended
    <3> QED
      BY <2>1, <3>1, ScannedCommit, ScannedLock, ScannedScan, ScannedLoser, ScannedOther DEF Step
  <2>2. CASE UNCHANGED vars
    BY <2>2 DEF vars, committed, locks, ScannedInv
  <2> QED
    BY <2>1, <2>2 DEF Next, Done
<1> QED
  BY <1>1, <1>2, TransactionInvariant, PTL DEF Spec

\* What is not there does not expire.
ExpiresInv == \A b \in expires : b \in Bookings /\ status[b] # "NONE"

LEMMA ExpiresInvariant == Spec => []ExpiresInv
<1>1. Init => ExpiresInv
  BY DEF Init, ExpiresInv
<1>2. TransactionInv /\ ExpiresInv /\ [Next]_vars => ExpiresInv'
  <2> SUFFICES ASSUME TransactionInv, ExpiresInv, [Next]_vars PROVE ExpiresInv'
    OBVIOUS
  <2>1. ASSUME NEW t \in Tx, Commit(t), NEW b \in expires'
        PROVE  b \in Bookings /\ status'[b] # "NONE"
    <3>1. b \in expires \/ (b = On(t) /\ Event(t) = "REQUEST")
      BY <2>1 DEF Commit, NewExpires
    <3>2. b \in Bookings
      BY <3>1, CallFacts DEF ExpiresInv
    <3>3. CASE b # On(t)
      BY <2>1, <3>1, <3>2, <3>3, CommitFacts DEF ExpiresInv
    <3>4. CASE b = On(t)
      <4>1. Event(t) # "BLOCK"
        BY <3>2, <3>4, CallFacts, TransactionsAssumption
      <4> QED
        BY <2>1, <3>2, <3>4, <4>1, CommitFacts, TargetFacts, CallFacts DEF Simple, Creating
    <3> QED
      BY <3>2, <3>3, <3>4
  <2>2. CASE UNCHANGED committed
    BY <2>2 DEF committed, ExpiresInv
  <2> QED
    BY <2>1, <2>2, OnlyCommits DEF Next, Done, vars, ExpiresInv
<1> QED
  BY <1>1, <1>2, TransactionInvariant, PTL DEF Spec

\* requestBooking()'s check keeps a tenant to one live request for a night, as long
\* as his calls for it come one after the other.
THEOREM OneRequestWithoutTwins ==
  ASSUME NoTwins,
         \A b, d \in Bookings :
           b # d /\ SameTenant(b, d) /\ Overlap(b, d) =>
             ~(FirstStatus[b] \in Pending /\ FirstStatus[d] \in Pending)
  PROVE  Spec => []OneLiveRequest
<1>1. Init => OneLiveRequest
  BY DEF Init, OneLiveRequest
<1>2. TransactionInv /\ AskedInv /\ OneLiveRequest /\ [Next]_vars => OneLiveRequest'
  <2> SUFFICES ASSUME TransactionInv, AskedInv, OneLiveRequest, [Next]_vars PROVE OneLiveRequest'
    OBVIOUS
  <2>1. ASSUME NEW t \in Tx, Commit(t) PROVE OneLiveRequest'
    <3> SUFFICES ASSUME NEW b \in Bookings, NEW d \in Bookings, b # d,
                        SameTenant(b, d), Overlap(b, d),
                        status'[b] \in Pending, status'[d] \in Pending
                 PROVE  FALSE
      BY DEF OneLiveRequest
    <3>1. \A x \in Bookings :
            status'[x] \in Pending =>
              status[x] \in Pending \/ (Event(t) = "REQUEST" /\ x = On(t))
      BY <2>1, CommitTurnsLive
    <3>2. Event(t) = "REQUEST" =>
            \A x \in Bookings : SameTenant(x, On(t)) /\ Overlap(x, On(t)) => status[x] \notin Live
      BY <2>1, CommitFacts DEF AskedInv, Creating
    <3>3. SameTenant(d, b) /\ Overlap(d, b)
      BY DEF SameTenant, Overlap
    <3> QED
      BY <3>1, <3>2, <3>3 DEF OneLiveRequest, Live, Pending
  <2>2. CASE UNCHANGED committed
    BY <2>2 DEF committed, OneLiveRequest
  <2> QED
    BY <2>1, <2>2, OnlyCommits DEF Next, Done, vars
<1> QED
  BY <1>1, <1>2, AskedInvariant, TransactionInvariant, PTL DEF Spec
-----------------------------------------------------------------------------
(* The committed tables are those of BookingService.                        *)

\* BookingService keeps the same tables of statuses.
LEMMA SameTables ==
  /\ \A s : Service!StatusOccupies(s) <=> StatusOccupies(s)
  /\ \A s : Service!BlocksCalendar(s) <=> BlocksCalendar(s)
  /\ \A s, e, a : Service!Targets(s, e, a) = Targets(s, e, a)
  /\ Service!T = T /\ Service!L = L
<1>1. Service!Transitions = Transitions
  BY DEF Service!Transitions, Transitions, Service!Rule, Rule, Service!T, T, Service!L, L,
         Service!Admin, Admin, Service!System, System, Service!ConfirmEffects, ConfirmEffects,
         Service!CompleteEffects, CompleteEffects, Service!ReleaseEffects, ReleaseEffects
<1> QED
  BY <1>1 DEF Service!StatusOccupies, StatusOccupies, Service!BlocksCalendar, BlocksCalendar,
              Service!Targets, Targets, Service!T, T, Service!L, L

\* One property, and stays of so many nights.
LEMMA StayFacts ==
  /\ \A b \in Bookings : /\ Stay(b) = Request[b] /\ Request[b].property = PropertyId
                         /\ Request[b].from \in Nat /\ Request[b].to \in Nat
                         /\ Footprint(b) = Request[b].from .. (Request[b].to - 1)
                         /\ Footprint(b) \subseteq Night
  /\ \A k \in Block : /\ Stay(k) = Period[k] /\ Period[k].property = PropertyId
                      /\ Footprint(k) = Period[k].from .. (Period[k].to - 1)
                      /\ Footprint(k) \subseteq Night
<1>1. /\ \A b \in Bookings : Stay(b) = Request[b]
      /\ \A k \in Block : Stay(k) = Period[k]
  BY TransactionsAssumption DEF Stay
<1>2. \A c, d \in Subject : Stay(c).property = Stay(d).property
  BY TransactionsAssumption DEF Subject
<1>3. \A c \in Subject : Stay(c).property = PropertyId
  <2> TAKE c \in Subject
  <2>1. { Stay(d).property : d \in Subject } = {Stay(c).property}
    BY <1>2
  <2> QED
    BY <2>1 DEF PropertyId
<1>4. \A c \in Bookings \cup Block : Stay(c).from \in Nat /\ Stay(c).to \in Nat
  BY TransactionsAssumption
<1>5. \A c \in Subject : Footprint(c) \subseteq Night
  BY DEF Night, Subject
<1> QED
  BY <1>1, <1>3, <1>4, <1>5 DEF Footprint, Subject

\* Two stays overlap as periods exactly if they have a night in common.
LEMMA OverlapAgrees ==
  ASSUME NEW b \in Bookings, NEW d \in Bookings
  PROVE  Service!Overlap(Request[b], Request[d]) <=> Overlap(b, d)
<1> DEFINE bf == Request[b].from
           bt == Request[b].to
           df == Request[d].from
           dt == Request[d].to
<1>1. /\ bf \in Nat /\ bt \in Nat /\ df \in Nat /\ dt \in Nat
      /\ Footprint(b) = bf .. (bt - 1) /\ Footprint(d) = df .. (dt - 1)
      /\ Request[b].property = Request[d].property
  BY StayFacts
<1>2. Service!Overlap(Request[b], Request[d]) <=> bf < dt /\ df < bt /\ bf < bt /\ df < dt
  BY <1>1 DEF Service!Overlap
<1>3. Overlap(b, d) <=> \E n : n \in bf .. (bt - 1) /\ n \in df .. (dt - 1)
  BY <1>1 DEF Overlap
<1> HIDE DEF bf, bt, df, dt
<1>4. ASSUME bf < dt, df < bt, bf < bt, df < dt
      PROVE  \E n : n \in bf .. (bt - 1) /\ n \in df .. (dt - 1)
  <2>1. CASE bf <= df
    <3>1. df \in bf .. (bt - 1) /\ df \in df .. (dt - 1)
      BY <1>1, <1>4, <2>1
    <3> QED
      BY <3>1
  <2>2. CASE ~(bf <= df)
    <3>1. bf \in bf .. (bt - 1) /\ bf \in df .. (dt - 1)
      BY <1>1, <1>4, <2>2
    <3> QED
      BY <3>1
  <2> QED
    BY <2>1, <2>2
<1>5. ASSUME NEW n, n \in bf .. (bt - 1), n \in df .. (dt - 1)
      PROVE  bf < dt /\ df < bt /\ bf < bt /\ df < dt
  BY <1>1, <1>5
<1> QED
  BY <1>2, <1>3, <1>4, <1>5

\* The rows of a stay or a block, as BookingService has them.
RowsOfStay(c) == { RowOf(n, c) : n \in Footprint(c) }

LEMMA RowsAgree ==
  /\ \A b \in Bookings : Service!BookingRows(b) = RowsOfStay(b)
  /\ \A k \in Block : Service!BlockRows(k) = RowsOfStay(k)
  BY StayFacts DEF Service!BookingRows, Service!BlockRows, Service!Rows, RowsOfStay, RowOf

LEMMA RowFacts ==
  \A n, m, c, d : /\ RowOf(n, c).claimant = c
                  /\ RowOf(n, c).night = RowOf(m, d).night <=> n = m
                  /\ RowOf(n, c) = RowOf(m, d) <=> n = m /\ c = d
  BY DEF RowOf

\* A COMMIT that claims adds the rows of its stay, and none of their nights was
\* taken...
LEMMA ClaimRows ==
  ASSUME TransactionInv, NEW t \in Tx, Commit(t), Event(t) \in Claiming
  PROVE  /\ Service!NightsFree(RowsOfStay(On(t)))
         /\ TakenRows' = TakenRows \cup RowsOfStay(On(t))
         /\ On(t) \in Block /\ Footprint(On(t)) # {} => On(t) \notin blocks
<1>1. On(t) \in Subject /\ Footprint(On(t)) \subseteq Night
  BY CallFacts
<1>2. /\ Footprint(On(t)) = inserted[t]
      /\ \A n \in inserted[t] : night[n] = Free
  <2>1. HasClaimed(t)
    BY CommitFacts DEF HasClaimed
  <2>2. \A n \in inserted[t] : n \in Footprint(On(t)) /\ night[n] = Free
    BY DEF TransactionInv, InsertedInv
  <2>3. Footprint(On(t)) \subseteq inserted[t]
    BY <2>1 DEF TransactionInv, InsertedInv
  <2> QED
    BY <2>2, <2>3
<1>3. \A n \in Night : night'[n] = IF n \in Footprint(On(t)) THEN On(t) ELSE night[n]
  BY <1>2, CommitFacts DEF Claiming, Simple
<1>4. On(t) # Free
  BY <1>1, TransactionsAssumption DEF Subject
<1>5. Service!NightsFree(RowsOfStay(On(t)))
  <2> SUFFICES ASSUME NEW n \in Footprint(On(t)), NEW m \in Night, night[m] # Free
               PROVE  RowOf(m, night[m]).night # RowOf(n, On(t)).night
    BY DEF Service!NightsFree, RowsOfStay, TakenRows
  <2>1. n # m
    BY <1>2
  <2> QED
    BY <2>1, RowFacts
<1>6. TakenRows' = TakenRows \cup RowsOfStay(On(t))
  <2>1. TakenRows' = { RowOf(n, night'[n]) : n \in { m \in Night : night'[m] # Free } }
    BY DEF TakenRows, RowOf
  <2>2. ASSUME NEW n \in Night, night'[n] # Free
        PROVE  RowOf(n, night'[n]) \in TakenRows \cup RowsOfStay(On(t))
    BY <1>3, <2>2 DEF TakenRows, RowsOfStay
  <2>3. ASSUME NEW n \in Night, night[n] # Free PROVE RowOf(n, night[n]) \in TakenRows'
    <3>1. night'[n] = night[n]
      BY <1>2, <1>3, <2>3
    <3> QED
      BY <2>1, <2>3, <3>1
  <2>4. ASSUME NEW n \in Footprint(On(t)) PROVE RowOf(n, On(t)) \in TakenRows'
    <3>1. n \in Night /\ night'[n] = On(t)
      BY <1>1, <1>3
    <3> QED
      BY <1>4, <2>1, <3>1
  <2>5. TakenRows' \subseteq TakenRows \cup RowsOfStay(On(t))
    BY <2>1, <2>2
  <2>6. TakenRows \subseteq TakenRows'
    BY <2>3 DEF TakenRows
  <2>7. RowsOfStay(On(t)) \subseteq TakenRows'
    BY <2>4 DEF RowsOfStay
  <2> QED
    BY <2>5, <2>6, <2>7
<1>7. ASSUME On(t) \in Block, Footprint(On(t)) # {} PROVE On(t) \notin blocks
  <2>1. PICK n \in Footprint(On(t)) : TRUE
    BY <1>7
  <2>2. n \in Night /\ night[n] # On(t)
    BY <1>1, <1>2, <1>4
  <2> QED
    BY <1>1, <2>1, <2>2 DEF TransactionInv, CommittedCalendarExact
<1> QED
  BY <1>5, <1>6, <1>7

\* ...one that leaves an occupying status deletes all its rows, and any other
\* leaves the calendar alone.
LEMMA OtherRows ==
  ASSUME TransactionInv, NEW t \in Tx, Commit(t), Event(t) \notin Claiming
  PROVE  /\ On(t) \in Bookings
         /\ IF StatusOccupies(status[On(t)])
              THEN TakenRows' = { row \in TakenRows : row.claimant # On(t) }
              ELSE TakenRows' = TakenRows
<1>1. On(t) \in Bookings /\ Event(t) \in Simple \cup {"REQUEST"}
  BY CallFacts DEF Claiming, Creating
<1>2. inserted[t] = {}
  BY DEF TransactionInv, InsertedInv
<1>3. On(t) # Free /\ On(t) \notin blocks
  BY <1>1, TransactionsAssumption DEF TransactionInv, TransactionTypeOK
<1>4. \A n \in Night : night[n] = On(t) => StatusOccupies(status[On(t)])
  BY <1>1, <1>3 DEF TransactionInv, CommittedCalendarExact, Subject
<1>5. TakenRows' = { RowOf(n, night'[n]) : n \in { m \in Night : night'[m] # Free } }
  BY DEF TakenRows, RowOf
<1>6. CASE StatusOccupies(status[On(t)])
  <2>1. Event(t) \in Simple
    BY <1>1, <1>6, CommitFacts DEF TransactionInv, CreatedInv, Creating, Ended, StatusOccupies
  <2>2. \A n \in Night : night'[n] = IF night[n] = On(t) THEN Free ELSE night[n]
    BY <1>2, <2>1, CommitFacts
  <2>3. ASSUME NEW n \in Night, night'[n] # Free
        PROVE  RowOf(n, night'[n]) \in { row \in TakenRows : row.claimant # On(t) }
    BY <2>2, <2>3, RowFacts DEF TakenRows
  <2>4. ASSUME NEW n \in Night, night[n] # Free, RowOf(n, night[n]).claimant # On(t)
        PROVE  RowOf(n, night[n]) \in TakenRows'
    <3>1. night'[n] = night[n]
      BY <2>2, <2>4, RowFacts
    <3> QED
      BY <1>5, <2>4, <3>1
  <2>5. TakenRows' \subseteq { row \in TakenRows : row.claimant # On(t) }
    BY <1>5, <2>3
  <2>6. { row \in TakenRows : row.claimant # On(t) } \subseteq TakenRows'
    BY <2>4 DEF TakenRows
  <2> QED
    BY <1>1, <1>6, <2>5, <2>6
<1>7. CASE ~StatusOccupies(status[On(t)])
  <2>1. \A n \in Night : night'[n] = night[n]
    BY <1>2, <1>4, <1>7, CommitFacts
  <2> QED
    BY <1>1, <1>5, <1>7, <2>1 DEF TakenRows
<1> QED
  BY <1>6, <1>7
-----------------------------------------------------------------------------
(* Each COMMIT is an action of BookingService.                             *)

\* What a COMMIT writes into the rows of BookingService.
LEMMA CommitWrites ==
  ASSUME TransactionInv, DecisionInv, NEW t \in Tx, Commit(t)
  PROVE  /\ DOMAIN status = Bookings
         /\ Event(t) \in Simple \cup Creating =>
              status' = [status EXCEPT ![On(t)] = TargetOf(Event(t))]
         /\ Event(t) = "BLOCK" => status' = status
         /\ Event(t) = "REQUEST" => ExpiresAt' = [ExpiresAt EXCEPT ![On(t)] = TTL]
         /\ Event(t) = "INSTANT_BOOK" => ExpiresAt' = ExpiresAt
         /\ Event(t) = "ACCEPT_REQUEST" => ExpiresAt' = [ExpiresAt EXCEPT ![On(t)] = -1]
         /\ Event(t) \in Simple \cup {"BLOCK"} => ExpiresAt' = ExpiresAt
         /\ Event(t) # "BLOCK" => blocks' = blocks
<1>1. /\ status' = [b \in Bookings |-> NewStatus(t, b)]
      /\ expires' = NewExpires(t)
  BY DEF Commit
<1>2. status \in [Bookings -> BookingState \cup {"NONE"}]
  BY DEF TransactionInv, TransactionTypeOK
<1>3. Event(t) # "ACCEPT_REQUEST" => \A b \in Bookings \ {On(t)} : b \notin Losers(t)
  BY DEF DecisionInv, Losers
<1>4. Event(t) # "ACCEPT_REQUEST" => \A b \in Bookings \ {On(t)} : NewStatus(t, b) = status[b]
  BY <1>3 DEF NewStatus
<1>5. Event(t) # "BLOCK" => NewStatus(t, On(t)) = TargetOf(Event(t)) /\ On(t) \in Bookings
  <2>1. Event(t) # "BLOCK" => On(t) \in Bookings
    BY CallFacts
  <2>2. NewStatus(t, On(t)) = TargetOf(Event(t))
    BY DEF NewStatus, Losers
  <2> QED
    BY <2>1, <2>2
<1>6. Event(t) \in Simple \cup Creating => status' = [status EXCEPT ![On(t)] = TargetOf(Event(t))]
  BY <1>1, <1>2, <1>4, <1>5 DEF Simple, Creating
<1>7. Event(t) = "BLOCK" => status' = status
  <2>1. Event(t) = "BLOCK" => On(t) \notin Bookings
    BY CallFacts
  <2> QED
    BY <1>1, <1>2, <1>4, <2>1
<1>8. Event(t) = "REQUEST" => ExpiresAt' = [ExpiresAt EXCEPT ![On(t)] = TTL]
  BY <1>1, <1>5 DEF NewExpires, ExpiresAt, TTL
<1>9. Event(t) = "ACCEPT_REQUEST" => ExpiresAt' = [ExpiresAt EXCEPT ![On(t)] = -1]
  BY <1>1, <1>5 DEF NewExpires, ExpiresAt, TTL
<1>10. Event(t) \in Simple \cup {"BLOCK", "INSTANT_BOOK"} => ExpiresAt' = ExpiresAt
  <2>1. Event(t) \in Simple \cup {"BLOCK", "INSTANT_BOOK"} => expires' = expires
    BY <1>1 DEF NewExpires, Simple
  <2> QED
    BY <2>1 DEF ExpiresAt, TTL
<1> QED
  BY <1>2, <1>6, <1>7, <1>8, <1>9, <1>10, CommitFacts

\* A COMMIT changes the thread of the tenant it books for, the threads that an
\* acceptance releases, or none.
LEMMA ThreadsWritten ==
  ASSUME NEW t \in Tx, Commit(t)
  PROVE  Threads' = [th \in {PropertyId} \X People |->
                       IF th[2] \in Tenant THEN NewThread(t, th[2]) ELSE NoThread]
<1>1. thread' = [u \in Tenant |-> NewThread(t, u)]
  BY DEF Commit
<1> QED
  BY <1>1 DEF Threads, PropertyId, People, Tenant, NoThread, Subject, Stay

LEMMA ThreadsKept ==
  ASSUME NEW t \in Tx, Commit(t), Event(t) \in Simple \cup {"BLOCK"}
  PROVE  Threads' = Threads
<1>1. \A u : NewThread(t, u) = thread[u]
  BY DEF NewThread, Simple, Creating
<1> QED
  BY <1>1, ThreadsWritten DEF Threads

LEMMA SimpleIsAStep ==
  ASSUME TransactionInv, DecisionInv, NEW t \in Tx, Commit(t), Event(t) \in Simple
  PROVE  Service!Next
<1>1. On(t) \in Bookings /\ Event(t) \notin Claiming
  BY CallFacts DEF Simple, Claiming
<1>2. PICK actor \in {T, L} : Targets(status[On(t)], Event(t), actor) # {}
  BY CommitFacts DEF DecisionInv, HasLocked, Legal, Ended
<1>3. TargetOf(Event(t)) \in Targets(status[On(t)], Event(t), actor)
  BY <1>2, MovesLeadToTarget
<1>4. ~StatusOccupies(TargetOf(Event(t)))
  BY TargetFacts DEF Simple, StatusOccupies
<1>5. Service!SyncOccupancy(On(t), TargetOf(Event(t)))
  BY <1>1, <1>4, OtherRows, SameTables DEF Service!SyncOccupancy
<1>6. Service!SetStatus(On(t), TargetOf(Event(t)))
  BY <1>5, CommitWrites DEF Service!SetStatus
<1>7. Service!SimpleTransition(On(t), Event(t), actor)
  BY <1>3, <1>6, CommitWrites, ThreadsKept, SameTables
     DEF Service!SimpleTransition, Service!clockVars, Service!settlementVars, Simple,
         PropertyId, Stay, Subject, People, Tenant
<1>8. /\ Event(t) \in {"DECLINE_REQUEST", "CANCEL_BY_LANDLORD"} => actor = L
      /\ Event(t) \in {"WITHDRAW", "CANCEL_BY_TENANT"} => actor = T
  <2>1. \A r \in Transitions :
          /\ r.event \in {"DECLINE_REQUEST", "CANCEL_BY_LANDLORD"} => r.actors = {L}
          /\ r.event \in {"WITHDRAW", "CANCEL_BY_TENANT"} => r.actors = {T}
    BY DEF Transitions, Rule
  <2> QED
    BY <1>2, <2>1 DEF Targets
<1> QED
  BY <1>1, <1>7, <1>8, SameTables
     DEF Service!Next, Service!DeclineRequest, Service!Withdraw, Service!CancelByTenant,
         Service!CancelByLandlord, Simple

LEMMA BlockIsAStep ==
  ASSUME TransactionInv, DecisionInv, NEW t \in Tx, Commit(t), Event(t) = "BLOCK"
  PROVE  Service!Next
<1>1. On(t) \in Block /\ Footprint(On(t)) # {}
  <2>1. On(t) \in Block /\ Period[On(t)].from < Period[On(t)].to
    BY TransactionsAssumption DEF Simple, Creating
  <2>2. Stay(On(t)) = Period[On(t)] /\ Stay(On(t)).from \in Nat /\ Stay(On(t)).to \in Nat
    BY <2>1, StayFacts, TransactionsAssumption
  <2>3. Stay(On(t)).from \in Footprint(On(t))
    BY <2>1, <2>2 DEF Footprint
  <2> QED
    BY <2>1, <2>3
<1>2. /\ On(t) \notin blocks /\ blocks' = blocks \cup {On(t)}
      /\ Service!NightsFree(Service!BlockRows(On(t)))
      /\ TakenRows' = TakenRows \cup Service!BlockRows(On(t))
  BY <1>1, ClaimRows, RowsAgree, CommitFacts DEF Claiming
<1>3. Service!BlockDates(On(t))
  BY <1>2, CommitWrites, ThreadsKept
     DEF Service!BlockDates, Service!clockVars, Service!settlementVars, Service!stayVars,
         PropertyId, Stay, Subject, People, Tenant
<1> QED
  BY <1>1, <1>3 DEF Service!Next

LEMMA CreationIsAStep ==
  ASSUME TransactionInv, DecisionInv, AskedInv, ExpiresInv, NEW t \in Tx, Commit(t),
         Event(t) \in Creating
  PROVE  Service!Next
<1> DEFINE b == On(t)
           to == TargetOf(Event(t))
<1>1. /\ b \in Bookings /\ Request[b].tenant # Landlord
      /\ Request[b].to - Request[b].from \in MinNights .. MaxNights
  BY TransactionsAssumption DEF Simple, Creating
<1>2. Request[b].property = PropertyId
  BY <1>1, StayFacts
<1>3. status[b] = "NONE"
  BY CommitFacts DEF TransactionInv, CreatedInv, Ended
<1>4. ~Service!Duplicate(b)
  <2>1. \A d \in Bookings : SameTenant(d, b) /\ Overlap(d, b) => status[d] \notin Live
    BY CommitFacts DEF AskedInv
  <2> QED
    BY <1>1, <2>1, OverlapAgrees DEF Service!Duplicate, Service!TenantOf, SameTenant, Live
<1>5. to \in Service!Targets("INQUIRY", IF Event(t) = "INSTANT_BOOK" THEN "INSTANT_BOOK" ELSE "REQUEST", Service!T)
  BY CreatedAndDeclined, SameTables DEF Creating
<1>6. Service!SyncOccupancy(b, to)
  <2>1. ~StatusOccupies(status[b])
    BY <1>3 DEF StatusOccupies
  <2>2. CASE Event(t) = "INSTANT_BOOK"
    <3>1. StatusOccupies(to)
      BY <2>2, TargetFacts DEF StatusOccupies
    <3> QED
      BY <1>1, <2>1, <2>2, <3>1, ClaimRows, RowsAgree, SameTables
         DEF Service!SyncOccupancy, Claiming
  <2>3. CASE Event(t) = "REQUEST"
    <3>1. ~StatusOccupies(to)
      BY <2>3, TargetFacts DEF StatusOccupies
    <3> QED
      BY <2>1, <2>3, <3>1, OtherRows, SameTables DEF Service!SyncOccupancy, Claiming
  <2> QED
    BY <2>2, <2>3 DEF Creating
<1>7. Service!SetStatus(b, to)
  BY <1>6, CommitWrites DEF Service!SetStatus
<1>8. ExpiresAt' = [ExpiresAt EXCEPT ![b] = IF to = "REQUESTED" THEN 0 + TTL ELSE Service!NoTime]
  <2>1. CASE Event(t) = "REQUEST"
    BY <2>1, CommitWrites, TargetFacts DEF TTL
  <2>2. CASE Event(t) = "INSTANT_BOOK"
    <3>1. b \notin expires
      BY <1>3 DEF ExpiresInv
    <3>2. ExpiresAt[b] = -1 /\ ExpiresAt = [x \in Bookings |-> ExpiresAt[x]]
      BY <1>1, <3>1 DEF ExpiresAt
    <3> QED
      BY <1>1, <2>2, <3>2, CommitWrites, TargetFacts DEF Service!NoTime
  <2> QED
    BY <2>1, <2>2 DEF Creating
<1>9. Service!EnsureConversation(b, Service!BlocksCalendar(to))
  <2>1. Service!Thread(b) = <<PropertyId, Request[b].tenant>>
    BY <1>1, <1>2 DEF Service!Thread, Service!PropertyOf, Service!TenantOf
  <2>2. Request[b].tenant \in Tenant
    BY <1>1 DEF Tenant
  <2>3. \A u \in Tenant : u # Request[b].tenant => NewThread(t, u) = thread[u]
    BY DEF NewThread, Creating
  <2>4. NewThread(t, Request[b].tenant) =
          [release |-> IF BlocksCalendar(to) THEN "RELEASED"
                       ELSE IF thread[Request[b].tenant].release = "NONE" THEN "BLOCKED"
                       ELSE thread[Request[b].tenant].release,
           booking |-> b]
    BY DEF NewThread, Creating
  <2>5. <<PropertyId, Request[b].tenant>> \in {PropertyId} \X People
    BY <2>2 DEF People
  <2>6. Threads[<<PropertyId, Request[b].tenant>>] = thread[Request[b].tenant]
    BY <2>2, <2>5 DEF Threads
  <2> DEFINE new == [release |-> IF BlocksCalendar(to) THEN "RELEASED"
                       ELSE IF thread[Request[b].tenant].release = "NONE" THEN "BLOCKED"
                       ELSE thread[Request[b].tenant].release,
           booking |-> b]
  <2>7. Threads' = [Threads EXCEPT ![<<PropertyId, Request[b].tenant>>] = new]
    <3>1. \A th \in {PropertyId} \X People :
            /\ th = <<PropertyId, th[2]>>
            /\ th = <<PropertyId, Request[b].tenant>> <=> th[2] = Request[b].tenant
      OBVIOUS
    <3> HIDE DEF new
    <3>2. NewThread(t, Request[b].tenant) = new
      BY <2>4 DEF new
    <3>3. Threads' = [th \in {PropertyId} \X People |->
                        IF th[2] \in Tenant THEN NewThread(t, th[2]) ELSE NoThread]
      BY ThreadsWritten
    <3>4. \A th \in {PropertyId} \X People :
            th # <<PropertyId, Request[b].tenant>> =>
              (IF th[2] \in Tenant THEN NewThread(t, th[2]) ELSE NoThread) = Threads[th]
      BY <2>3, <3>1 DEF Threads
    <3>5. DOMAIN Threads = {PropertyId} \X People
      BY DEF Threads
    <3>6. DOMAIN Threads' = {PropertyId} \X People
      BY <3>3
    <3>7. \A th \in {PropertyId} \X People :
            Threads'[th] = IF th[2] \in Tenant THEN NewThread(t, th[2]) ELSE NoThread
      BY <3>3
    <3>8. \A th \in {PropertyId} \X People :
            Threads'[th] = IF th = <<PropertyId, Request[b].tenant>> THEN new ELSE Threads[th]
      BY <2>2, <3>1, <3>2, <3>4, <3>7
    <3>9. Threads = [th \in {PropertyId} \X People |-> Threads[th]]
      BY DEF Threads
    <3>10. Threads' = [th \in {PropertyId} \X People |-> Threads'[th]]
      BY <3>3, <3>7
    <3> QED
      BY <3>5, <3>8, <3>9, <3>10
  <2> QED
    BY <2>1, <2>6, <2>7, SameTables DEF Service!EnsureConversation
<1>10. \E instant \in BOOLEAN : Service!RequestBooking(b, instant)
  <2>1. /\ Service!PropertyOf(b) = PropertyId /\ Service!LandlordOf(b) # Service!TenantOf(b)
        /\ Service!Nights(b) \in MinNights .. MaxNights
    BY <1>1, <1>2 DEF Service!PropertyOf, Service!LandlordOf, Service!TenantOf, Service!Nights
  <2>2. \E x \in Service!Targets("INQUIRY", IF Event(t) = "INSTANT_BOOK" THEN "INSTANT_BOOK" ELSE "REQUEST", Service!T) :
          /\ Service!SetStatus(b, x)
          /\ ExpiresAt' = [ExpiresAt EXCEPT ![b] = IF x = "REQUESTED" THEN 0 + TTL ELSE Service!NoTime]
          /\ Service!EnsureConversation(b, Service!BlocksCalendar(x))
    <3> HIDE DEF to
    <3> QED
      BY <1>5, <1>7, <1>8, <1>9
  <2>3. blocks' = blocks
    BY CommitWrites DEF Creating
  <2>4. UNCHANGED <<0, {PropertyId}, [x \in Bookings |-> -1], Service!stayVars, blocks,
                    Service!settlementVars, <<>>, {}>>
    BY <2>3 DEF Service!stayVars, Service!settlementVars, PropertyId, Stay, Subject, People, Tenant
  <2>5. /\ Service!PropertyOf(b) \in {PropertyId}
        /\ Service!Nights(b) \in [p \in {PropertyId} |-> MinNights][Service!PropertyOf(b)] ..
                                [p \in {PropertyId} |-> MaxNights][Service!PropertyOf(b)]
        /\ [p \in {PropertyId} |-> "INSTANT_AND_REQUEST"][Service!PropertyOf(b)] # "REQUEST"
    BY <2>1
  <2>6. 0 <= 0
    OBVIOUS
  <2> HIDE DEF b
  <2> QED
    <3>1. CASE Event(t) = "INSTANT_BOOK"
      <4>1. Service!RequestBooking(b, TRUE)
        BY <1>3, <1>4, <2>1, <2>2, <2>4, <2>5, <2>6, <3>1 DEF Service!RequestBooking
      <4> QED
        BY <4>1
    <3>2. CASE Event(t) # "INSTANT_BOOK"
      <4>1. Service!RequestBooking(b, FALSE)
        BY <1>3, <1>4, <2>1, <2>2, <2>4, <2>5, <2>6, <3>2 DEF Service!RequestBooking
      <4> QED
        BY <4>1
    <3> QED
      BY <3>1, <3>2
<1> QED
  BY <1>1, <1>10 DEF Service!Next

LEMMA AcceptanceIsAStep ==
  ASSUME TransactionInv, DecisionInv, ScannedInv, NEW t \in Tx, Commit(t),
         Event(t) = "ACCEPT_REQUEST"
  PROVE  Service!Next
<1> DEFINE b == On(t)
<1>1. b \in Bookings /\ status[b] = "REQUESTED" /\ TargetOf(Event(t)) = "CONFIRMED"
  <2>1. HasLocked(t)
    BY CommitFacts DEF HasLocked, Ended
  <2> QED
    BY <2>1, CallFacts, TargetFacts DEF TransactionInv, LockedInv
<1>2. "CONFIRMED" \in Service!Targets(status[b], "ACCEPT_REQUEST", Service!L)
  <2>1. Rule("REQUESTED", "ACCEPT_REQUEST", "CONFIRMED", {L}, ConfirmEffects) \in Transitions
    BY DEF Transitions
  <2>2. "CONFIRMED" \in Targets("REQUESTED", "ACCEPT_REQUEST", L)
    BY <2>1 DEF Targets, Rule
  <2> QED
    BY <1>1, <2>2, SameTables
<1>3. Service!SyncOccupancy(b, "CONFIRMED")
  BY <1>1, ClaimRows, RowsAgree, SameTables DEF Service!SyncOccupancy, Claiming, StatusOccupies
<1>4. \A x \in Bookings \ {b} : x \in Losers(t) <=> x \in Service!Competing(b)
  <2> TAKE x \in Bookings \ {b}
  <2>1. x \in Service!Competing(b) <=> status[x] \in Pending /\ Overlap(x, b)
    BY <1>1, OverlapAgrees DEF Service!Competing, Pending
  <2>2. x \in Losers(t) => status[x] \in Pending /\ Overlap(x, b)
    BY DEF Losers, DecisionInv
  <2>3. status[x] \in Pending /\ Overlap(x, b) => x \in Losers(t)
    BY CommitFacts DEF ScannedInv, Losers
  <2> QED
    BY <2>1, <2>2, <2>3
<1>5. \A x \in Service!Competing(b) :
        (CHOOSE s \in Service!Targets(status[x], "DECLINE_REQUEST", Service!L) : TRUE) = "DECLINED"
  <2>1. \A s \in Pending : Targets(s, "DECLINE_REQUEST", L) = {"DECLINED"}
    <3>1. \A r \in Transitions : r.event = "DECLINE_REQUEST" => r.to = "DECLINED"
      BY DEF Transitions, Rule
    <3> QED
      BY <3>1, CreatedAndDeclined DEF Targets
  <2>2. \A x \in Service!Competing(b) : status[x] \in Pending
    BY DEF Service!Competing, Pending
  <2> QED
    BY <2>1, <2>2, SameTables
<1>6. status' = [x \in Bookings |->
         IF x = b THEN "CONFIRMED"
         ELSE IF x \in Service!Competing(b)
           THEN CHOOSE s \in Service!Targets(status[x], "DECLINE_REQUEST", Service!L) : TRUE
         ELSE status[x]]
  <2>1. status' = [x \in Bookings |-> NewStatus(t, x)]
    BY DEF Commit
  <2>2. \A x \in Bookings : NewStatus(t, x) =
          IF x = b THEN "CONFIRMED"
          ELSE IF x \in Service!Competing(b)
            THEN CHOOSE s \in Service!Targets(status[x], "DECLINE_REQUEST", Service!L) : TRUE
          ELSE status[x]
    BY <1>1, <1>4, <1>5, TargetFacts DEF NewStatus, Losers
  <2> QED
    BY <2>1, <2>2
<1>7. Threads' = [th \in {PropertyId} \X People |->
         IF Threads[th].booking = b /\ Threads[th].release = "BLOCKED"
           THEN [Threads[th] EXCEPT !.release = "RELEASED"]
           ELSE Threads[th]]
  <2>1. \A u : NewThread(t, u) = IF thread[u].booking = b /\ thread[u].release = "BLOCKED"
                                 THEN [thread[u] EXCEPT !.release = "RELEASED"]
                                 ELSE thread[u]
    BY DEF NewThread, Creating
  <2>2. NoThread.release # "BLOCKED"
    BY DEF NoThread
  <2>3. \A th \in {PropertyId} \X People :
          Threads[th] = IF th[2] \in Tenant THEN thread[th[2]] ELSE NoThread
    BY DEF Threads
  <2>4. \A th \in {PropertyId} \X People :
          (IF th[2] \in Tenant THEN NewThread(t, th[2]) ELSE NoThread)
          = IF Threads[th].booking = b /\ Threads[th].release = "BLOCKED"
              THEN [Threads[th] EXCEPT !.release = "RELEASED"]
              ELSE Threads[th]
    <3> HIDE DEF b
    <3> QED
      BY <2>1, <2>2, <2>3
  <2>5. Threads' = [th \in {PropertyId} \X People |->
                      IF th[2] \in Tenant THEN NewThread(t, th[2]) ELSE NoThread]
    BY ThreadsWritten
  <2> HIDE DEF b
  <2> QED
    BY <2>4, <2>5
<1>8. Service!AcceptRequest(b)
  BY <1>1, <1>2, <1>3, <1>6, <1>7, CommitWrites
     DEF Service!AcceptRequest, Service!NoTime, Service!stayVars, Service!settlementVars,
         PropertyId, Stay, Subject, People, Tenant
<1> QED
  BY <1>1, <1>8 DEF Service!Next

\* Whatever the transactions of one property do to each other, what its committed
\* tables go through is what BookingService says, one action per COMMIT: statuses,
\* occupancy, blocks, conversations and expiry alike.  Two hypotheses remain, and
\* both are needed: the duplicate check and the scan for competing requests are
\* statements that do not see what commits after them.
THEOREM CommitsImplementService ==
  ASSUME NoTwins, NoLateRequest
  PROVE  Spec => CommitsAreServiceSteps
<1>1. TransactionInv /\ DecisionInv /\ AskedInv /\ ScannedInv /\ ExpiresInv /\ [Next]_vars =>
        [committed' # committed => Service!Next]_committed
  <2> SUFFICES ASSUME TransactionInv, DecisionInv, AskedInv, ScannedInv, ExpiresInv, [Next]_vars,
                      committed' # committed
               PROVE  Service!Next
    OBVIOUS
  <2>1. PICK t \in Tx : Commit(t)
    BY OnlyCommits DEF Next, Done, vars
  <2> QED
    BY <2>1, CallFacts, SimpleIsAStep, BlockIsAStep, CreationIsAStep, AcceptanceIsAStep
<1> QED
  BY <1>1, AskedInvariant, ScannedInvariant, ExpiresInvariant, TransactionInvariant,
     DecisionInvariant, PTL DEF Spec, CommitsAreServiceSteps
=============================================================================
