---------------------------- MODULE BookingProofs ----------------------------
(***************************************************************************)
(* What TLAPS proves of the booking service for every set of users,        *)
(* properties, bookings, blocks and cases and every choice of dates: the   *)
(* types, the calendar with its refinement, and the settlement of a stay.  *)
(***************************************************************************)
EXTENDS BookingProperties, TLAPS

-----------------------------------------------------------------------------
(* Facts about the tables.                                                 *)

\* Every transition of the table leads to a booking state.
LEMMA TransitionsTyped == \A r \in Transitions : r.to \in BookingState
  BY DEF Transitions, Rule, BookingState

\* applyEvent() only ever answers with a booking state.
LEMMA TargetsTyped ==
  \A from, event, actor : Targets(from, event, actor) \subseteq BookingState
  BY TransitionsTyped DEF Targets

\* A request or an offer can always be declined, so accepting one request never
\* fails on its competitors.
LEMMA CompetitorsCanBeDeclined ==
  \A s \in {"REQUESTED", "OFFER_PENDING"} : "DECLINED" \in Targets(s, "DECLINE_REQUEST", L)
<1> DEFINE r(s) == Rule(s, "DECLINE_REQUEST", "DECLINED", {L}, {})
<1>1. \A s \in {"REQUESTED", "OFFER_PENDING"} : r(s) \in Transitions
  BY DEF Transitions
<1>2. \A s : /\ r(s).from = s /\ r(s).event = "DECLINE_REQUEST"
              /\ L \in r(s).actors /\ r(s).to = "DECLINED"
  BY DEF Rule
<1>. HIDE DEF r
<1>. QED  BY <1>1, <1>2 DEF Targets

\* ...and declining leads nowhere else.
LEMMA DeclineDeclines ==
  \A s \in {"REQUESTED", "OFFER_PENDING"} : Targets(s, "DECLINE_REQUEST", L) = {"DECLINED"}
<1>1. \A r \in Transitions : r.event = "DECLINE_REQUEST" => r.to = "DECLINED"
  BY DEF Transitions, Rule
<1>. QED  BY <1>1, CompetitorsCanBeDeclined DEF Targets

\* resolveCompletion() answers PENDING, or one of three states with a reason;
\* the fee goes with COMPLETED and only with it.
LEMMA OutcomeTyped ==
  ASSUME NEW tenant \in Answer \cup {NoAnswer}, NEW landlord \in Answer \cup {NoAnswer},
         NEW hasCheckIn \in BOOLEAN, NEW passed \in BOOLEAN,
         NEW o, o = ResolveCompletion(tenant, landlord, hasCheckIn, passed)
  PROVE  \/ o.state = "PENDING"
         \/ /\ o.state \in {"COMPLETED", "NOT_TAKEN_PLACE", "DISPUTED"}
            /\ o.reason \in ResolutionReason
            /\ o.signal \in SignalKind \cup {NoSignal}
            /\ o.accrueFee \in BOOLEAN
            /\ o.accrueFee <=> o.state = "COMPLETED"
  BY DEF ResolveCompletion, Outcome, Answer, NoAnswer, TookPlace, DidNotTakePlace,
         ResolutionReason, SignalKind, NoSignal
-----------------------------------------------------------------------------
(* Types.                                                                  *)

LEMMA RowsTyped ==
  /\ \A b \in Bookings : BookingRows(b) \subseteq Row
  /\ \A k \in Block : BlockRows(k) \subseteq Row
  BY BookingAssumption DEF BookingRows, BlockRows, Rows, Row

\* The trigger keeps the occupancy table well typed.
LEMMA SyncTyped ==
  ASSUME NEW b \in Bookings, NEW to, occupancy \in SUBSET Row, SyncOccupancy(b, to)
  PROVE  occupancy' \in SUBSET Row
  BY RowsTyped DEF SyncOccupancy

LEMMA SetStatusTyped ==
  ASSUME TypeOK, NEW b \in Bookings, NEW to \in BookingState, SetStatus(b, to)
  PROVE  status' \in [Bookings -> BookingState \cup {"NONE"}] /\ occupancy' \in SUBSET Row
  BY SyncTyped DEF TypeOK, SetStatus

LEMMA DeadlineTyped == \A b \in Bookings : CompletionDeadline(b) \in Nat
  BY BookingAssumption DEF CompletionDeadline

LEMMA SettleTyped ==
  ASSUME TypeOK, NEW b \in Bookings, NEW to \in BookingState, NEW accrue \in BOOLEAN,
         NEW why \in ResolutionReason \cup {AdminDecision}, Settle(b, to, accrue, why)
  PROVE  /\ status' \in [Bookings -> BookingState \cup {"NONE"}]
         /\ occupancy' \in SUBSET Row
         /\ reviewDeadlineAt' \in [Bookings -> Time]
         /\ reason' \in [Bookings -> ResolutionReason \cup {NoReason, AdminDecision}]
         /\ fees' \in SUBSET Bookings
         /\ ledger' \in [Bookings -> Nat]
         /\ completedAs' \in [User -> [Party -> Nat]]
<1>1. status' \in [Bookings -> BookingState \cup {"NONE"}]
  BY DEF TypeOK, Settle, SetStatus
<1>2. occupancy' \in SUBSET Row
  BY SyncTyped DEF TypeOK, Settle, SetStatus
<1>3. reviewDeadlineAt' \in [Bookings -> Time]
  BY BookingAssumption DEF TypeOK, Settle, Time
<1>4. reason' \in [Bookings -> ResolutionReason \cup {NoReason, AdminDecision}]
  BY DEF TypeOK, Settle
<1>5. fees' \in SUBSET Bookings /\ ledger' \in [Bookings -> Nat]
  <2>1. fees \in SUBSET Bookings /\ ledger \in [Bookings -> Nat]
    BY DEF TypeOK
  <2>2. CASE UNCHANGED <<fees, ledger>>
    BY <2>1, <2>2
  <2>3. CASE fees' = fees \cup {b} /\ ledger' = [ledger EXCEPT ![b] = @ + 1]
    BY <2>1, <2>3
  <2>. QED  BY <2>2, <2>3 DEF Settle, AccrueServiceFee
<1>6. completedAs' \in [User -> [Party -> Nat]]
  <2>1. completedAs \in [User -> [Party -> Nat]]
    BY DEF TypeOK
  <2>2. CASE UNCHANGED completedAs
    BY <2>1, <2>2
  <2>3. CASE CountCompletedRental(b)
    <3> DEFINE inc(u, p) == IF u = (IF p = T THEN TenantOf(b) ELSE LandlordOf(b)) THEN 1 ELSE 0
    <3>1. \A u \in User, p \in Party : completedAs[u][p] + inc(u, p) \in Nat
      BY <2>1
    <3>2. completedAs' = [u \in User |-> [p \in Party |-> completedAs[u][p] + inc(u, p)]]
      BY <2>3 DEF CountCompletedRental
    <3>. HIDE DEF inc
    <3>. QED  BY <3>1, <3>2
  <2>. QED  BY <2>2, <2>3 DEF Settle
<1>. QED
  BY <1>1, <1>2, <1>3, <1>4, <1>5, <1>6

LEMMA ResolveTyped ==
  ASSUME TypeOK, NEW b \in Bookings, NEW answers \in [Party -> Answer \cup {NoAnswer}],
         Resolve(b, answers)
  PROVE  /\ status' \in [Bookings -> BookingState \cup {"NONE"}]
         /\ occupancy' \in SUBSET Row
         /\ reviewDeadlineAt' \in [Bookings -> Time]
         /\ reason' \in [Bookings -> ResolutionReason \cup {NoReason, AdminDecision}]
         /\ fees' \in SUBSET Bookings
         /\ ledger' \in [Bookings -> Nat]
         /\ completedAs' \in [User -> [Party -> Nat]]
         /\ fraudSignals' \in SUBSET [booking : Bookings, kind : SignalKind]
<1> DEFINE o == ResolveCompletion(answers[T], answers[L], b \in checkedIn, Passed(deadlineAt[b]))
<1>1. CASE o.state = "PENDING"
  BY <1>1 DEF Resolve, TypeOK, settlementVars
<1>2. CASE o.state # "PENDING"
  <2>1. /\ o.state \in {"COMPLETED", "NOT_TAKEN_PLACE", "DISPUTED"}
        /\ o.reason \in ResolutionReason
        /\ o.signal \in SignalKind \cup {NoSignal}
        /\ o.accrueFee \in BOOLEAN
    <3>1. answers[T] \in Answer \cup {NoAnswer} /\ answers[L] \in Answer \cup {NoAnswer}
      BY DEF Party
    <3>2. (b \in checkedIn) \in BOOLEAN /\ Passed(deadlineAt[b]) \in BOOLEAN
      BY DEF Passed
    <3>. QED  BY <1>2, <3>1, <3>2, OutcomeTyped
  <2>2. ApplyResolution(b, o)
    BY <1>2 DEF Resolve
  <2>3. o.state \in BookingState
    BY <2>1 DEF BookingState
  <2>4. Settle(b, o.state, o.accrueFee, o.reason)
    BY <2>2 DEF ApplyResolution
  <2>5. fraudSignals' \in SUBSET [booking : Bookings, kind : SignalKind]
    BY <2>1, <2>2 DEF ApplyResolution, TypeOK
  <2>. HIDE DEF o
  <2>. QED  BY <2>1, <2>3, <2>4, <2>5, SettleTyped
<1>. QED  BY <1>1, <1>2

LEMMA TypeInit == Init => TypeOK
  BY BookingAssumption DEF Init, TypeOK, Time, Row, NoTime, NoReason, NoAnswer, Answer, Party

\* Every step of the service keeps the types.
LEMMA TypeNext == TypeOK /\ [Next]_vars => TypeOK'
<1> SUFFICES ASSUME TypeOK, [Next]_vars PROVE TypeOK'
  OBVIOUS
<1>. USE DEF TypeOK
<1>1. ASSUME NEW b \in Bookings, NEW instant \in BOOLEAN, RequestBooking(b, instant)
      PROVE  TypeOK'
  <2>1. PICK to \in Targets("INQUIRY", IF instant THEN "INSTANT_BOOK" ELSE "REQUEST", T) :
          /\ SetStatus(b, to)
          /\ expiresAt' = [expiresAt EXCEPT ![b] =
                             IF to = "REQUESTED" THEN today + RequestTTL ELSE NoTime]
          /\ EnsureConversation(b, BlocksCalendar(to))
    BY <1>1 DEF RequestBooking
  <2>2. to \in BookingState
    BY TargetsTyped
  <2>3. status' \in [Bookings -> BookingState \cup {"NONE"}] /\ occupancy' \in SUBSET Row
    BY <2>1, <2>2, SyncTyped DEF SetStatus
  <2>4. expiresAt' \in [Bookings -> Time]
    BY <2>1, BookingAssumption DEF Time
  <2>5. conversation' \in [Property \X User ->
          [release : {"NONE", "BLOCKED", "RELEASED"}, booking : Bookings \cup {NoBooking}]]
    BY <2>1 DEF EnsureConversation
  <2>. QED  BY <1>1, <2>3, <2>4, <2>5 DEF RequestBooking, stayVars, settlementVars
<1>2. ASSUME NEW b \in Bookings, AcceptRequest(b)
      PROVE  TypeOK'
  <2>1. PICK to \in Targets(status[b], "ACCEPT_REQUEST", L) :
          /\ SyncOccupancy(b, to)
          /\ status' = [x \in Bookings |->
               IF x = b THEN to
               ELSE IF x \in Competing(b)
                 THEN CHOOSE s \in Targets(status[x], "DECLINE_REQUEST", L) : TRUE
               ELSE status[x]]
    BY <1>2 DEF AcceptRequest
  <2>2. \A x \in Competing(b) : "DECLINED" \in Targets(status[x], "DECLINE_REQUEST", L)
    BY CompetitorsCanBeDeclined DEF Competing
  <2>3. status' \in [Bookings -> BookingState \cup {"NONE"}]
    BY <2>1, <2>2, TargetsTyped
  <2>4. occupancy' \in SUBSET Row
    BY <2>1, SyncTyped
  <2>5. expiresAt' \in [Bookings -> Time]
    BY <1>2 DEF AcceptRequest, Time
  <2>6. conversation' \in [Property \X User ->
          [release : {"NONE", "BLOCKED", "RELEASED"}, booking : Bookings \cup {NoBooking}]]
    BY <1>2 DEF AcceptRequest
  <2>. QED  BY <1>2, <2>3, <2>4, <2>5, <2>6 DEF AcceptRequest, stayVars, settlementVars
<1>3. ASSUME NEW b \in Bookings, NEW event, NEW actor, SimpleTransition(b, event, actor)
      PROVE  TypeOK'
  <2>1. status' \in [Bookings -> BookingState \cup {"NONE"}] /\ occupancy' \in SUBSET Row
    BY <1>3, TargetsTyped, SetStatusTyped DEF SimpleTransition
  <2>. QED  BY <1>3, <2>1 DEF SimpleTransition, clockVars, settlementVars
<1>4. ASSUME NEW b \in Bookings, CheckOut(b)
      PROVE  TypeOK'
  <2>1. status' \in [Bookings -> BookingState \cup {"NONE"}] /\ occupancy' \in SUBSET Row
    BY <1>4, TargetsTyped, SetStatusTyped DEF CheckOut
  <2>2. deadlineAt' \in [Bookings -> Time]
    BY <1>4, DeadlineTyped DEF CheckOut, Time
  <2>. QED  BY <1>4, <2>1, <2>2 DEF CheckOut, stayVars, settlementVars
<1>5. ASSUME NEW b \in Bookings, NEW actor \in Party, NEW given \in Answer, ConfirmCompletion(b, actor, given)
      PROVE  TypeOK'
  <2> DEFINE answers == [answer[b] EXCEPT ![actor] = given]
  <2>1. answers \in [Party -> Answer \cup {NoAnswer}]
    OBVIOUS
  <2>2. answer' \in [Bookings -> [Party -> Answer \cup {NoAnswer}]]
    BY <1>5 DEF ConfirmCompletion
  <2>3. Resolve(b, answers)
    BY <1>5 DEF ConfirmCompletion
  <2>. HIDE DEF answers
  <2>. QED  BY <1>5, <2>1, <2>2, <2>3, ResolveTyped DEF ConfirmCompletion, clockVars
<1>6. ASSUME NEW b \in Bookings, NEW actor \in Party, NEW c \in Case, OpenDispute(b, actor, c)
      PROVE  TypeOK'
  <2>1. status' \in [Bookings -> BookingState \cup {"NONE"}] /\ occupancy' \in SUBSET Row
    <3>1. "DISPUTED" \in BookingState
      BY DEF BookingState
    <3>. QED  BY <1>6, <3>1, TargetsTyped, SetStatusTyped DEF OpenDispute
  <2>2. cases' \in [Case -> [booking : Bookings \cup {NoBooking}, status : CaseStatus \cup {"NONE"}]]
    BY <1>6 DEF OpenDispute, CaseStatus
  <2>. QED  BY <1>6, <2>1, <2>2 DEF OpenDispute, clockVars, stayVars, settlementVars
<1>7. ASSUME NEW b \in Bookings, NEW event, ResolveDispute(b, event)
      PROVE  TypeOK'
  <2>1. PICK t \in { r \in Transitions :
                       r.from = status[b] /\ r.event = event /\ Admin \in r.actors } :
          Settle(b, t.to, "ACCRUE_SERVICE_FEE" \in t.effects, AdminDecision)
    BY <1>7 DEF ResolveDispute
  <2>2. t.to \in BookingState
    BY TransitionsTyped
  <2>3. PICK to \in BookingState, accrue \in BOOLEAN : Settle(b, to, accrue, AdminDecision)
    <3>1. ("ACCRUE_SERVICE_FEE" \in t.effects) \in BOOLEAN
      OBVIOUS
    <3>. QED  BY <2>1, <2>2, <3>1, Zenon
  <2>4. AdminDecision \in ResolutionReason \cup {AdminDecision}
    OBVIOUS
  <2>. QED  BY <1>7, <2>3, <2>4, SettleTyped DEF ResolveDispute, clockVars, stayVars
<1>8. ASSUME NEW c \in Case, NEW action, ActOnCase(c, action)
      PROVE  TypeOK'
  <2>1. \A from : CaseTargets(from, action) \subseteq CaseStatus
    BY DEF CaseTargets, DisputeTransitions, Move, CaseStatus, OpenCaseStatus
  <2>2. PICK to \in CaseStatus : cases' = [cases EXCEPT ![c].status = to]
    BY <1>8, <2>1 DEF ActOnCase
  <2>3. cases' \in [Case -> [booking : Bookings \cup {NoBooking}, status : CaseStatus \cup {"NONE"}]]
    BY <2>2
  <2>. QED  BY <1>8, <2>3 DEF ActOnCase, clockVars, stayVars, settlementVars
<1>9. ASSUME NEW k \in Block, BlockDates(k) \/ UnblockDates(k)
      PROVE  TypeOK'
  <2>. QED  BY <1>9, RowsTyped DEF BlockDates, UnblockDates, clockVars, stayVars, settlementVars
<1>10. ASSUME NEW p \in Property, NEW u \in User, StartConversation(p, u)
      PROVE  TypeOK'
  <2>1. conversation' \in [Property \X User ->
          [release : {"NONE", "BLOCKED", "RELEASED"}, booking : Bookings \cup {NoBooking}]]
    <3>1. PICK th \in Property \X User :
            conversation' = [conversation EXCEPT ![th].release = "BLOCKED"]
      BY <1>10 DEF StartConversation
    <3>. QED  BY <3>1
  <2>. QED  BY <1>10, <2>1 DEF StartConversation, clockVars, stayVars, settlementVars
<1>11. ASSUME NEW p \in Property, SetPublished(p)
      PROVE  TypeOK'
  <2>. QED  BY <1>11 DEF SetPublished, clockVars, stayVars, settlementVars
<1>12. ASSUME NEW job \in Job, SweepRead(job)
      PROVE  TypeOK'
  <2>1. DueFor(job) \subseteq Bookings
    BY DEF DueFor
  <2>2. due' = due \cup { <<job, b>> : b \in DueFor(job) }
    BY <1>12 DEF SweepRead
  <2>3. due' \in SUBSET (Job \X Bookings)
    BY <2>1, <2>2
  <2>. QED  BY <1>12, <2>3 DEF SweepRead, clockVars, stayVars, settlementVars
<1>13. ASSUME NEW b \in Bookings, ExpireStale(b)
      PROVE  TypeOK'
  <2>1. status' \in [Bookings -> BookingState \cup {"NONE"}] /\ occupancy' \in SUBSET Row
    <3>1. CASE \E to \in Targets(status[b], "EXPIRE", System) : SetStatus(b, to)
      BY <3>1, TargetsTyped, SetStatusTyped
    <3>2. CASE UNCHANGED <<status, occupancy>>
      BY <3>2
    <3>. QED  BY <1>13, <3>1, <3>2 DEF ExpireStale
  <2>2. expiresAt' \in [Bookings -> Time]
    BY <1>13 DEF ExpireStale, Time
  <2>. QED  BY <1>13, <2>1, <2>2 DEF ExpireStale, Take, stayVars, settlementVars
<1>14. ASSUME NEW b \in Bookings, OpenCompletionWindow(b)
      PROVE  TypeOK'
  <2>1. status' \in [Bookings -> BookingState \cup {"NONE"}] /\ occupancy' \in SUBSET Row
    <3>1. CASE \E to \in Targets(status[b], "REACH_STAY_END", System) : SetStatus(b, to)
      BY <3>1, TargetsTyped, SetStatusTyped
    <3>2. CASE UNCHANGED <<status, occupancy>>
      BY <3>2
    <3>. QED  BY <1>14, <3>1, <3>2 DEF OpenCompletionWindow
  <2>2. deadlineAt' \in [Bookings -> Time]
    BY <1>14, DeadlineTyped DEF OpenCompletionWindow, Time
  <2>. QED  BY <1>14, <2>1, <2>2 DEF OpenCompletionWindow, Take, stayVars, settlementVars
<1>15. ASSUME NEW b \in Bookings, ResolveExpiredCompletion(b)
      PROVE  TypeOK'
  <2>1. CASE Resolve(b, answer[b])
    BY <1>15, <2>1, ResolveTyped DEF ResolveExpiredCompletion, Take, clockVars, stayVars
  <2>2. CASE UNCHANGED <<status, occupancy, settlementVars>>
    BY <1>15, <2>2 DEF ResolveExpiredCompletion, Take, clockVars, stayVars, settlementVars
  <2>. QED  BY <1>15, <2>1, <2>2 DEF ResolveExpiredCompletion
<1>16. ASSUME SweepCrash \/ Tick
      PROVE  TypeOK'
  <2>. QED  BY <1>16 DEF SweepCrash, Tick, clockVars, stayVars, settlementVars
<1>17. CASE UNCHANGED vars
  BY <1>17 DEF vars, clockVars, stayVars, settlementVars
<1>. HIDE DEF TypeOK
<1>. QED
  BY <1>1, <1>2, <1>3, <1>4, <1>5, <1>6, <1>7, <1>8, <1>9, <1>10, <1>11, <1>12, <1>13,
     <1>14, <1>15, <1>16, <1>17
  DEF Next, DeclineRequest, Withdraw, CancelByTenant, CancelByLandlord, CheckIn

\* Every variable keeps its type in every reachable state.
THEOREM TypeCorrect == Spec => []TypeOK
  BY TypeInit, TypeNext, PTL DEF Spec
-----------------------------------------------------------------------------
(* The calendar.                                                           *)

\* How a step may touch the calendar: through the trigger, for one booking...
MovesOneBooking(b, to) ==
  /\ SyncOccupancy(b, to)
  /\ status'[b] = to
  /\ \A x \in Bookings \ {b} : StatusOccupies(status'[x]) <=> StatusOccupies(status[x])
  /\ UNCHANGED blocks

\* ...or not at all.
LeavesCalendar == UNCHANGED <<status, occupancy, blocks>>

LEMMA SetStatusMoves ==
  ASSUME TypeOK, NEW b \in Bookings, NEW to, SetStatus(b, to), UNCHANGED blocks
  PROVE  MovesOneBooking(b, to)
  BY DEF TypeOK, SetStatus, MovesOneBooking

LEMMA ResolveShape ==
  ASSUME TypeOK, NEW b \in Bookings, NEW answers, Resolve(b, answers), UNCHANGED blocks
  PROVE  (\E to : MovesOneBooking(b, to)) \/ LeavesCalendar
<1> DEFINE o == ResolveCompletion(answers[T], answers[L], b \in checkedIn, Passed(deadlineAt[b]))
<1>1. CASE o.state = "PENDING"
  BY <1>1 DEF Resolve, LeavesCalendar
<1>2. CASE o.state # "PENDING"
  <2>1. ApplyResolution(b, o)
    BY <1>2 DEF Resolve
  <2>2. SetStatus(b, o.state)
    BY <2>1 DEF ApplyResolution, Settle
  <2>. QED  BY <2>2, SetStatusMoves
<1>. QED  BY <1>1, <1>2

\* A step moves the status of one booking through the trigger, sets or lifts
\* one block, or leaves the calendar alone; accepting a request declines others
\* but these held no nights.
LEMMA StepShape ==
  ASSUME TypeOK, [Next]_vars
  PROVE  \/ \E b \in Bookings : \E to : MovesOneBooking(b, to)
         \/ \E k \in Block : BlockDates(k) \/ UnblockDates(k)
         \/ LeavesCalendar
<1> DEFINE Shape == \/ \E b \in Bookings : \E to : MovesOneBooking(b, to)
                    \/ \E k \in Block : BlockDates(k) \/ UnblockDates(k)
                    \/ LeavesCalendar
<1>1. ASSUME NEW b \in Bookings, NEW instant \in BOOLEAN, RequestBooking(b, instant) PROVE Shape
  BY <1>1, SetStatusMoves DEF RequestBooking
<1>2. ASSUME NEW b \in Bookings, AcceptRequest(b) PROVE Shape
  <2>1. PICK to \in Targets(status[b], "ACCEPT_REQUEST", L) :
          /\ SyncOccupancy(b, to)
          /\ status' = [x \in Bookings |->
               IF x = b THEN to
               ELSE IF x \in Competing(b)
                 THEN CHOOSE s \in Targets(status[x], "DECLINE_REQUEST", L) : TRUE
               ELSE status[x]]
    BY <1>2 DEF AcceptRequest
  <2>2. ASSUME NEW x \in Competing(b)
        PROVE  ~StatusOccupies(status[x]) /\ ~StatusOccupies(status'[x])
    <3>1. status[x] \in {"REQUESTED", "OFFER_PENDING"} /\ x \in Bookings /\ x # b
      BY <2>2 DEF Competing
    <3>2. Targets(status[x], "DECLINE_REQUEST", L) = {"DECLINED"}
      BY <3>1, DeclineDeclines
    <3>3. status'[x] = "DECLINED"
      BY <2>1, <2>2, <3>1, <3>2
    <3>. QED  BY <3>1, <3>3 DEF StatusOccupies
  <2>3. \A x \in Bookings \ {b} : StatusOccupies(status'[x]) <=> StatusOccupies(status[x])
    BY <2>1, <2>2
  <2>4. MovesOneBooking(b, to)
    BY <1>2, <2>1, <2>3 DEF MovesOneBooking, AcceptRequest
  <2>. QED  BY <2>4
<1>3. ASSUME NEW b \in Bookings, NEW event, NEW actor, SimpleTransition(b, event, actor) PROVE Shape
  BY <1>3, SetStatusMoves DEF SimpleTransition
<1>4. ASSUME NEW b \in Bookings, CheckOut(b) PROVE Shape
  BY <1>4, SetStatusMoves DEF CheckOut
<1>5. ASSUME NEW b \in Bookings, NEW actor \in Party, NEW given \in Answer,
             ConfirmCompletion(b, actor, given) PROVE Shape
  BY <1>5, ResolveShape DEF ConfirmCompletion
<1>6. ASSUME NEW b \in Bookings, NEW actor \in Party, NEW c \in Case,
             OpenDispute(b, actor, c) PROVE Shape
  BY <1>6, SetStatusMoves DEF OpenDispute
<1>7. ASSUME NEW b \in Bookings, NEW event, ResolveDispute(b, event) PROVE Shape
  BY <1>7, SetStatusMoves DEF ResolveDispute, Settle
<1>8. ASSUME NEW c \in Case, NEW action, ActOnCase(c, action) PROVE Shape
  BY <1>8 DEF ActOnCase, LeavesCalendar
<1>9. ASSUME NEW p \in Property, NEW u \in User, StartConversation(p, u) PROVE Shape
  BY <1>9 DEF StartConversation, LeavesCalendar
<1>10. ASSUME NEW job \in Job, SweepRead(job) PROVE Shape
  BY <1>10 DEF SweepRead, LeavesCalendar
<1>11. ASSUME NEW b \in Bookings, ExpireStale(b) PROVE Shape
  BY <1>11, SetStatusMoves DEF ExpireStale, LeavesCalendar
<1>12. ASSUME NEW b \in Bookings, OpenCompletionWindow(b) PROVE Shape
  BY <1>12, SetStatusMoves DEF OpenCompletionWindow, LeavesCalendar
<1>13. ASSUME NEW b \in Bookings, ResolveExpiredCompletion(b) PROVE Shape
  BY <1>13, ResolveShape DEF ResolveExpiredCompletion, LeavesCalendar
<1>14. ASSUME SweepCrash \/ Tick \/ UNCHANGED vars PROVE Shape
  BY <1>14 DEF SweepCrash, Tick, vars, LeavesCalendar
<1>15. ASSUME NEW p \in Property, SetPublished(p) PROVE Shape
  BY <1>15 DEF SetPublished, LeavesCalendar
<1>16. ASSUME NEW k \in Block, BlockDates(k) \/ UnblockDates(k) PROVE Shape
  BY <1>16
<1>. HIDE DEF Shape
<1>17. Shape
  <2>1. CASE \E b \in Bookings :
               \/ \E instant \in BOOLEAN : RequestBooking(b, instant)
               \/ AcceptRequest(b) \/ CheckOut(b)
               \/ \E actor \in Party, given \in Answer : ConfirmCompletion(b, actor, given)
               \/ \E actor \in Party, c \in Case : OpenDispute(b, actor, c)
               \/ \E event \in DisputeOutcome : ResolveDispute(b, event)
               \/ ExpireStale(b) \/ OpenCompletionWindow(b) \/ ResolveExpiredCompletion(b)
    BY <2>1, <1>1, <1>2, <1>4, <1>5, <1>6, <1>7, <1>11, <1>12, <1>13
  <2>2. CASE \E b \in Bookings : \/ DeclineRequest(b) \/ Withdraw(b) \/ CancelByTenant(b)
                                 \/ CancelByLandlord(b) \/ CheckIn(b)
    BY <2>2, <1>3 DEF DeclineRequest, Withdraw, CancelByTenant, CancelByLandlord, CheckIn
  <2>3. CASE \E c \in Case, action \in DisputeAction : ActOnCase(c, action)
    BY <2>3, <1>8
  <2>4. CASE \/ \E k \in Block : BlockDates(k) \/ UnblockDates(k)
             \/ \E p \in Property, u \in User : StartConversation(p, u)
             \/ \E p \in Property : SetPublished(p)
             \/ \E job \in Job : SweepRead(job)
             \/ SweepCrash \/ Tick \/ UNCHANGED vars
    BY <2>4, <1>9, <1>10, <1>14, <1>15, <1>16
  <2>. QED
    BY <2>1, <2>2, <2>3, <2>4 DEF Next
<1>. QED  BY <1>17 DEF Shape

-----------------------------------------------------------------------------
\* PRIMARY KEY (property_id, night) of property_occupancy.
PrimaryKey == \A x, y \in occupancy : x.night = y.night => x = y

\* The inductive invariant of the calendar.
CalendarInv == OccupancyExact /\ PrimaryKey

LEMMA RowsOwned ==
  /\ \A b \in Bookings : \A row \in BookingRows(b) : row.claimant = b
  /\ \A k \in Block : \A row \in BlockRows(k) : row.claimant = k
  BY DEF BookingRows, BlockRows, Rows

\* Two rows of one claimant for the same night are the same row.
LEMMA RowsDistinct ==
  /\ \A b \in Bookings : \A x, y \in BookingRows(b) : x.night = y.night => x = y
  /\ \A k \in Block : \A x, y \in BlockRows(k) : x.night = y.night => x = y
  BY DEF BookingRows, BlockRows, Rows

LEMMA CalendarInit == Init => CalendarInv
<1> SUFFICES ASSUME Init PROVE CalendarInv
  OBVIOUS
<1>1. Holding = {}
  BY DEF Init, Holding, StatusOccupies
<1>2. occupancy = {} /\ blocks = {}
  BY DEF Init
<1>. QED  BY <1>1, <1>2 DEF CalendarInv, OccupancyExact, PrimaryKey

\* Moving one booking through the trigger keeps the table exact and its key.
LEMMA CalendarMove ==
  ASSUME TypeOK, CalendarInv, NEW b \in Bookings, NEW to, MovesOneBooking(b, to)
  PROVE  CalendarInv'
<1>1. \A row : row \in occupancy <=> \/ \E x \in Holding : row \in BookingRows(x)
                                     \/ \E k \in blocks : row \in BlockRows(k)
  BY DEF CalendarInv, OccupancyExact
<1>2. blocks' = blocks /\ blocks \subseteq Block /\ Bookings \cap Block = {}
  BY BookingAssumption DEF TypeOK, MovesOneBooking
<1>3. /\ Holding \subseteq Bookings /\ Holding' \subseteq Bookings
      /\ b \in Holding <=> StatusOccupies(status[b])
      /\ b \in Holding' <=> StatusOccupies(to)
      /\ \A x \in Bookings \ {b} : x \in Holding' <=> x \in Holding
  BY DEF MovesOneBooking, Holding
<1>4. \A row : row \in occupancy' <=> \/ \E x \in Holding' : row \in BookingRows(x)
                                      \/ \E k \in blocks : row \in BlockRows(k)
  <2>1. CASE b \in Holding /\ b \notin Holding'
    <3>1. occupancy' = { row \in occupancy : row.claimant # b }
      BY <1>3, <2>1 DEF MovesOneBooking, SyncOccupancy
    <3>2. \A row : /\ \A x \in Bookings \ {b} : row \in BookingRows(x) => row.claimant # b
                   /\ \A k \in blocks : row \in BlockRows(k) => row.claimant # b
                   /\ row \in BookingRows(b) => row.claimant = b
      BY <1>2, RowsOwned
    <3>. QED  BY <1>1, <1>3, <2>1, <3>1, <3>2
  <2>2. CASE b \notin Holding /\ b \in Holding'
    <3>1. occupancy' = occupancy \cup BookingRows(b)
      BY <1>3, <2>2 DEF MovesOneBooking, SyncOccupancy
    <3>. QED  BY <1>1, <1>3, <2>2, <3>1
  <2>3. CASE b \in Holding <=> b \in Holding'
    <3>1. occupancy' = occupancy
      BY <1>3, <2>3 DEF MovesOneBooking, SyncOccupancy
    <3>. QED  BY <1>1, <1>3, <2>3, <3>1
  <2>. QED  BY <2>1, <2>2, <2>3
<1>5. OccupancyExact'
  BY <1>2, <1>4 DEF OccupancyExact
<1>6. PrimaryKey'
  <2>1. CASE occupancy' \subseteq occupancy
    BY <2>1 DEF CalendarInv, PrimaryKey
  <2>2. CASE occupancy' = occupancy \cup BookingRows(b) /\ NightsFree(BookingRows(b))
    BY <2>2, RowsDistinct DEF CalendarInv, PrimaryKey, NightsFree
  <2>. QED  BY <2>1, <2>2 DEF MovesOneBooking, SyncOccupancy
<1>. QED  BY <1>5, <1>6 DEF CalendarInv

\* So does setting or lifting a block.
LEMMA CalendarBlock ==
  ASSUME TypeOK, CalendarInv, NEW k \in Block, BlockDates(k) \/ UnblockDates(k)
  PROVE  CalendarInv'
<1>1. \A row : row \in occupancy <=> \/ \E x \in Holding : row \in BookingRows(x)
                                     \/ \E j \in blocks : row \in BlockRows(j)
  BY DEF CalendarInv, OccupancyExact
<1>2. /\ Holding' = Holding /\ Holding \subseteq Bookings
      /\ blocks \subseteq Block /\ Bookings \cap Block = {}
  BY BookingAssumption DEF TypeOK, BlockDates, UnblockDates, Holding
<1>3. \A row : row \in occupancy' <=> \/ \E x \in Holding : row \in BookingRows(x)
                                      \/ \E j \in blocks' : row \in BlockRows(j)
  <2>1. CASE BlockDates(k)
    BY <1>1, <2>1 DEF BlockDates
  <2>2. CASE UnblockDates(k)
    <3>1. occupancy' = { row \in occupancy : row.claimant # k } /\ blocks' = blocks \ {k}
      BY <2>2 DEF UnblockDates
    <3>2. \A row : /\ \A x \in Holding : row \in BookingRows(x) => row.claimant # k
                   /\ \A j \in blocks \ {k} : row \in BlockRows(j) => row.claimant # k
                   /\ row \in BlockRows(k) => row.claimant = k
      BY <1>2, RowsOwned
    <3>. QED  BY <1>1, <3>1, <3>2
  <2>. QED  BY <2>1, <2>2
<1>4. OccupancyExact'
  BY <1>2, <1>3 DEF OccupancyExact
<1>5. PrimaryKey'
  <2>1. CASE BlockDates(k)
    BY <2>1, RowsDistinct DEF BlockDates, CalendarInv, PrimaryKey, NightsFree
  <2>2. CASE UnblockDates(k)
    BY <2>2 DEF UnblockDates, CalendarInv, PrimaryKey
  <2>. QED  BY <2>1, <2>2
<1>. QED  BY <1>4, <1>5 DEF CalendarInv

LEMMA CalendarNext == TypeOK /\ CalendarInv /\ [Next]_vars => CalendarInv'
<1> SUFFICES ASSUME TypeOK, CalendarInv, [Next]_vars PROVE CalendarInv'
  OBVIOUS
<1>1. CASE LeavesCalendar
  BY <1>1 DEF LeavesCalendar, CalendarInv, OccupancyExact, PrimaryKey, Holding
<1>. QED  BY <1>1, StepShape, CalendarMove, CalendarBlock

\* The occupancy table always holds exactly the nights of the bookings that
\* occupy the calendar and of the blocks.
THEOREM OccupancyIsExact == Spec => []OccupancyExact
<1>1. CalendarInv => OccupancyExact
  BY DEF CalendarInv
<1>. QED  BY <1>1, CalendarInit, CalendarNext, TypeInit, TypeNext, PTL DEF Spec

\* Overlapping periods share a night, so their rows collide on the key.
LEMMA OverlapSharesNight ==
  ASSUME NEW x, NEW y, x.from \in Nat, x.to \in Nat, y.from \in Nat, y.to \in Nat, Overlap(x, y),
         NEW c, NEW d
  PROVE  \E r \in Rows(c, x), q \in Rows(d, y) : r.night = q.night
<1> DEFINE n == IF x.from <= y.from THEN y.from ELSE x.from
<1>1. n \in x.from .. (x.to - 1) /\ n \in y.from .. (y.to - 1) /\ x.property = y.property
  BY DEF Overlap
<1> DEFINE r == [night |-> <<x.property, n>>, claimant |-> c]
           q == [night |-> <<y.property, n>>, claimant |-> d]
<1>2. r \in Rows(c, x) /\ q \in Rows(d, y) /\ r.night = q.night
  BY <1>1 DEF Rows
<1>. QED  BY <1>2

LEMMA ExactMeansExclusive == TypeOK /\ CalendarInv => NoDoubleBooking
<1> SUFFICES ASSUME TypeOK, CalendarInv PROVE NoDoubleBooking
  OBVIOUS
<1>1. ASSUME NEW b \in Holding, NEW d \in Holding, b # d, Overlap(Request[b], Request[d])
      PROVE  FALSE
  <2>1. b \in Bookings /\ d \in Bookings
    BY DEF Holding
  <2>2. PICK r \in BookingRows(b), q \in BookingRows(d) : r.night = q.night
    <3>1. /\ Request[b].from \in Nat /\ Request[b].to \in Nat
          /\ Request[d].from \in Nat /\ Request[d].to \in Nat
      BY <2>1, BookingAssumption
    <3>. QED  BY <1>1, <3>1, OverlapSharesNight DEF BookingRows
  <2>3. r \in occupancy /\ q \in occupancy
    BY <1>1 DEF CalendarInv, OccupancyExact
  <2>. QED  BY <1>1, <2>1, <2>2, <2>3, RowsOwned DEF CalendarInv, PrimaryKey
<1>2. ASSUME NEW b \in Holding, NEW k \in blocks, Overlap(Request[b], Period[k])
      PROVE  FALSE
  <2>1. b \in Bookings /\ k \in Block /\ b # k
    BY BookingAssumption DEF Holding, TypeOK
  <2>2. PICK r \in BookingRows(b), q \in BlockRows(k) : r.night = q.night
    BY <1>2, <2>1, OverlapSharesNight, BookingAssumption DEF BookingRows, BlockRows
  <2>3. r \in occupancy /\ q \in occupancy
    BY <1>2 DEF CalendarInv, OccupancyExact
  <2>. QED  BY <2>1, <2>2, <2>3, RowsOwned DEF CalendarInv, PrimaryKey
<1>. QED  BY <1>1, <1>2 DEF NoDoubleBooking

\* No night of a property is ever sold twice, or sold under a block.
THEOREM NeverDoubleBooked == Spec => []NoDoubleBooking
  BY CalendarInit, CalendarNext, TypeInit, TypeNext, ExactMeansExclusive, PTL DEF Spec
-----------------------------------------------------------------------------
(* The refinement of the abstract calendar.                                *)

FootprintOf == [c \in Bookings \cup Block |-> IF c \in Bookings THEN BookingRows(c)
                                              ELSE BlockRows(c)]

\* In an exact table the rows of a claimant are its whole footprint, so that
\* deleting by claimant and deleting the footprint are the same.
LEMMA ReleaseIsWhole ==
  ASSUME TypeOK, CalendarInv
  PROVE  /\ \A b \in Holding : /\ BookingRows(b) \subseteq occupancy
                               /\ { row \in occupancy : row.claimant # b }
                                    = occupancy \ BookingRows(b)
         /\ \A k \in blocks : /\ BlockRows(k) \subseteq occupancy
                              /\ { row \in occupancy : row.claimant # k }
                                   = occupancy \ BlockRows(k)
<1>1. Holding \subseteq Bookings /\ blocks \subseteq Block /\ Bookings \cap Block = {}
  BY BookingAssumption DEF Holding, TypeOK
<1>2. ASSUME NEW row \in occupancy
      PROVE  \/ \E x \in Holding : row \in BookingRows(x)
             \/ \E j \in blocks : row \in BlockRows(j)
  BY DEF CalendarInv, OccupancyExact
<1>3. ASSUME NEW b \in Holding
      PROVE  \A row \in occupancy : row.claimant = b <=> row \in BookingRows(b)
  BY <1>1, <1>2, RowsOwned
<1>4. ASSUME NEW k \in blocks
      PROVE  \A row \in occupancy : row.claimant = k <=> row \in BlockRows(k)
  BY <1>1, <1>2, RowsOwned
<1>5. /\ \A b \in Holding : BookingRows(b) \subseteq occupancy
      /\ \A k \in blocks : BlockRows(k) \subseteq occupancy
  BY DEF CalendarInv, OccupancyExact
<1>6. \A b \in Holding : { row \in occupancy : row.claimant # b } = occupancy \ BookingRows(b)
  BY <1>3
<1>7. \A k \in blocks : { row \in occupancy : row.claimant # k } = occupancy \ BlockRows(k)
  BY <1>4
<1>. QED  BY <1>5, <1>6, <1>7

LEMMA CalendarStep ==
  TypeOK /\ CalendarInv /\ [Next]_vars => [AbstractCalendar!Next]_occupancy
<1> SUFFICES ASSUME TypeOK, CalendarInv, [Next]_vars
             PROVE  [AbstractCalendar!Next]_occupancy
  OBVIOUS
<1>1. /\ \A b \in Bookings : FootprintOf[b] = BookingRows(b)
      /\ \A k \in Block : FootprintOf[k] = BlockRows(k)
  BY BookingAssumption DEF FootprintOf
<1>2. ASSUME NEW b \in Bookings, NEW to, MovesOneBooking(b, to)
      PROVE  [AbstractCalendar!Next]_occupancy
  <2>1. CASE NightsFree(BookingRows(b)) /\ occupancy' = occupancy \cup BookingRows(b)
    <3>1. AbstractCalendar!Claim(b)
      BY <1>1, <2>1 DEF AbstractCalendar!Claim, NightsFree, FootprintOf
    <3>. QED  BY <3>1 DEF AbstractCalendar!Next
  <2>2. CASE b \in Holding /\ occupancy' = { row \in occupancy : row.claimant # b }
    <3>1. AbstractCalendar!Release(b)
      BY <1>1, <2>2, ReleaseIsWhole DEF AbstractCalendar!Release, FootprintOf
    <3>. QED  BY <3>1 DEF AbstractCalendar!Next
  <2>3. CASE UNCHANGED occupancy
    BY <2>3
  <2>. QED  BY <1>2, <2>1, <2>2, <2>3 DEF MovesOneBooking, SyncOccupancy, Holding
<1>3. ASSUME NEW k \in Block, BlockDates(k) \/ UnblockDates(k)
      PROVE  [AbstractCalendar!Next]_occupancy
  <2>1. CASE BlockDates(k)
    <3>1. AbstractCalendar!Claim(k)
      BY <1>1, <2>1 DEF AbstractCalendar!Claim, BlockDates, NightsFree, FootprintOf
    <3>. QED  BY <3>1 DEF AbstractCalendar!Next
  <2>2. CASE UnblockDates(k)
    <3>1. AbstractCalendar!Release(k)
      BY <1>1, <2>2, ReleaseIsWhole DEF AbstractCalendar!Release, UnblockDates, FootprintOf
    <3>. QED  BY <3>1 DEF AbstractCalendar!Next
  <2>. QED  BY <1>3, <2>1, <2>2
<1>4. ASSUME LeavesCalendar PROVE [AbstractCalendar!Next]_occupancy
  BY <1>4 DEF LeavesCalendar
<1>. QED  BY <1>2, <1>3, <1>4, StepShape

\* The service implements the abstract calendar: whatever it does, nights are
\* claimed and given back a whole stay at a time and never handed over.
THEOREM RefinesCalendar == Spec => ImplementsCalendar
<1>1. Init => AbstractCalendar!Init
  BY DEF Init, AbstractCalendar!Init
<1>. QED
  BY <1>1, CalendarInit, CalendarNext, TypeInit, TypeNext, CalendarStep, PTL
  DEF Spec, ImplementsCalendar, AbstractCalendar!Spec
-----------------------------------------------------------------------------
(* Settlement.                                                             *)

\* What the table of transitions promises: nothing leaves a terminal status, a
\* dispute is left by a ruling only, stays are settled by a verdict or a ruling
\* only, and the fee goes with COMPLETED.
LEMMA TableFacts ==
  \A r \in Transitions :
    /\ r.from \notin TerminalStates
    /\ r.from = "DISPUTED" <=> r.event \in DisputeOutcome
    /\ r.event \in DisputeOutcome => r.to \in TerminalStates
    /\ r.to \in {"COMPLETED", "NOT_TAKEN_PLACE"} => r.event \in DisputeOutcome \cup {"RESOLVE_COMPLETION"}
    /\ "ACCRUE_SERVICE_FEE" \in r.effects <=> r.to = "COMPLETED"
  BY DEF Transitions, Rule, TerminalStates, DisputeOutcome, CompleteEffects, ConfirmEffects,
         ReleaseEffects

\* An event that is neither a verdict nor a ruling leaves ended and disputed
\* bookings alone, and settles none.
LEMMA OrdinaryMove ==
  ASSUME NEW from, NEW event, NEW actor, NEW to \in Targets(from, event, actor),
         event \notin DisputeOutcome \cup {"RESOLVE_COMPLETION"}
  PROVE  /\ from \notin TerminalStates \cup {"DISPUTED"}
         /\ to \notin {"COMPLETED", "NOT_TAKEN_PLACE"}
<1>1. PICK r \in Transitions : r.from = from /\ r.event = event /\ r.to = to
  BY DEF Targets
<1>. QED  BY <1>1, TableFacts

\* What a step can do to the settlement of booking b: nothing...
NoFee(b) == (b \in fees' <=> b \in fees) /\ ledger'[b] = ledger[b]
SameStay(b) == answer'[b] = answer[b] /\ (b \in checkedIn' <=> b \in checkedIn)
Same(b) == status'[b] = status[b] /\ SameStay(b) /\ reason'[b] = reason[b] /\ NoFee(b)

\* ...move it on without settling it...
Advances(b) ==
  /\ status[b] \notin TerminalStates \cup {"DISPUTED"}
  /\ status'[b] \notin {"COMPLETED", "NOT_TAKEN_PLACE"}
  /\ reason'[b] = reason[b] /\ NoFee(b)

FeeFor(b, accrue) ==
  IF accrue THEN /\ b \in fees'
                 /\ ledger'[b] = IF b \in fees THEN ledger[b] ELSE ledger[b] + 1
  ELSE NoFee(b)

\* ...judge it by the answers...
JudgedAs(b, o) ==
  /\ status[b] = "COMPLETION_PENDING" /\ o.state # "PENDING"
  /\ status'[b] = o.state /\ reason'[b] = o.reason /\ FeeFor(b, o.accrueFee)
  /\ b \in checkedIn' <=> b \in checkedIn
Judged(b) ==
  JudgedAs(b, ResolveCompletion(answer'[b][T], answer'[b][L], b \in checkedIn,
                                Passed(deadlineAt[b])))

\* ...or rule on it.
Ruled(b) ==
  /\ status[b] = "DISPUTED" /\ status'[b] \in TerminalStates
  /\ reason'[b] = AdminDecision /\ SameStay(b) /\ FeeFor(b, status'[b] = "COMPLETED")

Fate(b) == Same(b) \/ Advances(b) \/ Judged(b) \/ Ruled(b)
-----------------------------------------------------------------------------
\* Settling one booking leaves the others alone.
LEMMA SettleFate ==
  ASSUME TypeOK, NEW d \in Bookings, NEW to, NEW accrue \in BOOLEAN, NEW why,
         Settle(d, to, accrue, why)
  PROVE  /\ status'[d] = to /\ reason'[d] = why /\ FeeFor(d, accrue)
         /\ \A b \in Bookings \ {d} :
              status'[b] = status[b] /\ reason'[b] = reason[b] /\ NoFee(b)
<1>1. /\ status' = [status EXCEPT ![d] = to] /\ reason' = [reason EXCEPT ![d] = why]
      /\ IF accrue THEN AccrueServiceFee(d) ELSE UNCHANGED <<fees, ledger>>
  BY DEF Settle, SetStatus
<1>2. FeeFor(d, accrue) /\ \A b \in Bookings \ {d} : NoFee(b)
  BY <1>1 DEF AccrueServiceFee, FeeFor, NoFee, TypeOK
<1>. QED  BY <1>1, <1>2 DEF TypeOK

\* A verdict on booking d, on the answers given so far.
LEMMA ResolveFate ==
  ASSUME TypeOK, NEW d \in Bookings, status[d] = "COMPLETION_PENDING",
         NEW answers \in [Party -> Answer \cup {NoAnswer}], Resolve(d, answers),
         answer' = [answer EXCEPT ![d] = answers], UNCHANGED checkedIn,
         NEW b \in Bookings
  PROVE  Fate(b)
<1> DEFINE o == ResolveCompletion(answers[T], answers[L], d \in checkedIn, Passed(deadlineAt[d]))
<1>1. answer'[d] = answers /\ (b # d => answer'[b] = answer[b])
  BY DEF TypeOK
<1>2. CASE o.state = "PENDING"
  <2>1. UNCHANGED <<status, settlementVars>>
    BY <1>2 DEF Resolve
  <2>. QED
    BY <1>1, <2>1 DEF Fate, Same, SameStay, NoFee, Advances, settlementVars, TerminalStates
<1>3. CASE o.state # "PENDING"
  <2>1. Settle(d, o.state, o.accrueFee, o.reason)
    BY <1>3 DEF Resolve, ApplyResolution
  <2>2. o.accrueFee \in BOOLEAN
    <3>1. answers[T] \in Answer \cup {NoAnswer} /\ answers[L] \in Answer \cup {NoAnswer}
      BY DEF Party
    <3>2. (d \in checkedIn) \in BOOLEAN /\ Passed(deadlineAt[d]) \in BOOLEAN
      BY DEF Passed
    <3>. QED  BY <1>3, <3>1, <3>2, OutcomeTyped
  <2>0. /\ status'[d] = o.state /\ reason'[d] = o.reason /\ FeeFor(d, o.accrueFee)
        /\ \A x \in Bookings \ {d} :
             status'[x] = status[x] /\ reason'[x] = reason[x] /\ NoFee(x)
    <3>. HIDE DEF o
    <3>. QED  BY <2>1, <2>2, SettleFate
  <2>3. CASE b = d
    <3>1. JudgedAs(d, o)
      <4>. HIDE DEF o
      <4>. QED  BY <1>3, <2>0 DEF JudgedAs
    <3>2. Judged(d)
      BY <1>1, <3>1 DEF Judged
    <3>. QED  BY <2>3, <3>2 DEF Fate
  <2>4. CASE b # d
    <3>1. status'[b] = status[b] /\ reason'[b] = reason[b] /\ NoFee(b)
      BY <2>0, <2>4
    <3>. QED  BY <1>1, <2>4, <3>1 DEF Fate, Same, SameStay
  <2>. QED  BY <2>3, <2>4
<1>. QED  BY <1>2, <1>3

\* A step by an ordinary event on booking d.
LEMMA MoveFate ==
  ASSUME TypeOK, NEW d \in Bookings, NEW event, NEW actor,
         event \notin DisputeOutcome \cup {"RESOLVE_COMPLETION"},
         NEW from, status[d] \in {from, "NONE"}, NEW to \in Targets(from, event, actor),
         SetStatus(d, to), UNCHANGED <<answer, settlementVars>>,
         \A x \in Bookings \ {d} : x \in checkedIn' <=> x \in checkedIn,
         NEW b \in Bookings
  PROVE  Fate(b)
<1>1. status' = [status EXCEPT ![d] = to]
  BY DEF SetStatus
<1>2. CASE b = d
  <2>1. /\ from \notin TerminalStates \cup {"DISPUTED"}
        /\ to \notin {"COMPLETED", "NOT_TAKEN_PLACE"}
    BY OrdinaryMove
  <2>2. Advances(d)
    BY <1>1, <2>1 DEF Advances, NoFee, settlementVars, TypeOK, TerminalStates
  <2>. QED  BY <1>2, <2>2 DEF Fate
<1>3. CASE b # d
  BY <1>1, <1>3 DEF Fate, Same, SameStay, NoFee, settlementVars, TypeOK
<1>. QED  BY <1>2, <1>3

LEMMA AllFates ==
  ASSUME TypeOK, [Next]_vars, NEW b \in Bookings
  PROVE  Fate(b)
<1> DEFINE Ordinary(event) == event \notin DisputeOutcome \cup {"RESOLVE_COMPLETION"}
<1>0. \A event \in {"REQUEST", "INSTANT_BOOK", "CHECK_OUT", "OPEN_DISPUTE", "EXPIRE",
                    "REACH_STAY_END", "DECLINE_REQUEST", "WITHDRAW", "CANCEL_BY_TENANT",
                    "CANCEL_BY_LANDLORD", "CHECK_IN", "ACCEPT_REQUEST"} : Ordinary(event)
  BY DEF DisputeOutcome
<1>1. ASSUME NEW d \in Bookings, NEW instant \in BOOLEAN, RequestBooking(d, instant) PROVE Fate(b)
  <2> DEFINE event == IF instant THEN "INSTANT_BOOK" ELSE "REQUEST"
  <2>1. PICK to \in Targets("INQUIRY", event, T) : SetStatus(d, to)
    BY <1>1 DEF RequestBooking
  <2>2. Ordinary(event) /\ status[d] = "NONE" /\ UNCHANGED <<answer, checkedIn, settlementVars>>
    BY <1>0, <1>1 DEF RequestBooking, stayVars
  <2>. HIDE DEF event
  <2>. QED  BY <2>1, <2>2, MoveFate
<1>2. ASSUME NEW d \in Bookings, AcceptRequest(d) PROVE Fate(b)
  <2>1. PICK to \in Targets(status[d], "ACCEPT_REQUEST", L) :
          status' = [x \in Bookings |->
               IF x = d THEN to
               ELSE IF x \in Competing(d)
                 THEN CHOOSE s \in Targets(status[x], "DECLINE_REQUEST", L) : TRUE
               ELSE status[x]]
    BY <1>2 DEF AcceptRequest
  <2>2. UNCHANGED <<answer, checkedIn, settlementVars>>
    BY <1>2 DEF AcceptRequest, stayVars
  <2>3. CASE b = d
    <3>1. /\ status[d] \notin TerminalStates \cup {"DISPUTED"}
          /\ to \notin {"COMPLETED", "NOT_TAKEN_PLACE"}
      BY <1>0, <2>1, OrdinaryMove
    <3>. QED  BY <2>1, <2>2, <2>3, <3>1 DEF Fate, Advances, NoFee, settlementVars
  <2>4. CASE b \in Competing(d)
    <3>1. status[b] \in {"REQUESTED", "OFFER_PENDING"} /\ b # d
      BY <2>4 DEF Competing
    <3>2. status'[b] = "DECLINED"
      BY <2>1, <2>4, <3>1, DeclineDeclines
    <3>. QED
      BY <2>2, <3>1, <3>2 DEF Fate, Advances, NoFee, settlementVars, TerminalStates
  <2>5. CASE b # d /\ b \notin Competing(d)
    BY <2>1, <2>2, <2>5 DEF Fate, Same, SameStay, NoFee, settlementVars
  <2>. QED  BY <2>3, <2>4, <2>5
<1>3. ASSUME NEW d \in Bookings, NEW event, NEW actor, Ordinary(event),
             SimpleTransition(d, event, actor) PROVE Fate(b)
  BY <1>3, MoveFate DEF SimpleTransition
<1>4. ASSUME NEW d \in Bookings, CheckOut(d) PROVE Fate(b)
  BY <1>0, <1>4, MoveFate DEF CheckOut, stayVars
<1>5. ASSUME NEW d \in Bookings, NEW actor \in Party, NEW given \in Answer,
             ConfirmCompletion(d, actor, given) PROVE Fate(b)
  <2> DEFINE answers == [answer[d] EXCEPT ![actor] = given]
  <2>1. /\ status[d] = "COMPLETION_PENDING" /\ Resolve(d, answers)
        /\ answer' = [answer EXCEPT ![d] = answers] /\ UNCHANGED checkedIn
    BY <1>5 DEF ConfirmCompletion
  <2>2. answers \in [Party -> Answer \cup {NoAnswer}]
    BY DEF TypeOK
  <2>. HIDE DEF answers
  <2>. QED  BY <2>1, <2>2, ResolveFate
<1>6. ASSUME NEW d \in Bookings, NEW actor \in Party, NEW c \in Case,
             OpenDispute(d, actor, c) PROVE Fate(b)
  <2>1. UNCHANGED <<answer, checkedIn, settlementVars>>
    BY <1>6 DEF OpenDispute, stayVars
  <2>2. CASE status[d] = "DISPUTED"
    <3>1. status' = [status EXCEPT ![d] = "DISPUTED"]
      BY <1>6, <2>2 DEF OpenDispute, SetStatus
    <3>. QED  BY <2>1, <2>2, <3>1 DEF Fate, Same, SameStay, NoFee, settlementVars, TypeOK
  <2>3. CASE status[d] # "DISPUTED"
    BY <1>0, <1>6, <2>1, <2>3, MoveFate DEF OpenDispute
  <2>. QED  BY <2>2, <2>3
<1>7. ASSUME NEW d \in Bookings, NEW event \in DisputeOutcome, ResolveDispute(d, event) PROVE Fate(b)
  <2>1. PICK t \in Transitions :
          /\ t.from = status[d] /\ t.event = event
          /\ Settle(d, t.to, "ACCRUE_SERVICE_FEE" \in t.effects, AdminDecision)
    BY <1>7 DEF ResolveDispute
  <2>2. /\ status[d] = "DISPUTED" /\ t.to \in TerminalStates
        /\ ("ACCRUE_SERVICE_FEE" \in t.effects) = (t.to = "COMPLETED")
    BY <2>1, TableFacts
  <2>3. /\ status'[d] = t.to /\ reason'[d] = AdminDecision /\ FeeFor(d, t.to = "COMPLETED")
        /\ \A x \in Bookings \ {d} :
             status'[x] = status[x] /\ reason'[x] = reason[x] /\ NoFee(x)
    <3> DEFINE accrue == "ACCRUE_SERVICE_FEE" \in t.effects
    <3>1. accrue \in BOOLEAN /\ Settle(d, t.to, accrue, AdminDecision)
      BY <2>1
    <3>2. accrue = (t.to = "COMPLETED")
      BY <2>2
    <3>3. /\ status'[d] = t.to /\ reason'[d] = AdminDecision /\ FeeFor(d, accrue)
          /\ \A x \in Bookings \ {d} :
               status'[x] = status[x] /\ reason'[x] = reason[x] /\ NoFee(x)
      <4>. HIDE DEF accrue
      <4>. QED  BY <3>1, SettleFate
    <3>. QED  BY <3>2, <3>3
  <2>4. UNCHANGED <<answer, checkedIn>>
    BY <1>7 DEF ResolveDispute, stayVars
  <2>. QED  BY <2>2, <2>3, <2>4 DEF Fate, Ruled, Same, SameStay
<1>8. ASSUME UNCHANGED <<status, answer, checkedIn, reason, fees, ledger>> PROVE Fate(b)
  BY <1>8 DEF Fate, Same, SameStay, NoFee
<1>9. ASSUME NEW d \in Bookings, ExpireStale(d) PROVE Fate(b)
  BY <1>0, <1>8, <1>9, MoveFate DEF ExpireStale, stayVars, settlementVars
<1>10. ASSUME NEW d \in Bookings, OpenCompletionWindow(d) PROVE Fate(b)
  BY <1>0, <1>8, <1>10, MoveFate DEF OpenCompletionWindow, stayVars, settlementVars
<1>11. ASSUME NEW d \in Bookings, ResolveExpiredCompletion(d) PROVE Fate(b)
  <2>1. UNCHANGED <<answer, checkedIn>>
    BY <1>11 DEF ResolveExpiredCompletion, stayVars
  <2>2. CASE status[d] = "COMPLETION_PENDING"
    <3>1. Resolve(d, answer[d]) /\ answer[d] \in [Party -> Answer \cup {NoAnswer}]
      BY <1>11, <2>2 DEF ResolveExpiredCompletion, TypeOK
    <3>2. answer' = [answer EXCEPT ![d] = answer[d]]
      BY <2>1 DEF TypeOK
    <3>. QED  BY <2>1, <2>2, <3>1, <3>2, ResolveFate
  <2>3. CASE status[d] # "COMPLETION_PENDING"
    BY <1>8, <1>11, <2>3 DEF ResolveExpiredCompletion, stayVars, settlementVars
  <2>. QED  BY <2>2, <2>3
<1>12. ASSUME NEW c \in Case, NEW action, ActOnCase(c, action) PROVE Fate(b)
  BY <1>8, <1>12 DEF ActOnCase, stayVars, settlementVars
<1>13. ASSUME NEW k \in Block, BlockDates(k) \/ UnblockDates(k) PROVE Fate(b)
  BY <1>8, <1>13 DEF BlockDates, UnblockDates, stayVars, settlementVars
<1>14. ASSUME NEW p \in Property, NEW u \in User, StartConversation(p, u) PROVE Fate(b)
  BY <1>8, <1>14 DEF StartConversation, stayVars, settlementVars
<1>15. ASSUME (\E p \in Property : SetPublished(p)) \/ (\E job \in Job : SweepRead(job))
                \/ SweepCrash \/ Tick \/ UNCHANGED vars PROVE Fate(b)
  BY <1>8, <1>15 DEF SetPublished, SweepRead, SweepCrash, Tick, vars, stayVars, settlementVars
<1>16. ASSUME NEW d \in Bookings, DeclineRequest(d) \/ Withdraw(d) \/ CancelByTenant(d)
                                 \/ CancelByLandlord(d) \/ CheckIn(d) PROVE Fate(b)
  BY <1>0, <1>3, <1>16
  DEF DeclineRequest, Withdraw, CancelByTenant, CancelByLandlord, CheckIn
<1>. HIDE DEF Ordinary
<1>. QED
  BY <1>1, <1>2, <1>4, <1>5, <1>6, <1>7, <1>9, <1>10, <1>11, <1>12, <1>13, <1>14, <1>15, <1>16
  DEF Next
-----------------------------------------------------------------------------
\* A fee goes with COMPLETED, and a stay that is completed is never completed
\* again: the fate of one booking in one step.
LEMMA FeeStep ==
  ASSUME TypeOK, FeeExactlyOnce, NEW b \in Bookings, Fate(b)
  PROVE  /\ b \in fees' <=> status'[b] = "COMPLETED"
         /\ ledger'[b] = IF status'[b] = "COMPLETED" THEN 1 ELSE 0
<1>. /\ b \in fees <=> status[b] = "COMPLETED"
     /\ ledger[b] = IF status[b] = "COMPLETED" THEN 1 ELSE 0
  BY DEF FeeExactlyOnce
<1>1. CASE Same(b)
  BY <1>1 DEF Same, NoFee
<1>2. CASE Advances(b)
  BY <1>2 DEF Advances, NoFee, TerminalStates
<1>3. CASE Judged(b)
  <2> DEFINE o == ResolveCompletion(answer'[b][T], answer'[b][L], b \in checkedIn,
                                    Passed(deadlineAt[b]))
  <2>1. JudgedAs(b, o)
    BY <1>3 DEF Judged
  <2>2. o.accrueFee \in BOOLEAN /\ (o.accrueFee <=> o.state = "COMPLETED")
    BY DEF ResolveCompletion, Outcome
  <2>. HIDE DEF o
  <2>. QED  BY <2>1, <2>2 DEF JudgedAs, FeeFor, NoFee
<1>4. CASE Ruled(b)
  BY <1>4 DEF Ruled, FeeFor, NoFee
<1>. QED  BY <1>1, <1>2, <1>3, <1>4 DEF Fate

LEMMA FeeInit == Init => FeeExactlyOnce
  BY DEF Init, FeeExactlyOnce

LEMMA FeeNext == TypeOK /\ FeeExactlyOnce /\ [Next]_vars => FeeExactlyOnce'
<1> SUFFICES ASSUME TypeOK, FeeExactlyOnce, [Next]_vars, NEW b \in Bookings
             PROVE  /\ b \in fees' <=> status'[b] = "COMPLETED"
                    /\ ledger'[b] = IF status'[b] = "COMPLETED" THEN 1 ELSE 0
  BY DEF FeeExactlyOnce
<1>1. Fate(b)
  BY AllFates
<1>. QED  BY <1>1, FeeStep

\* The fee of a completed stay, and of no other, is charged and booked in the
\* ledger exactly once, through answers, sweeps, disputes and rulings.
THEOREM FeesChargedOnce == Spec => []FeeExactlyOnce
  BY FeeInit, FeeNext, TypeInit, TypeNext, PTL DEF Spec

\* What a verdict rests on.
RestsOnEvidence(o, tenant, landlord, hasCheckIn, passed) ==
  /\ o.accrueFee \in BOOLEAN
  /\ o.state # "PENDING" /\ o.accrueFee =>
       /\ tenant = TookPlace \/ landlord = TookPlace \/ hasCheckIn
       /\ tenant # DidNotTakePlace
  /\ o.state = "NOT_TAKEN_PLACE" /\ landlord = NoAnswer =>
       \/ tenant = DidNotTakePlace
       \/ tenant = NoAnswer /\ ~hasCheckIn
  /\ o.reason \in {"TENANT_CONFIRMED", "TENANT_DENIED", "LANDLORD_DENIED",
                   "CHECK_IN_RECORD", "NO_EVIDENCE"} => passed

LEMMA VerdictEvidence ==
  ASSUME NEW tenant \in Answer \cup {NoAnswer}, NEW landlord \in Answer \cup {NoAnswer},
         NEW hasCheckIn \in BOOLEAN, NEW passed \in BOOLEAN
  PROVE  RestsOnEvidence(ResolveCompletion(tenant, landlord, hasCheckIn, passed),
                         tenant, landlord, hasCheckIn, passed)
  BY DEF RestsOnEvidence, ResolveCompletion, Outcome, Answer, NoAnswer, TookPlace,
         DidNotTakePlace, NoSignal

\* ...instantiated for the verdict on a booking.
LEMMA JudgedEvidence ==
  ASSUME TypeOK, TypeOK', NEW b \in Bookings, Judged(b)
  PROVE  /\ b \in fees' /\ b \notin fees =>
              /\ answer'[b][T] = TookPlace \/ answer'[b][L] = TookPlace \/ b \in checkedIn'
              /\ answer'[b][T] # DidNotTakePlace
         /\ status'[b] = "NOT_TAKEN_PLACE" /\ answer'[b][L] = NoAnswer =>
              \/ answer'[b][T] = DidNotTakePlace
              \/ answer'[b][T] = NoAnswer /\ b \notin checkedIn'
         /\ reason'[b] \in {"TENANT_CONFIRMED", "TENANT_DENIED", "LANDLORD_DENIED",
                            "CHECK_IN_RECORD", "NO_EVIDENCE"} => Passed(deadlineAt[b])
<1> DEFINE tenant == answer'[b][T]
           landlord == answer'[b][L]
           checked == b \in checkedIn
           passed == Passed(deadlineAt[b])
           o == ResolveCompletion(tenant, landlord, checked, passed)
<1>1. tenant \in Answer \cup {NoAnswer} /\ landlord \in Answer \cup {NoAnswer}
  BY DEF TypeOK, Party
<1>2. checked \in BOOLEAN /\ passed \in BOOLEAN
  BY DEF Passed
<1>3. JudgedAs(b, o)
  BY DEF Judged
<1>4. RestsOnEvidence(o, tenant, landlord, checked, passed)
  <2>. HIDE DEF tenant, landlord, checked, passed
  <2>. QED  BY <1>1, <1>2, VerdictEvidence
<1>. HIDE DEF o
<1>. QED  BY <1>3, <1>4 DEF JudgedAs, FeeFor, NoFee, RestsOnEvidence

LEMMA EvidenceNext ==
  TypeOK /\ TypeOK' /\ FeeExactlyOnce /\ FeeNeedsEvidence /\ [Next]_vars => FeeNeedsEvidence'
<1> SUFFICES ASSUME TypeOK, TypeOK', FeeExactlyOnce, FeeNeedsEvidence, [Next]_vars,
                    NEW b \in fees', reason'[b] # AdminDecision
             PROVE  /\ answer'[b][T] = TookPlace \/ answer'[b][L] = TookPlace \/ b \in checkedIn'
                    /\ answer'[b][T] # DidNotTakePlace
  BY DEF FeeNeedsEvidence
<1>0. b \in Bookings
  BY DEF TypeOK
<1>1. CASE Same(b)
  BY <1>1 DEF Same, SameStay, NoFee, FeeNeedsEvidence
<1>2. CASE Advances(b)
  BY <1>0, <1>2 DEF Advances, NoFee, FeeExactlyOnce, TerminalStates
<1>3. CASE Judged(b)
  <2>1. b \notin fees
    BY <1>0, <1>3 DEF Judged, JudgedAs, FeeExactlyOnce
  <2>. QED  BY <1>0, <1>3, <2>1, JudgedEvidence
<1>4. CASE Ruled(b)
  BY <1>4 DEF Ruled
<1>. QED  BY <1>0, <1>1, <1>2, <1>3, <1>4, AllFates DEF Fate

LEMMA EvidenceInit == Init => FeeNeedsEvidence
  BY DEF Init, FeeNeedsEvidence

\* No fee is charged on a stay nobody vouched for or the tenant denied, unless
\* an administrator ruled so.
THEOREM FeesRestOnEvidence == Spec => []FeeNeedsEvidence
  BY EvidenceInit, EvidenceNext, FeeInit, FeeNext, TypeInit, TypeNext, PTL DEF Spec

LEMMA SilenceNext == TypeOK /\ TypeOK' /\ SilenceDoesNotPay /\ [Next]_vars => SilenceDoesNotPay'
<1> SUFFICES ASSUME TypeOK, TypeOK', SilenceDoesNotPay, [Next]_vars, NEW b \in Bookings,
                    status'[b] = "NOT_TAKEN_PLACE", reason'[b] # AdminDecision,
                    answer'[b][L] = NoAnswer
             PROVE  \/ answer'[b][T] = DidNotTakePlace
                    \/ answer'[b][T] = NoAnswer /\ b \notin checkedIn'
  BY DEF SilenceDoesNotPay
<1>1. CASE Same(b)
  BY <1>1 DEF Same, SameStay, SilenceDoesNotPay
<1>2. CASE Advances(b)
  BY <1>2 DEF Advances
<1>3. CASE Judged(b)
  BY <1>3, JudgedEvidence
<1>4. CASE Ruled(b)
  BY <1>4 DEF Ruled
<1>. QED  BY <1>1, <1>2, <1>3, <1>4, AllFates DEF Fate

LEMMA SilenceInit == Init => SilenceDoesNotPay
  BY DEF Init, SilenceDoesNotPay

\* A landlord cannot escape the fee by saying nothing.
THEOREM SilenceNeverPays == Spec => []SilenceDoesNotPay
  BY SilenceInit, SilenceNext, TypeInit, TypeNext, PTL DEF Spec

\* Without a ruling, what a stay ends in rests on the answers and the check-in.
THEOREM VerdictsRest == Spec => []VerdictsRestOnEvidence
  BY FeesRestOnEvidence, SilenceNeverPays, PTL DEF VerdictsRestOnEvidence

\* No late answer, stale sweep or case touches a booking that has ended.
THEOREM EndsAreFinal == Spec => EndedForGood
<1>1. TypeOK /\ [Next]_vars =>
        [\A b \in Bookings :
           status[b] \in TerminalStates =>
             /\ status'[b] = status[b]
             /\ answer'[b] = answer[b] /\ reason'[b] = reason[b]
             /\ b \in checkedIn' <=> b \in checkedIn]_vars
  <2> SUFFICES ASSUME TypeOK, [Next]_vars, NEW b \in Bookings, status[b] \in TerminalStates
               PROVE  /\ status'[b] = status[b]
                      /\ answer'[b] = answer[b] /\ reason'[b] = reason[b]
                      /\ b \in checkedIn' <=> b \in checkedIn
    OBVIOUS
  <2>1. Same(b)
    BY AllFates DEF Fate, Advances, Judged, JudgedAs, Ruled, TerminalStates
  <2>. QED  BY <2>1 DEF Same, SameStay
<1>. QED  BY <1>1, TypeInit, TypeNext, PTL DEF Spec, EndedForGood

\* An open dispute is left only by an administrator's ruling.
THEOREM DisputesFreeze == Spec => DisputeFreezes
<1>1. TypeOK /\ [Next]_vars =>
        [\A b \in Bookings :
           status[b] = "DISPUTED" =>
             \/ status'[b] = "DISPUTED" /\ answer'[b] = answer[b] /\ reason'[b] = reason[b]
             \/ status'[b] \in TerminalStates /\ reason'[b] = AdminDecision]_vars
  <2> SUFFICES ASSUME TypeOK, [Next]_vars, NEW b \in Bookings, status[b] = "DISPUTED"
               PROVE  \/ status'[b] = "DISPUTED" /\ answer'[b] = answer[b] /\ reason'[b] = reason[b]
                      \/ status'[b] \in TerminalStates /\ reason'[b] = AdminDecision
    OBVIOUS
  <2>1. Same(b) \/ Ruled(b)
    BY AllFates DEF Fate, Advances, Judged, JudgedAs
  <2>. QED  BY <2>1 DEF Same, SameStay, Ruled
<1>. QED  BY <1>1, TypeInit, TypeNext, PTL DEF Spec, DisputeFreezes
-----------------------------------------------------------------------------
(* The confirmation window.                                                *)

\* However a stay is closed, its deadline is the end of the full window after
\* its last night.
DeadlinesAreFull == \A b \in Bookings : deadlineAt[b] \in {NoTime, CompletionDeadline(b)}

\* What a step does to the clock and the deadlines.
LEMMA ClockStep ==
  ASSUME TypeOK, [Next]_vars
  PROVE  /\ today' >= today
         /\ \A b \in Bookings : deadlineAt'[b] \in {deadlineAt[b], CompletionDeadline(b)}
<1> DEFINE Kept == today' = today /\ deadlineAt' = deadlineAt
           Closes(b) == /\ today' = today
                        /\ \/ deadlineAt' = deadlineAt
                           \/ deadlineAt' = [deadlineAt EXCEPT ![b] = CompletionDeadline(b)]
                           \/ deadlineAt' = [deadlineAt EXCEPT ![b] =
                                IF @ = NoTime THEN CompletionDeadline(b) ELSE @]
           Goal == /\ today' >= today
                   /\ \A b \in Bookings : deadlineAt'[b] \in {deadlineAt[b], CompletionDeadline(b)}
<1>1. ASSUME Kept PROVE Goal
  BY <1>1 DEF TypeOK
<1>2. ASSUME NEW b \in Bookings, Closes(b) PROVE Goal
  BY <1>2 DEF TypeOK
<1>3. ASSUME Tick PROVE Goal
  BY <1>3 DEF Tick, clockVars, TypeOK
<1>4. ASSUME NEW b \in Bookings,
             \/ \E instant \in BOOLEAN : RequestBooking(b, instant)
             \/ AcceptRequest(b) \/ DeclineRequest(b) \/ Withdraw(b)
             \/ CancelByTenant(b) \/ CancelByLandlord(b) \/ CheckIn(b)
             \/ \E actor \in Party, given \in Answer : ConfirmCompletion(b, actor, given)
             \/ \E actor \in Party, c \in Case : OpenDispute(b, actor, c)
             \/ \E event \in DisputeOutcome : ResolveDispute(b, event)
             \/ ExpireStale(b) \/ ResolveExpiredCompletion(b)
      PROVE  Kept
  BY <1>4
  DEF RequestBooking, AcceptRequest, DeclineRequest, Withdraw, CancelByTenant, CancelByLandlord,
      CheckIn, SimpleTransition, ConfirmCompletion, OpenDispute, ResolveDispute, ExpireStale,
      ResolveExpiredCompletion, clockVars
<1>5. ASSUME NEW b \in Bookings, CheckOut(b) \/ OpenCompletionWindow(b) PROVE Closes(b)
  BY <1>5 DEF CheckOut, OpenCompletionWindow
<1>6. ASSUME \/ \E c \in Case, action \in DisputeAction : ActOnCase(c, action)
             \/ \E k \in Block : BlockDates(k) \/ UnblockDates(k)
             \/ \E p \in Property, u \in User : StartConversation(p, u)
             \/ \E p \in Property : SetPublished(p)
             \/ \E job \in Job : SweepRead(job)
             \/ SweepCrash \/ UNCHANGED vars
      PROVE  Kept
  BY <1>6 DEF ActOnCase, BlockDates, UnblockDates, StartConversation, SetPublished, SweepRead,
              SweepCrash, vars, clockVars
<1>. HIDE DEF Kept, Closes, Goal
<1>7. Goal
  BY <1>1, <1>2, <1>3, <1>4, <1>5, <1>6 DEF Next
<1>. QED  BY <1>7 DEF Goal

WindowInv == DeadlinesAreFull /\ SilenceGetsTheFullWindow

LEMMA WindowInit == Init => WindowInv
  BY DEF Init, WindowInv, DeadlinesAreFull, SilenceGetsTheFullWindow, NoReason

LEMMA WindowNext == TypeOK /\ TypeOK' /\ WindowInv /\ [Next]_vars => WindowInv'
<1> SUFFICES ASSUME TypeOK, TypeOK', WindowInv, [Next]_vars PROVE WindowInv'
  OBVIOUS
<1>1. DeadlinesAreFull'
  BY ClockStep DEF WindowInv, DeadlinesAreFull, CompletionDeadline
<1>2. ASSUME NEW b \in Bookings,
             reason'[b] \in {"TENANT_CONFIRMED", "TENANT_DENIED", "LANDLORD_DENIED",
                             "CHECK_IN_RECORD", "NO_EVIDENCE"}
      PROVE  today' >= CompletionDeadline(b)
  <2>1. today \in Nat /\ today' \in Nat /\ CompletionDeadline(b) \in Nat /\ today' >= today
    BY ClockStep, DeadlineTyped DEF TypeOK
  <2>2. CASE reason'[b] = reason[b]
    BY <1>2, <2>1, <2>2 DEF WindowInv, SilenceGetsTheFullWindow
  <2>3. CASE Judged(b)
    <3>1. Passed(deadlineAt[b])
      BY <1>2, <2>3, JudgedEvidence
    <3>. QED  BY <2>1, <3>1 DEF Passed, WindowInv, DeadlinesAreFull
  <2>4. CASE Ruled(b)
    BY <1>2, <2>4 DEF Ruled, AdminDecision
  <2>. QED  BY <2>2, <2>3, <2>4, AllFates DEF Fate, Same, Advances
<1>3. SilenceGetsTheFullWindow'
  BY <1>2 DEF SilenceGetsTheFullWindow, CompletionDeadline
<1>. QED  BY <1>1, <1>3 DEF WindowInv

\* Nobody's silence is held against them before the whole window is over.
THEOREM SilenceWaitsItsWindow == Spec => []SilenceGetsTheFullWindow
<1>1. WindowInv => SilenceGetsTheFullWindow
  BY DEF WindowInv
<1>. QED  BY <1>1, WindowInit, WindowNext, TypeInit, TypeNext, PTL DEF Spec
-----------------------------------------------------------------------------
(* The course of a booking: which rule of the table a step follows, and    *)
(* whether the sweep had listed the booking for it.                        *)

Unanswered == {"INQUIRY", "REQUESTED", "OFFER_PENDING"}

Stays(b) == status'[b] = status[b] /\ expiresAt'[b] = expiresAt[b]
Appears(b) == status[b] = "NONE" /\ status'[b] \in {"REQUESTED", "CONFIRMED"}

FollowsRule(b, event) ==
  /\ \E r \in Transitions : r.from = status[b] /\ r.event = event /\ r.to = status'[b]
  /\ event \notin {"REQUEST", "MAKE_OFFER", "COUNTER_OFFER"}
  /\ event = "EXPIRE" => <<"EXPIRE_REQUEST", b>> \in due
  /\ event = "REACH_STAY_END" => <<"STAY_END", b>> \in due
Moves(b) == \E event : FollowsRule(b, event)

\* What the table says of the rules that a step can follow: none leads back to
\* an unanswered request or away from what confirmation brought, and the clock
\* has its own events.
LEMMA RuleFacts ==
  \A r \in Transitions :
    /\ r.event \notin {"REQUEST", "MAKE_OFFER", "COUNTER_OFFER"} => r.to \notin Unanswered
    /\ r.from # "NONE" /\ r.to # "NONE"
    /\ r.to = "EXPIRED" => r.event = "EXPIRE" /\ r.from \in Unanswered
    /\ r.from = "CONFIRMED" /\ r.to = "COMPLETION_PENDING" => r.event = "REACH_STAY_END"
    /\ r.from \in { "CONFIRMED", "CHECKED_IN", "COMPLETION_PENDING", "DISPUTED", "COMPLETED",
                    "NOT_TAKEN_PLACE", "CANCELLED_BY_TENANT", "CANCELLED_BY_LANDLORD" } =>
         r.to \in { "CONFIRMED", "CHECKED_IN", "COMPLETION_PENDING", "DISPUTED", "COMPLETED",
                    "NOT_TAKEN_PLACE", "CANCELLED_BY_TENANT", "CANCELLED_BY_LANDLORD" }
  BY DEF Transitions, Rule, Unanswered

LEMMA RequestLeads ==
  /\ \A to \in Targets("INQUIRY", "REQUEST", T) : to = "REQUESTED"
  /\ \A to \in Targets("INQUIRY", "INSTANT_BOOK", T) : to = "CONFIRMED"
<1>1. \A r \in Transitions : /\ r.event = "REQUEST" => r.to = "REQUESTED"
                             /\ r.event = "INSTANT_BOOK" => r.to = "CONFIRMED"
  BY DEF Transitions, Rule
<1>. QED  BY <1>1 DEF Targets

\* A step by one event on booking d.
LEMMA MoveCourse ==
  ASSUME TypeOK, NEW d \in Bookings, NEW event, NEW actor,
         event \notin {"REQUEST", "MAKE_OFFER", "COUNTER_OFFER"},
         event = "EXPIRE" => <<"EXPIRE_REQUEST", d>> \in due,
         event = "REACH_STAY_END" => <<"STAY_END", d>> \in due,
         NEW to \in Targets(status[d], event, actor), SetStatus(d, to),
         \A x \in Bookings \ {d} : expiresAt'[x] = expiresAt[x],
         NEW b \in Bookings
  PROVE  Stays(b) \/ Moves(b)
<1>1. status' = [status EXCEPT ![d] = to]
  BY DEF SetStatus
<1>2. CASE b = d
  <2>1. FollowsRule(d, event)
    BY <1>1 DEF FollowsRule, Targets, TypeOK
  <2>. QED  BY <1>2, <2>1 DEF Moves
<1>3. CASE b # d
  BY <1>1, <1>3 DEF Stays, TypeOK
<1>. QED  BY <1>2, <1>3

LEMMA ResolveCourse ==
  ASSUME TypeOK, NEW d \in Bookings, NEW answers, Resolve(d, answers), UNCHANGED expiresAt,
         NEW b \in Bookings
  PROVE  Stays(b) \/ Moves(b)
<1> DEFINE o == ResolveCompletion(answers[T], answers[L], d \in checkedIn, Passed(deadlineAt[d]))
<1>1. CASE o.state = "PENDING"
  BY <1>1 DEF Resolve, Stays
<1>2. CASE o.state # "PENDING"
  <2>1. o.state \in Targets(status[d], "RESOLVE_COMPLETION", System) /\ SetStatus(d, o.state)
    BY <1>2 DEF Resolve, ApplyResolution, Settle
  <2>. HIDE DEF o
  <2>. QED  BY <2>1, MoveCourse
<1>. QED  BY <1>1, <1>2

\* Whatever happens to a booking, it appears as a request or as a confirmed
\* stay, stays as it is, or follows a rule of the table.
LEMMA CourseOfABooking ==
  ASSUME TypeOK, [Next]_vars, NEW b \in Bookings
  PROVE  Stays(b) \/ Appears(b) \/ Moves(b)
<1> DEFINE Goal == Stays(b) \/ Appears(b) \/ Moves(b)
<1>1. ASSUME NEW d \in Bookings, NEW instant \in BOOLEAN, RequestBooking(d, instant) PROVE Goal
  <2>1. PICK to \in Targets("INQUIRY", IF instant THEN "INSTANT_BOOK" ELSE "REQUEST", T) :
          /\ SetStatus(d, to)
          /\ expiresAt' = [expiresAt EXCEPT ![d] =
                             IF to = "REQUESTED" THEN today + RequestTTL ELSE NoTime]
    BY <1>1 DEF RequestBooking
  <2>2. to \in {"REQUESTED", "CONFIRMED"} /\ status[d] = "NONE"
    BY <1>1, <2>1, RequestLeads DEF RequestBooking
  <2>3. status' = [status EXCEPT ![d] = to]
    BY <2>1 DEF SetStatus
  <2>. QED  BY <2>1, <2>2, <2>3 DEF Appears, Stays, TypeOK
<1>2. ASSUME NEW d \in Bookings, AcceptRequest(d) PROVE Goal
  <2>1. PICK to \in Targets(status[d], "ACCEPT_REQUEST", L) :
          status' = [x \in Bookings |->
               IF x = d THEN to
               ELSE IF x \in Competing(d)
                 THEN CHOOSE s \in Targets(status[x], "DECLINE_REQUEST", L) : TRUE
               ELSE status[x]]
    BY <1>2 DEF AcceptRequest
  <2>2. expiresAt' = [expiresAt EXCEPT ![d] = NoTime]
    BY <1>2 DEF AcceptRequest
  <2>3. CASE b = d
    <3>1. FollowsRule(d, "ACCEPT_REQUEST")
      BY <2>1 DEF FollowsRule, Targets
    <3>. QED  BY <2>3, <3>1 DEF Moves
  <2>4. CASE b \in Competing(d)
    <3>1. status[b] \in {"REQUESTED", "OFFER_PENDING"} /\ b # d
      BY <2>4 DEF Competing
    <3>2. status'[b] \in Targets(status[b], "DECLINE_REQUEST", L)
      BY <2>1, <2>4, <3>1, DeclineDeclines
    <3>3. FollowsRule(b, "DECLINE_REQUEST")
      BY <3>2 DEF FollowsRule, Targets
    <3>. QED  BY <3>3 DEF Moves
  <2>5. CASE b # d /\ b \notin Competing(d)
    BY <2>1, <2>2, <2>5 DEF Stays, TypeOK
  <2>. QED  BY <2>3, <2>4, <2>5
<1>3. ASSUME NEW d \in Bookings,
             \/ DeclineRequest(d) \/ Withdraw(d) \/ CancelByTenant(d) \/ CancelByLandlord(d)
             \/ CheckIn(d)
      PROVE  Goal
  <2>1. PICK event \in {"DECLINE_REQUEST", "WITHDRAW", "CANCEL_BY_TENANT", "CANCEL_BY_LANDLORD",
                        "CHECK_IN"}, actor \in Party : SimpleTransition(d, event, actor)
    BY <1>3 DEF DeclineRequest, Withdraw, CancelByTenant, CancelByLandlord, CheckIn, Party
  <2>2. UNCHANGED expiresAt /\ \E to \in Targets(status[d], event, actor) : SetStatus(d, to)
    BY <2>1 DEF SimpleTransition, clockVars
  <2>. QED  BY <2>1, <2>2, MoveCourse
<1>4. ASSUME NEW d \in Bookings, CheckOut(d) PROVE Goal
  BY <1>4, MoveCourse DEF CheckOut
<1>5. ASSUME NEW d \in Bookings, NEW actor \in Party, NEW given \in Answer,
             ConfirmCompletion(d, actor, given) PROVE Goal
  BY <1>5, ResolveCourse DEF ConfirmCompletion, clockVars
<1>6. ASSUME NEW d \in Bookings, NEW actor \in Party, NEW c \in Case,
             OpenDispute(d, actor, c) PROVE Goal
  <2>1. UNCHANGED expiresAt
    BY <1>6 DEF OpenDispute, clockVars
  <2>2. CASE status[d] = "DISPUTED"
    BY <1>6, <2>1, <2>2 DEF OpenDispute, SetStatus, Stays, TypeOK
  <2>3. CASE status[d] # "DISPUTED"
    BY <1>6, <2>1, <2>3, MoveCourse DEF OpenDispute
  <2>. QED  BY <2>2, <2>3
<1>7. ASSUME NEW d \in Bookings, NEW event \in DisputeOutcome, ResolveDispute(d, event) PROVE Goal
  <2>1. PICK t \in Transitions : /\ t.from = status[d] /\ t.event = event
                                 /\ Admin \in t.actors /\ SetStatus(d, t.to)
    BY <1>7 DEF ResolveDispute, Settle
  <2>2. t.to \in Targets(status[d], event, Admin) /\ UNCHANGED expiresAt
    BY <1>7, <2>1 DEF Targets, ResolveDispute, clockVars
  <2>. QED  BY <2>1, <2>2, MoveCourse DEF DisputeOutcome
<1>8. ASSUME NEW d \in Bookings, ExpireStale(d) PROVE Goal
  <2>1. CASE status[d] \in {"INQUIRY", "REQUESTED", "OFFER_PENDING"}
    <3>1. PICK to \in Targets(status[d], "EXPIRE", System) : SetStatus(d, to)
      BY <1>8, <2>1 DEF ExpireStale
    <3>2. <<"EXPIRE_REQUEST", d>> \in due /\ expiresAt' = [expiresAt EXCEPT ![d] = NoTime]
      BY <1>8, <2>1 DEF ExpireStale, Take
    <3>3. \A x \in Bookings \ {d} : expiresAt'[x] = expiresAt[x]
      BY <3>2 DEF TypeOK
    <3>. QED  BY <3>1, <3>2, <3>3, MoveCourse
  <2>2. CASE status[d] \notin {"INQUIRY", "REQUESTED", "OFFER_PENDING"}
    BY <1>8, <2>2 DEF ExpireStale, Stays
  <2>. QED  BY <2>1, <2>2
<1>9. ASSUME NEW d \in Bookings, OpenCompletionWindow(d) PROVE Goal
  <2>1. <<"STAY_END", d>> \in due /\ UNCHANGED expiresAt
    BY <1>9 DEF OpenCompletionWindow, Take
  <2>2. CASE \E to \in Targets(status[d], "REACH_STAY_END", System) : SetStatus(d, to)
    BY <2>1, <2>2, MoveCourse
  <2>3. CASE UNCHANGED status
    BY <2>1, <2>3 DEF Stays
  <2>. QED  BY <1>9, <2>2, <2>3 DEF OpenCompletionWindow
<1>10. ASSUME NEW d \in Bookings, ResolveExpiredCompletion(d) PROVE Goal
  <2>1. UNCHANGED expiresAt
    BY <1>10 DEF ResolveExpiredCompletion, clockVars
  <2>. QED  BY <1>10, <2>1, ResolveCourse DEF ResolveExpiredCompletion, Stays
<1>11. ASSUME \/ \E c \in Case, action \in DisputeAction : ActOnCase(c, action)
              \/ \E k \in Block : BlockDates(k) \/ UnblockDates(k)
              \/ \E p \in Property, u \in User : StartConversation(p, u)
              \/ \E p \in Property : SetPublished(p)
              \/ \E job \in Job : SweepRead(job)
              \/ SweepCrash \/ Tick \/ UNCHANGED vars
       PROVE  Goal
  BY <1>11 DEF ActOnCase, BlockDates, UnblockDates, StartConversation, SetPublished, SweepRead,
               SweepCrash, Tick, vars, clockVars, Stays
<1>. HIDE DEF Goal
<1>12. Goal
  BY <1>1, <1>2, <1>3, <1>4, <1>5, <1>6, <1>7, <1>8, <1>9, <1>10, <1>11 DEF Next
<1>. QED  BY <1>12 DEF Goal
-----------------------------------------------------------------------------
(* The sweep and its lists.                                                *)

\* What the sweep has listed was due then, and the clock does not go back; a
\* request that is still unanswered has the deadline it was listed for.
ListsInv ==
  \A b \in Bookings :
    /\ <<"EXPIRE_REQUEST", b>> \in due =>
         status[b] # "NONE" /\ (status[b] \in Unanswered => Passed(expiresAt[b]))
    /\ <<"STAY_END", b>> \in due => Request[b].to <= today

\* A booking gets on a list only when it is due.
LEMMA ListStep ==
  ASSUME [Next]_vars, NEW job, NEW b
  PROVE  <<job, b>> \in due' =>
           \/ <<job, b>> \in due
           \/ b \in DueFor(job) /\ UNCHANGED <<today, status, expiresAt>>
<1> DEFINE Goal == <<job, b>> \in due' =>
                     \/ <<job, b>> \in due
                     \/ b \in DueFor(job) /\ UNCHANGED <<today, status, expiresAt>>
<1>1. ASSUME NEW d \in Bookings, ExpireStale(d) \/ OpenCompletionWindow(d) \/ ResolveExpiredCompletion(d)
      PROVE  Goal
  BY <1>1 DEF ExpireStale, OpenCompletionWindow, ResolveExpiredCompletion, Take
<1>2. ASSUME NEW j \in Job, SweepRead(j) PROVE Goal
  BY <1>2 DEF SweepRead, clockVars
<1>3. ASSUME SweepCrash PROVE Goal
  BY <1>3 DEF SweepCrash
<1>4. ASSUME UNCHANGED due PROVE Goal
  BY <1>4
<1>5. ASSUME NEW d \in Bookings,
             \/ \E instant \in BOOLEAN : RequestBooking(d, instant)
             \/ AcceptRequest(d) \/ DeclineRequest(d) \/ Withdraw(d)
             \/ CancelByTenant(d) \/ CancelByLandlord(d) \/ CheckIn(d) \/ CheckOut(d)
             \/ \E actor \in Party, given \in Answer : ConfirmCompletion(d, actor, given)
             \/ \E actor \in Party, c \in Case : OpenDispute(d, actor, c)
             \/ \E event \in DisputeOutcome : ResolveDispute(d, event)
      PROVE  UNCHANGED due
  BY <1>5 DEF RequestBooking, AcceptRequest, DeclineRequest, Withdraw, CancelByTenant,
              CancelByLandlord, CheckIn, SimpleTransition, CheckOut, ConfirmCompletion,
              OpenDispute, ResolveDispute
<1>6. ASSUME \/ \E c \in Case, action \in DisputeAction : ActOnCase(c, action)
             \/ \E k \in Block : BlockDates(k) \/ UnblockDates(k)
             \/ \E p \in Property, u \in User : StartConversation(p, u)
             \/ \E p \in Property : SetPublished(p)
             \/ Tick \/ UNCHANGED vars
      PROVE  UNCHANGED due
  BY <1>6 DEF ActOnCase, BlockDates, UnblockDates, StartConversation, SetPublished, Tick, vars
<1>. HIDE DEF Goal
<1>7. Goal
  BY <1>1, <1>2, <1>3, <1>4, <1>5, <1>6 DEF Next
<1>. QED  BY <1>7 DEF Goal

LEMMA ListsInit == Init => ListsInv
  BY DEF Init, ListsInv

LEMMA ListsNext == TypeOK /\ TypeOK' /\ ListsInv /\ [Next]_vars => ListsInv'
<1> SUFFICES ASSUME TypeOK, TypeOK', ListsInv, [Next]_vars, NEW b \in Bookings
             PROVE  /\ <<"EXPIRE_REQUEST", b>> \in due' =>
                         /\ status'[b] # "NONE"
                         /\ status'[b] \in Unanswered => Passed(expiresAt[b])'
                    /\ <<"STAY_END", b>> \in due' => Request[b].to <= today'
  BY DEF ListsInv
<1>1. today \in Nat /\ today' \in Nat /\ today' >= today /\ Request[b].to \in Nat
  BY ClockStep, BookingAssumption DEF TypeOK
<1>2. expiresAt[b] \in Nat \cup {NoTime} /\ expiresAt'[b] \in Nat \cup {NoTime}
  BY DEF TypeOK, Time
<1>3. /\ <<"EXPIRE_REQUEST", b>> \in due' =>
           status[b] # "NONE" /\ (status[b] \in Unanswered => Passed(expiresAt[b]))
      /\ <<"STAY_END", b>> \in due' => Request[b].to <= today
  BY ListStep DEF ListsInv, DueFor, Unanswered
<1>4. ASSUME <<"EXPIRE_REQUEST", b>> \in due'
      PROVE  status'[b] # "NONE" /\ (status'[b] \in Unanswered => Passed(expiresAt[b])')
  <2>1. CASE Stays(b)
    BY <1>1, <1>2, <1>3, <1>4, <2>1 DEF Stays, Passed, NoTime
  <2>2. CASE Moves(b)
    BY <2>2, RuleFacts DEF Moves, FollowsRule
  <2>. QED  BY <1>3, <1>4, <2>1, <2>2, CourseOfABooking DEF Appears
<1>. QED  BY <1>1, <1>3, <1>4

\* The clock acts when its time has come, on a list of any age: no request
\* expires before its window is over, no stay is closed before its last night.
THEOREM SweepIsOnTime == Spec => SweepActsOnTime
<1>1. TypeOK /\ ListsInv /\ [Next]_vars =>
        [\A b \in Bookings :
           /\ status[b] # "EXPIRED" /\ status'[b] = "EXPIRED" => Passed(expiresAt[b])
           /\ status[b] = "CONFIRMED" /\ status'[b] = "COMPLETION_PENDING" =>
                Request[b].to <= today]_vars
  <2> SUFFICES ASSUME TypeOK, ListsInv, [Next]_vars, NEW b \in Bookings
               PROVE  /\ status[b] # "EXPIRED" /\ status'[b] = "EXPIRED" => Passed(expiresAt[b])
                      /\ status[b] = "CONFIRMED" /\ status'[b] = "COMPLETION_PENDING" =>
                           Request[b].to <= today
    OBVIOUS
  <2>1. CASE Stays(b)
    BY <2>1 DEF Stays
  <2>2. CASE Appears(b)
    BY <2>2 DEF Appears
  <2>3. CASE Moves(b)
    BY <2>3, RuleFacts DEF Moves, FollowsRule, ListsInv
  <2>. QED  BY <2>1, <2>2, <2>3, CourseOfABooking
<1>. QED  BY <1>1, ListsInit, ListsNext, TypeInit, TypeNext, PTL DEF Spec, SweepActsOnTime
-----------------------------------------------------------------------------
(* Contacts.                                                               *)

\* A thread points at a booking of its own tenant and property.
ThreadsOwnTheirBookings ==
  \A th \in Property \X User :
    conversation[th].booking \in Bookings => Thread(conversation[th].booking) = th

ContactsInv == ReleaseNeedsConfirmation /\ ThreadsOwnTheirBookings

\* What was confirmed once stays a booking that was confirmed.
LEMMA ConfirmedOnce ==
  ASSUME TypeOK, [Next]_vars, NEW b \in Bookings, EverConfirmed(b)
  PROVE  EverConfirmed(b)'
<1>1. CASE Stays(b)
  BY <1>1 DEF Stays, EverConfirmed
<1>2. ~Appears(b)
  BY DEF Appears, EverConfirmed
<1>3. CASE Moves(b)
  BY <1>3, RuleFacts DEF Moves, FollowsRule, EverConfirmed
<1>. QED  BY <1>1, <1>2, <1>3, CourseOfABooking

\* How a step may touch the threads: a booking takes over its thread, and
\* releases it only if it is confirmed by then...
Upserts(b) ==
  \E released \in BOOLEAN : /\ EnsureConversation(b, released)
                            /\ released => EverConfirmed(b)'

\* ...or an accepted booking releases the threads that point at it...
Releases(b) ==
  /\ EverConfirmed(b)'
  /\ conversation' = [th \in Property \X User |->
       IF conversation[th].booking = b /\ conversation[th].release = "BLOCKED"
         THEN [conversation[th] EXCEPT !.release = "RELEASED"]
         ELSE conversation[th]]

\* ...or a first question opens one, and nothing else.
LEMMA ThreadStep ==
  ASSUME TypeOK, [Next]_vars
  PROVE  \/ \E b \in Bookings : Upserts(b) \/ Releases(b)
         \/ \E p \in Property, u \in User : StartConversation(p, u)
         \/ UNCHANGED conversation
<1> DEFINE Goal == \/ \E b \in Bookings : Upserts(b) \/ Releases(b)
                   \/ \E p \in Property, u \in User : StartConversation(p, u)
                   \/ UNCHANGED conversation
<1>1. ASSUME NEW b \in Bookings, NEW instant \in BOOLEAN, RequestBooking(b, instant) PROVE Goal
  <2>1. PICK to \in Targets("INQUIRY", IF instant THEN "INSTANT_BOOK" ELSE "REQUEST", T) :
          SetStatus(b, to) /\ EnsureConversation(b, BlocksCalendar(to))
    BY <1>1 DEF RequestBooking
  <2>2. status'[b] = to
    BY <2>1 DEF SetStatus, TypeOK
  <2>3. BlocksCalendar(to) \in BOOLEAN /\ (BlocksCalendar(to) => EverConfirmed(b)')
    BY <2>2 DEF BlocksCalendar, EverConfirmed
  <2>4. Upserts(b)
    BY <2>1, <2>3 DEF Upserts
  <2>. QED  BY <2>4
<1>2. ASSUME NEW b \in Bookings, AcceptRequest(b) PROVE Goal
  <2>1. status'[b] \in Targets(status[b], "ACCEPT_REQUEST", L)
    BY <1>2 DEF AcceptRequest
  <2>2. \A r \in Transitions : r.event = "ACCEPT_REQUEST" => r.to = "CONFIRMED"
    BY DEF Transitions, Rule
  <2>3. EverConfirmed(b)'
    BY <2>1, <2>2 DEF Targets, EverConfirmed
  <2>4. Releases(b)
    BY <1>2, <2>3 DEF AcceptRequest, Releases
  <2>. QED  BY <2>4
<1>3. ASSUME NEW b \in Bookings,
             \/ DeclineRequest(b) \/ Withdraw(b) \/ CancelByTenant(b) \/ CancelByLandlord(b)
             \/ CheckIn(b) \/ CheckOut(b)
             \/ \E actor \in Party, given \in Answer : ConfirmCompletion(b, actor, given)
             \/ \E actor \in Party, c \in Case : OpenDispute(b, actor, c)
             \/ \E event \in DisputeOutcome : ResolveDispute(b, event)
             \/ ExpireStale(b) \/ OpenCompletionWindow(b) \/ ResolveExpiredCompletion(b)
      PROVE  UNCHANGED conversation
  BY <1>3 DEF DeclineRequest, Withdraw, CancelByTenant, CancelByLandlord, CheckIn,
              SimpleTransition, CheckOut, ConfirmCompletion, OpenDispute, ResolveDispute,
              ExpireStale, OpenCompletionWindow, ResolveExpiredCompletion
<1>4. ASSUME \/ \E c \in Case, action \in DisputeAction : ActOnCase(c, action)
             \/ \E k \in Block : BlockDates(k) \/ UnblockDates(k)
             \/ \E p \in Property : SetPublished(p)
             \/ \E job \in Job : SweepRead(job)
             \/ SweepCrash \/ Tick \/ UNCHANGED vars
      PROVE  UNCHANGED conversation
  BY <1>4 DEF ActOnCase, BlockDates, UnblockDates, SetPublished, SweepRead, SweepCrash, Tick, vars
<1>5. ASSUME NEW p \in Property, NEW u \in User, StartConversation(p, u) PROVE Goal
  BY <1>5
<1>6. ASSUME UNCHANGED conversation PROVE Goal
  BY <1>6
<1>. HIDE DEF Goal
<1>7. Goal
  BY <1>1, <1>2, <1>3, <1>4, <1>5, <1>6 DEF Next
<1>. QED  BY <1>7 DEF Goal

LEMMA ContactsInit == Init => ContactsInv
  BY BookingAssumption DEF Init, ContactsInv, ReleaseNeedsConfirmation, ThreadsOwnTheirBookings

LEMMA ContactsNext == TypeOK /\ TypeOK' /\ ContactsInv /\ [Next]_vars => ContactsInv'
<1> SUFFICES ASSUME TypeOK, TypeOK', ContactsInv, [Next]_vars, NEW th \in Property \X User
             PROVE  /\ conversation'[th].release = "RELEASED" =>
                         \E b \in Bookings : Thread(b) = th /\ EverConfirmed(b)'
                    /\ conversation'[th].booking \in Bookings =>
                         Thread(conversation'[th].booking) = th
  BY DEF ContactsInv, ReleaseNeedsConfirmation, ThreadsOwnTheirBookings, Thread, PropertyOf, TenantOf
<1>1. /\ conversation[th].release = "RELEASED" =>
           \E b \in Bookings : Thread(b) = th /\ EverConfirmed(b)'
      /\ conversation[th].booking \in Bookings => Thread(conversation[th].booking) = th
  BY ConfirmedOnce DEF ContactsInv, ReleaseNeedsConfirmation, ThreadsOwnTheirBookings
<1>2. conversation \in [Property \X User ->
        [release : {"NONE", "BLOCKED", "RELEASED"}, booking : Bookings \cup {NoBooking}]]
  BY DEF TypeOK
<1>3. ASSUME NEW b \in Bookings, NEW released \in BOOLEAN,
             EnsureConversation(b, released), released => EverConfirmed(b)'
      PROVE  /\ conversation'[th].release = "RELEASED" =>
                  \E d \in Bookings : Thread(d) = th /\ EverConfirmed(d)'
             /\ conversation'[th].booking \in Bookings => Thread(conversation'[th].booking) = th
  <2>1. CASE th = Thread(b)
    <3>1. conversation'[th] = [release |-> IF released THEN "RELEASED"
                                 ELSE IF conversation[th].release = "NONE" THEN "BLOCKED"
                                 ELSE conversation[th].release,
                               booking |-> b]
      BY <1>2, <1>3, <2>1 DEF EnsureConversation
    <3>. QED  BY <1>1, <1>3, <2>1, <3>1
  <2>2. CASE th # Thread(b)
    <3>1. conversation'[th] = conversation[th]
      BY <1>2, <1>3, <2>2 DEF EnsureConversation
    <3>. QED  BY <1>1, <3>1
  <2>. QED  BY <2>1, <2>2
<1>4. ASSUME NEW b \in Bookings, Releases(b)
      PROVE  /\ conversation'[th].release = "RELEASED" =>
                  \E d \in Bookings : Thread(d) = th /\ EverConfirmed(d)'
             /\ conversation'[th].booking \in Bookings => Thread(conversation'[th].booking) = th
  <2>1. EverConfirmed(b)' /\
        conversation'[th] = IF conversation[th].booking = b /\ conversation[th].release = "BLOCKED"
                              THEN [conversation[th] EXCEPT !.release = "RELEASED"]
                              ELSE conversation[th]
    BY <1>4 DEF Releases
  <2>2. conversation'[th].booking = conversation[th].booking
    BY <1>2, <2>1
  <2>. QED  BY <1>1, <2>1, <2>2
<1>5. ASSUME NEW p \in Property, NEW u \in User, StartConversation(p, u)
      PROVE  conversation'[th].booking = conversation[th].booking
             /\ (conversation'[th].release = "RELEASED" => conversation[th].release = "RELEASED")
  BY <1>2, <1>5 DEF StartConversation
<1>6. CASE UNCHANGED conversation
  BY <1>1, <1>6
<1>. QED  BY <1>1, <1>3, <1>4, <1>5, <1>6, ThreadStep DEF Upserts

\* No tenant and landlord are given each other's contacts before a booking of
\* theirs has been confirmed, whatever threads and requests came before.
THEOREM ContactsNeedConfirmation == Spec => []ReleaseNeedsConfirmation
<1>1. ContactsInv => ReleaseNeedsConfirmation
  BY DEF ContactsInv
<1>. QED  BY <1>1, ContactsInit, ContactsNext, TypeInit, TypeNext, PTL DEF Spec
-----------------------------------------------------------------------------
(* The two promises the documents make and the runs refute: what is true   *)
(* of them.                                                                *)

\* A booking that exists has a thread, which points at a booking that exists;
\* when it points at a confirmed one, it is released.
ThreadsFollow ==
  \A b \in Bookings :
    status[b] # "NONE" =>
      /\ conversation[Thread(b)].booking \in Bookings
      /\ status[conversation[Thread(b)].booking] # "NONE"
      /\ conversation[Thread(b)].release # "NONE"
      /\ EverConfirmed(b) /\ conversation[Thread(b)].booking = b =>
           conversation[Thread(b)].release = "RELEASED"

ThreadsInv == ThreadsFollow /\ ThreadsOwnTheirBookings

\* A step on booking d by an event that confirms nothing confirms nothing, and
\* calls no booking into being.
LEMMA NoConfirmation ==
  ASSUME TypeOK, NEW d \in Bookings, NEW event, NEW actor,
         event \notin {"ACCEPT_REQUEST", "ACCEPT_OFFER", "INSTANT_BOOK"},
         NEW to \in Targets(status[d], event, actor), SetStatus(d, to),
         NEW b \in Bookings
  PROVE  (EverConfirmed(b)' => EverConfirmed(b)) /\ (status'[b] # "NONE" => status[b] # "NONE")
<1>1. \A r \in Transitions :
        /\ r.from # "NONE"
        /\ r.event \notin {"ACCEPT_REQUEST", "ACCEPT_OFFER", "INSTANT_BOOK"}
             /\ r.to \in { "CONFIRMED", "CHECKED_IN", "COMPLETION_PENDING", "DISPUTED", "COMPLETED",
                           "NOT_TAKEN_PLACE", "CANCELLED_BY_TENANT", "CANCELLED_BY_LANDLORD" } =>
           r.from \in { "CONFIRMED", "CHECKED_IN", "COMPLETION_PENDING", "DISPUTED", "COMPLETED",
                        "NOT_TAKEN_PLACE", "CANCELLED_BY_TENANT", "CANCELLED_BY_LANDLORD" }
  BY DEF Transitions, Rule
<1>2. status' = [status EXCEPT ![d] = to]
  BY DEF SetStatus
<1>3. PICK r \in Transitions : r.from = status[d] /\ r.event = event /\ r.to = to
  BY DEF Targets
<1>. QED  BY <1>1, <1>2, <1>3 DEF EverConfirmed, TypeOK

LEMMA ResolveConfirmsNothing ==
  ASSUME TypeOK, NEW d \in Bookings, NEW answers, Resolve(d, answers), NEW b \in Bookings
  PROVE  (EverConfirmed(b)' => EverConfirmed(b)) /\ (status'[b] # "NONE" => status[b] # "NONE")
<1> DEFINE o == ResolveCompletion(answers[T], answers[L], d \in checkedIn, Passed(deadlineAt[d]))
<1>1. CASE o.state = "PENDING"
  BY <1>1 DEF Resolve, EverConfirmed
<1>2. CASE o.state # "PENDING"
  <2>1. o.state \in Targets(status[d], "RESOLVE_COMPLETION", System) /\ SetStatus(d, o.state)
    BY <1>2 DEF Resolve, ApplyResolution, Settle
  <2>. HIDE DEF o
  <2>. QED  BY <2>1, NoConfirmation
<1>. QED  BY <1>1, <1>2

KeepsThreads == \/ \E p \in Property, u \in User : StartConversation(p, u)
                \/ UNCHANGED conversation
ConfirmsNothing ==
  \A b \in Bookings :
    (EverConfirmed(b)' => EverConfirmed(b)) /\ (status'[b] # "NONE" => status[b] # "NONE")

\* Only a request and an acceptance confirm a booking or move a thread.
LEMMA ConfirmationStep ==
  ASSUME TypeOK, [Next]_vars
  PROVE  \/ \E d \in Bookings, instant \in BOOLEAN : RequestBooking(d, instant)
         \/ \E d \in Bookings : AcceptRequest(d)
         \/ KeepsThreads /\ ConfirmsNothing
<1> DEFINE Goal == KeepsThreads /\ ConfirmsNothing
<1>1. ASSUME NEW d \in Bookings,
             \/ DeclineRequest(d) \/ Withdraw(d) \/ CancelByTenant(d) \/ CancelByLandlord(d)
             \/ CheckIn(d)
      PROVE  Goal
  <2>1. PICK event \in {"DECLINE_REQUEST", "WITHDRAW", "CANCEL_BY_TENANT", "CANCEL_BY_LANDLORD",
                        "CHECK_IN"}, actor \in Party : SimpleTransition(d, event, actor)
    BY <1>1 DEF DeclineRequest, Withdraw, CancelByTenant, CancelByLandlord, CheckIn, Party
  <2>2. UNCHANGED conversation /\ \E to \in Targets(status[d], event, actor) : SetStatus(d, to)
    BY <2>1 DEF SimpleTransition
  <2>. QED  BY <2>2, NoConfirmation DEF KeepsThreads, ConfirmsNothing
<1>2. ASSUME NEW d \in Bookings, CheckOut(d) PROVE Goal
  BY <1>2, NoConfirmation DEF CheckOut, KeepsThreads, ConfirmsNothing
<1>3. ASSUME NEW d \in Bookings, NEW actor \in Party, NEW given \in Answer,
             ConfirmCompletion(d, actor, given) PROVE Goal
  BY <1>3, ResolveConfirmsNothing DEF ConfirmCompletion, KeepsThreads, ConfirmsNothing
<1>4. ASSUME NEW d \in Bookings, NEW actor \in Party, NEW c \in Case, OpenDispute(d, actor, c)
      PROVE  Goal
  <2>1. UNCHANGED conversation
    BY <1>4 DEF OpenDispute
  <2>2. CASE status[d] = "DISPUTED"
    <3>1. status' = [status EXCEPT ![d] = "DISPUTED"]
      BY <1>4, <2>2 DEF OpenDispute, SetStatus
    <3>. QED  BY <2>1, <2>2, <3>1 DEF KeepsThreads, ConfirmsNothing, EverConfirmed, TypeOK
  <2>3. CASE status[d] # "DISPUTED"
    <3>1. PICK to \in Targets(status[d], "OPEN_DISPUTE", actor) : SetStatus(d, to)
      BY <1>4, <2>3 DEF OpenDispute
    <3>. QED  BY <2>1, <3>1, NoConfirmation DEF KeepsThreads, ConfirmsNothing
  <2>. QED  BY <2>2, <2>3
<1>5. ASSUME NEW d \in Bookings, NEW event \in DisputeOutcome, ResolveDispute(d, event) PROVE Goal
  <2>1. PICK r \in Transitions :
          /\ r.from = status[d] /\ r.event = event /\ Admin \in r.actors
          /\ Settle(d, r.to, "ACCRUE_SERVICE_FEE" \in r.effects, AdminDecision)
    BY <1>5 DEF ResolveDispute
  <2>2. r.to \in Targets(status[d], event, Admin) /\ SetStatus(d, r.to) /\ UNCHANGED conversation
    BY <1>5, <2>1 DEF Targets, Settle, ResolveDispute
  <2>. QED  BY <2>2, NoConfirmation DEF DisputeOutcome, KeepsThreads, ConfirmsNothing
<1>6. ASSUME NEW d \in Bookings, ExpireStale(d) PROVE Goal
  <2>1. UNCHANGED conversation
    BY <1>6 DEF ExpireStale
  <2>2. CASE \E to \in Targets(status[d], "EXPIRE", System) : SetStatus(d, to)
    BY <2>1, <2>2, NoConfirmation DEF KeepsThreads, ConfirmsNothing
  <2>3. CASE UNCHANGED status
    BY <2>1, <2>3 DEF KeepsThreads, ConfirmsNothing, EverConfirmed
  <2>. QED  BY <1>6, <2>2, <2>3 DEF ExpireStale
<1>7. ASSUME NEW d \in Bookings, OpenCompletionWindow(d) PROVE Goal
  <2>1. UNCHANGED conversation
    BY <1>7 DEF OpenCompletionWindow
  <2>2. CASE \E to \in Targets(status[d], "REACH_STAY_END", System) : SetStatus(d, to)
    BY <2>1, <2>2, NoConfirmation DEF KeepsThreads, ConfirmsNothing
  <2>3. CASE UNCHANGED status
    BY <2>1, <2>3 DEF KeepsThreads, ConfirmsNothing, EverConfirmed
  <2>. QED  BY <1>7, <2>2, <2>3 DEF OpenCompletionWindow
<1>8. ASSUME NEW d \in Bookings, ResolveExpiredCompletion(d) PROVE Goal
  <2>1. UNCHANGED conversation
    BY <1>8 DEF ResolveExpiredCompletion
  <2>2. CASE Resolve(d, answer[d])
    BY <2>1, <2>2, ResolveConfirmsNothing DEF KeepsThreads, ConfirmsNothing
  <2>3. CASE UNCHANGED status
    BY <2>1, <2>3 DEF KeepsThreads, ConfirmsNothing, EverConfirmed
  <2>. QED  BY <1>8, <2>2, <2>3 DEF ResolveExpiredCompletion
<1>9. ASSUME \/ \E c \in Case, action \in DisputeAction : ActOnCase(c, action)
             \/ \E k \in Block : BlockDates(k) \/ UnblockDates(k)
             \/ \E p \in Property, u \in User : StartConversation(p, u)
             \/ \E p \in Property : SetPublished(p)
             \/ \E job \in Job : SweepRead(job)
             \/ SweepCrash \/ Tick \/ UNCHANGED vars
      PROVE  Goal
  <2>1. UNCHANGED status
    BY <1>9 DEF ActOnCase, BlockDates, UnblockDates, StartConversation, SetPublished, SweepRead,
                SweepCrash, Tick, vars
  <2>2. KeepsThreads
    BY <1>9 DEF ActOnCase, BlockDates, UnblockDates, SetPublished, SweepRead, SweepCrash, Tick,
                vars, KeepsThreads
  <2>. QED  BY <2>1, <2>2 DEF ConfirmsNothing, EverConfirmed
<1>. HIDE DEF Goal
<1>10. \/ \E d \in Bookings, instant \in BOOLEAN : RequestBooking(d, instant)
       \/ \E d \in Bookings : AcceptRequest(d)
       \/ Goal
  BY <1>1, <1>2, <1>3, <1>4, <1>5, <1>6, <1>7, <1>8, <1>9 DEF Next
<1>. QED  BY <1>10 DEF Goal

\* A booking, once there, stays.
LEMMA BookingsStay ==
  ASSUME TypeOK, [Next]_vars, NEW b \in Bookings, status[b] # "NONE"
  PROVE  status'[b] # "NONE"
<1>1. CASE Stays(b)
  BY <1>1 DEF Stays
<1>2. CASE Moves(b)
  BY <1>2, RuleFacts DEF Moves, FollowsRule
<1>. QED  BY <1>1, <1>2, CourseOfABooking DEF Appears

LEMMA ThreadsInit == Init => ThreadsInv
  BY ContactsInit DEF Init, ThreadsInv, ThreadsFollow, ContactsInv

LEMMA ThreadsNext ==
  TypeOK /\ TypeOK' /\ ThreadsOwnTheirBookings' /\ ThreadsInv /\ [Next]_vars => ThreadsInv'
<1> DEFINE Kept(b) == /\ conversation'[Thread(b)].booking \in Bookings
                      /\ status'[conversation'[Thread(b)].booking] # "NONE"
                      /\ conversation'[Thread(b)].release # "NONE"
                      /\ EverConfirmed(b)' /\ conversation'[Thread(b)].booking = b =>
                           conversation'[Thread(b)].release = "RELEASED"
<1> SUFFICES ASSUME TypeOK, TypeOK', ThreadsInv, [Next]_vars, NEW b \in Bookings,
                    status'[b] # "NONE"
             PROVE  Kept(b)
  BY DEF ThreadsInv, ThreadsFollow, Thread, PropertyOf, TenantOf
<1>1. conversation \in [Property \X User ->
        [release : {"NONE", "BLOCKED", "RELEASED"}, booking : Bookings \cup {NoBooking}]]
  BY DEF TypeOK
<1>2. \A d \in Bookings : Thread(d) \in Property \X User
  BY BookingAssumption DEF Thread, PropertyOf, TenantOf
<1>3. status[b] # "NONE" =>
        /\ conversation[Thread(b)].booking \in Bookings
        /\ status'[conversation[Thread(b)].booking] # "NONE"
        /\ conversation[Thread(b)].release # "NONE"
        /\ EverConfirmed(b) /\ conversation[Thread(b)].booking = b =>
             conversation[Thread(b)].release = "RELEASED"
  BY BookingsStay DEF ThreadsInv, ThreadsFollow
<1>4. ASSUME NEW d \in Bookings, NEW instant \in BOOLEAN, RequestBooking(d, instant)
      PROVE  Kept(b)
  <2>1. PICK to \in Targets("INQUIRY", IF instant THEN "INSTANT_BOOK" ELSE "REQUEST", T) :
          SetStatus(d, to) /\ EnsureConversation(d, BlocksCalendar(to))
    BY <1>4 DEF RequestBooking
  <2>2. status' = [status EXCEPT ![d] = to] /\ to \in {"REQUESTED", "CONFIRMED"}
    BY <2>1, RequestLeads DEF SetStatus
  <2>3. status'[d] = to /\ (EverConfirmed(d)' => BlocksCalendar(to))
    BY <2>2 DEF EverConfirmed, BlocksCalendar, TypeOK
  <2>4. CASE Thread(b) = Thread(d)
    <3>1. conversation'[Thread(d)] =
            [release |-> IF BlocksCalendar(to) THEN "RELEASED"
                         ELSE IF conversation[Thread(d)].release = "NONE" THEN "BLOCKED"
                         ELSE conversation[Thread(d)].release,
             booking |-> d]
      BY <1>1, <1>2, <2>1 DEF EnsureConversation
    <3>2. conversation'[Thread(d)].release # "NONE" /\ conversation'[Thread(d)].booking = d
      BY <3>1
    <3>3. BlocksCalendar(to) => conversation'[Thread(d)].release = "RELEASED"
      BY <3>1
    <3>. QED  BY <2>2, <2>3, <2>4, <3>2, <3>3
  <2>5. CASE Thread(b) # Thread(d)
    <3>1. conversation'[Thread(b)] = conversation[Thread(b)]
      BY <1>1, <1>2, <2>1, <2>5 DEF EnsureConversation
    <3>2. status'[b] = status[b]
      BY <2>2, <2>5 DEF TypeOK
    <3>3. EverConfirmed(b)' <=> EverConfirmed(b)
      BY <3>2 DEF EverConfirmed
    <3>. QED  BY <1>3, <3>1, <3>2, <3>3
  <2>. QED  BY <2>4, <2>5
<1>5. ASSUME NEW d \in Bookings, AcceptRequest(d) PROVE Kept(b)
  <2>1. PICK to \in Targets(status[d], "ACCEPT_REQUEST", L) :
          status' = [x \in Bookings |->
               IF x = d THEN to
               ELSE IF x \in Competing(d)
                 THEN CHOOSE s \in Targets(status[x], "DECLINE_REQUEST", L) : TRUE
               ELSE status[x]]
    BY <1>5 DEF AcceptRequest
  <2>2. \A x \in Competing(d) : x \in Bookings \ {d} /\ status[x] # "NONE" /\ status'[x] = "DECLINED"
    <3> SUFFICES ASSUME NEW x \in Competing(d)
                 PROVE  x \in Bookings \ {d} /\ status[x] # "NONE" /\ status'[x] = "DECLINED"
      OBVIOUS
    <3>1. status[x] \in {"REQUESTED", "OFFER_PENDING"} /\ x \in Bookings /\ x # d
      BY DEF Competing
    <3>2. Targets(status[x], "DECLINE_REQUEST", L) = {"DECLINED"}
      BY <3>1, DeclineDeclines
    <3>. QED  BY <2>1, <3>1, <3>2
  <2>3. status[d] # "NONE"
    BY <2>1, RuleFacts DEF Targets
  <2>4. status[b] # "NONE" /\ (b # d /\ EverConfirmed(b)' => EverConfirmed(b))
    BY <2>1, <2>2, <2>3 DEF EverConfirmed
  <2>5. conversation'[Thread(b)] =
          IF conversation[Thread(b)].booking = d /\ conversation[Thread(b)].release = "BLOCKED"
            THEN [conversation[Thread(b)] EXCEPT !.release = "RELEASED"]
            ELSE conversation[Thread(b)]
    BY <1>2, <1>5 DEF AcceptRequest
  <2>6. conversation[Thread(b)].release \in {"NONE", "BLOCKED", "RELEASED"}
    BY <1>1, <1>2
  <2>7. /\ conversation'[Thread(b)].booking = conversation[Thread(b)].booking
        /\ conversation[Thread(b)].release = "RELEASED" => conversation'[Thread(b)].release = "RELEASED"
        /\ conversation[Thread(b)].release # "NONE" => conversation'[Thread(b)].release # "NONE"
        /\ conversation[Thread(b)].release # "NONE" /\ conversation[Thread(b)].booking = d =>
             conversation'[Thread(b)].release = "RELEASED"
    BY <1>1, <1>2, <2>5, <2>6
  <2>. QED  BY <1>3, <2>4, <2>7
<1>6. ASSUME KeepsThreads, ConfirmsNothing PROVE Kept(b)
  <2>1. status[b] # "NONE" /\ (EverConfirmed(b)' => EverConfirmed(b))
    BY <1>6 DEF ConfirmsNothing
  <2>2. conversation'[Thread(b)] = conversation[Thread(b)]
    <3>1. CASE UNCHANGED conversation
      BY <3>1
    <3>2. ASSUME NEW p \in Property, NEW u \in User, StartConversation(p, u)
          PROVE  conversation'[Thread(b)] = conversation[Thread(b)]
      <4>1. Thread(b) # <<p, u>>
        BY <1>3, <2>1, <3>2 DEF StartConversation
      <4>. QED  BY <1>1, <1>2, <3>2, <4>1 DEF StartConversation
    <3>. QED  BY <1>6, <3>1, <3>2 DEF KeepsThreads
  <2>. QED  BY <1>3, <2>1, <2>2
<1>. QED  BY <1>4, <1>5, <1>6, ConfirmationStep

\* Two bookings of one tenant on one property.
SharesItsThread(b) ==
  \E d \in Bookings \ {b} : Thread(d) = Thread(b) /\ status[d] # "NONE"

\* While a stay is confirmed its parties can exchange contact details, unless
\* that tenant asked for that property once more: the re-pointed thread is the
\* only way the promise that BookingContacts refutes can fail
\* (ensureConversation() in booking-service.ts).
THEOREM OnlyASecondRequestClosesContacts ==
  Spec => []((\A b \in Bookings : ~SharesItsThread(b)) => ConfirmedPartiesCanTalk)
<1>1. TypeOK /\ ThreadsInv =>
        ((\A b \in Bookings : ~SharesItsThread(b)) => ConfirmedPartiesCanTalk)
  <2> SUFFICES ASSUME TypeOK, ThreadsInv, \A b \in Bookings : ~SharesItsThread(b),
                      NEW b \in Bookings, status[b] = "CONFIRMED"
               PROVE  ContactsOpen(Thread(b))
    BY DEF ConfirmedPartiesCanTalk
  <2>1. /\ conversation[Thread(b)].booking \in Bookings
        /\ status[conversation[Thread(b)].booking] # "NONE"
        /\ EverConfirmed(b) /\ conversation[Thread(b)].booking = b =>
             conversation[Thread(b)].release = "RELEASED"
    BY DEF ThreadsInv, ThreadsFollow
  <2>2. Thread(b) \in Property \X User
    BY BookingAssumption DEF Thread, PropertyOf, TenantOf
  <2>3. Thread(conversation[Thread(b)].booking) = Thread(b)
    BY <2>1, <2>2 DEF ThreadsInv, ThreadsOwnTheirBookings
  <2>4. conversation[Thread(b)].booking = b
    BY <2>1, <2>3 DEF SharesItsThread
  <2>. QED  BY <2>1, <2>4, BookingAssumption DEF ContactsOpen, EverConfirmed, ContactExchangeAllowed
<1>2. TypeOK /\ TypeOK' /\ ContactsInv /\ ThreadsInv /\ [Next]_vars => ContactsInv' /\ ThreadsInv'
  BY ContactsNext, ThreadsNext DEF ContactsInv
<1>. QED  BY <1>1, <1>2, ContactsInit, ThreadsInit, TypeInit, TypeNext, PTL DEF Spec

\* A case that was opened belongs to its booking; an unused one to none.
CasesOpened == \A c \in Case : cases[c].booking \in Bookings => cases[c].status # "NONE"

DisputesHaveACase ==
  \A b \in Bookings :
    status[b] = "DISPUTED" => reason[b] = "CONTRADICTION" \/ \E c \in Case : cases[c].booking = b

\* No step takes a case away from its booking.
LEMMA CaseStep ==
  ASSUME TypeOK, CasesOpened, [Next]_vars
  PROVE  /\ CasesOpened'
         /\ \A c \in Case : cases[c].booking \in Bookings => cases'[c].booking = cases[c].booking
<1> DEFINE Goal == /\ CasesOpened'
                   /\ \A c \in Case :
                        cases[c].booking \in Bookings => cases'[c].booking = cases[c].booking
<1>1. cases \in [Case -> [booking : Bookings \cup {NoBooking}, status : CaseStatus \cup {"NONE"}]]
  BY DEF TypeOK
<1>2. ASSUME NEW d \in Bookings, NEW actor \in Party, NEW e \in Case, OpenDispute(d, actor, e)
      PROVE  Goal
  <2>1. CASE UNCHANGED cases
    BY <2>1 DEF CasesOpened
  <2>2. CASE /\ cases[e].status = "NONE"
             /\ cases' = [cases EXCEPT ![e] = [booking |-> d, status |-> "OPEN"]]
    <3>1. \A c \in Case : cases'[c] = IF c = e THEN [booking |-> d, status |-> "OPEN"] ELSE cases[c]
      BY <1>1, <2>2
    <3>. QED  BY <2>2, <3>1 DEF CasesOpened
  <2>. QED  BY <1>2, <2>1, <2>2 DEF OpenDispute
<1>3. ASSUME NEW e \in Case, NEW action \in DisputeAction, ActOnCase(e, action) PROVE Goal
  <2>1. PICK to \in CaseTargets(cases[e].status, action) :
          cases' = [cases EXCEPT ![e].status = to]
    BY <1>3 DEF ActOnCase
  <2>2. to # "NONE"
    <3>1. \A m \in DisputeTransitions : m.to # "NONE"
      BY DEF DisputeTransitions, Move, OpenCaseStatus, CaseStatus
    <3>. QED  BY <3>1 DEF CaseTargets
  <2>3. \A c \in Case : /\ cases'[c].booking = cases[c].booking
                        /\ cases'[c].status = IF c = e THEN to ELSE cases[c].status
    BY <1>1, <2>1
  <2>. QED  BY <2>2, <2>3 DEF CasesOpened
<1>4. ASSUME NEW b \in Bookings,
             \/ \E instant \in BOOLEAN : RequestBooking(b, instant)
             \/ AcceptRequest(b)
             \/ DeclineRequest(b) \/ Withdraw(b) \/ CancelByTenant(b) \/ CancelByLandlord(b)
             \/ CheckIn(b) \/ CheckOut(b)
             \/ \E actor \in Party, given \in Answer : ConfirmCompletion(b, actor, given)
             \/ \E event \in DisputeOutcome : ResolveDispute(b, event)
             \/ ExpireStale(b) \/ OpenCompletionWindow(b) \/ ResolveExpiredCompletion(b)
      PROVE  UNCHANGED cases
  BY <1>4 DEF RequestBooking, AcceptRequest, DeclineRequest, Withdraw, CancelByTenant,
              CancelByLandlord, CheckIn, SimpleTransition, CheckOut, ConfirmCompletion,
              ResolveDispute, ExpireStale, OpenCompletionWindow, ResolveExpiredCompletion
<1>5. ASSUME \/ \E k \in Block : BlockDates(k) \/ UnblockDates(k)
             \/ \E p \in Property, u \in User : StartConversation(p, u)
             \/ \E p \in Property : SetPublished(p)
             \/ \E job \in Job : SweepRead(job)
             \/ SweepCrash \/ Tick \/ UNCHANGED vars
      PROVE  UNCHANGED cases
  BY <1>5 DEF BlockDates, UnblockDates, StartConversation, SetPublished, SweepRead, SweepCrash,
              Tick, vars
<1>6. ASSUME UNCHANGED cases PROVE Goal
  BY <1>6 DEF CasesOpened
<1>. HIDE DEF Goal
<1>7. Goal
  BY <1>2, <1>3, <1>4, <1>5, <1>6 DEF Next
<1>. QED  BY <1>7 DEF Goal

\* A step on booking d by any other event disputes nothing.
LEMMA NoDispute ==
  ASSUME TypeOK, NEW d \in Bookings, NEW event, NEW actor,
         event \notin {"OPEN_DISPUTE", "RESOLVE_COMPLETION"},
         NEW to \in Targets(status[d], event, actor), SetStatus(d, to),
         NEW b \in Bookings, status'[b] = "DISPUTED"
  PROVE  status[b] = "DISPUTED"
<1>1. \A r \in Transitions : r.to = "DISPUTED" => r.event \in {"OPEN_DISPUTE", "RESOLVE_COMPLETION"}
  BY DEF Transitions, Rule
<1>2. to # "DISPUTED" /\ status' = [status EXCEPT ![d] = to]
  BY <1>1 DEF SetStatus, Targets
<1>. QED  BY <1>2 DEF TypeOK

\* A verdict disputes a stay for contradictory answers only.
LEMMA DisputedVerdict ==
  ASSUME TypeOK, NEW d \in Bookings, NEW answers, Resolve(d, answers),
         NEW b \in Bookings, status'[b] = "DISPUTED", status[b] # "DISPUTED"
  PROVE  reason'[b] = "CONTRADICTION"
<1> DEFINE o == ResolveCompletion(answers[T], answers[L], d \in checkedIn, Passed(deadlineAt[d]))
<1>1. o.state # "PENDING"
  BY DEF Resolve
<1>2. SetStatus(d, o.state) /\ reason' = [reason EXCEPT ![d] = o.reason]
  BY <1>1 DEF Resolve, ApplyResolution, Settle
<1>3. o.state = "DISPUTED" => o.reason = "CONTRADICTION"
  BY DEF ResolveCompletion, Outcome
<1>. HIDE DEF o
<1>. QED  BY <1>2, <1>3 DEF SetStatus, TypeOK

LEMMA DisputeStep ==
  ASSUME TypeOK, [Next]_vars, NEW b \in Bookings, status'[b] = "DISPUTED", status[b] # "DISPUTED"
  PROVE  \/ reason'[b] = "CONTRADICTION"
         \/ \E actor \in Party, c \in Case : OpenDispute(b, actor, c)
<1> DEFINE Goal == \/ reason'[b] = "CONTRADICTION"
                   \/ \E actor \in Party, c \in Case : OpenDispute(b, actor, c)
<1>1. ASSUME NEW d \in Bookings, NEW instant \in BOOLEAN, RequestBooking(d, instant) PROVE FALSE
  <2>1. PICK to \in Targets("INQUIRY", IF instant THEN "INSTANT_BOOK" ELSE "REQUEST", T) :
          SetStatus(d, to)
    BY <1>1 DEF RequestBooking
  <2>2. to # "DISPUTED" /\ status' = [status EXCEPT ![d] = to]
    BY <2>1, RequestLeads DEF SetStatus
  <2>. QED  BY <2>2 DEF TypeOK
<1>2. ASSUME NEW d \in Bookings, AcceptRequest(d) PROVE FALSE
  <2>1. PICK to \in Targets(status[d], "ACCEPT_REQUEST", L) :
          status' = [x \in Bookings |->
               IF x = d THEN to
               ELSE IF x \in Competing(d)
                 THEN CHOOSE s \in Targets(status[x], "DECLINE_REQUEST", L) : TRUE
               ELSE status[x]]
    BY <1>2 DEF AcceptRequest
  <2>2. to # "DISPUTED"
    <3>1. \A r \in Transitions : r.event = "ACCEPT_REQUEST" => r.to # "DISPUTED"
      BY DEF Transitions, Rule
    <3>. QED  BY <2>1, <3>1 DEF Targets
  <2>3. CASE b \in Competing(d)
    <3>1. status[b] \in {"REQUESTED", "OFFER_PENDING"} /\ b # d
      BY <2>3 DEF Competing
    <3>2. Targets(status[b], "DECLINE_REQUEST", L) = {"DECLINED"}
      BY <3>1, DeclineDeclines
    <3>. QED  BY <2>1, <2>3, <3>1, <3>2
  <2>. QED  BY <2>1, <2>2, <2>3
<1>3. ASSUME NEW d \in Bookings,
             \/ DeclineRequest(d) \/ Withdraw(d) \/ CancelByTenant(d) \/ CancelByLandlord(d)
             \/ CheckIn(d)
      PROVE  FALSE
  <2>1. PICK event \in {"DECLINE_REQUEST", "WITHDRAW", "CANCEL_BY_TENANT", "CANCEL_BY_LANDLORD",
                        "CHECK_IN"}, actor \in Party : SimpleTransition(d, event, actor)
    BY <1>3 DEF DeclineRequest, Withdraw, CancelByTenant, CancelByLandlord, CheckIn, Party
  <2>. QED  BY <2>1, NoDispute DEF SimpleTransition
<1>4. ASSUME NEW d \in Bookings, CheckOut(d) PROVE FALSE
  BY <1>4, NoDispute DEF CheckOut
<1>5. ASSUME NEW d \in Bookings, NEW actor \in Party, NEW given \in Answer,
             ConfirmCompletion(d, actor, given) PROVE Goal
  BY <1>5, DisputedVerdict DEF ConfirmCompletion
<1>6. ASSUME NEW d \in Bookings, NEW actor \in Party, NEW c \in Case, OpenDispute(d, actor, c)
      PROVE  Goal
  <2>1. PICK to : status' = [status EXCEPT ![d] = to]
    BY <1>6 DEF OpenDispute, SetStatus
  <2>2. b = d
    BY <2>1 DEF TypeOK
  <2>. QED  BY <1>6, <2>2
<1>7. ASSUME NEW d \in Bookings, NEW event \in DisputeOutcome, ResolveDispute(d, event) PROVE FALSE
  <2>1. PICK r \in Transitions :
          /\ r.from = status[d] /\ r.event = event /\ Admin \in r.actors
          /\ Settle(d, r.to, "ACCRUE_SERVICE_FEE" \in r.effects, AdminDecision)
    BY <1>7 DEF ResolveDispute
  <2>2. r.to \in Targets(status[d], event, Admin) /\ SetStatus(d, r.to)
    BY <2>1 DEF Targets, Settle
  <2>. QED  BY <2>2, NoDispute DEF DisputeOutcome
<1>8. ASSUME NEW d \in Bookings, ExpireStale(d) \/ OpenCompletionWindow(d) PROVE FALSE
  <2>1. \/ \E to \in Targets(status[d], "EXPIRE", System) : SetStatus(d, to)
        \/ \E to \in Targets(status[d], "REACH_STAY_END", System) : SetStatus(d, to)
    BY <1>8 DEF ExpireStale, OpenCompletionWindow
  <2>. QED  BY <2>1, NoDispute
<1>9. ASSUME NEW d \in Bookings, ResolveExpiredCompletion(d) PROVE Goal
  BY <1>9, DisputedVerdict DEF ResolveExpiredCompletion
<1>10. ASSUME \/ \E c \in Case, action \in DisputeAction : ActOnCase(c, action)
              \/ \E k \in Block : BlockDates(k) \/ UnblockDates(k)
              \/ \E p \in Property, u \in User : StartConversation(p, u)
              \/ \E p \in Property : SetPublished(p)
              \/ \E job \in Job : SweepRead(job)
              \/ SweepCrash \/ Tick \/ UNCHANGED vars
       PROVE  FALSE
  BY <1>10 DEF ActOnCase, BlockDates, UnblockDates, StartConversation, SetPublished, SweepRead,
               SweepCrash, Tick, vars
<1>. HIDE DEF Goal
<1>11. Goal
  BY <1>1, <1>2, <1>3, <1>4, <1>5, <1>6, <1>7, <1>8, <1>9, <1>10 DEF Next
<1>. QED  BY <1>11 DEF Goal

DisputedInv == CasesOpened /\ DisputesHaveACase

LEMMA DisputedInit == Init => DisputedInv
  BY BookingAssumption DEF Init, DisputedInv, CasesOpened, DisputesHaveACase

LEMMA DisputedNext == TypeOK /\ DisputedInv /\ [Next]_vars => DisputedInv'
<1> SUFFICES ASSUME TypeOK, DisputedInv, [Next]_vars, NEW b \in Bookings, status'[b] = "DISPUTED"
             PROVE  reason'[b] = "CONTRADICTION" \/ \E c \in Case : cases'[c].booking = b
  BY CaseStep DEF DisputedInv, DisputesHaveACase
<1>1. (\E c \in Case : cases[c].booking = b) => \E c \in Case : cases'[c].booking = b
  BY CaseStep DEF DisputedInv
<1>2. CASE status[b] = "DISPUTED"
  <2>1. Same(b)
    BY <1>2, AllFates DEF Fate, Advances, Judged, JudgedAs, Ruled, TerminalStates
  <2>. QED  BY <1>1, <1>2, <2>1 DEF Same, DisputedInv, DisputesHaveACase
<1>3. ASSUME NEW actor \in Party, NEW c \in Case, OpenDispute(b, actor, c)
      PROVE  \E e \in Case : cases'[e].booking = b
  <2>1. CASE OpenCases(b) # {}
    BY <1>1, <2>1 DEF OpenCases
  <2>2. CASE cases' = [cases EXCEPT ![c] = [booking |-> b, status |-> "OPEN"]]
    <3>1. cases'[c].booking = b
      BY <2>2 DEF TypeOK
    <3>. QED  BY <3>1
  <2>. QED  BY <1>3, <2>1, <2>2 DEF OpenDispute
<1>. QED  BY <1>2, <1>3, DisputeStep

\* Every dispute has had a case a human can work on, except one that the
\* parties' contradictory answers opened: applyResolution() not opening one is
\* the only way the promise that BookingDisputed refutes can fail.
THEOREM OnlyContradictionsHaveNoCase == Spec => []DisputesHaveACase
<1>1. DisputedInv => DisputesHaveACase
  BY DEF DisputedInv
<1>. QED  BY <1>1, DisputedInit, DisputedNext, TypeInit, TypeNext, PTL DEF Spec
=============================================================================
