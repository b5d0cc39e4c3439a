---------------------------- MODULE BookingService ----------------------------
(***************************************************************************)
(* The life of a booking: BookingService of                                *)
(* src/server/services/booking-service.ts with the triggers of migration   *)
(* 0003 that keep property_occupancy, the calendar blocks of               *)
(* AvailabilityService, the conversation a booking releases contacts in,   *)
(* the dispute cases it opens, and the lifecycle sweep that drives the     *)
(* clock-bound steps.                                                      *)
(*                                                                         *)
(* Every service method is one transaction that locks its booking row      *)
(* first, so it is one action here.  What is not atomic in the code is not *)
(* atomic here: the sweep reads its lists of due bookings in one step and  *)
(* acts on each of them in a later one, with anything in between.  An      *)
(* action that is disabled is a call the code answers with an error, or    *)
(* with what is already there, and no change of state (a raised exception  *)
(* rolls the transaction back).                                            *)
(***************************************************************************)
EXTENDS Integers, FiniteSets, BookingStates, Completion, DisputeStates

CONSTANTS
  User, Property,
  Bookings,          \* the bookings that may ever be requested, by id
  Block,             \* the calendar blocks a landlord may ever set, by id
  Case,              \* the dispute cases that may ever be opened, by id
  Owner,             \* property.owner_id
  Request,           \* of a booking: property, tenant, from, to (stay_period)
  Period,            \* of a block: property, from, to
  BookingMode,       \* property.booking_mode
  MinNights, MaxNights,   \* property.min_nights, property.max_nights
  RequestTTL,        \* days a request waits for the landlord (48 hours)
  CompletionWindow,  \* COMPLETION_WINDOW_DAYS
  ReviewWindow,      \* REVIEW_WINDOW_DAYS
  Horizon,           \* bound: the last day the clock shows
  LastRequestDay,    \* bound: the last day a booking is requested on
  NoBooking

ASSUME BookingAssumption ==
  /\ Owner \in [Property -> User]
  /\ Request \in [Bookings -> [property : Property, tenant : User, from : Nat, to : Nat]]
  /\ Period \in [Block -> [property : Property, from : Nat, to : Nat]]
  /\ BookingMode \in [Property -> {"INSTANT", "REQUEST", "INSTANT_AND_REQUEST"}]
  /\ MinNights \in [Property -> Nat \ {0}] /\ MaxNights \in [Property -> Nat]
  /\ RequestTTL \in Nat /\ CompletionWindow \in Nat /\ ReviewWindow \in Nat
  /\ Horizon \in Nat /\ LastRequestDay \in Nat
  /\ Bookings \cap Block = {}
  /\ NoBooking \notin Bookings
  \* daysBetween(from, to) <= 0 is refused before a block is inserted
  /\ \A k \in Block : Period[k].from < Period[k].to

VARIABLES
  today,            \* now(), in days
  published,        \* the properties whose status is PUBLISHED
  status,           \* booking.status; "NONE" before the row is inserted
  expiresAt,        \* booking.expires_at
  deadlineAt,       \* booking.completion_deadline_at
  reviewDeadlineAt, \* booking.review_deadline_at
  checkedIn,        \* the bookings whose checked_in_at is set
  answer,           \* booking.tenant_completion_answer, landlord_completion_answer
  reason,           \* booking.completion_reason
  occupancy,        \* the rows of property_occupancy
  blocks,           \* the rows of calendar_block
  conversation,     \* per property and tenant: release state and booking_id
  fees,             \* the bookings that have a service_fee row
  ledger,           \* per booking, the FEE_ACCRUED entries of ledger_entry
  completedAs,      \* app_user.completed_rentals_as_tenant, _as_landlord
  fraudSignals,     \* fraud_signal: the booking and the kind
  cases,            \* dispute_case: the booking and the status
  due               \* what the running sweep has read and not yet acted on

clockVars == <<expiresAt, deadlineAt>>
stayVars == <<checkedIn, answer>>
settlementVars == <<reviewDeadlineAt, reason, fees, ledger, completedAs, fraudSignals>>
vars == <<today, published, status, clockVars, stayVars, occupancy, blocks,
          conversation, settlementVars, cases, due>>
-----------------------------------------------------------------------------
Party == {T, L}
NoTime == -1
NoReason == "NO_REASON"
AdminDecision == "ADMIN_DECISION"

PropertyOf(b) == Request[b].property
TenantOf(b) == Request[b].tenant
LandlordOf(b) == Owner[PropertyOf(b)]
Thread(b) == <<PropertyOf(b), TenantOf(b)>>

\* now() has reached a timestamp column; NULL never compares true.
Passed(t) == t # NoTime /\ t <= today

\* stay_period && daterange(from, to, '[)')
Overlap(x, y) ==
  /\ x.property = y.property
  /\ x.from < y.to /\ y.from < x.to
  /\ x.from < x.to /\ y.from < y.to

\* The rows of property_occupancy a stay or a block stands for.
Rows(claimant, period) ==
  { [night |-> <<period.property, n>>, claimant |-> claimant] :
      n \in period.from .. (period.to - 1) }
BookingRows(b) == Rows(b, Request[b])
BlockRows(k) == Rows(k, Period[k])

\* PRIMARY KEY (property_id, night): the rows collide with none present.
\* (Mutant: bookings and blocks are not checked against each other.)
NightsFreeOfBookings(rows) ==
  \A row \in rows, held \in occupancy : held.claimant \in Bookings => held.night # row.night
NightsFree(rows) == \A row \in rows, held \in occupancy : held.night # row.night

OpenCases(b) == { c \in Case : cases[c].booking = b /\ cases[c].status \in OpenCaseStatus }

Init ==
  /\ today = 0
  /\ published \in SUBSET Property
  /\ status = [b \in Bookings |-> "NONE"]
  /\ expiresAt = [b \in Bookings |-> NoTime]
  /\ deadlineAt = [b \in Bookings |-> NoTime]
  /\ reviewDeadlineAt = [b \in Bookings |-> NoTime]
  /\ checkedIn = {}
  /\ answer = [b \in Bookings |-> [p \in Party |-> NoAnswer]]
  /\ reason = [b \in Bookings |-> NoReason]
  /\ occupancy = {}
  /\ blocks = {}
  /\ conversation = [p \in Property \X User |-> [release |-> "NONE", booking |-> NoBooking]]
  /\ fees = {}
  /\ ledger = [b \in Bookings |-> 0]
  /\ completedAs = [u \in User |-> [p \in Party |-> 0]]
  /\ fraudSignals = {}
  /\ cases = [c \in Case |-> [booking |-> NoBooking, status |-> "NONE"]]
  /\ due = {}
-----------------------------------------------------------------------------
(* What the service methods share.                                         *)

\* booking_sync_occupancy(): release on the way out of the occupying
\* statuses, claim on the way in; a claim that collides raises and undoes the
\* transaction, so it disables the step.
\* (Mutants: the release is missing; the claim is ON CONFLICT DO NOTHING.)
SyncOccupancyNoRelease(b, to) ==
  IF ~StatusOccupies(status[b]) /\ StatusOccupies(to)
    THEN NightsFree(BookingRows(b)) /\ occupancy' = occupancy \cup BookingRows(b)
    ELSE UNCHANGED occupancy
SyncOccupancyPartial(b, to) ==
  occupancy' =
    IF StatusOccupies(status[b])
      THEN IF StatusOccupies(to) THEN occupancy
           ELSE { row \in occupancy : row.claimant # b }
      ELSE IF StatusOccupies(to)
             THEN occupancy \cup { row \in BookingRows(b) : NightsFree({row}) }
             ELSE occupancy

SyncOccupancy(b, to) ==
  LET was == StatusOccupies(status[b])
      is  == StatusOccupies(to)
  IN \/ /\ was /\ ~is
        /\ occupancy' = { row \in occupancy : row.claimant # b }
     \/ /\ ~was /\ is
        /\ NightsFree(BookingRows(b))
        /\ occupancy' = occupancy \cup BookingRows(b)
     \/ /\ was <=> is
        /\ UNCHANGED occupancy

\* UPDATE booking SET status, and the trigger it fires.
SetStatus(b, to) ==
  /\ status' = [status EXCEPT ![b] = to]
  /\ SyncOccupancy(b, to)

\* ensureConversation(): upsert on (property_id, tenant_id).  booking_id is
\* overwritten; a release is never taken back.
\* (Mutant: a thread that exists is released.)
EnsureConversationTrusting(b, released) ==
  conversation' =
    [conversation EXCEPT ![Thread(b)] =
       [release |-> IF released \/ @.release # "NONE" THEN "RELEASED" ELSE "BLOCKED",
        booking |-> b]]

EnsureConversation(b, released) ==
  conversation' =
    [conversation EXCEPT ![Thread(b)] =
       [release |-> IF released THEN "RELEASED"
                    ELSE IF @.release = "NONE" THEN "BLOCKED" ELSE @.release,
        booking |-> b]]

\* accrueServiceFee(): ON CONFLICT (booking_id) DO NOTHING, and the ledger
\* entry only for a fee row that was really inserted.
\* (Mutant: the entry has the wrong sign.)
AccrueServiceFeeNegative(b) ==
  /\ fees' = fees \cup {b}
  /\ ledger' = [ledger EXCEPT ![b] = @ - 1]

AccrueServiceFee(b) ==
  IF b \in fees THEN UNCHANGED <<fees, ledger>>
  ELSE /\ fees' = fees \cup {b}
       /\ ledger' = [ledger EXCEPT ![b] = @ + 1]

\* completed_rentals_as_tenant and completed_rentals_as_landlord, one each.
CountCompletedRental(b) ==
  completedAs' =
    [u \in User |-> [p \in Party |->
       completedAs[u][p] +
         (IF u = (IF p = T THEN TenantOf(b) ELSE LandlordOf(b)) THEN 1 ELSE 0)]]

\* What applyResolution() and resolveDispute() do alike: the status, the
\* review window, the reason, the fee and the two counters.
\* (Mutant: every verdict accrues the fee.)
SettleAccruesAlways(b, to, accrueFee, why) ==
  /\ SetStatus(b, to)
  /\ reason' = [reason EXCEPT ![b] = why]
  /\ reviewDeadlineAt' =
       [reviewDeadlineAt EXCEPT ![b] = IF to = "COMPLETED" THEN today + ReviewWindow ELSE @]
  /\ AccrueServiceFee(b)
  /\ IF to = "COMPLETED" THEN CountCompletedRental(b) ELSE UNCHANGED completedAs

Settle(b, to, accrueFee, why) ==
  /\ SetStatus(b, to)
  /\ reason' = [reason EXCEPT ![b] = why]
  /\ reviewDeadlineAt' =
       [reviewDeadlineAt EXCEPT ![b] = IF to = "COMPLETED" THEN today + ReviewWindow ELSE @]
  /\ IF accrueFee THEN AccrueServiceFee(b) ELSE UNCHANGED <<fees, ledger>>
  /\ IF to = "COMPLETED" THEN CountCompletedRental(b) ELSE UNCHANGED completedAs

ApplyResolution(b, outcome) ==
  /\ outcome.state \in Targets(status[b], "RESOLVE_COMPLETION", System)
  /\ Settle(b, outcome.state, outcome.accrueFee, outcome.reason)
  /\ fraudSignals' =
       IF outcome.signal = NoSignal THEN fraudSignals
       ELSE fraudSignals \cup {[booking |-> b, kind |-> outcome.signal]}

\* Resolve on these answers, or leave the booking waiting.
\* (Mutant: the check-in is taken for granted.)
ResolveAssumingCheckIn(b, answers) ==
  LET outcome == ResolveCompletion(answers[T], answers[L], TRUE, Passed(deadlineAt[b]))
  IN IF outcome.state = "PENDING"
       THEN UNCHANGED <<status, occupancy, settlementVars>>
       ELSE ApplyResolution(b, outcome)

Resolve(b, answers) ==
  LET outcome == ResolveCompletion(answers[T], answers[L], b \in checkedIn,
                                   Passed(deadlineAt[b]))
  IN IF outcome.state = "PENDING"
       THEN UNCHANGED <<status, occupancy, settlementVars>>
       ELSE ApplyResolution(b, outcome)
-----------------------------------------------------------------------------
(* The tenant and the landlord.                                            *)

Nights(b) == Request[b].to - Request[b].from

\* One live request per tenant, per property, per overlapping dates.
Duplicate(b) ==
  \E d \in Bookings :
    /\ TenantOf(d) = TenantOf(b) /\ Overlap(Request[d], Request[b])
    /\ status[d] \in {"REQUESTED", "OFFER_PENDING", "CONFIRMED", "CHECKED_IN"}

RequestBooking(b, instant) ==
  /\ today <= LastRequestDay
  /\ status[b] = "NONE"
  /\ PropertyOf(b) \in published
  /\ LandlordOf(b) # TenantOf(b)
  /\ ~Duplicate(b)
  /\ Nights(b) \in MinNights[PropertyOf(b)] .. MaxNights[PropertyOf(b)]
  /\ instant => BookingMode[PropertyOf(b)] # "REQUEST"
  /\ \E to \in Targets("INQUIRY", IF instant THEN "INSTANT_BOOK" ELSE "REQUEST", T) :
       /\ SetStatus(b, to)
       /\ expiresAt' = [expiresAt EXCEPT ![b] =
                          IF to = "REQUESTED" THEN today + RequestTTL ELSE NoTime]
       /\ EnsureConversation(b, BlocksCalendar(to))
  /\ UNCHANGED <<today, published, deadlineAt, stayVars, blocks, settlementVars, cases, due>>

\* The other requests for nights that have just been given away.
Competing(b) ==
  { x \in Bookings \ {b} :
      /\ status[x] \in {"REQUESTED", "OFFER_PENDING"}
      /\ Overlap(Request[x], Request[b]) }

AcceptRequest(b) ==
  /\ \E to \in Targets(status[b], "ACCEPT_REQUEST", L) :
       /\ SyncOccupancy(b, to)
       /\ status' = [x \in Bookings |->
            IF x = b THEN to
            ELSE IF x \in Competing(b)
              THEN CHOOSE s \in Targets(status[x], "DECLINE_REQUEST", L) : TRUE
            ELSE status[x]]
  /\ expiresAt' = [expiresAt EXCEPT ![b] = NoTime]
  /\ conversation' = [th \in Property \X User |->
       IF conversation[th].booking = b /\ conversation[th].release = "BLOCKED"
         THEN [conversation[th] EXCEPT !.release = "RELEASED"]
         ELSE conversation[th]]
  /\ UNCHANGED <<today, published, deadlineAt, stayVars, blocks, settlementVars, cases, due>>

\* simpleTransition(): the steps that only move the status.
SimpleTransition(b, event, actor) ==
  /\ \E to \in Targets(status[b], event, actor) : SetStatus(b, to)
  /\ checkedIn' = IF event = "CHECK_IN" THEN checkedIn \cup {b} ELSE checkedIn
  /\ UNCHANGED <<today, published, clockVars, answer, blocks, conversation,
                 settlementVars, cases, due>>

DeclineRequest(b)   == SimpleTransition(b, "DECLINE_REQUEST", L)
Withdraw(b)         == SimpleTransition(b, "WITHDRAW", T)
CancelByTenant(b)   == SimpleTransition(b, "CANCEL_BY_TENANT", T)
CancelByLandlord(b) == SimpleTransition(b, "CANCEL_BY_LANDLORD", L)
CheckIn(b)          == SimpleTransition(b, "CHECK_IN", T)

CompletionDeadline(b) == Request[b].to + CompletionWindow

\* (Mutants: the window starts at the check-out; the deadline is not set.)
CheckOutEarlyWindow(b) ==
  /\ \E to \in Targets(status[b], "CHECK_OUT", T) : SetStatus(b, to)
  /\ deadlineAt' = [deadlineAt EXCEPT ![b] = today + CompletionWindow]
  /\ UNCHANGED <<today, published, expiresAt, stayVars, blocks, conversation,
                 settlementVars, cases, due>>
CheckOutNoDeadline(b) ==
  /\ \E to \in Targets(status[b], "CHECK_OUT", T) : SetStatus(b, to)
  /\ UNCHANGED <<today, published, clockVars, stayVars, blocks, conversation,
                 settlementVars, cases, due>>

CheckOut(b) ==
  /\ \E to \in Targets(status[b], "CHECK_OUT", T) : SetStatus(b, to)
  /\ deadlineAt' = [deadlineAt EXCEPT ![b] = IF @ = NoTime THEN CompletionDeadline(b) ELSE @]
  /\ UNCHANGED <<today, published, expiresAt, stayVars, blocks, conversation,
                 settlementVars, cases, due>>

\* (Mutant: the status of the booking is not looked at.)
ConfirmCompletionUnguarded(b, actor, given) ==
  /\ answer[b][actor] \in {NoAnswer, given}
  /\ LET answers == [answer[b] EXCEPT ![actor] = given]
     IN /\ answer' = [answer EXCEPT ![b] = answers]
        /\ Resolve(b, answers)
  /\ UNCHANGED <<today, published, clockVars, checkedIn, blocks, conversation, cases, due>>

ConfirmCompletion(b, actor, given) ==
  /\ status[b] = "COMPLETION_PENDING"
  /\ answer[b][actor] \in {NoAnswer, given}
  /\ LET answers == [answer[b] EXCEPT ![actor] = given]
     IN /\ answer' = [answer EXCEPT ![b] = answers]
        /\ Resolve(b, answers)
  /\ UNCHANGED <<today, published, clockVars, checkedIn, blocks, conversation, cases, due>>

\* openDispute(): joins the open case of the booking, or opens case c.
OpenDispute(b, actor, c) ==
  /\ \E to \in IF status[b] = "DISPUTED" THEN {"DISPUTED"}
               ELSE Targets(status[b], "OPEN_DISPUTE", actor) : SetStatus(b, to)
  /\ \/ OpenCases(b) # {} /\ UNCHANGED cases
     \/ /\ OpenCases(b) = {}
        /\ cases[c].status = "NONE"
        /\ cases' = [cases EXCEPT ![c] = [booking |-> b, status |-> "OPEN"]]
  /\ UNCHANGED <<today, published, clockVars, stayVars, blocks, conversation,
                 settlementVars, due>>
-----------------------------------------------------------------------------
(* The staff.                                                              *)

DisputeOutcome ==
  { "RESOLVE_DISPUTE_AS_COMPLETED", "RESOLVE_DISPUTE_AS_NOT_TAKEN_PLACE",
    "RESOLVE_DISPUTE_AS_CANCELLED" }

ResolveDispute(b, event) ==
  /\ \E t \in { r \in Transitions :
                  r.from = status[b] /\ r.event = event /\ Admin \in r.actors } :
       Settle(b, t.to, "ACCRUE_SERVICE_FEE" \in t.effects, AdminDecision)
  /\ UNCHANGED <<today, published, clockVars, stayVars, blocks, conversation,
                 fraudSignals, cases, due>>

\* DisputeService.act(): moves the case and never touches its booking.
ActOnCase(c, action) ==
  /\ \E to \in CaseTargets(cases[c].status, action) :
       cases' = [cases EXCEPT ![c].status = to]
  /\ UNCHANGED <<today, published, status, clockVars, stayVars, occupancy, blocks,
                 conversation, settlementVars, due>>
-----------------------------------------------------------------------------
(* The landlord's calendar, the tenant's first question, and the listing.  *)

\* block(): the insert claims the nights through calendar_block_sync_occupancy.
BlockDates(k) ==
  /\ k \notin blocks
  /\ NightsFree(BlockRows(k))
  /\ blocks' = blocks \cup {k}
  /\ occupancy' = occupancy \cup BlockRows(k)
  /\ UNCHANGED <<today, published, status, clockVars, stayVars, conversation,
                 settlementVars, cases, due>>

\* unblock(): the row's nights go with it (ON DELETE CASCADE).
UnblockDates(k) ==
  /\ k \in blocks
  /\ blocks' = blocks \ {k}
  /\ occupancy' = { row \in occupancy : row.claimant # k }
  /\ UNCHANGED <<today, published, status, clockVars, stayVars, conversation,
                 settlementVars, cases, due>>

StartConversation(p, u) ==
  /\ p \in published
  /\ Owner[p] # u
  /\ conversation[<<p, u>>].release = "NONE"
  /\ conversation' = [conversation EXCEPT ![<<p, u>>].release = "BLOCKED"]
  /\ UNCHANGED <<today, published, status, clockVars, stayVars, occupancy, blocks,
                 settlementVars, cases, due>>

\* What ListingService does to the listing, seen from here: it is bookable or not.
SetPublished(p) ==
  /\ published' = IF p \in published THEN published \ {p} ELSE published \cup {p}
  /\ UNCHANGED <<today, status, clockVars, stayVars, occupancy, blocks, conversation,
                 settlementVars, cases, due>>
-----------------------------------------------------------------------------
(* The clock and the lifecycle sweep.                                      *)

Tick ==
  /\ today < Horizon
  /\ today' = today + 1
  /\ UNCHANGED <<published, status, clockVars, stayVars, occupancy, blocks, conversation,
                 settlementVars, cases, due>>

Job == {"EXPIRE_REQUEST", "STAY_END", "COMPLETION"}

\* dueForExpiry(), dueForStayEnd(), dueForCompletionResolution().
\* (Mutants: the time is not compared; requests are not on the list.)
DueForAnytime(job) ==
  { b \in Bookings :
      CASE job = "EXPIRE_REQUEST" -> status[b] \in {"INQUIRY", "REQUESTED", "OFFER_PENDING"}
        [] job = "STAY_END"       -> status[b] \in {"CONFIRMED", "CHECKED_IN"}
        [] job = "COMPLETION"     -> status[b] = "COMPLETION_PENDING" }
DueForButRequests(job) ==
  { b \in Bookings :
      CASE job = "EXPIRE_REQUEST" ->
             status[b] \in {"INQUIRY", "OFFER_PENDING"} /\ Passed(expiresAt[b])
        [] job = "STAY_END" ->
             status[b] \in {"CONFIRMED", "CHECKED_IN"} /\ Request[b].to <= today
        [] job = "COMPLETION" ->
             status[b] = "COMPLETION_PENDING" /\ Passed(deadlineAt[b]) }
DueFor(job) ==
  { b \in Bookings :
      CASE job = "EXPIRE_REQUEST" ->
             status[b] \in {"INQUIRY", "REQUESTED", "OFFER_PENDING"} /\ Passed(expiresAt[b])
        [] job = "STAY_END" ->
             status[b] \in {"CONFIRMED", "CHECKED_IN"} /\ Request[b].to <= today
        [] job = "COMPLETION" ->
             status[b] = "COMPLETION_PENDING" /\ Passed(deadlineAt[b]) }

\* The sweep lists what is due without a lock...
SweepRead(job) ==
  /\ due' = due \cup { <<job, b>> : b \in DueFor(job) }
  /\ UNCHANGED <<today, published, status, clockVars, stayVars, occupancy, blocks,
                 conversation, settlementVars, cases>>

\* ...and hands each booking to its method later, in a transaction of its own.
Take(job, b) ==
  /\ <<job, b>> \in due
  /\ due' = due \ {<<job, b>>}

\* expireStale(): a booking that was answered meanwhile is left alone.
ExpireStale(b) ==
  /\ Take("EXPIRE_REQUEST", b)
  /\ IF status[b] \in {"INQUIRY", "REQUESTED", "OFFER_PENDING"}
       THEN /\ \E to \in Targets(status[b], "EXPIRE", System) : SetStatus(b, to)
            /\ expiresAt' = [expiresAt EXCEPT ![b] = NoTime]
       ELSE UNCHANGED <<status, occupancy, expiresAt>>
  /\ UNCHANGED <<today, published, deadlineAt, stayVars, blocks, conversation,
                 settlementVars, cases>>

\* openCompletionWindow(): applyEvent throws when the stay was closed
\* meanwhile; the sweep notes the failure and goes on.
\* (Mutant: it trusts its list.)
OpenCompletionWindowTrusting(b) ==
  /\ Take("STAY_END", b)
  /\ SetStatus(b, "COMPLETION_PENDING")
  /\ deadlineAt' = [deadlineAt EXCEPT ![b] = CompletionDeadline(b)]
  /\ UNCHANGED <<today, published, expiresAt, stayVars, blocks, conversation,
                 settlementVars, cases>>

OpenCompletionWindow(b) ==
  /\ Take("STAY_END", b)
  /\ IF Targets(status[b], "REACH_STAY_END", System) # {}
       THEN /\ \E to \in Targets(status[b], "REACH_STAY_END", System) : SetStatus(b, to)
            /\ deadlineAt' = [deadlineAt EXCEPT ![b] = CompletionDeadline(b)]
       ELSE UNCHANGED <<status, occupancy, deadlineAt>>
  /\ UNCHANGED <<today, published, expiresAt, stayVars, blocks, conversation,
                 settlementVars, cases>>

ResolveExpiredCompletion(b) ==
  /\ Take("COMPLETION", b)
  /\ IF status[b] = "COMPLETION_PENDING" THEN Resolve(b, answer[b])
     ELSE UNCHANGED <<status, occupancy, settlementVars>>
  /\ UNCHANGED <<today, published, clockVars, stayVars, blocks, conversation, cases>>

\* The process running the sweep dies; what it had read is forgotten.
SweepCrash ==
  /\ due # {}
  /\ due' = {}
  /\ UNCHANGED <<today, published, status, clockVars, stayVars, occupancy, blocks,
                 conversation, settlementVars, cases>>

Next ==
  \/ \E b \in Bookings :
       \/ \E instant \in BOOLEAN : RequestBooking(b, instant)
       \/ AcceptRequest(b)
       \/ DeclineRequest(b) \/ Withdraw(b)
       \/ CancelByTenant(b) \/ CancelByLandlord(b)
       \/ CheckIn(b) \/ CheckOut(b)
       \/ \E actor \in Party, given \in Answer : ConfirmCompletion(b, actor, given)
       \/ \E actor \in Party, c \in Case : OpenDispute(b, actor, c)
       \/ \E event \in DisputeOutcome : ResolveDispute(b, event)
       \/ ExpireStale(b) \/ OpenCompletionWindow(b) \/ ResolveExpiredCompletion(b)
  \/ \E c \in Case, action \in DisputeAction : ActOnCase(c, action)
  \/ \E k \in Block : BlockDates(k) \/ UnblockDates(k)
  \/ \E p \in Property, u \in User : StartConversation(p, u)
  \/ \E p \in Property : SetPublished(p)
  \/ \E job \in Job : SweepRead(job)
  \/ SweepCrash
  \/ Tick

Spec == Init /\ [][Next]_vars

\* Days pass, the sweep runs, and a run that is killed is run again: it is not
\* killed every time before it reaches the same booking.
Fairness ==
  /\ WF_vars(Tick)
  /\ \A job \in Job : WF_vars(SweepRead(job))
  /\ \A b \in Bookings : /\ SF_vars(ExpireStale(b))
                         /\ SF_vars(OpenCompletionWindow(b))
                         /\ SF_vars(ResolveExpiredCompletion(b))

FairSpec == Spec /\ Fairness
=============================================================================
