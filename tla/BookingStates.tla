---------------------------- MODULE BookingStates ----------------------------
(***************************************************************************)
(* The booking state machine of src/server/domain/booking/states.ts: a     *)
(* pure table of transitions, each with the actors who may fire it and the *)
(* side effects it declares.  Every service method of BookingService asks  *)
(* this table for the target of its step; the database trigger that keeps  *)
(* property_occupancy has its own list of the statuses that hold nights.   *)
(***************************************************************************)

BookingState ==
  { "INQUIRY", "REQUESTED", "OFFER_PENDING", "DECLINED", "WITHDRAWN", "EXPIRED",
    "CONFIRMED", "CHECKED_IN", "COMPLETION_PENDING", "COMPLETED",
    "NOT_TAKEN_PLACE", "CANCELLED_BY_TENANT", "CANCELLED_BY_LANDLORD", "DISPUTED" }

TerminalStates ==
  { "DECLINED", "WITHDRAWN", "EXPIRED", "COMPLETED", "NOT_TAKEN_PLACE",
    "CANCELLED_BY_TENANT", "CANCELLED_BY_LANDLORD" }

\* blocksCalendar(): the list the TypeScript code keeps.
BlocksCalendar(s) ==
  s \in { "CONFIRMED", "CHECKED_IN", "COMPLETION_PENDING", "DISPUTED", "COMPLETED" }

\* booking_status_occupies(): the list the SQL triggers keep.
StatusOccupies(s) ==
  s \in { "CONFIRMED", "CHECKED_IN", "COMPLETION_PENDING", "DISPUTED", "COMPLETED" }

\* contactExchangeAllowed(): when the chat filter lets contact details through.
ContactExchangeAllowed(s) ==
  s \in { "CONFIRMED", "CHECKED_IN", "COMPLETION_PENDING", "COMPLETED", "DISPUTED" }

-----------------------------------------------------------------------------
T == "TENANT"
L == "LANDLORD"
Admin == "ADMIN"
System == "SYSTEM"

\* One row of TRANSITIONS; the notifications a row declares are left out.
Rule(from, event, to, actors, effects) ==
  [from |-> from, event |-> event, to |-> to, actors |-> actors, effects |-> effects]

ConfirmEffects ==
  { "FREEZE_FINANCIAL_TERMS", "HOLD_CALENDAR",
    "AUTO_DECLINE_COMPETING_REQUESTS", "RELEASE_CONTACT_DETAILS" }
CompleteEffects == { "ACCRUE_SERVICE_FEE", "OPEN_REVIEW_WINDOW" }
ReleaseEffects  == { "RELEASE_CALENDAR" }

Transitions ==
  { Rule("INQUIRY", "REQUEST", "REQUESTED", {T}, {}),
    Rule("INQUIRY", "MAKE_OFFER", "OFFER_PENDING", {T, L}, {}),
    Rule("INQUIRY", "EXPIRE", "EXPIRED", {System}, {}),
    Rule("INQUIRY", "WITHDRAW", "WITHDRAWN", {T}, {}),
    Rule("INQUIRY", "INSTANT_BOOK", "CONFIRMED", {T}, ConfirmEffects),
    Rule("OFFER_PENDING", "COUNTER_OFFER", "OFFER_PENDING", {T, L}, {}),
    Rule("OFFER_PENDING", "ACCEPT_OFFER", "CONFIRMED", {T, L}, ConfirmEffects),
    Rule("OFFER_PENDING", "DECLINE_REQUEST", "DECLINED", {L}, {}),
    Rule("OFFER_PENDING", "WITHDRAW", "WITHDRAWN", {T}, {}),
    Rule("OFFER_PENDING", "EXPIRE", "EXPIRED", {System}, {}),
    Rule("REQUESTED", "ACCEPT_REQUEST", "CONFIRMED", {L}, ConfirmEffects),
    Rule("REQUESTED", "DECLINE_REQUEST", "DECLINED", {L}, {}),
    Rule("REQUESTED", "COUNTER_OFFER", "OFFER_PENDING", {L}, {}),
    Rule("REQUESTED", "WITHDRAW", "WITHDRAWN", {T}, {}),
    Rule("REQUESTED", "EXPIRE", "EXPIRED", {System}, {}),
    Rule("CONFIRMED", "CANCEL_BY_TENANT", "CANCELLED_BY_TENANT", {T}, ReleaseEffects),
    Rule("CONFIRMED", "CANCEL_BY_LANDLORD", "CANCELLED_BY_LANDLORD", {L},
         ReleaseEffects \cup {"RECORD_FRAUD_SIGNAL"}),
    Rule("CONFIRMED", "CHECK_IN", "CHECKED_IN", {T}, {}),
    Rule("CONFIRMED", "REACH_STAY_END", "COMPLETION_PENDING", {System}, {}),
    Rule("CONFIRMED", "OPEN_DISPUTE", "DISPUTED", {T, L}, {}),
    Rule("CHECKED_IN", "REACH_STAY_END", "COMPLETION_PENDING", {System}, {}),
    Rule("CHECKED_IN", "CHECK_OUT", "COMPLETION_PENDING", {T}, {}),
    Rule("CHECKED_IN", "CANCEL_BY_TENANT", "CANCELLED_BY_TENANT", {T}, ReleaseEffects),
    Rule("CHECKED_IN", "OPEN_DISPUTE", "DISPUTED", {T, L}, {}),
    Rule("COMPLETION_PENDING", "CONFIRM_COMPLETION", "COMPLETION_PENDING", {T, L}, {}),
    Rule("COMPLETION_PENDING", "RESOLVE_COMPLETION", "COMPLETED", {System}, CompleteEffects),
    Rule("COMPLETION_PENDING", "RESOLVE_COMPLETION", "NOT_TAKEN_PLACE", {System}, ReleaseEffects),
    Rule("COMPLETION_PENDING", "RESOLVE_COMPLETION", "DISPUTED", {System}, {}),
    Rule("COMPLETION_PENDING", "OPEN_DISPUTE", "DISPUTED", {T, L}, {}),
    Rule("DISPUTED", "RESOLVE_DISPUTE_AS_COMPLETED", "COMPLETED", {Admin}, CompleteEffects),
    Rule("DISPUTED", "RESOLVE_DISPUTE_AS_NOT_TAKEN_PLACE", "NOT_TAKEN_PLACE", {Admin}, ReleaseEffects),
    Rule("DISPUTED", "RESOLVE_DISPUTE_AS_CANCELLED", "CANCELLED_BY_LANDLORD", {Admin}, ReleaseEffects) }

\* applyEvent(): the permitted targets of an event.  Only RESOLVE_COMPLETION
\* has more than one, and its caller passes the intended target; an empty set
\* is the IllegalTransitionError.
Targets(from, event, actor) ==
  { t.to : t \in { r \in Transitions : r.from = from /\ r.event = event /\ actor \in r.actors } }
=============================================================================
