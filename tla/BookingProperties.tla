-------------------------- MODULE BookingProperties --------------------------
(***************************************************************************)
(* What the booking service owes the tenant, the landlord and the          *)
(* platform, stated over the model of BookingService.                      *)
(***************************************************************************)
EXTENDS BookingService

Time == Nat \cup {NoTime}
Row == [night : Property \X Nat, claimant : Bookings \cup Block]

\* The type of every variable.
TypeOK ==
  /\ today \in Nat
  /\ published \in SUBSET Property
  /\ status \in [Bookings -> BookingState \cup {"NONE"}]
  /\ expiresAt \in [Bookings -> Time]
  /\ deadlineAt \in [Bookings -> Time]
  /\ reviewDeadlineAt \in [Bookings -> Time]
  /\ checkedIn \in SUBSET Bookings
  /\ answer \in [Bookings -> [Party -> Answer \cup {NoAnswer}]]
  /\ reason \in [Bookings -> ResolutionReason \cup {NoReason, AdminDecision}]
  /\ occupancy \in SUBSET Row
  /\ blocks \in SUBSET Block
  /\ conversation \in [Property \X User ->
       [release : {"NONE", "BLOCKED", "RELEASED"}, booking : Bookings \cup {NoBooking}]]
  /\ fees \in SUBSET Bookings
  /\ ledger \in [Bookings -> Nat]
  /\ completedAs \in [User -> [Party -> Nat]]
  /\ fraudSignals \in SUBSET [booking : Bookings, kind : SignalKind]
  /\ cases \in [Case -> [booking : Bookings \cup {NoBooking}, status : CaseStatus \cup {"NONE"}]]
  /\ due \in SUBSET (Job \X Bookings)
-----------------------------------------------------------------------------
(* The calendar.                                                           *)

Holding == { b \in Bookings : StatusOccupies(status[b]) }

\* property_occupancy says what the bookings and the blocks say: a night has a
\* row exactly when a booking in an occupying status or a block covers it,
\* whatever sequence of confirmations, cancellations and rulings led here.
OccupancyExact ==
  /\ \A b \in Holding : BookingRows(b) \subseteq occupancy
  /\ \A k \in blocks : BlockRows(k) \subseteq occupancy
  /\ \A row \in occupancy : \/ \E b \in Holding : row \in BookingRows(b)
                            \/ \E k \in blocks : row \in BlockRows(k)

\* No two stays that hold the calendar share a night of a property, and none
\* is under a landlord's block: the double booking the schema is built to stop.
NoDoubleBooking ==
  /\ \A b, d \in Holding : b # d => ~Overlap(Request[b], Request[d])
  /\ \A b \in Holding, k \in blocks : ~Overlap(Request[b], Period[k])

\* The detailed calendar implements the abstract one: every step of the
\* service claims one whole stay, releases one whole stay, or leaves it alone.
AbstractCalendar ==
  INSTANCE Calendar WITH
    Claimant <- Bookings \cup Block,
    RowsOf <- [c \in Bookings \cup Block |-> IF c \in Bookings THEN BookingRows(c)
                                              ELSE BlockRows(c)],
    claims <- occupancy
ImplementsCalendar == AbstractCalendar!Spec

-----------------------------------------------------------------------------
(* Money and settlement.                                                   *)

\* The service fee accrues with completion and only with it, once: one
\* service_fee row and one ledger entry for a completed stay, neither for any
\* other, through answers, sweeps, disputes and rulings.
FeeExactlyOnce ==
  \A b \in Bookings :
    /\ b \in fees <=> status[b] = "COMPLETED"
    /\ ledger[b] = IF status[b] = "COMPLETED" THEN 1 ELSE 0

\* Without an administrator's ruling, a fee rests on evidence: somebody said
\* the stay took place or the tenant checked in, and the tenant never denied it.
FeeNeedsEvidence ==
  \A b \in fees :
    reason[b] # AdminDecision =>
      /\ answer[b][T] = TookPlace \/ answer[b][L] = TookPlace \/ b \in checkedIn
      /\ answer[b][T] # DidNotTakePlace

\* A landlord who stays silent does not get out of the fee that way: the stay
\* ends without one only if the tenant denied it, or nobody spoke and nobody
\* checked in.
SilenceDoesNotPay ==
  \A b \in Bookings :
    status[b] = "NOT_TAKEN_PLACE" /\ reason[b] # AdminDecision /\ answer[b][L] = NoAnswer =>
      \/ answer[b][T] = DidNotTakePlace
      \/ answer[b][T] = NoAnswer /\ b \notin checkedIn

\* The verdict on a stay without a ruling rests on what was said and done, in
\* both directions: it charges no fee on nothing, and lets nobody off for
\* saying nothing (resolveCompletion() and its callers).
VerdictsRestOnEvidence == FeeNeedsEvidence /\ SilenceDoesNotPay

\* A verdict that rests on somebody's silence is not passed before the full
\* confirmation window after the stay has gone by, however the stay was closed.
SilenceGetsTheFullWindow ==
  \A b \in Bookings :
    reason[b] \in {"TENANT_CONFIRMED", "TENANT_DENIED", "LANDLORD_DENIED",
                   "CHECK_IN_RECORD", "NO_EVIDENCE"} =>
      today >= CompletionDeadline(b)

\* A booking that has ended stays as it ended: neither a late answer nor a
\* sweep acting on an old list nor a case changes its status, the answers it
\* was judged on, or the reason.
EndedForGood ==
  [][\A b \in Bookings :
       status[b] \in TerminalStates =>
         /\ status'[b] = status[b]
         /\ answer'[b] = answer[b] /\ reason'[b] = reason[b]
         /\ b \in checkedIn' <=> b \in checkedIn]_vars

\* A dispute freezes the booking: while it is open nothing is answered,
\* charged or released, and the only way out is an administrator's ruling,
\* also for a sweep that listed the booking just before.
DisputeFreezes ==
  [][\A b \in Bookings :
       status[b] = "DISPUTED" =>
         \/ status'[b] = "DISPUTED" /\ answer'[b] = answer[b] /\ reason'[b] = reason[b]
         \/ status'[b] \in TerminalStates /\ reason'[b] = AdminDecision]_vars

\* What the clock does happens when it is due, although the sweep acts on a
\* list it read earlier: a request expires after its window, and a stay that
\* was not checked in to is closed after its last night.
SweepActsOnTime ==
  [][\A b \in Bookings :
       /\ status[b] # "EXPIRED" /\ status'[b] = "EXPIRED" => Passed(expiresAt[b])
       /\ status[b] = "CONFIRMED" /\ status'[b] = "COMPLETION_PENDING" =>
            Request[b].to <= today]_vars
-----------------------------------------------------------------------------
(* Contacts.                                                               *)

\* The statuses a booking has only after it was confirmed.
EverConfirmed(b) ==
  status[b] \in { "CONFIRMED", "CHECKED_IN", "COMPLETION_PENDING", "DISPUTED", "COMPLETED",
                  "NOT_TAKEN_PLACE", "CANCELLED_BY_TENANT", "CANCELLED_BY_LANDLORD" }

\* Contact details are released to a tenant and a landlord only once a booking
\* of theirs on that property has been confirmed.
ReleaseNeedsConfirmation ==
  \A th \in Property \X User :
    conversation[th].release = "RELEASED" =>
      \E b \in Bookings : Thread(b) = th /\ EverConfirmed(b)

\* sendMessage(): the chat lets contact details through when the thread is
\* released and the booking it points at is in one of the confirmed statuses.
ContactsOpen(th) ==
  /\ conversation[th].release = "RELEASED"
  /\ conversation[th].booking # NoBooking
  /\ ContactExchangeAllowed(status[conversation[th].booking])

\* While a tenant's booking is confirmed, that tenant and the landlord can
\* exchange contact details.
ConfirmedPartiesCanTalk ==
  \A b \in Bookings : status[b] = "CONFIRMED" => ContactsOpen(Thread(b))
-----------------------------------------------------------------------------
(* Disputes, as the documents describe them.                               *)

\* Contradictory answers are escalated for review: the dispute they end in has
\* a case a human can work on.
ContradictionIsEscalated ==
  \A b \in Bookings :
    status[b] = "DISPUTED" /\ reason[b] = "CONTRADICTION" => \E c \in Case : cases[c].booking = b
-----------------------------------------------------------------------------
(* Progress, under FairSpec.                                               *)

\* Every request is answered, withdrawn or expired: none waits for ever.
RequestsAreAnswered ==
  \A b \in Bookings : status[b] = "REQUESTED" ~> status[b] # "REQUESTED"

\* Every confirmed stay is eventually settled, or in a dispute that waits for
\* a human; the parties' silence cannot keep it open.
StaysAreSettled ==
  \A b \in Bookings :
    status[b] \in {"CONFIRMED", "CHECKED_IN", "COMPLETION_PENDING"} ~>
      status[b] \in TerminalStates \cup {"DISPUTED"}
=============================================================================
