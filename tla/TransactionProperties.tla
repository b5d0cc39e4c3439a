------------------------- MODULE TransactionProperties -------------------------
(***************************************************************************)
(* What must hold of the calendar and of the callers' answers when the     *)
(* calls of BookingTransactions run side by side, and the proof            *)
(* obligation BookingService leaves open: that a transaction is one step.  *)
(***************************************************************************)
EXTENDS BookingTransactions

Subject == Bookings \cup Block

\* What readers see is consistent at every commit: a night is held exactly by
\* the booking whose committed status occupies it or by the block that covers it,
\* although status and rows are written by different statements and any
\* transaction may be rolled back between them.
CommittedCalendarExact ==
  \A n \in Night, c \in Subject :
    night[n] = c <=>
      /\ n \in Footprint(c)
      /\ c \in blocks \/ (c \in Bookings /\ StatusOccupies(status[c]))

\* Every call returns: what waits is served or picked by the deadlock detector.
EveryCallReturns == <>AllEnded

\* requestBooking()'s promise to a tenant who taps twice: one live request for
\* the same nights.
OneLiveRequest ==
  \A b, d \in Bookings :
    b # d /\ SameTenant(b, d) /\ Overlap(b, d) =>
      ~(status[b] \in Pending /\ status[d] \in Pending)

\* acceptRequest()'s promise: the landlord who lost a race is told so by a
\* refusal of the domain, not by a database error.
LoserIsToldWhy ==
  \A t \in Tx : Event(t) = "ACCEPT_REQUEST" => pc[t] # "DEADLOCK"
-----------------------------------------------------------------------------
(* Refinement: every commit is one action of BookingService.               *)

PropertyId == CHOOSE p \in { Stay(c).property : c \in Subject } : TRUE
People == Tenant \cup {Landlord}

\* The clock stands still: a request expires in as many days as it was given.
TTL == 2
ExpiresAt == [b \in Bookings |-> IF b \in expires THEN TTL ELSE -1]

\* The committed rows of property_occupancy, and the conversations: the landlord
\* has none about his own property.
RowOf(n, claimant) == [night |-> <<PropertyId, n>>, claimant |-> claimant]
TakenRows == { RowOf(n, night[n]) : n \in { m \in Night : night[m] # Free } }
NoThread == [release |-> "NONE", booking |-> NoBooking]
Threads ==
  [th \in {PropertyId} \X People |-> IF th[2] \in Tenant THEN thread[th[2]] ELSE NoThread]

Service == INSTANCE BookingService WITH
  User <- People, Property <- {PropertyId}, Case <- {},
  Owner <- [p \in {PropertyId} |-> Landlord],
  BookingMode <- [p \in {PropertyId} |-> "INSTANT_AND_REQUEST"],
  MinNights <- [p \in {PropertyId} |-> MinNights],
  MaxNights <- [p \in {PropertyId} |-> MaxNights],
  RequestTTL <- TTL, CompletionWindow <- 3, ReviewWindow <- 14,
  Horizon <- 0, LastRequestDay <- 0,
  today <- 0, published <- {PropertyId}, checkedIn <- {},
  expiresAt <- ExpiresAt,
  deadlineAt <- [b \in Bookings |-> -1],
  reviewDeadlineAt <- [b \in Bookings |-> -1],
  answer <- [b \in Bookings |-> [p \in {T, L} |-> "NONE"]],
  reason <- [b \in Bookings |-> "NO_REASON"],
  occupancy <- TakenRows, conversation <- Threads,
  fees <- {}, ledger <- [b \in Bookings |-> 0],
  completedAs <- [u \in People |-> [p \in {T, L} |-> 0]],
  fraudSignals <- {}, cases <- <<>>, due <- {}

\* Seen through its committed tables, a transaction does nothing until it
\* commits and then what one action of BookingService does: every wait, lock
\* and re-read in between is invisible, and the decision it commits is still
\* right although it was taken on rows read earlier.
CommitsAreServiceSteps == [][committed' # committed => Service!Next]_committed
=============================================================================
