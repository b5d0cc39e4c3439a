# Kvaterka: formal models

TLA+ modules, TLC configurations and TLAPS proofs for Kvaterka, a rental
marketplace (one Next.js application over PostgreSQL; services and pure domain
rules under `src/server`, invariants of the schema under `db/migrations`). Paths
below are relative to the repository.

The project is kept beside the code: a change to a service, a transition table, a
trigger or a job named in `PROJECT.json` should be made here too, and the runs and
proofs repeated.

    tlc -workers 2 -config BookingCalendar.cfg MCBooking.tla
    tlc -workers 2 -config Services.cfg MCServices.tla
    tlapm BookingProofs.tla

## 1. The system

Services own their transactions (READ COMMITTED, no retry:
`src/server/db/postgres.ts`), the domain is pure functions and tables, the
invariants that must survive concurrency are constraints and triggers in
PostgreSQL, and everything the clock does is done by HTTP jobs that
`scripts/run-jobs.mjs` calls in the order lifecycle, notifications, retention.

| component | state | operations that change it | what is hard | what makes it correct |
|---|---|---|---|---|
| Booking lifecycle (`services/booking-service.ts`, `domain/booking/*`) | `booking`, `service_fee`, `ledger_entry`, counters | request, instant book, accept, decline, withdraw, cancel, check in and out, answer, dispute, ruling, three clock steps | many actors on one row, answers racing deadlines, several routes to one settlement | one verdict, on evidence, at its time; ended means ended; one fee per completed stay |
| Calendar (`property_occupancy`, triggers of migration 0003) | one row per held night | follows `booking` and `calendar_block` | the trigger's list of statuses, partial and concurrent claims | exactly the held nights, never twice |
| Calendar blocks (`services/availability-service.ts`) | `calendar_block` | block, unblock | check before insert | a block and a stay never share a night |
| Transactions (`db/postgres.ts`) | locks, uncommitted rows | statement by statement | waits, deadlocks, stale snapshots, lost connections | each committed call is one atomic step |
| Dispute cases (`domain/dispute.ts`, `services/dispute-service.ts`) | `dispute_case` | open, join, work, close, reopen, rule | live beside the booking, not in step with it | a dispute has a case |
| Messaging and contact release (`services/messaging-service.ts`) | `conversation` | ensure, start, release, send | one thread per property and tenant, shared by their bookings | released only by a confirmation |
| Lifecycle sweep (`api/routes/admin.ts`) | what the run has read | three lists, then one call per row | stale lists, crash between rows | acts on time, harmless when late, finishes in the end |
| Notification outbox (`services/notification-service.ts`, `delivery-service.ts`) | `notification` | enqueue, claim, send, settle, reclaim | lease expiry, late workers, retries | claimed once, settled once, not lost |
| Telegram (`notification-service.ts`) | `auth_token`, `telegram_connection`, `app_user.phone` | mint, consume, link, unlink, prove a number | a closure between two statements, contested numbers | a closed account holds no chat; a proven number stays |
| Retention and jobs (`services/retention-service.ts`) | `job_run`, holds, purges | begin, abandon, finish, hold, purge, close account | overlapping runs, hold against purge | nothing under hold is purged; what says purged is |
| Finance (`services/finance-service.ts`) | `service_fee`, `payment`, `ledger_entry` | accrue, pay, waive | a payment without locks beside a waiver | forgiven once; oldest first; paid means paid |
| Prices and quotes (`domain/money.ts`, `domain/pricing.ts`, `ui/booking-panel.tsx`) | prices, rules, the shown quote | edit, ask, answer, book | units, tiers, seasons, rounding, late answers | the rent is the sum of its nights; the fee is a fair share |
| Reviews (`services/review-service.ts`) | `review`, `report` | submit, publish, expire, report, moderate | the last review racing the end of the window | nobody writes with the other's review before their eyes |
| HTTP and idempotency (`api/router.ts`, `api/idempotency.ts`) | `idempotency_record` | claim, complete, abandon, replay, sweep | a retry during the first call, death in between | one effect per key, keys released in the end |
| Accounts, sessions, second factor (`auth/auth-service.ts`) | pending registrations, sessions, tokens, `user_totp` | register, sign in, rotate, revoke, reset, enrol, answer | counters outside the transaction, two rotations of one token | wrong answers count; one live session per sign-in; a code works once |
| Listings and moderation (`services/listing-service.ts`) | `property`, photos | edit, submit, moderate, pause, resume | owner against moderator, order of the audit log | a moderator's pause outranks the owner |
| Verification (`services/verification-service.ts`) | request, documents | submit, supersede, attach, decide | a submission against a decision | one live request; a decision is final |
| Support tickets (`services/support-ticket-service.ts`) | ticket, events, notices | reply, move, assign, note | a question and an answer that cross | waits on the author only for a question |
| Listing wizard (`ui/listing-wizard.tsx`) | draft, pending edits, requests in flight | type, save, leave, submit | edits during a save, failed saves | what was typed is stored or on its way |
| Search, dashboard, favourites, trust, error log, watchdog, audit | read models and append-only records | one statement each | - | nothing decides on them |
| Object storage, images, other pages, deployment | none | I/O and rendering | - | - |

The booking service is the centre: it writes the calendar through its status, the
conversation directly, the ledger and the counters on settlement, opens dispute
cases, and enqueues notifications. The sweep calls its clock steps. Every mutating
request passes through the idempotency layer; listings matter to a booking as
published or not, and through their prices.

## 2. Modules

| module | models | extends or instantiates |
|---|---|---|
| `BookingStates` | `domain/booking/states.ts`: the transition table, `applyEvent`, the two lists of occupying statuses (TypeScript and SQL) | - |
| `Completion` | `domain/booking/completion.ts`: the verdict on answers, check-in and deadline | - |
| `DisputeStates` | `domain/dispute.ts`: the case table | - |
| `BookingService` | the service, triggers, blocks, conversation, cases, sweep and clock | the three above |
| `Calendar` | the abstract calendar: whole claims and whole releases | - |
| `BookingProperties` | properties; the refinement mapping onto `Calendar` | `BookingService`, `Calendar` |
| `BookingTransactions` | the same calls statement by statement: locks, waits, deadlock, rollback, commit | `BookingStates` |
| `TransactionProperties` | properties; the refinement mapping onto `BookingService` | `BookingTransactions`, `BookingService` |
| `Outbox`, `OutboxProperties` | notification rows, the delivery run under the `job_run` lease, the immediate attempt of a request | - |
| `Finance` | fees of one landlord, payments and waivers, statement by statement | - |
| `Money`, `Pricing`, `Quotes` | rounding and fee; rent and quote; from the shown price to the fee | each the one before |
| `Idempotency` | the life of a key through `dispatch()` | - |
| `Reviews` | two reviews, their window, their moderation | - |
| `Registration`, `Sessions`, `SecondFactor` | three parts of `auth-service.ts` | - |
| `Retention` | one document's purge against holds, the job's lease | - |
| `Listings`, `Verification` | a listing's status and photos; competing requests for one property | - |
| `Tickets` | a support ticket or dispute case as the staff's file, with the routes' notices | `DisputeStates` |
| `Telegram`, `PhoneNumbers` | chats against account closures; contested phone numbers | - |
| `Wizard` | the autosave of the listing wizard | - |
| `MCBooking`, `MCTransactions`, `MCServices` | small instances for TLC | - |
| `BookingProofs`, `TransactionProofs`, `OutboxProofs`, `FinanceProofs`, `RequestProofs`, `DeskProofs`, `AccountProofs` | theorems (section 4) | `TLAPS` and what they prove about |
| `ServicesProofs` | the same theorems about the product of the services in `MCServices` | `MCServices`, `FinanceProofs`, `RequestProofs`, `DeskProofs`, `AccountProofs` |

There are three levels of one calendar. `BookingTransactions` (SQL statements of
concurrent transactions) implements `BookingService` (one action per call), which
implements `Calendar` (claims and releases).

### BookingService and the code

Each public method that changes state is one action, because each is one
transaction that locks its booking row first (`lockBooking`, `FOR UPDATE`); what
that assumption costs is checked in `BookingTransactions`. A call that throws rolls
back, so it is a disabled action.

* `status` with `SyncOccupancy` is `UPDATE booking SET status` and the trigger
  `booking_sync_occupancy()`: claim when the status starts to occupy, release when
  it stops, decided by the SQL list `booking_status_occupies()`. A collision on the
  primary key `(property_id, night)` disables the step.
* `RequestBooking`, `AcceptRequest`, `SimpleTransition` (decline, withdraw, the two
  cancellations, check-in), `CheckOut`, `ConfirmCompletion`, `OpenDispute`,
  `ResolveDispute` are the methods of the same names. `Settle` is what
  `applyResolution()` and `resolveDispute()` do alike.
* `ActOnCase` is `DisputeService.act()`, which moves the case and not the booking.
  `BlockDates` and `UnblockDates` are `AvailabilityService`; `StartConversation` is
  the question before a booking; `SetPublished` is the listing seen from here.
* The sweep is not atomic in the code and not here: `SweepRead` reads a list of due
  bookings into `due`, and `ExpireStale`, `OpenCompletionWindow` and
  `ResolveExpiredCompletion` each act on one entry in a later step, with anything in
  between; `SweepCrash` forgets the lists.
* Days stand for timestamps: the code computes its deadlines in days, except the 48
  hours of a request, which are `RequestTTL` days here.

### BookingTransactions and the code

A call is a process with a program counter. `acceptRequest()` locks its booking,
applies the event, updates it (the trigger inserts night by night and waits for
uncommitted rows with the same key), takes a key-share lock on the property through
the foreign key, selects its competitors `FOR UPDATE` in whatever order the plan
meets them, tests each again after a wait, and commits. `requestBooking()` checks for
a duplicate, shares the property, and claims if it is instant; `block()` locks the
property, checks the calendar, and claims. Any transaction may lose its connection;
any member of a circle of waits may be the deadlock victim. What PostgreSQL itself
does (row locks, unique-key waits, the detector) is modelled from how the code relies
on it. A COMMIT also publishes what the call wrote beside the statuses: `NewExpires` is
`booking.expires_at`, `NewThread` the tenant's `conversation` (`ensureConversation()`, and
the UPDATE with which `acceptRequest()` releases the contacts). The row of the conversation
is the last thing a call can wait for, so nobody who holds it waits for anybody, and the
wait for it is left out. Not there either: `unblock()`, the sweep's transactions and nested
savepoints. `TransactionsAssumption` says what calls there can be: a booking that a call
creates is not there before and has an id of its own, the initial rows respect the primary
key, and calls that are refused for what they ask (the owner's own listing, a wrong number
of nights) are left out, since they write nothing.

### Outbox and the code

A worker is one call of `DeliveryService.run()` or of `deliverNow()`; its `step` is
the SQL statement or provider call it makes next, because `deliverOne()` holds no
transaction open while it sends. `BeginRun` and `InsertRun` are the two statements of
`beginRun()`, `Reclaim` is `reclaimAbandoned()`, `ClaimForDelivery` and `ClaimOne` the
two claims, `Deliver` the resolution of the address, `Send` the provider, `Settle` the
one of `markSent`, `markSuppressed` and `markFailed` that the result calls for, `Audit`
the second write of a permanent failure. `RunThrows` and `SettleThrows` are the
failures of those statements and where the code's `catch` and `finally` lead; `Crash`
is the death of the process, which leaves its rows `SENDING` and the job `RUNNING`.
Time is two kinds of fact: a lease has run out (`lapsed`, `runLapsed`), a backoff is
still running (`waiting`). A lease may run out under a worker that lives: the code
bounds neither a provider call nor a batch of fifty of them, and the lease is five
minutes. Rows taken back from a living worker are remembered in `overrun`.

### The other services and the code

They share one convention. An operation whose transaction locks its row in the first
statement is one action; where the code does something in several statements without
that lock, or in several transactions, each statement is an action of its own, with
the values it read kept in the call's record, and a `Lose...` action rolls the call
back at any point.

* `Finance`: `BeginPayment`, `ReadPool`, `ListFees`, `SettleFee`, `CommitPayment` are the
  statements of `recordPayment()`, which takes no lock before it writes; `LockFee`,
  `CommitWaiver` those of `waiveFee()`, which does.
* `Idempotency`: `ClaimKey`/`MeetRecord` are the INSERT and its unique violation,
  `Replay`, `Conflict` the answers from the record, `Handle` the handler with its commit
  (a key of `Guarded` is also stored with the handler's own row, as
  `requestBooking()` does), `Complete`, `Abandon` and their failures the end of
  `dispatch()`, `Die` the death of the process, `SweepKeys` the retention job.
* `Reviews`: a submission reads the clock under the booking's lock and commits later;
  `PublishExpired` is one UPDATE that takes no such lock.
* `Registration`: `Decide` is the transaction of `confirmRegistration()`, `CountWrong`
  the UPDATE after it; `ReplacePending`, `ResendCode`, `GoogleAccount` move the row
  meanwhile. `Sessions`: rotation and revocation in two steps each, logins behind the
  counter of failures. `SecondFactor`: time is the TOTP step of a code; an enrolment
  looks and then overwrites; a failure is counted after the transaction that judged it;
  the reset by the staff deletes the recovery codes (`ClearSpares`) and then the row
  (`ResetTotp`), and when it finds no row (`ResetFindsNoTotp`) an enrolment can cross it.
* `Retention`: parents are locked before the document (`LockParent`), `JudgeDocument` is
  the snapshot of the UPDATE and `ClaimDocument` its row, which may be later;
  `DestroyBytes` and `ConfirmPurge` are outside. Holds lock one target.
* `Listings`: `BeginStatus` is separate, because the audit rows carry `now()`, the
  time a transaction began, and `PausedByModerator` reads the log in that order.
  `OwnerLeaves` is the pause of a closed account, which writes no audit row.
* `Verification`: a submission is five statements (prior, close, look, insert, commit)
  that lock only the row they close; an action of the staff is one step.
* `Tickets`: `LockFile`, then `WriteReply`, `WriteMove`, `WriteAssignment` or `WriteNote`,
  commit, and only then `SendNotice`, the route's own transaction. `JoinCase`/`AddAccount`
  are `openDispute()` on a booking that has an open case.
* `Telegram`: `ConsumeToken`, `LinkChat`, `CommitLink` are the statements of
  `completeTelegramLink()`; `LockAccount`, `DeleteTokens`, `UnlinkClosing`,
  `CommitClosure` those of `closeAccount()` that concern chats. `PhoneNumbers`:
  `FreeClaims`, `MeetHolder`/`GrantLevel`, `CommitContact` are `grantPhoneVerifiedLevel()`;
  a claim that is its account's only contact is not freed (`Releasable`) but met.
* `Quotes`: `PickDates`, `AnswerQuote`, `LoseQuote`, `ShowQuote` are the panel's effect
  with its `cancelled` flag and the route; the confirmation opens only over a quote
  (`OpenConfirm`), its last button (`BookStay`, which freezes the terms) looks at none.
  `Pricing` is checked against `ExactNight`, a definition by nights.
* `Wizard`: `Edit`, `TimerFires`, `Go`, `SaveAndExit`, `PressSubmit` are the callbacks of
  the page, each but the first with a `Flush`; a flight is a PATCH under way, `Arrive` its
  write, `Answer`, `Fail` and `Strand` its end. `ready` says whose own flush is over.

## 3. Runs

| run | instance | shows |
|---|---|---|
| `BookingCalendar` | three overlapping stays and a block, instant or requested, on one day (63 thousand states) | `OccupancyExact`, `NoDoubleBooking`, `TypeOK`; contacts are released only by a confirmation; the service implements `Calendar` |
| `BookingLifecycle` | one stay through its whole life with a case, a two-day window, and a sweep that is late and dies; days 0-6; `FairSpec` (22 thousand) | one fee and one ledger entry per completed stay, what verdicts rest on, that nobody's silence is judged early, that ended and disputed bookings are left alone, that the sweep acts on time, and that every request is answered and every stay settled or disputed |
| `TxRace` | an acceptance, the cancellation of a stay on the contested night, a withdrawal, a block, an instant booking and the tenant's next request, interleaved; `FairSpec` (11 thousand) | the committed calendar is exact at every commit, every commit is one action of `BookingService` (so an acceptance answers whoever waited for its nights), every call returns |
| `Outbox` | two workers, a notice on a live channel and one on a channel without a provider, two attempts, one death or failed statement, any number of overruns; `FairSpec` (385 thousand) | claims exclude each other, a settled row stays settled, retries are bounded, `SENT` means sent, no notice on a live channel is forgotten before its attempts are used up |
| `Services` | fourteen scenes, one per protocol (404 thousand together) | the properties of the table below |
| `BookingContacts`, `BookingDisputed`, `TxDeadlock`, `TxDoubleTap`, `FinanceRace`, `RetentionHold`, `QuotedPrice` | the same instances or smaller ones | the disagreements of section 6 |

`MCServices` puts the protocols that share no row with one another side by side: a
behaviour chooses a scene and plays in it alone, so the state spaces add up instead of
multiplying and each is as complete as a run of its own. What one component means to
another (a stay that accrues a fee, an account that is closed) is an action of the
component that owns the row.

| scene | instance | property and what would break it |
|---|---|---|
| Finance | two fees, two payments of one or two kopecks, two waivers | `ForgivenOnce` (a waiver that does not lock), `OldestFirst` (a payment that counts only itself): after a payment that met nobody, the oldest fee owed is more than the rest of the money |
| Idempotency | two keys, one of them also kept by the handler; three requests each, one with another body; deaths anywhere | `OneEffectPerKey`, and `KeysAreReleased`: no key is locked for ever by a request that died |
| Reviews | both sides, the deadline as an instant of its own | `DoubleBlind`: whoever has seen the other's review can no longer write, except in the very instant of the deadline, which belongs to both |
| Registration | two forms, three confirmations, two codes | `WrongAnswersCount`: of the wrong answers the present code has met, all but those still on their way to the counter are in it |
| Sessions | two sign-ins, four rows, rotations, a reset and a revocation | `OneLivePerLogin` |
| SecondFactor | two secrets, three steps, two challenges, two enrolments, a reset by the staff | `CodesWorkOnce` |
| Retention | two runs whose lease may pass, one hold on any target | `PurgedIsTrue`, `ParentHoldsStopPurges` |
| Listings | three concurrent status calls, three photos | `PauseOutranksOwner`: also against an owner's call that began before the pause and writes after it; excepted is a pause whose own call was overtaken by another |
| Verification | three submissions, a document, the staff | `DecisionsAreFinal` |
| Quotes | two listings, three stays, four rule books, two quotes, one edit | `RentIsExact`: the rent is that of the nights counted one by one, to within the rounding of each |
| Tickets | two requests at a time, ticket or dispute | `WaitsOnAQuestion` |
| Telegram | two accounts, three codes, two chats | `ClosedHoldsNoChat` |
| PhoneNumbers | three accounts, one with no contact but its number, two contacts, two numbers, any initial claims | `ProvenNumbersStay` |
| Wizard | two fields, two edits | `EditsReachTheListing` |

The exceptions written into a property (`reopened` keys, `late` codes, `tardy` reviews,
`doubtful` fields, `overrun` rows, `crossed` pauses) are what the code really lets happen; section 6 names
those a document speaks against. They are history variables, set by the action that
makes the exception and read by no guard.

Bounds. The booking instances have one property, at most three stays and one block,
because every property quantifies over pairs of stays of one property and every
conflict is one of two claims on one night, or of one claim with the requests it
declines. b2 overlaps b1 and b3, which do not overlap each other and belong to one
tenant: a conflict, a non-conflict and a shared thread. `Horizon` is the last day the
clock shows and `LastRequestDay` the last day a booking is requested;
`BookingLifecycle` needs the stay's end, its window and one day more to let the sweep be
late: day 6. `BookingCalendar` stays on day 0, because nights are claimed and released by
statuses and every status that does either is reached on one day. `Bookings`, `Block`,
`Case` bound how many rows may ever exist. `MaxMishaps` bounds deaths and failed
statements of the outbox, one for each place the code recovers from; two attempts are
the least that have a retry and an end. In `Services` two callers of each kind make
every pairwise race; a third is there where the code reacts to what a race has left
(the third submission, the third status call). `MaxTyped`, `MaxEdits`, `MaxFetches`,
`MaxPhotos` and the limits of attempts are the least that reach both sides of their
comparison. Billing months have three nights in place of thirty.

Deadlock checking is on in every run but those of `MCServices`, where a scene ends when its
calls are done; a stuttering `Done` ends the transaction runs.

`RetriesAreBounded` allows one attempt more than `MAX_DELIVERY_ATTEMPTS`: the claim of
the immediate attempt does not look at the count. `NobodyIsForgotten` ends when the
attempts are used up: a row taken back after its last attempt stays `PENDING` for ever.
The calls of `TxRace` satisfy the two hypotheses under which `CommitsAreServiceSteps` is
proved (section 4): they let a request follow a withdrawal on the same conversation, but
not come between the scan of an acceptance of the same nights and its COMMIT.

Fairness. `WF(Tick)`: days pass. `WF(SweepRead)`: cron calls the job again and again.
`SF` on each of the three per-booking steps: a run may be killed between reading its
list and reaching a booking, but not every time, and the steps cannot be disabled by
another actor, only made harmless. Nothing is assumed of people: the landlord, the
tenant and the administrator may stay silent for ever. In the transaction runs
`WF(Step(t))` per call: a statement that can run is run, and the deadlock detector wakes
up. In `Outbox` `WF(BeginRun(w))` is the cron again, `WF(Proceed(w))` that a process
which has not died goes on, and the leases and backoffs end because clocks advance; a
provider answers, but in no given time. In `Services` only the clock that passes a key's
`expires_at` and the retention job are fair: no request is assumed to finish.

## 4. Proofs

The theorems hold for every value of the constants that satisfies the named assumptions
of the modules: any number of users, rows, calls and documents, no bound on the clock.

| module | theorem | statement |
|---|---|---|
| `BookingProofs` | `TypeCorrect`, `OccupancyIsExact`, `NeverDoubleBooked` | `Spec => []TypeOK`, `[]OccupancyExact`, `[]NoDoubleBooking` |
| | `RefinesCalendar` | `Spec => ImplementsCalendar` |
| | `FeesChargedOnce`, `VerdictsRest`, `SilenceWaitsItsWindow` | `Spec => []FeeExactlyOnce`, `[]VerdictsRestOnEvidence`, `[]SilenceGetsTheFullWindow` |
| | `EndsAreFinal`, `DisputesFreeze`, `SweepIsOnTime` | `Spec => EndedForGood`, `DisputeFreezes`, `SweepActsOnTime` |
| | `ContactsNeedConfirmation` | `Spec => []ReleaseNeedsConfirmation` |
| | `OnlyASecondRequestClosesContacts` | `Spec => []((\A b \in Bookings : ~SharesItsThread(b)) => ConfirmedPartiesCanTalk)` |
| | `OnlyContradictionsHaveNoCase` | `Spec => []DisputesHaveACase` |
| `TransactionProofs` | `CalendarIsExact`, `NeverDoubleCommitted` | `Spec => []CommittedCalendarExact`, `[]NoDoubleStay`, at the grain of SQL statements |
| | `CommitsAreWholeStays` | every COMMIT is a step of `Calendar` or leaves it alone |
| | `CommitsAreDecisions` | what a COMMIT writes, the transition table gives for the status at that moment |
| | `CommitsImplementService` | `NoTwins /\ NoLateRequest` imply `Spec => CommitsAreServiceSteps` |
| | `OneRequestWithoutTwins` | `NoTwins` implies `Spec => []OneLiveRequest` |
| `OutboxProofs` | `TypeCorrect`, `ExclusiveClaims`, `SentIsDelivered`, `BoundedRetries`, `SettledStays` | all properties of the run but liveness |
| `FinanceProofs` | `RoundsToNearest`, `FeeWithinBase` | rounding is to the nearest, a fee is never more than its base |
| | `MonthlyRentIsExact` | whole months cost the monthly price, a night left over is off by half a kopeck at most |
| | `RentsAreExact`, `FeesAreShares` | `QuotesSpec => []RentIsExact`, `[]FeeIsAShareOfTheTotal` |
| | `TotalIsTheBase`, `FeeRoundsToNothing` | the lines of a quote add up to its fee base; a fee is zero exactly below half a kopeck |
| | `QuotesWithoutRulesAreKept` | `QuotesSpec => [][BookStay /\ rules = <<>> => ShownIsRecorded']_quotesVars` |
| | `WaiversAreExclusive`, `PaymentsSettleTheOldest` | `FinanceSpec => []ForgivenOnce`, `OldestFirst` |
| | `SerialLedgerMatches`, `FinanceTypesHold` | `FinanceSpec => [](~overlapped => StatusMatchesLedger)`, `[]FinanceTypeOK` |
| `RequestProofs` | `KeysActOnce`, `AnswersAreTrue` | `IdempotencySpec => []OneEffectPerKey`, `[]SuccessIsTrue` |
| | `NothingTypedIsDropped` | `WizardSpec => []EditsReachTheListing` |
| | `PurgesAreTrue`, `ParentHoldsProtect` | `RetentionSpec => []PurgedIsTrue`, `[]ParentHoldsStopPurges` |
| `DeskProofs` | `OneLive`, `DecisionsStayFinal` | `VerificationSpec => []OneLiveApplication`, `DecisionsAreFinal` |
| | `QuestionsAreAnswered` | `TicketsSpec => []WaitsOnAQuestion` |
| | `ReviewsAreBlind` | `ReviewsSpec => []DoubleBlind` |
| | `ListingsHaveOneCover`, `ModeratorsHaveTheLastWord` | `ListingsSpec => []OneCover`, `PauseOutranksOwner` |
| `AccountProofs` | `OneSessionPerLogin`, `CodesAreSpent` | `SessionsSpec => []OneLivePerLogin`, `SecondFactorSpec => []CodesWorkOnce` |
| | `ClosedAccountsAreSilent`, `ProofsOutlastClaims` | `TelegramSpec => []ClosedHoldsNoChat`, `PhoneSpec => ProvenNumbersStay` |
| | `WrongAnswersAreCounted` | `RegistrationSpec => []WrongAnswersCount` |
| `ServicesProofs` | `ServicesTypesHold` | `Spec => []ServicesTypeOK`, the specification of the run `Services` |
| | `ServicesKeepTheirPromises` | `Spec` implies all of the promises above that are made of one service |

Hardly one of these is inductive as it stands. What had to be found:

* Calendar. From exact rows one cannot tell that a claim collided, and from disjoint
  stays one cannot tell what the table holds. `CalendarInv` is `OccupancyExact` with the
  primary key (two rows on one night are one row); `NoDoubleBooking` follows, since two
  overlapping stays would share a row with two claimants. The induction over `Next` is
  done once, in `StepShape`: an action leaves status, blocks and rows alone, or moves one
  booking under `SyncOccupancy`, or sets or lifts a block. `ReleaseIsWhole` is what the
  refinement needs as well.
* Lifecycle. `Fate(b)` says what a step can mean to one booking: nothing (`Same`), a move
  that judges nothing (`Advances`), a verdict by `resolveCompletion()` (`Judged`), or a
  ruling (`Ruled`). Every action is shown to give each booking one of the four; fees,
  evidence, finality and the freezing of disputes then follow from the four cases instead
  of from twenty actions. `SilenceGetsTheFullWindow` needs `DeadlinesAreFull`: whatever
  set a deadline, it is the end of the whole window.
* What is true of two refuted promises. `ThreadsInv`: a booking's thread points at a booking
  of the same tenant and property, and is released when that booking was confirmed; so
  contacts close on a confirmed stay only after a second request (finding 1).
  `DisputedInv`: a case stays with its booking, so that a dispute without one was opened by
  contradictory answers (finding 2).
* Transactions. COMMIT publishes a status and nights that were computed many statements
  earlier, so `CommittedCalendarExact` is far from inductive. `TransactionInv` adds what
  keeps them true in between: an uncommitted night is free in the committed table and
  inserted by one call only (`InsertedInv`, the primary key), and a booking whose row a
  call holds is still as it was read (`LockedInv`, the row lock). `DecisionInv` adds which
  rows a call may hold at each statement and that competitors on its list overlap its
  stay; with both, `CommitDecides` reads every COMMIT as one decision of the service.
* Refinement of the service. `CommitsImplementService` maps the committed tables onto
  `BookingService` and shows that each COMMIT is one of its actions: `SimpleIsAStep`,
  `BlockIsAStep`, `CreationIsAStep`, `AcceptanceIsAStep`. The guards of those actions are
  read at the moment of the COMMIT, the code looked earlier. `ClaimRows` gets the free
  nights from the key (`InsertedInv`), `LockedInv` the status from the row lock. For the two
  looks that take no lock on what they did not find it takes a hypothesis each:
  `AskedInv`, that the duplicate check still holds, needs `NoTwins` (no two calls create
  overlapping bookings of one tenant); `ScannedInv`, that the competitors selected are all
  there are, needs `NoLateRequest` (nobody asks for nights while another call accepts them).
  Neither can be dropped: `TxDoubleTap` is the counterexample without the first, section 6
  tells the one without the second.
* Outbox. `HolderInv`: a row that is held and not overrun is `SENDING`, or `FAILED` while
  its holder writes up a permanent failure, and has no other holder. `WorkInv` says what
  a worker has in hand at each step; `BudgetInv` counts calls made and calls still to be
  made against the claims; `FirstClaimInv` that the unlimited claim happens at most once.
* Finance. `LockInv`: no two calls hold one fee, and a waiver at its decision holds a fee
  that is still `PAYABLE`. `OrderInv`, while no two calls have met: the payment's pool is
  the money received less the fees that are paid or that it has just written, and its list
  with those is what is owed. `LedgerInv` is the claim that `FinanceRace` refutes, proved
  up to the first meeting of two calls.
* Sums. The pool and the rent are folds over finite sets. `SmallestOf` and
  `SubsetInduction` turn the well-foundedness of proper inclusion (`WFMin`, which takes no
  operator) into an induction over subsets; from it follow that the recursive function
  behind a fold exists (`SumsExist`), that the order does not matter (`FeesAddUp`), and
  that errors of half a unit add up to half a unit each (`SumsStayClose`). The same
  induction gives a first rule by priority (`FirstSeasonIsBest`, `FirstTierIsBest`).
* Quotes. `BookedInv`: a booking made on the present offer holds the quote of its stay.
  The rest of `RentsAreExact` is a statement about `computeRent()` (`RentStaysClose`).
  `TotalIsTheBase` adds the lines of a quote up one at a time (`LineAdds`, from a sum with
  one more term, `SumOfAppend`); the code adds total and base up separately, and the fee is
  taken of the second while the tenant pays the first. `PricedInv` carries that into the
  booking. `OfferedInv`: an answer under way or on the screen is the price without rules
  of its own fetch's stay, unless the landlord edited since. Without rules that is what
  `requestBooking()` computes; so the rules are the only cause of finding `QuotedPrice`.
* Product. `ScenesAreServices`: a behaviour of the product in which the scenes are played
  is one of each service, since a step of one leaves the variables of the others alone.
* Idempotency. `HolderInv`: whoever works on a key that was not reopened is the one
  the record names; `EffectInv`: an effect belongs to that one; `OutcomeInv`: what is
  stored or reported is an effect of that key and body. Wizard: `FlightInv`, that edits
  which are pending have a timer, and that a request under way carries what is on the
  screen unless the field was edited since.
* Retention. `PurgeLockInv` (a run past the parents holds them), `JudgedInv` (at its UPDATE no
  hold but one on the document can exist, which is the very gap of `RetentionHold`), and
  `PurgeInv` for what each step has behind it.
* Verification. `InsertInv`: who has inserted sees no live request and is alone, by the
  unique index; `CloseInv`: a closed prior still needs information. Tickets: `FileInv`,
  that what a request has read under its lock is still so. Reviews: `BlindInv`, that a
  stamp on one review without the other is a stamp of the deadline, and so is whatever
  anybody could read before writing. Listings: `AuditInv`, that a call which no other has overtaken
  began after the latest row of the audit log, and that this row is a moderator's when a
  moderator decided last and the pausing call was not overtaken.
* Accounts. `LineageInv`: a rotation's successor is of the same sign-in and invisible until
  its commit. `UsedInv`: an accepted step is at or below the last one of its secret.
  `CodeInv`: a code whose tokens were deleted is in nobody's hand. `FreedInv`: a
  contact that frees claims has touched nobody whose number is proven. Registration: the
  count is inductive with the types alone, but each step has to show what it does to the
  set of answers under way, whose cardinality is in the statement.

The proofs rest on the assumptions on the constants. `FinanceAssumption` has finitely many
fees of a positive amount; `QuotesAssumption` has stays of at least one night, which
`nightsBetween()` refuses otherwise, and the columns' types and CHECKs for prices, charges,
rules and the rate of the fee (at most the whole, as `assertValidBps()` has it too).
`SecondFactorAssumption` has the step the clock starts from. For
bookings nothing is assumed of the dates: `from < to`, which the code checks, is a guard of
`RequestBooking`.

Left to the model checker is all liveness (`RequestsAreAnswered`, `StaysAreSettled`,
`NobodyIsForgotten`, `EveryCallReturns`, `KeysAreReleased`) and everything about `ENABLED`,
which the prover does not treat. Every other property of a passing run has its theorem.

Every invariant was model-checked before it was proved.

## 5. Not modelled

* Most of the code by lines: pages, forms, translations, search, dashboards, exports and
  the reading half of every service. It holds no state that a later step decides on; a
  model of it would be the code again. Of the services that write, the models cover the
  operations with a protocol; the map in `PROJECT.json` names their lines.
* In the booking model: amounts of money (see `Quotes`), the idempotency key of
  `requestBooking` (see `Idempotency`), notifications, event and audit rows; the 200-row
  limit of each list of the sweep; the `OFFER_PENDING` and `INQUIRY` statuses are in the
  tables, but no service fires the events that lead to them.
* In the outbox model: the inbox and its read marks, preferences beyond allowed or not,
  message texts, registration codes (sent without the queue), the caller's transaction.
* Finance: `adjust()`, which writes an entry neither payments nor waivers read, balances
  and restrictions. Listings: texts, amenities, promotion (boost, highlight, pin).
  Verification: assignment. Retention: what a closure erases besides tokens and chats,
  and the sweeps of single tables. Tickets: the automatic ones of the watchdog.
  Accounts: roles and staff accounts (single guarded statements). Disputes: evidence files
  and restrictions. Messaging: messages, freezing, the text filter. HTTP: routing and the
  rate limiter's one-statement counter. Savepoints.
* Search, favourites, trust, error log, watchdog and audit: one statement each. Object
  storage and image processing: I/O without a state of its own.

## 6. Where the code and its documents disagree

Each has a run that ends in a counterexample; the other runs do not depend on it.

1. `BookingContacts`: a later request of the same tenant re-points the released
   conversation at the new, unconfirmed booking, and the contact filter closes again
   while the first stay is confirmed.
2. `BookingDisputed`: contradictory answers put a booking into `DISPUTED` without a case.
3. `TxDeadlock`: two acceptances of overlapping requests can deadlock, and the loser
   gets SQLSTATE 40P01 in place of the domain's refusal. (An acceptance and a block can
   do the same.)
4. `TxDoubleTap`: two concurrent requests of one tenant both pass the duplicate check.
5. `FinanceRace`: `recordPayment()` marks fees `PAID` by id, without a lock: a fee waived
   in between is forgiven and paid, and two payments may count the same money.
6. `RetentionHold`: a hold on a document that commits while the purge waits for the
   document's row does not stop it; holds on the owner and on the request do
   (`ParentHoldsStopPurges`).
7. `QuotedPrice`: the quote route prices without the listing's rules, the booking with them.

Also met, without a run:

Bookings and transactions
* `acceptRequest()` declines its competitors so that "everyone else who wanted these nights
  finds out immediately instead of waiting for a request that can no longer be accepted"
  (`booking-service.ts:283`). A request that commits after its scan (`:301`) and before its
  COMMIT is not in the snapshot and stays `REQUESTED` beside the confirmed stay until it
  expires or is declined: the counterexample TLC finds when `CommitsAreServiceSteps` is
  checked for such a call.
* The effects a transition declares are executed by nobody unless the service does it
  itself: an instant booking leaves overlapping requests pending
  (`booking-service.ts:173`), a landlord's cancellation records no fraud signal (`:1011`).
* `states.ts:194` says the fee consequences of an early departure are decided at
  completion, but the transition it comments ends the booking in a terminal status.
* Reopening a closed case (`domain/dispute.ts:143`) does not look for another open one.
* The booking panel's idempotency key is a function of the dates and guests
  (`booking-panel.tsx:148`): the same stay asked for again after a withdrawal is answered
  with the withdrawn booking, although `booking-service.ts:124` calls re-requesting
  legitimate.
* The ruling's route (`staff.ts:223`) writes the case event and the notices in
  transactions after the one that rules.

Notifications
* The immediate attempt claims the notice it has just enqueued even on a channel without
  a provider, and it is `FAILED` for good (`container.ts:75`; `docs/PRODUCT.md:297`,
  NOTIF-008).
* When the audit row of a permanent failure cannot be written, the catch settles the row
  as transient and it is retried (`delivery-service.ts:306`; `docs/PRODUCT.md:295`,
  NOTIF-006).
* `markSent()` is guarded by the status and not by the claim: a worker that overran its
  lease marks a row sent that another has claimed since. `SettledForGood` excepts it.

Tickets and cases
* The notice of a question is keyed by action, file and resulting status
  (`support-tickets.ts:231`, `staff.ts:178`): a second question of the same file meets the
  key of the first and is dropped, although "REQUEST_INFO carries the staff member's
  words because that is the whole point of it" and the table has a follow-up
  self-loop. A second decision after a reopening is dropped alike.
* The reply's key is its event id, "so a retried request cannot double-notify"; but a
  retry of the request writes a new event.
* A party who joins a case that waits for it leaves it waiting; a reopened ticket still
  shows its author the old resolution; the thread is ordered by the time transactions
  began.

Accounts and listings
* "Once confirmed, this refuses" (`auth-service.ts:971`): `beginTotpEnrolment()` looks first
  and upserts later (`:984`), so an enrolment begun before another was confirmed takes the
  confirmation away. `CodesWorkOnce` holds regardless.
* `resetTotpFor()` deletes the recovery codes before the row (`:1243`): the codes of an
  enrolment that is confirmed between the two statements stay behind without a row, and
  work beside the next enrolment.
* Who paused a listing is "whichever one most recently wrote a status-changing audit row"
  (`listing-service.ts:791`), but the rows carry the beginning of their transactions: an
  owner's call that began later than a moderator's pause and wrote earlier hides it.
* A rotation that has inserted its successor survives a password reset that does not see
  it (`auth-service.ts:705`); `OneLivePerLogin` speaks of each sign-in alone.
* Hiding or removing a published review (`admin.ts:280`) leaves `published_at` and is
  refused by `review_published_has_timestamp` (migration 0005): the decision cannot be made.
* That a published listing keeps a photograph (`listing-service.ts:904`) is
  checked on removal while published; pause, remove, resume goes round it.
* `domain/pricing.ts:11` promises the same numbers for the same rules; rules of equal
  priority are taken in the order the query returned them.
* `closureBlockers()` runs before the transaction of `closeAccount()`
  (`retention-service.ts:712`): a booking confirmed in between does not block it.
* A linking code minted by a request that passed its session check before the closure
  is honoured after it (`late` in `Telegram`).

Listing wizard
* "NOTHING IS EVER LOST" (`listing-wizard.tsx:31`) and "The edit stays in `pending`
  conceptually" (`:223`): a failed PATCH is not sent again unless the field is edited
  again, leaving clears the timer of an edit not yet sent ("keeps the sentence", above
  `:240`), "Saves before leaving" (`:419`) goes on after a failed save, and `submit()` does
  not wait for a PATCH the timer has sent.

## 7. Plan

1. The job lease as an abstract specification that `Outbox` and `Retention` implement,
   and an abstract outbox (waiting, taken, settled) that `Outbox` implements when nobody
   overruns.
2. `Idempotency` composed with `RequestBooking`, and `closeAccount()` with its blockers
   composed with the booking.
3. Promotion of listings, the restrictions of landlords, message freezing.
