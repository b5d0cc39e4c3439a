------------------------------- MODULE Outbox -------------------------------
(***************************************************************************)
(* The notification outbox: rows of the table notification, the scheduled  *)
(* delivery run under the job_run mutex, and the immediate attempt made by *)
(* the request that enqueued a row (NotificationService, DeliveryService,  *)
(* RetentionService.beginRun and finishRun).                               *)
(*                                                                         *)
(* A worker is a process that runs DeliveryService: every step of it is    *)
(* one SQL statement or one call of a provider, and between two of them    *)
(* anything may happen, its death included.  Time is seen only through     *)
(* what the code compares it with: a lease has run out, a backoff is over. *)
(* Nothing in the code bounds how long a provider takes, so a lease may    *)
(* run out under a living worker.  A statement that fails has changed      *)
(* nothing.                                                                *)
(***************************************************************************)
EXTENDS Integers, FiniteSets

CONSTANTS
  Notice,        \* one per user, channel and dedupe_key: the unique index
  InApp,         \* those for the channel IN_APP
  Live,          \* those whose channel has a configured provider
  Worker,
  MaxAttempts,   \* MAX_DELIVERY_ATTEMPTS
  Batch,         \* the limit of claimForDelivery()
  MaxMishaps,    \* bound: how many deaths and failed statements a behaviour has
  NoNotice, NoWorker

ASSUME OutboxAssumption ==
  /\ InApp \subseteq Live /\ Live \subseteq Notice /\ IsFiniteSet(Worker)
  /\ MaxAttempts \in Nat \ {0} /\ Batch \in Nat \ {0} /\ MaxMishaps \in Nat
  /\ NoNotice \notin Notice /\ NoWorker \notin Worker

VARIABLES
  status,     \* notification.status; "NONE" before the row is inserted
  attempts,   \* notification.attempts
  waiting,    \* the rows whose next_attempt_at is still to come
  lapsed,     \* the rows whose claimed_at is older than the lease
  runner,     \* the worker whose job_run row is RUNNING
  runLapsed,  \* that row is older than its lease
  task,       \* per worker: what it is in the middle of
  step,       \* per worker: the statement or call it makes next
  hand,       \* per worker: the rows it has claimed and not yet tried
  item,       \* per worker: the row it is dealing with
  outcome,    \* per worker: what it has to settle that row as
  mails,      \* history: how often a provider took the message of the row
  overrun,    \* history: the rows taken back from a worker that was still alive
  mishaps     \* history: deaths and failed statements so far

rows == <<status, attempts, waiting, lapsed>>
run == <<runner, runLapsed>>
work == <<task, step, hand, item, outcome>>
vars == <<rows, run, work, mails, overrun, mishaps>>

Status == { "PENDING", "SENDING", "SENT", "FAILED", "SUPPRESSED" }
Task == { "none", "request", "run" }
Step == { "idle", "claimOne", "insertRun", "reclaim", "claim", "deliver", "send", "settle",
          "audit", "finish" }
Outcome == { "NONE", "DELIVERED", "TRANSIENT", "PERMANENT", "NO_ADDRESS", "THROWN" }

Init ==
  /\ status = [n \in Notice |-> "NONE"]
  /\ attempts = [n \in Notice |-> 0]
  /\ waiting = {} /\ lapsed = {}
  /\ runner = NoWorker /\ runLapsed = FALSE
  /\ task = [w \in Worker |-> "none"]
  /\ step = [w \in Worker |-> "idle"]
  /\ hand = [w \in Worker |-> {}]
  /\ item = [w \in Worker |-> NoNotice]
  /\ outcome = [w \in Worker |-> "NONE"]
  /\ mails = [n \in Notice |-> 0]
  /\ overrun = {}
  /\ mishaps = 0
-----------------------------------------------------------------------------
(* Workers.                                                                *)

\* The rows that w has claimed and not settled.  A request that has inserted a
\* row and not yet claimed it holds nothing.
Held(w) == hand[w] \cup (IF step[w] = "claimOne" THEN {} ELSE {item[w]} \ {NoNotice})

GoTo(w, s) == step' = [step EXCEPT ![w] = s]

\* w turns to row n, which leaves its hand.
TakeUp(w, n, o) ==
  /\ item' = [item EXCEPT ![w] = n]
  /\ outcome' = [outcome EXCEPT ![w] = o]
  /\ hand' = [hand EXCEPT ![w] = @ \ {n}]

PutDown(w) ==
  /\ item' = [item EXCEPT ![w] = NoNotice]
  /\ outcome' = [outcome EXCEPT ![w] = "NONE"]

\* w has nothing to do: its call has returned, or its process has died.
Leave(w) ==
  /\ GoTo(w, "idle") /\ PutDown(w)
  /\ task' = [task EXCEPT ![w] = "none"]
  /\ hand' = [hand EXCEPT ![w] = {}]

\* After a row a run goes on to the next of its batch and then closes its
\* job_run row; an immediate attempt is over.
NextRow(w) ==
  IF task[w] = "request" THEN Leave(w)
  ELSE /\ GoTo(w, IF hand[w] = {} THEN "finish" ELSE "deliver")
       /\ PutDown(w) /\ UNCHANGED <<task, hand>>

Mishap == mishaps < MaxMishaps /\ mishaps' = mishaps + 1
-----------------------------------------------------------------------------
(* enqueue().                                                              *)

\* (Mutant: the insert updates the row on a conflict.)
InsertOrUpdate(n, s) == status' = [status EXCEPT ![n] = s]
Insert(n, s) ==
  /\ status[n] = "NONE"      \* else the dedupe key did its job
  /\ status' = [status EXCEPT ![n] = s]

\* In a caller's transaction, for IN_APP, or on a channel the user has switched
\* off: the row is all.
Enqueue(n, allowed) ==
  /\ Insert(n, IF allowed THEN "PENDING" ELSE "SUPPRESSED")
  /\ UNCHANGED <<attempts, waiting, lapsed, run, work, mails, overrun, mishaps>>

\* On its own connection: the insert has committed, and the request goes on to
\* deliverNow(), whatever the state of the channel.
EnqueueNow(w, n) ==
  /\ step[w] = "idle" /\ n \notin InApp
  /\ Insert(n, "PENDING")
  /\ task' = [task EXCEPT ![w] = "request"]
  /\ TakeUp(w, n, "NONE") /\ GoTo(w, "claimOne")
  /\ UNCHANGED <<attempts, waiting, lapsed, run, mails, overrun, mishaps>>
-----------------------------------------------------------------------------
(* The statements that claim rows, take them back and hold the job.        *)

\* (Mutant: a claim does not show in the row until it is settled.)
DueOrClaimed == { n \in Notice : status[n] \in {"PENDING", "SENDING"} /\ n \notin waiting }
Due == { n \in Notice : status[n] = "PENDING" /\ n \notin waiting }

Claim(w, ns) ==
  /\ status' = [n \in Notice |-> IF n \in ns THEN "SENDING" ELSE status[n]]
  /\ attempts' = [n \in Notice |-> IF n \in ns THEN attempts[n] + 1 ELSE attempts[n]]
  /\ lapsed' = lapsed \ ns
  /\ hand' = [hand EXCEPT ![w] = ns]
  /\ PutDown(w)

\* claimOneForDelivery(): the row may be gone, and the statement may fail, which
\* the hook swallows.
ClaimOne(w) ==
  /\ step[w] = "claimOne" /\ item[w] \in Due
  /\ Claim(w, {item[w]}) /\ GoTo(w, "deliver")
  /\ UNCHANGED <<waiting, run, task, mails, overrun, mishaps>>

NothingToClaim(w) ==
  /\ step[w] = "claimOne"
  /\ \/ item[w] \in Due /\ Mishap
     \/ item[w] \notin Due /\ UNCHANGED mishaps
  /\ Leave(w)
  /\ UNCHANGED <<rows, run, mails, overrun>>

\* beginRun(): a lapsed run is abandoned first...
\* (Mutant: nobody abandons it.)
BeginRunAfterTheLast(w) ==
  /\ step[w] = "idle"
  /\ task' = [task EXCEPT ![w] = "run"] /\ GoTo(w, "insertRun")
  /\ UNCHANGED <<rows, run, hand, item, outcome, mails, overrun, mishaps>>
BeginRun(w) ==
  /\ step[w] = "idle"
  /\ task' = [task EXCEPT ![w] = "run"] /\ GoTo(w, "insertRun")
  /\ runner' = IF runLapsed THEN NoWorker ELSE runner
  /\ runLapsed' = FALSE
  /\ UNCHANGED <<rows, hand, item, outcome, mails, overrun, mishaps>>

\* ...and the partial unique index lets one RUNNING row in.
InsertRun(w) ==
  /\ step[w] = "insertRun"
  /\ \/ /\ runner = NoWorker
        /\ runner' = w
        /\ GoTo(w, "reclaim") /\ UNCHANGED <<task, hand, item, outcome>>
     \/ runner # NoWorker /\ Leave(w) /\ UNCHANGED runner
  /\ UNCHANGED <<rows, runLapsed, mails, overrun, mishaps>>

\* reclaimAbandoned()
Abandoned == { n \in lapsed : status[n] = "SENDING" }

Reclaim(w) ==
  /\ step[w] = "reclaim"
  /\ status' = [n \in Notice |-> IF n \in Abandoned THEN "PENDING" ELSE status[n]]
  /\ lapsed' = lapsed \ Abandoned
  /\ overrun' = overrun \cup { n \in Abandoned : \E v \in Worker : n \in Held(v) }
  /\ GoTo(w, "claim")
  /\ UNCHANGED <<attempts, waiting, run, task, hand, item, outcome, mails, mishaps>>

\* claimForDelivery(): the live channels only, and as many as the limit lets.
\* Which of the due rows come first is left open.
\* (Mutant: the attempts are not counted.)
ClaimableForEver == Due \cap Live
Claimable == { n \in Due \cap Live : attempts[n] < MaxAttempts }

ClaimForDelivery(w) ==
  /\ step[w] = "claim"
  /\ \E ns \in SUBSET Claimable :
       /\ Cardinality(ns) <= Batch
       /\ Cardinality(ns) = Batch \/ ns = Claimable
       /\ Claim(w, ns)
       /\ GoTo(w, IF ns = {} THEN "finish" ELSE "deliver")
  /\ UNCHANGED <<waiting, run, task, mails, overrun, mishaps>>

\* Either statement fails: the run is closed and the error goes to the caller.
RunThrows(w) ==
  /\ step[w] \in {"reclaim", "claim"}
  /\ Mishap
  /\ GoTo(w, "finish")
  /\ UNCHANGED <<rows, run, task, hand, item, outcome, mails, overrun>>

\* finishRun(), which closes the run of this worker only; it may fail.
FinishRun(w) ==
  /\ step[w] = "finish"
  /\ \/ runner = w /\ runner' = NoWorker /\ runLapsed' = FALSE /\ UNCHANGED mishaps
     \/ runner # w /\ UNCHANGED <<run, mishaps>>
     \/ runner = w /\ Mishap /\ UNCHANGED run
  /\ Leave(w)
  /\ UNCHANGED <<rows, mails, overrun>>
-----------------------------------------------------------------------------
(* deliverOne().                                                           *)

\* The address is resolved now; there may be none, and the query may fail.
Deliver(w) ==
  /\ step[w] = "deliver"
  /\ \E n \in hand[w] :
       \/ TakeUp(w, n, "NONE") /\ GoTo(w, "send") /\ UNCHANGED mishaps
       \/ /\ n \notin InApp /\ TakeUp(w, n, "NO_ADDRESS")
          /\ GoTo(w, "settle") /\ UNCHANGED mishaps
       \/ n \notin InApp /\ TakeUp(w, n, "THROWN") /\ GoTo(w, "settle") /\ Mishap
  /\ UNCHANGED <<rows, run, task, mails, overrun>>

\* The provider takes the message and says so, or its answer is lost, or it
\* refuses for now or for good.  One without credentials always refuses.
Send(w) ==
  LET n == item[w]
      answers == IF n \notin Live THEN {"PERMANENT"} ELSE
                 IF n \in InApp THEN {"DELIVERED"} ELSE {"DELIVERED", "TRANSIENT", "PERMANENT"}
  IN /\ step[w] = "send"
     /\ \E o \in answers :
          /\ outcome' = [outcome EXCEPT ![w] = o]
          /\ \/ o # "PERMANENT" /\ mails' = [mails EXCEPT ![n] = @ + 1]
             \/ o # "DELIVERED" /\ UNCHANGED mails
     /\ GoTo(w, "settle")
     /\ UNCHANGED <<rows, run, task, hand, item, overrun, mishaps>>

\* markSent(), the only one of the four that looks at the status of the row.
MarkSent(n) ==
  /\ status' = [status EXCEPT ![n] = IF @ = "SENDING" THEN "SENT" ELSE @]
  /\ lapsed' = IF status[n] = "SENDING" THEN lapsed \ {n} ELSE lapsed
  /\ UNCHANGED waiting

\* markSuppressed(), and markFailed() of a PERMANENT failure
MarkAs(n, s) ==
  /\ status' = [status EXCEPT ![n] = s]
  /\ lapsed' = lapsed \ {n}
  /\ UNCHANGED waiting

\* markFailed() of a TRANSIENT failure: a backoff, or the end after the last
\* attempt.
\* (Mutant: the result of deliverOne() is written into the row.)
MarkTransientAsRetry(n) ==
  /\ lapsed' = lapsed \ {n}
  /\ status' = [status EXCEPT ![n] = IF attempts[n] >= MaxAttempts THEN "FAILED" ELSE "RETRY"]
  /\ UNCHANGED waiting
MarkTransient(n) ==
  /\ lapsed' = lapsed \ {n}
  /\ IF attempts[n] >= MaxAttempts
     THEN status' = [status EXCEPT ![n] = "FAILED"] /\ waiting' = waiting \ {n}
     ELSE status' = [status EXCEPT ![n] = "PENDING"] /\ waiting' = waiting \cup {n}

\* (Mutant: whatever a provider did not refuse for good counts as sent.)
SettleAsNotRefused(n, o) ==
  \/ o \in {"DELIVERED", "TRANSIENT"} /\ MarkSent(n)
  \/ o = "NO_ADDRESS" /\ MarkAs(n, "SUPPRESSED")
  \/ o = "PERMANENT" /\ MarkAs(n, "FAILED")
  \/ o = "THROWN" /\ MarkTransient(n)
SettleAs(n, o) ==
  \/ o = "DELIVERED" /\ MarkSent(n)
  \/ o = "NO_ADDRESS" /\ MarkAs(n, "SUPPRESSED")
  \/ o = "PERMANENT" /\ MarkAs(n, "FAILED")
  \/ o \in {"TRANSIENT", "THROWN"} /\ MarkTransient(n)

Settle(w) ==
  /\ step[w] = "settle"
  /\ SettleAs(item[w], outcome[w])
  /\ IF outcome[w] = "PERMANENT"
     THEN GoTo(w, "audit") /\ UNCHANGED <<task, hand, item, outcome>>
     ELSE NextRow(w)
  /\ UNCHANGED <<attempts, run, mails, overrun, mishaps>>

\* The audit row of an undeliverable notice has been written.
Audit(w) ==
  /\ step[w] = "audit"
  /\ NextRow(w)
  /\ UNCHANGED <<rows, run, mails, overrun, mishaps>>

\* The settling statement or the audit transaction fails: the catch of run() or
\* deliverNow() settles the row as transient, and a failure of that is passed on.
SettleThrows(w) ==
  /\ step[w] \in {"settle", "audit"}
  /\ Mishap
  /\ \/ /\ outcome[w] # "THROWN"
        /\ outcome' = [outcome EXCEPT ![w] = "THROWN"]
        /\ GoTo(w, "settle") /\ UNCHANGED <<task, hand, item>>
     \/ outcome[w] = "THROWN" /\ task[w] = "request" /\ Leave(w)
     \/ /\ outcome[w] = "THROWN" /\ task[w] = "run"
        /\ GoTo(w, "finish") /\ PutDown(w)
        /\ hand' = [hand EXCEPT ![w] = {}] /\ UNCHANGED task
  /\ UNCHANGED <<rows, run, mails, overrun>>
-----------------------------------------------------------------------------
(* The world.                                                              *)

\* The process dies; what it has claimed and the job stay behind.
Crash(w) ==
  /\ step[w] # "idle"
  /\ Mishap
  /\ Leave(w)
  /\ UNCHANGED <<rows, run, mails, overrun>>

RowLeaseEnds(n) ==
  /\ status[n] = "SENDING" /\ n \notin lapsed
  /\ lapsed' = lapsed \cup {n}
  /\ UNCHANGED <<status, attempts, waiting, run, work, mails, overrun, mishaps>>

RunLeaseEnds ==
  /\ runner # NoWorker /\ ~runLapsed
  /\ runLapsed' = TRUE
  /\ UNCHANGED <<rows, runner, work, mails, overrun, mishaps>>

BackoffEnds(n) ==
  /\ n \in waiting
  /\ waiting' = waiting \ {n}
  /\ UNCHANGED <<status, attempts, lapsed, run, work, mails, overrun, mishaps>>

\* What a worker does when nothing goes wrong.
Proceed(w) ==
  \/ ClaimOne(w) \/ NothingToClaim(w)
  \/ InsertRun(w) \/ Reclaim(w) \/ ClaimForDelivery(w) \/ FinishRun(w)
  \/ Deliver(w) \/ Send(w) \/ Settle(w) \/ Audit(w)

Next ==
  \/ \E n \in Notice, allowed \in BOOLEAN : Enqueue(n, allowed)
  \/ \E w \in Worker, n \in Notice : EnqueueNow(w, n)
  \/ \E w \in Worker : BeginRun(w) \/ Proceed(w) \/ RunThrows(w) \/ SettleThrows(w) \/ Crash(w)
  \/ \E n \in Notice : RowLeaseEnds(n) \/ BackoffEnds(n)
  \/ RunLeaseEnds

Spec == Init /\ [][Next]_vars

\* The cron starts a run again and again, a process that lives goes on, and
\* clocks advance.
Fairness ==
  /\ \A w \in Worker : WF_vars(Proceed(w)) /\ WF_vars(BeginRun(w))
  /\ \A n \in Notice : WF_vars(RowLeaseEnds(n)) /\ WF_vars(BackoffEnds(n))
  /\ WF_vars(RunLeaseEnds)

FairSpec == Spec /\ Fairness
=============================================================================
