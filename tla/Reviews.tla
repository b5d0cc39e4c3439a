------------------------------- MODULE Reviews -------------------------------
(***************************************************************************)
(* The two reviews of one completed rental (services/review-service.ts),   *)
(* their publication, together or at the end of the window, and the        *)
(* moderation of reported ones (api/routes/admin.ts).                      *)
(***************************************************************************)
EXTENDS Naturals, FiniteSets

Side == {"TENANT", "LANDLORD"}
Other(s) == IF s = "TENANT" THEN "LANDLORD" ELSE "TENANT"

VARIABLES
  window,     \* the clock, as the review deadline sees it
  review,     \* review[s]: the committed status of the review written by side s
  stamped,    \* the reviews with a published_at
  writing,    \* writing[s]: how far side s has come with its submission
  informed,   \* sides that had read the other's review when they wrote theirs
  tardy,      \* sides whose submission passed the check at the very deadline
  report      \* report[s]: the report about the review of side s

reviewsVars == <<window, review, stamped, writing, informed, tardy, report>>

ReviewStatus == {"NONE", "PENDING", "PUBLISHED", "HIDDEN", "REMOVED"}
Written(s) == review[s] # "NONE"
Decision == {"PUBLISHED", "HIDDEN", "REMOVED"}

ReviewsInit ==
  /\ window = "OPEN"
  /\ review = [s \in Side |-> "NONE"]
  /\ stamped = {}
  /\ writing = [s \in Side |-> "NO"]
  /\ informed = {} /\ tardy = {}
  /\ report = [s \in Side |-> "NONE"]

\* review_deadline_at comes and goes.
ReviewClock ==
  /\ window # "CLOSED"
  /\ window' = IF window = "OPEN" THEN "DEADLINE" ELSE "CLOSED"
  /\ UNCHANGED <<review, stamped, writing, informed, tardy, report>>
-----------------------------------------------------------------------------
\* A party composes a review, having read whatever is published by then, and
\* sends it.
Compose(s) ==
  /\ writing[s] \in {"NO", "REFUSED"} /\ ~Written(s)
  /\ writing' = [writing EXCEPT ![s] = "SENT"]
  /\ informed' = IF review[Other(s)] = "PUBLISHED" THEN informed \cup {s} ELSE informed
  /\ UNCHANGED <<window, review, stamped, tardy, report>>

\* submit(): FOR UPDATE on the booking admits one submission at a time, and the
\* clock is read under that lock: refused strictly after the deadline.
LockRental(s) ==
  /\ writing[s] = "SENT" /\ writing[Other(s)] # "LOCKED"
  /\ IF window = "CLOSED"
     THEN /\ writing' = [writing EXCEPT ![s] = "REFUSED"]
          /\ UNCHANGED tardy
     ELSE /\ writing' = [writing EXCEPT ![s] = "LOCKED"]
          /\ tardy' = IF window = "DEADLINE" THEN tardy \cup {s} ELSE tardy
  /\ UNCHANGED <<window, review, stamped, informed, report>>

\* The row is inserted PENDING; publishIfBothSubmitted() counts the rows of the
\* rental, and with two publishes those that are still PENDING.
CommitReview(s) ==
  LET pending == {s} \cup {t \in Side : review[t] = "PENDING"}
  IN /\ writing[s] = "LOCKED"
     /\ writing' = [writing EXCEPT ![s] = "DONE"]
     /\ IF Written(Other(s))
        THEN /\ review' = [t \in Side |-> IF t \in pending THEN "PUBLISHED" ELSE review[t]]
             /\ stamped' = stamped \cup pending
        ELSE /\ review' = [review EXCEPT ![s] = "PENDING"]
             /\ UNCHANGED stamped
     /\ UNCHANGED <<window, informed, tardy, report>>

\* The transaction is rolled back before it commits.
LoseReview(s) ==
  /\ writing[s] = "LOCKED"
  /\ writing' = [writing EXCEPT ![s] = "REFUSED"]
  /\ UNCHANGED <<window, review, stamped, informed, tardy, report>>

\* (Mutant: without the condition on review_deadline_at.)
PublishPending ==
  LET pending == {t \in Side : review[t] = "PENDING"}
  IN /\ pending # {}
     /\ review' = [t \in Side |-> IF t \in pending THEN "PUBLISHED" ELSE review[t]]
     /\ stamped' = stamped \cup pending
     /\ UNCHANGED <<window, writing, informed, tardy, report>>

\* publishExpiredWindows(), from the lifecycle job: one statement, at or after
\* the deadline, which takes no lock on the booking.
PublishExpired ==
  LET pending == {t \in Side : review[t] = "PENDING"}
  IN /\ window # "OPEN" /\ pending # {}
     /\ review' = [t \in Side |-> IF t \in pending THEN "PUBLISHED" ELSE review[t]]
     /\ stamped' = stamped \cup pending
     /\ UNCHANGED <<window, writing, informed, tardy, report>>
-----------------------------------------------------------------------------
\* report(): only what is published, and not one's own.
ReportReview(s) ==
  /\ review[s] = "PUBLISHED"
  /\ report[s] = "NONE"
  /\ report' = [report EXCEPT ![s] = "OPEN"]
  /\ UNCHANGED <<window, review, stamped, writing, informed, tardy>>

\* review_published_has_timestamp of migration 0005: PUBLISHED if and only if
\* published_at is set.
RowAllowed(s, status) == (status = "PUBLISHED") <=> (s \in stamped)

\* The decision of a moderator sets the status and nothing else, without looking
\* at the status there was, and closes the reports; a row that the constraint
\* forbids rolls the whole decision back.
Moderate(s, d) ==
  /\ Written(s) /\ RowAllowed(s, d)
  /\ review' = [review EXCEPT ![s] = d]
  /\ report' = [report EXCEPT ![s] =
       IF @ # "OPEN" THEN @ ELSE IF d = "PUBLISHED" THEN "DISMISSED" ELSE "ACTIONED"]
  /\ UNCHANGED <<window, stamped, writing, informed, tardy>>

ReviewsNext ==
  \/ ReviewClock \/ PublishExpired
  \/ \E s \in Side :
       \/ Compose(s) \/ LockRental(s) \/ CommitReview(s) \/ LoseReview(s)
       \/ ReportReview(s)
       \/ \E d \in Decision : Moderate(s, d)

ReviewsSpec == ReviewsInit /\ [][ReviewsNext]_reviewsVars
-----------------------------------------------------------------------------
ReviewsTypeOK ==
  /\ window \in {"OPEN", "DEADLINE", "CLOSED"}
  /\ review \in [Side -> ReviewStatus]
  /\ stamped \subseteq Side
  /\ writing \in [Side -> {"NO", "SENT", "LOCKED", "DONE", "REFUSED"}]
  /\ informed \subseteq Side /\ tardy \subseteq Side
  /\ report \in [Side -> {"NONE", "OPEN", "DISMISSED", "ACTIONED"}]

\* Nobody writes a review with the other's before their eyes: the reviews appear
\* together, or after the window, when nothing can be submitted any more.  Only
\* the instant of the deadline belongs to both: submit() refuses strictly after
\* it and publishExpiredWindows() publishes from it on.
DoubleBlind ==
  \A s \in Side : Written(s) /\ s \in informed => s \in tardy
=============================================================================
