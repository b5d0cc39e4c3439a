------------------------------- MODULE Retention -------------------------------
(***************************************************************************)
(* The destruction of one verification document at the end of its          *)
(* retention, the legal holds that forbid it, and the lease of the job     *)
(* that does it (services/retention-service.ts).  The transactions are     *)
(* READ COMMITTED and are modelled by their locks and statements.          *)
(***************************************************************************)
EXTENDS Naturals, FiniteSets

CONSTANTS PurgeRun,   \* processes that run the purge job
          HoldCall,   \* calls of placeHold
          Nobody      \* not a call

ASSUME RetentionAssumption ==
  /\ Nobody \notin PurgeRun \cup HoldCall
  /\ PurgeRun \cap HoldCall = {}

\* What a hold that covers the document can name.
Target == {"user", "request", "document"}

VARIABLES
  due,       \* purge_after is set and has passed
  bytes,     \* the object is in the private store
  started,   \* purge_started_at is set
  purged,    \* purged_at is set
  hold,      \* targets with a live hold, as committed
  lock,      \* lock[t]: the call that holds the row of target t
  purging,   \* purging[p]: where run p is
  placing,   \* placing[c]: the target that call c is placing a hold on ("": none)
  lease,     \* the run that is RUNNING in job_run, if any
  leaseOver, \* its lease has passed
  defied     \* targets with a live hold when a purge claimed the document (history)

retentionVars == <<due, bytes, started, purged, hold, lock, purging, placing, lease,
                   leaseOver, defied>>
documentVars == <<due, bytes, started, purged>>
leaseVars == <<lease, leaseOver>>

RetentionInit ==
  /\ due = FALSE /\ bytes = TRUE /\ started = FALSE /\ purged = FALSE
  /\ hold = {}
  /\ lock = [t \in Target |-> Nobody]
  /\ purging = [p \in PurgeRun |-> "IDLE"]
  /\ placing = [c \in HoldCall |-> ""]
  /\ lease = Nobody /\ leaseOver = FALSE
  /\ defied = {}

HoldCovers == hold # {}
Eligible == due /\ ~purged /\ ~HoldCovers

Unlock(c) == lock' = [t \in Target |-> IF lock[t] = c THEN Nobody ELSE lock[t]]
Take(c, t) == lock[t] = Nobody /\ lock' = [lock EXCEPT ![t] = c]
Reach(p, place) == purging' = [purging EXCEPT ![p] = place]
-----------------------------------------------------------------------------
\* The decision on the request sets purge_after, and it passes.
FallsDue ==
  /\ ~due
  /\ due' = TRUE
  /\ UNCHANGED <<bytes, started, purged, hold, lock, purging, placing, defied>>
  /\ UNCHANGED leaseVars

\* beginRun(): a run past its lease is ABANDONED, and the unique index on
\* RUNNING lets one start.
BeginRun(p) ==
  /\ purging[p] = "IDLE"
  /\ lease = Nobody \/ leaseOver
  /\ lease' = p /\ leaseOver' = FALSE
  /\ Reach(p, "SCAN")
  /\ UNCHANGED <<hold, lock, placing, defied>> /\ UNCHANGED documentVars

LeasePasses ==
  /\ lease # Nobody /\ ~leaseOver
  /\ leaseOver' = TRUE
  /\ UNCHANGED <<lease, hold, lock, purging, placing, defied>>
  /\ UNCHANGED documentVars

\* finishRun(): only a row that is still RUNNING.
FinishRun(p) ==
  /\ purging[p] = "OVER"
  /\ Reach(p, "IDLE")
  /\ IF lease = p THEN lease' = Nobody /\ leaseOver' = FALSE ELSE UNCHANGED leaseVars
  /\ UNCHANGED <<hold, lock, placing, defied>> /\ UNCHANGED documentVars
-----------------------------------------------------------------------------
\* purgeDocument(), for a document that the scan found: the user, then the
\* request...
ScanDue(p) ==
  /\ purging[p] = "SCAN"
  /\ Reach(p, IF Eligible THEN "LOCK_USER" ELSE "OVER")
  /\ UNCHANGED <<hold, lock, placing, defied>>
  /\ UNCHANGED documentVars /\ UNCHANGED leaseVars

\* (Mutant: the parent is read without FOR UPDATE.)
ReadParent(p, t, here, there) ==
  /\ purging[p] = here
  /\ Reach(p, there)
  /\ UNCHANGED <<hold, lock, placing, defied>>
  /\ UNCHANGED documentVars /\ UNCHANGED leaseVars

LockParent(p, t, here, there) ==
  /\ purging[p] = here
  /\ Take(p, t)
  /\ Reach(p, there)
  /\ UNCHANGED <<hold, placing, defied>>
  /\ UNCHANGED documentVars /\ UNCHANGED leaseVars

LockParents(p) ==
  \/ LockParent(p, "user", "LOCK_USER", "LOCK_REQUEST")
  \/ LockParent(p, "request", "LOCK_REQUEST", "LOOK")

\* ...and one UPDATE: it judges the conditions on what is committed when it
\* begins...
JudgeDocument(p) ==
  /\ purging[p] = "LOOK"
  /\ IF Eligible THEN Reach(p, "CLAIM") /\ UNCHANGED lock
                 ELSE Reach(p, "OVER") /\ Unlock(p)
  /\ UNCHANGED <<hold, placing, defied>>
  /\ UNCHANGED documentVars /\ UNCHANGED leaseVars

\* (Mutant: purged_at is set with the claim.)
ClaimAsPurged(p) ==
  /\ purging[p] = "CLAIM"
  /\ lock["document"] = Nobody
  /\ Unlock(p)
  /\ IF purged
     THEN Reach(p, "OVER") /\ UNCHANGED <<started, purged, defied>>
     ELSE /\ started' = TRUE /\ purged' = TRUE
          /\ defied' = defied \cup hold
          /\ Reach(p, "DESTROY")
  /\ UNCHANGED <<due, bytes, hold, placing>> /\ UNCHANGED leaseVars

\* ...waits for the row of the document, and judges again only if that row was
\* changed meanwhile, not if it was locked.
ClaimDocument(p) ==
  /\ purging[p] = "CLAIM"
  /\ lock["document"] = Nobody
  /\ Unlock(p)
  /\ IF purged
     THEN Reach(p, "OVER") /\ UNCHANGED <<started, defied>>
     ELSE /\ started' = TRUE
          /\ defied' = defied \cup hold
          /\ Reach(p, "DESTROY")
  /\ UNCHANGED <<due, bytes, purged, hold, placing>> /\ UNCHANGED leaseVars

\* The object store deletes the object, or fails to.
DestroyBytes(p) ==
  /\ purging[p] = "DESTROY"
  /\ bytes' = FALSE
  /\ Reach(p, "CONFIRM")
  /\ UNCHANGED <<due, started, purged, hold, lock, placing, defied>>
  /\ UNCHANGED leaseVars

StoreFails(p) ==
  /\ purging[p] = "DESTROY"
  /\ Reach(p, "OVER")
  /\ UNCHANGED <<hold, lock, placing, defied>>
  /\ UNCHANGED documentVars /\ UNCHANGED leaseVars

ConfirmPurge(p) ==
  /\ purging[p] = "CONFIRM"
  /\ purged' = TRUE
  /\ Reach(p, "OVER")
  /\ UNCHANGED <<due, bytes, started, hold, lock, placing, defied>>
  /\ UNCHANGED leaseVars

\* The process of the run dies: its transaction is rolled back, its row in
\* job_run stays RUNNING.
RunDies(p) ==
  /\ purging[p] # "IDLE"
  /\ Reach(p, "IDLE")
  /\ Unlock(p)
  /\ UNCHANGED <<hold, placing, defied>>
  /\ UNCHANGED documentVars /\ UNCHANGED leaseVars
-----------------------------------------------------------------------------
\* placeHold(): the row of the target is locked first, then the hold inserted;
\* one that is there already is returned.
BeginHold(c, t) ==
  /\ placing[c] = ""
  /\ Take(c, t)
  /\ placing' = [placing EXCEPT ![c] = t]
  /\ UNCHANGED <<hold, purging, defied>>
  /\ UNCHANGED documentVars /\ UNCHANGED leaseVars

EndHold(c, held) ==
  /\ placing[c] # ""
  /\ hold' = hold \cup held
  /\ Unlock(c)
  /\ placing' = [placing EXCEPT ![c] = ""]
  /\ UNCHANGED <<purging, defied>>
  /\ UNCHANGED documentVars /\ UNCHANGED leaseVars

CommitHold(c) == EndHold(c, {placing[c]})
LoseHold(c) == EndHold(c, {})

\* releaseHold(), by its id, under the lock of its own row.
ReleaseHold(t) ==
  /\ t \in hold
  /\ hold' = hold \ {t}
  /\ UNCHANGED <<lock, purging, placing, defied>>
  /\ UNCHANGED documentVars /\ UNCHANGED leaseVars

PurgeStep(p) ==
  \/ ScanDue(p) \/ LockParents(p) \/ JudgeDocument(p) \/ ClaimDocument(p)
  \/ ConfirmPurge(p) \/ FinishRun(p)

RetentionNext ==
  \/ FallsDue \/ LeasePasses
  \/ \E p \in PurgeRun :
       BeginRun(p) \/ PurgeStep(p) \/ DestroyBytes(p) \/ StoreFails(p) \/ RunDies(p)
  \/ \E c \in HoldCall : \/ \E t \in Target : BeginHold(c, t)
                         \/ CommitHold(c) \/ LoseHold(c)
  \/ \E t \in Target : ReleaseHold(t)

RetentionSpec == RetentionInit /\ [][RetentionNext]_retentionVars
-----------------------------------------------------------------------------
RetentionTypeOK ==
  /\ due \in BOOLEAN /\ bytes \in BOOLEAN /\ started \in BOOLEAN /\ purged \in BOOLEAN
  /\ hold \subseteq Target /\ defied \subseteq Target
  /\ lock \in [Target -> PurgeRun \cup HoldCall \cup {Nobody}]
  /\ purging \in [PurgeRun -> {"IDLE", "SCAN", "LOCK_USER", "LOCK_REQUEST", "LOOK", "CLAIM",
                               "DESTROY", "CONFIRM", "OVER"}]
  /\ placing \in [HoldCall -> Target \cup {""}]
  /\ lease \in PurgeRun \cup {Nobody} /\ leaseOver \in BOOLEAN

\* A document that says it was destroyed was: the bytes go before purged_at is
\* set, wherever a run dies and however two runs overlap once a lease has passed;
\* and nothing is destroyed that was not due and claimed (purgeDocument).
PurgedIsTrue ==
  /\ purged => ~bytes
  /\ ~bytes => due /\ started

\* No purge claims a document whose owner or request is held: both take the
\* lock of the same row, and whoever comes second sees the first (placeHold,
\* purgeDocument).
ParentHoldsStopPurges == defied \subseteq {"document"}
-----------------------------------------------------------------------------
(* What the comment says and the code does not do.                         *)

\* "The purge locks every row a covering hold could name, parent first (user,
\* request, document) ... Whichever transaction gets there first wins; the loser
\* blocks and then sees the winner's committed effect" (placeHold): no document
\* is claimed under a hold.
HoldsStopPurges == defied = {}
=============================================================================
