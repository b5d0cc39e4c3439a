----------------------------- MODULE Idempotency -----------------------------
(***************************************************************************)
(* Requests that carry an Idempotency-Key (api/idempotency.ts, the end of  *)
(* dispatch in api/router.ts): the claim of the key, the handler with its  *)
(* committed effect, the stored answer, and what happens when a request    *)
(* fails or its process dies between two of these steps.                   *)
(***************************************************************************)
EXTENDS Naturals, FiniteSets

CONSTANTS Key,        \* (user, scope, key) triples
          Attempt,    \* the requests, first ones and retries alike
          KeyOf,      \* KeyOf[a]: the key that request a sends
          Body,       \* the bodies; equal ones have equal hashes
          BodyOf,     \* BodyOf[a]: the body of request a
          Guarded,    \* keys that the handler stores with its own row, unique
          NoAttempt   \* an outcome of none of the requests

ASSUME IdempotencyAssumption ==
  /\ KeyOf \in [Attempt -> Key] /\ BodyOf \in [Attempt -> Body]
  /\ Guarded \subseteq Key
  /\ NoAttempt \notin Attempt

VARIABLES
  claim,    \* claim[k]: the request that holds the record of key k
  stored,   \* stored[k]: the outcome kept in the record, once COMPLETED
  lapsed,   \* keys whose record is past expires_at
  at,       \* where each request is
  outcome,  \* outcome[a]: the effect that request a answers with
  effects,  \* effects[k]: the effects committed for key k, each by its request
  reopened  \* keys released after a request had begun its work (history)

idempotencyVars == <<claim, stored, lapsed, at, outcome, effects, reopened>>

\* Two keys never meet: the requests of one key arrive, in an order of their own.
IdempotencyInit ==
  /\ claim = [k \in Key |-> NoAttempt]
  /\ stored = [k \in Key |-> NoAttempt]
  /\ lapsed = {}
  /\ \E k \in Key :
       at = [a \in Attempt |-> IF KeyOf[a] = k THEN "ARRIVED" ELSE "ABSENT"]
  /\ outcome = [a \in Attempt |-> NoAttempt]
  /\ effects = [k \in Key |-> {}]
  /\ reopened = {}

GoOn(a, place) == at' = [at EXCEPT ![a] = place]
Recorded(k) == claim[k] # NoAttempt
DeleteRecord(k) ==
  /\ claim' = [claim EXCEPT ![k] = NoAttempt]
  /\ stored' = [stored EXCEPT ![k] = NoAttempt]
  /\ lapsed' = lapsed \ {k}
-----------------------------------------------------------------------------
\* (Mutant: ON CONFLICT DO UPDATE, so that the later request takes the key over.)
ClaimKeyOver(a) ==
  /\ at[a] = "ARRIVED"
  /\ claim' = [claim EXCEPT ![KeyOf[a]] = a]
  /\ GoOn(a, "HANDLING")
  /\ UNCHANGED <<stored, lapsed, outcome, effects, reopened>>

\* beginIdempotent(): the INSERT claims the key...
ClaimKey(a) ==
  /\ at[a] = "ARRIVED" /\ ~Recorded(KeyOf[a])
  /\ claim' = [claim EXCEPT ![KeyOf[a]] = a]
  /\ GoOn(a, "HANDLING")
  /\ UNCHANGED <<stored, lapsed, outcome, effects, reopened>>

\* ...or meets the unique constraint, and the record is read by a statement of
\* its own.
MeetRecord(a) ==
  /\ at[a] = "ARRIVED" /\ Recorded(KeyOf[a])
  /\ GoOn(a, "READING")
  /\ UNCHANGED <<claim, stored, lapsed, outcome, effects, reopened>>

\* The record has vanished in between: begin again.
BeginAgain(a) ==
  /\ at[a] = "READING" /\ ~Recorded(KeyOf[a])
  /\ GoOn(a, "ARRIVED")
  /\ UNCHANGED <<claim, stored, lapsed, outcome, effects, reopened>>

SameBody(a, b) == BodyOf[a] = BodyOf[b]

\* The first answer is given again.
Replay(a) ==
  /\ at[a] = "READING" /\ Recorded(KeyOf[a])
  /\ SameBody(a, claim[KeyOf[a]])
  /\ stored[KeyOf[a]] # NoAttempt
  /\ outcome' = [outcome EXCEPT ![a] = stored[KeyOf[a]]]
  /\ GoOn(a, "REPLAYED")
  /\ UNCHANGED <<claim, stored, lapsed, effects, reopened>>

\* Another body, or the first request is still running.
Conflict(a) ==
  /\ at[a] = "READING" /\ Recorded(KeyOf[a])
  /\ ~SameBody(a, claim[KeyOf[a]]) \/ stored[KeyOf[a]] = NoAttempt
  /\ GoOn(a, "REFUSED")
  /\ UNCHANGED <<claim, stored, lapsed, outcome, effects, reopened>>

\* The handler's transaction commits.  One whose row carries the key answers
\* with the row that is there (requestBooking).
Handle(a) ==
  LET k == KeyOf[a]
  IN /\ at[a] = "HANDLING"
     /\ IF k \in Guarded /\ effects[k] # {}
        THEN /\ outcome' = [outcome EXCEPT ![a] = CHOOSE b \in effects[k] : TRUE]
             /\ UNCHANGED effects
        ELSE /\ outcome' = [outcome EXCEPT ![a] = a]
             /\ effects' = [effects EXCEPT ![k] = @ \cup {a}]
     /\ GoOn(a, "COMPLETING")
     /\ UNCHANGED <<claim, stored, lapsed, reopened>>

\* The handler throws, or answers other than 2xx: nothing was committed.
HandlerFails(a) ==
  /\ at[a] = "HANDLING"
  /\ GoOn(a, "ABANDONING")
  /\ UNCHANGED <<claim, stored, lapsed, outcome, effects, reopened>>

\* completeIdempotent(): by the id of the record, which may be gone.
Complete(a) ==
  /\ at[a] = "COMPLETING"
  /\ stored' = IF claim[KeyOf[a]] = a THEN [stored EXCEPT ![KeyOf[a]] = outcome[a]]
                                       ELSE stored
  /\ GoOn(a, "ANSWERED")
  /\ UNCHANGED <<claim, lapsed, outcome, effects, reopened>>

\* It throws: the catch of dispatch() abandons the key although the handler has
\* committed, and the client is told of an error.
CompleteFails(a) ==
  /\ at[a] = "COMPLETING"
  /\ GoOn(a, "ABANDONING")
  /\ UNCHANGED <<claim, stored, lapsed, outcome, effects, reopened>>

\* abandonIdempotent(): the record by its id, if it is still IN_PROGRESS.
Abandon(a) ==
  LET k == KeyOf[a]
  IN /\ at[a] = "ABANDONING"
     /\ IF claim[k] = a /\ stored[k] = NoAttempt
        THEN DeleteRecord(k) /\ reopened' = reopened \cup {j \in {k} : effects[j] # {}}
        ELSE UNCHANGED <<claim, stored, lapsed, reopened>>
     /\ GoOn(a, "FAILED")
     /\ UNCHANGED <<outcome, effects>>

\* It throws too, and the error is only reported.
AbandonFails(a) ==
  /\ at[a] = "ABANDONING"
  /\ GoOn(a, "FAILED")
  /\ UNCHANGED <<claim, stored, lapsed, outcome, effects, reopened>>

\* The process dies between two steps.
Die(a) ==
  /\ at[a] \in {"READING", "HANDLING", "COMPLETING", "ABANDONING"}
  /\ GoOn(a, "DEAD")
  /\ UNCHANGED <<claim, stored, lapsed, outcome, effects, reopened>>
-----------------------------------------------------------------------------
\* expires_at passes: 24 hours after the claim, whatever the request does.
Lapse(k) ==
  /\ Recorded(k) /\ k \notin lapsed
  /\ lapsed' = lapsed \cup {k}
  /\ UNCHANGED <<claim, stored, at, outcome, effects, reopened>>

\* (Mutant: only COMPLETED records are swept.)
SweepCompletedKeys ==
  LET swept == {k \in lapsed : stored[k] # NoAttempt}
  IN /\ swept # {}
     /\ claim' = [k \in Key |-> IF k \in swept THEN NoAttempt ELSE claim[k]]
     /\ stored' = [k \in Key |-> IF k \in swept THEN NoAttempt ELSE stored[k]]
     /\ lapsed' = lapsed \ swept
     /\ reopened' = reopened \cup swept
     /\ UNCHANGED <<at, outcome, effects>>

\* sweepExpiredCredentials(), from the retention job.
SweepKeys ==
  /\ lapsed # {}
  /\ claim' = [k \in Key |-> IF k \in lapsed THEN NoAttempt ELSE claim[k]]
  /\ stored' = [k \in Key |-> IF k \in lapsed THEN NoAttempt ELSE stored[k]]
  /\ lapsed' = {}
  /\ reopened' = reopened \cup lapsed
  /\ UNCHANGED <<at, outcome, effects>>

RequestStep(a) ==
  \/ ClaimKey(a) \/ MeetRecord(a) \/ BeginAgain(a) \/ Replay(a) \/ Conflict(a)
  \/ Handle(a) \/ HandlerFails(a) \/ Complete(a) \/ CompleteFails(a)
  \/ Abandon(a) \/ AbandonFails(a) \/ Die(a)

IdempotencyNext ==
  \/ \E a \in Attempt : RequestStep(a)
  \/ \E k \in Key : Lapse(k)
  \/ SweepKeys

IdempotencySpec == IdempotencyInit /\ [][IdempotencyNext]_idempotencyVars
-----------------------------------------------------------------------------
IdempotencyTypeOK ==
  /\ claim \in [Key -> Attempt \cup {NoAttempt}]
  /\ stored \in [Key -> Attempt \cup {NoAttempt}]
  /\ lapsed \subseteq Key
  /\ at \in [Attempt -> {"ABSENT", "ARRIVED", "READING", "HANDLING", "COMPLETING", "ABANDONING",
                         "ANSWERED", "REPLAYED", "REFUSED", "FAILED", "DEAD"}]
  /\ outcome \in [Attempt -> Attempt \cup {NoAttempt}]
  /\ effects \in [Key -> SUBSET Attempt]
  /\ reopened \subseteq Key

\* However many retries race and wherever their processes die, a key has one
\* effect; only a record that was swept at its expiry, or abandoned because the
\* answer could not be stored, lets a second one through, and not even that
\* where the handler keeps the key in its own row (beginIdempotent, dispatch,
\* requestBooking).
OneEffectPerKey ==
  \A k \in Key :
    \/ Cardinality(effects[k]) <= 1
    \/ k \in reopened /\ k \notin Guarded

\* A success, first or replayed, reports an effect that was committed for the
\* same key, and for the same body unless the key was reopened in between
\* (beginIdempotent compares the hashes, requestBooking does not).
SuccessIsTrue ==
  \A a \in Attempt :
    at[a] \in {"ANSWERED", "REPLAYED"} =>
      LET k == KeyOf[a]
      IN /\ outcome[a] \in effects[k]
         /\ SameBody(a, outcome[a]) \/ k \in reopened

\* No key stays claimed by a request that will not answer: a dead one's record
\* is swept when it has expired (beginIdempotent refuses until then).
KeysAreReleased ==
  \A k \in Key : []<>(Recorded(k) => stored[k] # NoAttempt)
=============================================================================
