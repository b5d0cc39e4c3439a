----------------------------- MODULE RequestProofs -----------------------------
(***************************************************************************)
(* Proofs about work that may be lost on the way or answered late:         *)
(* requests and the job that purges.                                       *)
(*                                                                         *)
(* Requests with an Idempotency-Key, for any number of keys, of retries    *)
(* and of processes that die: a key has one effect, and a success that is  *)
(* reported was committed.  A handler looks at nothing but what its claim  *)
(* told it, so the invariant says what the claim is worth: while a key has *)
(* not been reopened, a request that is past the claim and not yet over    *)
(* holds the record (HolderInv), and an effect that is there is the        *)
(* holder's (EffectInv).                                                   *)
(*                                                                         *)
(* The autosave of the wizard, for any fields and any number of edits and  *)
(* requests: what was typed is saved, or on its way, or due.  FlightInv    *)
(* says what the requests under way carry.                                 *)
(*                                                                         *)
(* The purge of a document, for any number of processes that run the job   *)
(* and any number of calls that place holds: what says it was destroyed    *)
(* was, and no document goes while its owner or its request is held.  The  *)
(* second rests on the locks (PurgeLockInv): a run that has judged a       *)
(* document still holds the rows of the owner and of the request, so that  *)
(* a hold that arrives in between can only be one on the document itself.  *)
(***************************************************************************)
EXTENDS Idempotency, Wizard, Retention, FiniteSetTheorems, TLAPS

AtWork == {"HANDLING", "COMPLETING", "ABANDONING"}

\* A request between its claim and its end holds the record of its key.
HolderInv ==
  \A a \in Attempt :
    at[a] \in AtWork /\ KeyOf[a] \notin reopened => claim[KeyOf[a]] = a

\* An effect is that of a request of the key that has handled; the only one is
\* that of the holder of the record, or of the handler that keeps the key itself.
EffectInv ==
  \A k \in Key :
    /\ \A b \in effects[k] : KeyOf[b] = k /\ at[b] \notin {"ARRIVED", "READING", "HANDLING"}
    /\ k \notin reopened => \A b \in effects[k] : claim[k] = b
    /\ k \in Guarded \/ k \notin reopened => \A b, c \in effects[k] : b = c

\* An outcome, in the record or on its way to it, is an effect of the key that
\* was committed for the same body.
TrueFor(a, k) ==
  /\ outcome[a] \in effects[k]
  /\ SameBody(a, outcome[a]) \/ k \in reopened

OutcomeInv ==
  /\ \A a \in Attempt : at[a] \in {"COMPLETING", "ANSWERED", "REPLAYED"} => TrueFor(a, KeyOf[a])
  /\ \A k \in Key : stored[k] # NoAttempt =>
       /\ claim[k] # NoAttempt /\ stored[k] \in effects[k]
       /\ SameBody(claim[k], stored[k]) \/ k \in reopened

IdempotencyInv == IdempotencyTypeOK /\ HolderInv /\ EffectInv /\ OutcomeInv
-----------------------------------------------------------------------------
LEMMA IdempotencyInvInit ==
  ASSUME IdempotencyAssumption, IdempotencyInit
  PROVE  IdempotencyInv
BY DEF IdempotencyAssumption, IdempotencyInit, IdempotencyInv, IdempotencyTypeOK, HolderInv,
       EffectInv, OutcomeInv, AtWork, TrueFor

LEMMA TypeNext ==
  ASSUME IdempotencyAssumption, IdempotencyTypeOK, [IdempotencyNext]_idempotencyVars
  PROVE  IdempotencyTypeOK'
<1> USE DEF IdempotencyAssumption, IdempotencyTypeOK, GoOn
<1>1. ASSUME NEW a \in Attempt, ClaimKey(a) \/ MeetRecord(a) \/ BeginAgain(a)
      PROVE  IdempotencyTypeOK'
  BY <1>1 DEF ClaimKey, MeetRecord, BeginAgain
<1>2. ASSUME NEW a \in Attempt, Replay(a) \/ Conflict(a)
      PROVE  IdempotencyTypeOK'
  BY <1>2 DEF Replay, Conflict
<1>3. ASSUME NEW a \in Attempt, Handle(a)
      PROVE  IdempotencyTypeOK'
  <2> DEFINE k == KeyOf[a]
  <2>1. CASE k \in Guarded /\ effects[k] # {}
    <3>1. (CHOOSE b \in effects[k] : TRUE) \in Attempt
      BY <2>1
    <3> QED
      BY <1>3, <2>1, <3>1 DEF Handle
  <2>2. CASE ~(k \in Guarded /\ effects[k] # {})
    BY <1>3, <2>2 DEF Handle
  <2> QED
    BY <2>1, <2>2
<1>4. ASSUME NEW a \in Attempt, HandlerFails(a) \/ CompleteFails(a) \/ AbandonFails(a) \/ Die(a)
      PROVE  IdempotencyTypeOK'
  BY <1>4 DEF HandlerFails, CompleteFails, AbandonFails, Die
<1>5. ASSUME NEW a \in Attempt, Complete(a)
      PROVE  IdempotencyTypeOK'
  BY <1>5 DEF Complete
<1>6. ASSUME NEW a \in Attempt, Abandon(a)
      PROVE  IdempotencyTypeOK'
  BY <1>6 DEF Abandon, DeleteRecord
<1>7. ASSUME NEW k \in Key, Lapse(k)
      PROVE  IdempotencyTypeOK'
  BY <1>7 DEF Lapse
<1>8. CASE SweepKeys
  BY <1>8 DEF SweepKeys
<1>9. CASE UNCHANGED idempotencyVars
  BY <1>9 DEF idempotencyVars
<1> QED
  BY <1>1, <1>2, <1>3, <1>4, <1>5, <1>6, <1>7, <1>8, <1>9
  DEF IdempotencyNext, RequestStep
-----------------------------------------------------------------------------
\* A handler commits: the one place where an effect comes about.
LEMMA HandleKeeps ==
  ASSUME IdempotencyAssumption, IdempotencyInv, NEW a \in Attempt, Handle(a),
         IdempotencyTypeOK'
  PROVE  IdempotencyInv'
<1> DEFINE k == KeyOf[a]
<1> USE DEF IdempotencyInv, IdempotencyTypeOK, IdempotencyAssumption
<1>1. /\ k \in Key /\ at[a] = "HANDLING" /\ at' = [at EXCEPT ![a] = "COMPLETING"]
      /\ UNCHANGED <<claim, stored, reopened>>
  BY DEF Handle, GoOn
<1>2. k \notin reopened => claim[k] = a /\ effects[k] = {}
  BY <1>1 DEF HolderInv, EffectInv, AtWork
<1>3. CASE k \in Guarded /\ effects[k] # {}
  <2>1. k \in reopened
    BY <1>2, <1>3
  <2>2. PICK b \in effects[k] : outcome' = [outcome EXCEPT ![a] = b] /\ UNCHANGED effects
    BY <1>3 DEF Handle
  <2>3. HolderInv'
    BY <1>1, <2>1 DEF HolderInv, AtWork
  <2>4. EffectInv'
    BY <1>1, <2>2 DEF EffectInv
  <2>5. OutcomeInv'
    BY <1>1, <2>1, <2>2 DEF OutcomeInv, TrueFor, SameBody
  <2> QED
    BY <2>3, <2>4, <2>5
<1>4. CASE ~(k \in Guarded /\ effects[k] # {})
  <2>1. outcome' = [outcome EXCEPT ![a] = a] /\ effects' = [effects EXCEPT ![k] = @ \cup {a}]
    BY <1>4 DEF Handle
  <2>2. HolderInv'
    BY <1>1 DEF HolderInv, AtWork
  <2>3. EffectInv'
    <3>1. \A j \in Key \ {k} : effects'[j] = effects[j]
      BY <2>1
    <3>2. k \in Guarded \/ k \notin reopened => effects'[k] = {a}
      BY <1>1, <1>2, <1>4, <2>1
    <3>3. ASSUME NEW j \in Key, NEW b \in effects'[j]
          PROVE  /\ KeyOf[b] = j /\ at'[b] \notin {"ARRIVED", "READING", "HANDLING"}
                 /\ j \notin reopened => claim[j] = b
      BY <1>1, <1>2, <2>1, <3>1, <3>2, <3>3 DEF EffectInv
    <3>4. ASSUME NEW j \in Key, j \in Guarded \/ j \notin reopened
          PROVE  \A b, c \in effects'[j] : b = c
      BY <3>1, <3>2, <3>4 DEF EffectInv
    <3> QED
      BY <1>1, <3>3, <3>4 DEF EffectInv
  <2>4. OutcomeInv'
    BY <1>1, <2>1 DEF OutcomeInv, TrueFor, SameBody
  <2> QED
    BY <2>2, <2>3, <2>4
<1> QED
  BY <1>3, <1>4

\* A request gives its key back: if it had an effect, the key is reopened.
LEMMA AbandonKeeps ==
  ASSUME IdempotencyAssumption, IdempotencyInv, NEW a \in Attempt, Abandon(a),
         IdempotencyTypeOK'
  PROVE  IdempotencyInv'
<1> DEFINE k == KeyOf[a]
<1> USE DEF IdempotencyInv, IdempotencyTypeOK, IdempotencyAssumption
<1>1. /\ k \in Key /\ at[a] = "ABANDONING" /\ at' = [at EXCEPT ![a] = "FAILED"]
      /\ UNCHANGED <<outcome, effects>>
  BY DEF Abandon, GoOn
<1>2. CASE claim[k] = a /\ stored[k] = NoAttempt
  <2>1. /\ claim' = [claim EXCEPT ![k] = NoAttempt] /\ stored' = [stored EXCEPT ![k] = NoAttempt]
        /\ reopened \subseteq reopened'
        /\ effects[k] # {} => k \in reopened'
    BY <1>2 DEF Abandon, DeleteRecord
  <2>2. HolderInv'
    BY <1>1, <1>2, <2>1 DEF HolderInv, AtWork
  <2>3. EffectInv'
    <3>1. ASSUME NEW j \in Key, NEW b \in effects[j]
          PROVE  /\ KeyOf[b] = j /\ at'[b] \notin {"ARRIVED", "READING", "HANDLING"}
                 /\ j \notin reopened' => claim'[j] = b
      BY <1>1, <2>1, <3>1 DEF EffectInv
    <3>2. ASSUME NEW j \in Key, j \in Guarded \/ j \notin reopened'
          PROVE  \A b, c \in effects[j] : b = c
      BY <2>1, <3>2 DEF EffectInv
    <3> QED
      BY <1>1, <3>1, <3>2 DEF EffectInv
  <2>4. OutcomeInv'
    BY <1>1, <2>1 DEF OutcomeInv, TrueFor, SameBody
  <2> QED
    BY <2>2, <2>3, <2>4
<1>3. CASE ~(claim[k] = a /\ stored[k] = NoAttempt)
  <2>1. UNCHANGED <<claim, stored, reopened>>
    BY <1>3 DEF Abandon
  <2> QED
    BY <1>1, <2>1 DEF HolderInv, EffectInv, OutcomeInv, TrueFor, SameBody, AtWork
<1> QED
  BY <1>2, <1>3

LEMMA IdempotencyInvNext ==
  ASSUME IdempotencyAssumption, IdempotencyInv, [IdempotencyNext]_idempotencyVars
  PROVE  IdempotencyInv'
<1> USE DEF IdempotencyInv, IdempotencyTypeOK, IdempotencyAssumption, GoOn
<1>0. IdempotencyTypeOK'
  BY TypeNext
<1>1. ASSUME NEW a \in Attempt, ClaimKey(a)
      PROVE  IdempotencyInv'
  <2> DEFINE k == KeyOf[a]
  <2>1. /\ k \in Key /\ at[a] = "ARRIVED" /\ at' = [at EXCEPT ![a] = "HANDLING"]
        /\ claim[k] = NoAttempt /\ claim' = [claim EXCEPT ![k] = a]
        /\ UNCHANGED <<stored, outcome, effects, reopened>>
    BY <1>1 DEF ClaimKey, Recorded
  <2>2. k \notin reopened => effects[k] = {}
    BY <2>1 DEF EffectInv
  <2>3. HolderInv'
    BY <2>1 DEF HolderInv, AtWork
  <2>4. EffectInv'
    <3>1. ASSUME NEW j \in Key, NEW b \in effects[j]
          PROVE  /\ KeyOf[b] = j /\ at'[b] \notin {"ARRIVED", "READING", "HANDLING"}
                 /\ j \notin reopened => claim'[j] = b
      BY <2>1, <2>2, <3>1 DEF EffectInv
    <3> QED
      BY <2>1, <3>1 DEF EffectInv
  <2>5. OutcomeInv'
    BY <2>1 DEF OutcomeInv, TrueFor, SameBody
  <2> QED
    BY <1>0, <2>3, <2>4, <2>5
<1>2. ASSUME NEW a \in Attempt, MeetRecord(a) \/ BeginAgain(a) \/ Conflict(a)
      PROVE  IdempotencyInv'
  BY <1>0, <1>2
  DEF MeetRecord, BeginAgain, Conflict, HolderInv, EffectInv, OutcomeInv, TrueFor, SameBody, AtWork
<1>3. ASSUME NEW a \in Attempt, Replay(a)
      PROVE  IdempotencyInv'
  <2>1. /\ KeyOf[a] \in Key /\ stored[KeyOf[a]] # NoAttempt
        /\ SameBody(a, claim[KeyOf[a]])
        /\ outcome' = [outcome EXCEPT ![a] = stored[KeyOf[a]]]
        /\ at[a] = "READING" /\ at' = [at EXCEPT ![a] = "REPLAYED"]
        /\ UNCHANGED <<claim, stored, effects, reopened>>
    BY <1>3 DEF Replay
  <2>2. HolderInv' /\ EffectInv'
    BY <2>1 DEF HolderInv, EffectInv, AtWork
  <2>3. OutcomeInv'
    BY <2>1 DEF OutcomeInv, TrueFor, SameBody
  <2> QED
    BY <1>0, <2>2, <2>3
<1>4. ASSUME NEW a \in Attempt, HandlerFails(a) \/ CompleteFails(a) \/ AbandonFails(a) \/ Die(a)
      PROVE  IdempotencyInv'
  BY <1>0, <1>4
  DEF HandlerFails, CompleteFails, AbandonFails, Die, HolderInv, EffectInv, OutcomeInv, TrueFor,
      SameBody, AtWork
<1>5. ASSUME NEW a \in Attempt, Complete(a)
      PROVE  IdempotencyInv'
  <2>1. /\ KeyOf[a] \in Key
        /\ at[a] = "COMPLETING" /\ at' = [at EXCEPT ![a] = "ANSWERED"]
        /\ stored' \in {stored, [stored EXCEPT ![KeyOf[a]] = outcome[a]]}
        /\ stored' # stored => claim[KeyOf[a]] = a
        /\ UNCHANGED <<claim, outcome, effects, reopened>>
    BY <1>5 DEF Complete
  <2>2. HolderInv' /\ EffectInv'
    BY <2>1 DEF HolderInv, EffectInv, AtWork
  <2>3. OutcomeInv'
    BY <2>1 DEF OutcomeInv, TrueFor, SameBody
  <2> QED
    BY <1>0, <2>2, <2>3
<1>6. ASSUME NEW k \in Key, Lapse(k)
      PROVE  IdempotencyInv'
  BY <1>0, <1>6 DEF Lapse, HolderInv, EffectInv, OutcomeInv, TrueFor, SameBody, AtWork
<1>7. CASE SweepKeys
  BY <1>0, <1>7 DEF SweepKeys, HolderInv, EffectInv, OutcomeInv, TrueFor, SameBody, AtWork
<1>8. CASE UNCHANGED idempotencyVars
  BY <1>0, <1>8
  DEF idempotencyVars, HolderInv, EffectInv, OutcomeInv, TrueFor, SameBody, AtWork
<1> QED
  BY <1>0, <1>1, <1>2, <1>3, <1>4, <1>5, <1>6, <1>7, <1>8, HandleKeeps, AbandonKeeps
  DEF IdempotencyNext, RequestStep
-----------------------------------------------------------------------------
LEMMA IdempotencyInvariant == IdempotencySpec => []IdempotencyInv
<1>1. IdempotencyInit => IdempotencyInv
  BY IdempotencyInvInit, IdempotencyAssumption
<1>2. IdempotencyInv /\ [IdempotencyNext]_idempotencyVars => IdempotencyInv'
  BY IdempotencyInvNext, IdempotencyAssumption
<1> QED
  BY <1>1, <1>2, PTL DEF IdempotencySpec

\* However many retries race and wherever their processes die, a key has one
\* effect, unless its record was swept or given up after an effect and the
\* handler does not keep the key in a row of its own (beginIdempotent, dispatch).
THEOREM KeysActOnce == IdempotencySpec => []OneEffectPerKey
<1>1. IdempotencyInv => OneEffectPerKey
  <2> SUFFICES ASSUME IdempotencyInv, NEW k \in Key, k \in Guarded \/ k \notin reopened
               PROVE  Cardinality(effects[k]) <= 1
    BY DEF OneEffectPerKey
  <2>1. \A b, c \in effects[k] : b = c
    BY DEF IdempotencyInv, EffectInv
  <2>2. CASE effects[k] = {}
    BY <2>2, FS_EmptySet
  <2>3. ASSUME NEW b \in effects[k]
        PROVE  Cardinality(effects[k]) <= 1
    <3>1. effects[k] = {b}
      BY <2>1, <2>3
    <3> QED
      BY <3>1, FS_Singleton
  <2> QED
    BY <2>2, <2>3
<1> QED
  BY <1>1, IdempotencyInvariant, PTL

\* A success that is reported, first or replayed, was committed for that key,
\* and for that body unless the key was reopened (completeIdempotent, dispatch).
THEOREM AnswersAreTrue == IdempotencySpec => []SuccessIsTrue
<1>1. IdempotencyInv => SuccessIsTrue
  BY DEF IdempotencyInv, OutcomeInv, TrueFor, SuccessIsTrue
<1> QED
  BY <1>1, IdempotencyInvariant, PTL
-----------------------------------------------------------------------------
\* A field that does not wait and is not in doubt: its requests carry what the form
\* shows, and one that was written left it in the row; without a request it is there.
FlightInv ==
  OnScreen =>
    /\ pending # {} => timer
    /\ \A f \in Field \ (doubtful \cup pending) :
         /\ \A p \in flights : Carries(p, f) =>
              p.values[f] = draft[f] /\ (p.at = "WRITTEN" => saved[f] = draft[f])
         /\ (\E p \in flights : Carries(p, f)) \/ saved[f] = draft[f]

WizardInv == WizardTypeOK /\ FlightInv

LEMMA WizardInvInit ==
  ASSUME WizardAssumption, WizardInit
  PROVE  WizardInv
<1>1. 0 \in 0..MaxTyped
  BY DEF WizardAssumption
<1>2. draft \in [Field -> 0..MaxTyped] /\ saved \in [Field -> 0..MaxTyped]
  BY <1>1 DEF WizardInit
<1>3. WizardTypeOK
  BY <1>2 DEF WizardInit, WizardTypeOK
<1>4. FlightInv
  BY DEF WizardInit, FlightInv
<1> QED
  BY <1>3, <1>4 DEF WizardInv

LEMMA ValuesAreTyped ==
  ASSUME NEW v \in Values
  PROVE  DOMAIN v \subseteq Field /\ \A f \in DOMAIN v : v[f] \in 0..MaxTyped
BY DEF Values

LEMMA WizardTypeNext ==
  ASSUME WizardAssumption, WizardTypeOK, [WizardNext]_wizardVars
  PROVE  WizardTypeOK'
<1> USE DEF WizardAssumption, WizardTypeOK
<1>1. ASSUME NEW f \in Field, Edit(f)
      PROVE  WizardTypeOK'
  <2>1. PICK n \in 0..(MaxTyped - 1) : draft' = [draft EXCEPT ![f] = n + 1]
    BY <1>1 DEF Edit
  <2>2. n + 1 \in 0..MaxTyped
    OBVIOUS
  <2> QED
    BY <1>1, <2>1, <2>2 DEF Edit
<1>2. ASSUME NEW awaited \in Awaiter \cup {"NOBODY"}, Flush(awaited)
      PROVE  /\ pending' \subseteq Field /\ doubtful' \subseteq Field
             /\ flights' \subseteq [values : Values, awaited : Awaiter \cup {"NOBODY"},
                                    at : {"SENT", "WRITTEN", "STRANDED"}]
  <2>1. [f \in pending |-> draft[f]] \in [pending -> 0..MaxTyped]
    OBVIOUS
  <2>2. [f \in pending |-> draft[f]] \in Values
    BY <2>1 DEF Values
  <2> QED
    BY <1>2, <2>2 DEF Flush
<1>3. CASE TimerFires
  BY <1>2, <1>3 DEF TimerFires
<1>4. CASE Go \/ SaveAndExit \/ PressSubmit
  BY <1>2, <1>4 DEF Go, SaveAndExit, PressSubmit, FlushFor, Awaiter
<1>5. ASSUME NEW p \in flights, Arrive(p)
      PROVE  WizardTypeOK'
  <2>1. DOMAIN p.values \subseteq Field /\ \A f \in DOMAIN p.values : p.values[f] \in 0..MaxTyped
    BY ValuesAreTyped
  <2>2. saved' \in [Field -> 0..MaxTyped]
    BY <1>5, <2>1 DEF Arrive, Carries
  <2>3. [p EXCEPT !.at = "WRITTEN"] \in [values : Values, awaited : Awaiter \cup {"NOBODY"},
                                         at : {"SENT", "WRITTEN", "STRANDED"}]
    OBVIOUS
  <2> QED
    BY <1>5, <2>2, <2>3 DEF Arrive
<1>6. ASSUME NEW p \in flights, Answer(p) \/ Fail(p)
      PROVE  WizardTypeOK'
  <2>1. DOMAIN p.values \subseteq Field
    BY ValuesAreTyped
  <2> QED
    BY <1>6, <2>1 DEF Answer, Fail, FlushOver
<1>7. ASSUME NEW p \in flights, Strand(p)
      PROVE  WizardTypeOK'
  <2>1. DOMAIN p.values \subseteq Field
    BY ValuesAreTyped
  <2>2. [p EXCEPT !.at = "STRANDED", !.awaited = "NOBODY"]
          \in [values : Values, awaited : Awaiter \cup {"NOBODY"},
               at : {"SENT", "WRITTEN", "STRANDED"}]
    OBVIOUS
  <2> QED
    BY <1>7, <2>1, <2>2 DEF Strand, FlushOver
<1>8. CASE Exit \/ CloseTab \/ PostSubmission \/ TakeSubmission \/ RefuseSubmission
  BY <1>8 DEF Exit, CloseTab, PostSubmission, TakeSubmission, RefuseSubmission, LeavePage
<1>9. CASE UNCHANGED wizardVars
  BY <1>9 DEF wizardVars
<1> QED
  BY <1>1, <1>3, <1>4, <1>5, <1>6, <1>7, <1>8, <1>9 DEF WizardNext

\* A flush sends the fields that wait; the ones that were under way are in doubt.
LEMMA FlushKeeps ==
  ASSUME WizardInv, NEW awaited, Flush(awaited), OnScreen, UNCHANGED <<draft, saved>>
  PROVE  FlightInv'
<1> USE DEF WizardInv, WizardTypeOK
<1> DEFINE new == [values |-> [f \in pending |-> draft[f]], awaited |-> awaited, at |-> "SENT"]
<1>1. pending' = {} /\ flights \subseteq flights' /\ flights' \subseteq flights \cup {new}
  BY DEF Flush
<1>2. pending # {} => new \in flights'
  BY DEF Flush
<1>3. ASSUME NEW f \in Field \ doubtful', f \in pending
      PROVE  /\ Carries(new, f) /\ new.values[f] = draft[f] /\ new \in flights'
             /\ \A p \in flights : ~Carries(p, f)
  BY <1>2, <1>3 DEF Flush, Carries
<1>4. ASSUME NEW f \in Field \ doubtful', f \notin pending
      PROVE  f \notin doubtful /\ ~Carries(new, f)
  BY <1>4 DEF Flush, Carries
<1>5. new.at # "WRITTEN"
  OBVIOUS
<1> HIDE DEF new
<1>6. ASSUME NEW f \in Field \ doubtful'
      PROVE  /\ \A p \in flights' : Carries(p, f) =>
                  p.values[f] = draft[f] /\ (p.at = "WRITTEN" => saved[f] = draft[f])
             /\ (\E p \in flights' : Carries(p, f)) \/ saved[f] = draft[f]
  <2>1. CASE f \in pending
    BY <1>1, <1>3, <1>5, <2>1
  <2>2. CASE f \notin pending
    BY <1>1, <1>4, <2>2 DEF FlightInv
  <2> QED
    BY <2>1, <2>2
<1> QED
  BY <1>1, <1>6 DEF FlightInv, Carries

LEMMA FlightInvNext ==
  ASSUME WizardAssumption, WizardInv, [WizardNext]_wizardVars
  PROVE  FlightInv'
<1> USE DEF WizardInv, WizardTypeOK
<1>1. ASSUME NEW f \in Field, Edit(f)
      PROVE  FlightInv'
  <2>1. PICK n \in 0..(MaxTyped - 1) : draft' = [draft EXCEPT ![f] = n + 1]
    BY <1>1 DEF Edit
  <2>2. \A g \in Field \ {f} : draft'[g] = draft[g]
    BY <2>1
  <2> QED
    BY <1>1, <2>2 DEF Edit, FlightInv, OnScreen, Carries
<1>2. CASE TimerFires
  BY <1>2, FlushKeeps DEF TimerFires
<1>3. CASE Go \/ SaveAndExit \/ PressSubmit
  BY <1>3, FlushKeeps DEF Go, SaveAndExit, PressSubmit, FlushFor, OnScreen
<1>4. ASSUME NEW p \in flights, Arrive(p)
      PROVE  FlightInv'
  <2> DEFINE written == [p EXCEPT !.at = "WRITTEN"]
  <2>1. written.values = p.values
    OBVIOUS
  <2>2. \A q \in flights' : q \in flights \/ q = written
    BY <1>4 DEF Arrive
  <2>3. \A f \in Field : saved'[f] = IF Carries(p, f) THEN p.values[f] ELSE saved[f]
    BY <1>4 DEF Arrive
  <2>4. \A q \in flights : q \in flights' \/ q = p
    BY <1>4 DEF Arrive
  <2>5. UNCHANGED <<draft, pending, timer, wizard, doubtful>>
    BY <1>4 DEF Arrive
  <2> HIDE DEF written
  <2> QED
    BY <2>1, <2>2, <2>3, <2>4, <2>5 DEF FlightInv, OnScreen, Carries
<1>5. ASSUME NEW p \in flights, Answer(p) \/ Fail(p)
      PROVE  FlightInv'
  <2>1. /\ flights' = flights \ {p}
        /\ doubtful \subseteq doubtful'
        /\ UNCHANGED <<draft, pending, timer, wizard, saved>>
    BY <1>5 DEF Answer, Fail
  <2>2. \A f \in Field \ doubtful' : Carries(p, f) => p.at = "WRITTEN" \/ saved[f] = p.values[f]
    BY <1>5 DEF Answer, Fail, Carries
  <2> QED
    BY <2>1, <2>2 DEF FlightInv, OnScreen, Carries
<1>6. ASSUME NEW p \in flights, Strand(p)
      PROVE  FlightInv'
  <2> DEFINE stranded == [p EXCEPT !.at = "STRANDED", !.awaited = "NOBODY"]
  <2>1. stranded.values = p.values
    OBVIOUS
  <2>2. \A q \in flights' : q \in flights \/ q = stranded
    BY <1>6 DEF Strand
  <2>3. \A q \in flights : q \in flights' \/ q = p
    BY <1>6 DEF Strand
  <2>4. doubtful' = doubtful \cup DOMAIN p.values /\ UNCHANGED <<draft, pending, timer, wizard, saved>>
    BY <1>6 DEF Strand
  <2> HIDE DEF stranded
  <2> QED
    BY <2>1, <2>2, <2>3, <2>4 DEF FlightInv, OnScreen, Carries
<1>7. CASE PostSubmission \/ RefuseSubmission
  BY <1>7 DEF PostSubmission, RefuseSubmission, FlightInv, OnScreen, Carries
<1>8. CASE Exit \/ CloseTab \/ TakeSubmission
  BY <1>8 DEF Exit, CloseTab, TakeSubmission, LeavePage, FlightInv, OnScreen
<1>9. CASE UNCHANGED wizardVars
  BY <1>9 DEF wizardVars, FlightInv, OnScreen, Carries
<1> QED
  BY <1>1, <1>2, <1>3, <1>4, <1>5, <1>6, <1>7, <1>8, <1>9 DEF WizardNext

\* What was typed in the wizard is saved, under way or due, in any order of edits,
\* saves, answers and failures, except for the fields in doubt (flush, patch).
THEOREM NothingTypedIsDropped == WizardSpec => []EditsReachTheListing
<1>1. WizardInit => WizardInv
  BY WizardInvInit, WizardAssumption
<1>2. WizardInv /\ [WizardNext]_wizardVars => WizardInv'
  BY WizardTypeNext, FlightInvNext, WizardAssumption DEF WizardInv
<1>3. WizardInv => EditsReachTheListing
  BY DEF WizardInv, FlightInv, EditsReachTheListing
<1> QED
  BY <1>1, <1>2, <1>3, PTL DEF WizardSpec
-----------------------------------------------------------------------------
(* The purge of a document.                                                *)


\* What a run has made sure of, at each of its steps.
PurgeInv ==
  \A p \in PurgeRun :
    /\ purging[p] = "CLAIM" => due
    /\ purging[p] = "DESTROY" => due /\ started
    /\ purging[p] = "CONFIRM" => ~bytes

\* Which rows a call has locked, at each of its steps.
PurgeLockInv ==
  /\ \A p \in PurgeRun :
       /\ purging[p] \in {"LOCK_REQUEST", "LOOK", "CLAIM"} => lock["user"] = p
       /\ purging[p] \in {"LOOK", "CLAIM"} => lock["request"] = p
  /\ \A c \in HoldCall : placing[c] # "" => lock[placing[c]] = c

\* What was judged of the owner and the request is still true at the claim.
JudgedInv == \A p \in PurgeRun : purging[p] = "CLAIM" => hold \subseteq {"document"}

RetentionInv ==
  RetentionTypeOK /\ PurgeInv /\ PurgeLockInv /\ JudgedInv /\ PurgedIsTrue /\ ParentHoldsStopPurges
-----------------------------------------------------------------------------
LEMMA RetentionInvInit == RetentionInit => RetentionInv
  BY DEF RetentionInit, RetentionInv, RetentionTypeOK, PurgeInv, PurgeLockInv, JudgedInv, PurgedIsTrue,
         ParentHoldsStopPurges, Target

\* A step of run p that touches no lock, no hold and nothing of the document.
LEMMA ReachKeeps ==
  ASSUME RetentionAssumption, RetentionInv, NEW p \in PurgeRun,
         NEW place \in {"IDLE", "SCAN", "LOCK_USER", "OVER"}, Reach(p, place),
         lease' \in PurgeRun \cup {Nobody}, leaseOver' \in BOOLEAN,
         lock' = lock \/ Unlock(p),
         UNCHANGED <<hold, placing, defied>>, UNCHANGED documentVars
  PROVE  RetentionInv'
<1> USE DEF RetentionInv, RetentionTypeOK, RetentionAssumption
<1>1. /\ purging'[p] = place
      /\ \A q \in PurgeRun \ {p} : purging'[q] = purging[q]
      /\ \A c \in (PurgeRun \cup HoldCall) \ {p} : \A t \in Target : lock[t] = c => lock'[t] = c
      /\ lock' \in [Target -> PurgeRun \cup HoldCall \cup {Nobody}]
  BY DEF Reach, Unlock
<1>2. RetentionTypeOK'
  BY <1>1 DEF Reach, documentVars
<1>3. PurgeInv'
  BY <1>1 DEF PurgeInv, documentVars
<1>4. PurgeLockInv'
  <2>1. ASSUME NEW q \in PurgeRun
        PROVE  /\ purging'[q] \in {"LOCK_REQUEST", "LOOK", "CLAIM"} => lock'["user"] = q
               /\ purging'[q] \in {"LOOK", "CLAIM"} => lock'["request"] = q
    BY <1>1 DEF PurgeLockInv, Target
  <2>2. ASSUME NEW c \in HoldCall, placing'[c] # ""
        PROVE  lock'[placing'[c]] = c
    <3>1. placing[c] \in Target /\ lock[placing[c]] = c /\ placing' = placing /\ c # p
      BY <2>2 DEF PurgeLockInv
    <3> QED
      BY <1>1, <3>1
  <2> QED
    BY <2>1, <2>2 DEF PurgeLockInv
<1>5. JudgedInv' /\ PurgedIsTrue' /\ ParentHoldsStopPurges'
  BY <1>1 DEF JudgedInv, PurgedIsTrue, ParentHoldsStopPurges, documentVars
<1> QED
  BY <1>2, <1>3, <1>4, <1>5

\* Run p waits for the row of a target and goes on.
LEMMA LockParentKeeps ==
  ASSUME RetentionAssumption, RetentionInv, NEW p \in PurgeRun, LockParents(p)
  PROVE  RetentionInv'
<1> USE DEF RetentionInv, RetentionTypeOK, RetentionAssumption, LockParent, Take, Reach
<1>1. PICK t \in {"user", "request"} :
        /\ lock[t] = Nobody /\ lock' = [lock EXCEPT ![t] = p]
        /\ t = "user" => purging' = [purging EXCEPT ![p] = "LOCK_REQUEST"]
        /\ t = "request" => /\ purging[p] = "LOCK_REQUEST"
                            /\ purging' = [purging EXCEPT ![p] = "LOOK"]
        /\ UNCHANGED <<due, bytes, started, purged, lease, leaseOver, hold, placing, defied>>
  BY DEF LockParents, documentVars, leaseVars
<1>2. RetentionTypeOK'
  BY <1>1 DEF Target
<1>3. PurgeInv'
  BY <1>1 DEF PurgeInv
<1>4. PurgeLockInv'
  BY <1>1 DEF PurgeLockInv, Target
<1>5. JudgedInv' /\ PurgedIsTrue' /\ ParentHoldsStopPurges'
  BY <1>1 DEF JudgedInv, PurgedIsTrue, ParentHoldsStopPurges
<1> QED
  BY <1>2, <1>3, <1>4, <1>5

LEMMA ClaimKeeps ==
  ASSUME RetentionAssumption, RetentionInv, NEW p \in PurgeRun, ClaimDocument(p), ~purged
  PROVE  RetentionInv'
<1> USE DEF RetentionInv, RetentionTypeOK, RetentionAssumption
<1>1. /\ purging[p] = "CLAIM" /\ purging' = [purging EXCEPT ![p] = "DESTROY"]
      /\ started' = TRUE /\ defied' = defied \cup hold
      /\ lock' = [t \in Target |-> IF lock[t] = p THEN Nobody ELSE lock[t]]
      /\ UNCHANGED <<due, bytes, purged, hold, placing, lease, leaseOver>>
  BY DEF ClaimDocument, Reach, Unlock, leaseVars
<1>2. RetentionTypeOK'
  BY <1>1
<1>3. PurgeInv'
  BY <1>1 DEF PurgeInv
<1>4. PurgeLockInv'
  BY <1>1 DEF PurgeLockInv, Target
<1>5. JudgedInv' /\ PurgedIsTrue' /\ ParentHoldsStopPurges'
  BY <1>1 DEF JudgedInv, PurgedIsTrue, ParentHoldsStopPurges
<1> QED
  BY <1>2, <1>3, <1>4, <1>5

\* A call that ends gives its row back, and a hold it places is on that row.
LEMMA EndHoldKeeps ==
  ASSUME RetentionAssumption, RetentionInv, NEW c \in HoldCall, CommitHold(c) \/ LoseHold(c)
  PROVE  RetentionInv'
<1> USE DEF RetentionInv, RetentionTypeOK, RetentionAssumption
<1>1. /\ placing[c] \in Target /\ lock[placing[c]] = c
      /\ hold' \subseteq hold \cup {placing[c]}
      /\ lock' = [t \in Target |-> IF lock[t] = c THEN Nobody ELSE lock[t]]
      /\ placing' = [placing EXCEPT ![c] = ""]
      /\ UNCHANGED <<due, bytes, started, purged, lease, leaseOver, purging, defied>>
  BY DEF CommitHold, LoseHold, EndHold, Unlock, PurgeLockInv, documentVars, leaseVars
<1>2. RetentionTypeOK'
  BY <1>1
<1>3. PurgeInv'
  BY <1>1 DEF PurgeInv
<1>4. PurgeLockInv'
  BY <1>1 DEF PurgeLockInv, Target
<1>5. JudgedInv'
  <2> SUFFICES ASSUME NEW p \in PurgeRun, purging[p] = "CLAIM"
               PROVE  placing[c] = "document"
    BY <1>1 DEF JudgedInv
  <2>1. lock["user"] = p /\ lock["request"] = p /\ p # c
    BY DEF PurgeLockInv
  <2> QED
    BY <1>1, <2>1 DEF Target
<1>6. PurgedIsTrue' /\ ParentHoldsStopPurges'
  BY <1>1 DEF PurgedIsTrue, ParentHoldsStopPurges
<1> QED
  BY <1>2, <1>3, <1>4, <1>5, <1>6
-----------------------------------------------------------------------------
LEMMA RetentionInvNext ==
  ASSUME RetentionAssumption, RetentionInv, [RetentionNext]_retentionVars
  PROVE  RetentionInv'
<1> USE DEF RetentionInv, RetentionTypeOK, RetentionAssumption, documentVars, leaseVars
<1>1. CASE FallsDue \/ LeasePasses
  <2>1. /\ due => due'
        /\ due' \in BOOLEAN /\ leaseOver' \in BOOLEAN
        /\ UNCHANGED <<bytes, started, purged, lease, hold, lock, purging, placing, defied>>
    BY <1>1 DEF FallsDue, LeasePasses
  <2>2. RetentionTypeOK'
    BY <2>1
  <2> QED
    BY <2>1, <2>2 DEF PurgeInv, PurgeLockInv, JudgedInv, PurgedIsTrue, ParentHoldsStopPurges
<1>2. ASSUME NEW p \in PurgeRun,
             BeginRun(p) \/ ScanDue(p) \/ FinishRun(p) \/ StoreFails(p) \/ RunDies(p)
      PROVE  RetentionInv'
  <2>1. PICK place \in {"IDLE", "SCAN", "LOCK_USER", "OVER"} : Reach(p, place)
    BY <1>2 DEF BeginRun, ScanDue, FinishRun, StoreFails, RunDies
  <2> QED
    BY <1>2, <2>1, ReachKeeps DEF BeginRun, ScanDue, FinishRun, StoreFails, RunDies
<1>3. ASSUME NEW p \in PurgeRun, JudgeDocument(p)
      PROVE  RetentionInv'
  <2>1. CASE Eligible
    <3>1. /\ due /\ hold = {} /\ purging[p] = "LOOK"
          /\ purging' = [purging EXCEPT ![p] = "CLAIM"]
          /\ UNCHANGED <<due, bytes, started, purged, hold, lock, placing, lease, leaseOver, defied>>
      BY <1>3, <2>1 DEF JudgeDocument, Eligible, HoldCovers, Reach
    <3> QED
      BY <3>1 DEF PurgeInv, PurgeLockInv, JudgedInv, PurgedIsTrue, ParentHoldsStopPurges
  <2>2. CASE ~Eligible
    BY <1>3, <2>2, ReachKeeps DEF JudgeDocument
  <2> QED
    BY <2>1, <2>2
<1>4. ASSUME NEW p \in PurgeRun, ClaimDocument(p)
      PROVE  RetentionInv'
  <2>1. CASE purged
    BY <1>4, <2>1, ReachKeeps DEF ClaimDocument
  <2> QED
    BY <1>4, <2>1, ClaimKeeps
<1>5. ASSUME NEW p \in PurgeRun, DestroyBytes(p)
      PROVE  RetentionInv'
  <2>1. /\ purging[p] = "DESTROY" /\ purging' = [purging EXCEPT ![p] = "CONFIRM"]
        /\ ~bytes'
        /\ UNCHANGED <<due, started, purged, lease, leaseOver, hold, lock, placing, defied>>
    BY <1>5 DEF DestroyBytes, Reach
  <2>2. RetentionTypeOK'
    BY <1>5 DEF DestroyBytes, Reach
  <2>3. PurgeInv' /\ PurgedIsTrue'
    BY <2>1 DEF PurgeInv, PurgedIsTrue
  <2>4. PurgeLockInv' /\ JudgedInv' /\ ParentHoldsStopPurges'
    BY <2>1 DEF PurgeLockInv, JudgedInv, ParentHoldsStopPurges
  <2> QED
    BY <2>2, <2>3, <2>4
<1>6. ASSUME NEW p \in PurgeRun, ConfirmPurge(p)
      PROVE  RetentionInv'
  <2>1. /\ purging[p] = "CONFIRM" /\ purging' = [purging EXCEPT ![p] = "OVER"]
        /\ purged'
        /\ UNCHANGED <<due, bytes, started, lease, leaseOver, hold, lock, placing, defied>>
    BY <1>6 DEF ConfirmPurge, Reach
  <2>2. RetentionTypeOK'
    BY <1>6 DEF ConfirmPurge, Reach
  <2>3. PurgeInv' /\ PurgedIsTrue'
    BY <2>1 DEF PurgeInv, PurgedIsTrue
  <2>4. PurgeLockInv' /\ JudgedInv' /\ ParentHoldsStopPurges'
    BY <2>1 DEF PurgeLockInv, JudgedInv, ParentHoldsStopPurges
  <2> QED
    BY <2>2, <2>3, <2>4
<1>7. ASSUME NEW c \in HoldCall, NEW t \in Target, BeginHold(c, t)
      PROVE  RetentionInv'
  <2>1. /\ placing[c] = "" /\ placing' = [placing EXCEPT ![c] = t]
        /\ lock[t] = Nobody /\ lock' = [lock EXCEPT ![t] = c]
        /\ UNCHANGED <<due, bytes, started, purged, lease, leaseOver, hold, purging, defied>>
    BY <1>7 DEF BeginHold, Take
  <2>2. PurgeLockInv'
    BY <2>1 DEF PurgeLockInv, Target
  <2>3. RetentionTypeOK'
    BY <2>1
  <2>4. PurgeInv' /\ JudgedInv' /\ PurgedIsTrue' /\ ParentHoldsStopPurges'
    BY <2>1 DEF PurgeInv, JudgedInv, PurgedIsTrue, ParentHoldsStopPurges
  <2> QED
    BY <2>2, <2>3, <2>4
<1>8. ASSUME NEW t \in Target, ReleaseHold(t)
      PROVE  RetentionInv'
  BY <1>8 DEF ReleaseHold, PurgeInv, PurgeLockInv, JudgedInv, PurgedIsTrue, ParentHoldsStopPurges
<1>9. CASE UNCHANGED retentionVars
  BY <1>9 DEF retentionVars, PurgeInv, PurgeLockInv, JudgedInv, PurgedIsTrue, ParentHoldsStopPurges
<1> QED
  BY <1>1, <1>2, <1>3, <1>4, <1>5, <1>6, <1>7, <1>8, <1>9, LockParentKeeps, EndHoldKeeps
  DEF RetentionNext, PurgeStep

LEMMA RetentionInvariant == RetentionSpec => []RetentionInv
<1>1. RetentionInv /\ [RetentionNext]_retentionVars => RetentionInv'
  BY RetentionInvNext, RetentionAssumption
<1> QED
  BY RetentionInvInit, <1>1, PTL DEF RetentionSpec
-----------------------------------------------------------------------------
\* A document that says it was destroyed was, wherever runs die and however they
\* overlap, and nothing is destroyed that was not due and claimed (purgeDocument).
THEOREM PurgesAreTrue == RetentionSpec => []PurgedIsTrue
<1>1. RetentionInv => PurgedIsTrue
  BY DEF RetentionInv
<1> QED
  BY <1>1, RetentionInvariant, PTL

\* No purge claims a document while its owner or its request is held (placeHold,
\* purgeDocument).
THEOREM ParentHoldsProtect == RetentionSpec => []ParentHoldsStopPurges
<1>1. RetentionInv => ParentHoldsStopPurges
  BY DEF RetentionInv
<1> QED
  BY <1>1, RetentionInvariant, PTL
=============================================================================
