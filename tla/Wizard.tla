--------------------------------- MODULE Wizard ---------------------------------
(***************************************************************************)
(* The autosave of the listing wizard (ui/listing-wizard.tsx) over one     *)
(* draft that exists on the server: what the landlord typed, what waits to *)
(* be saved, the PATCH requests under way, and the row they write          *)
(* (services/listing-service.ts update).  A value is the number of the     *)
(* edit that typed it.  Photos, the map and the checks of a step are left  *)
(* out: they write by requests of their own or write nothing; so is the    *)
(* status of the row, which no PATCH of a wizard looks at.                 *)
(***************************************************************************)
EXTENDS Naturals

CONSTANTS Field,       \* fields of the form
          MaxTyped     \* bounds the edits

ASSUME WizardAssumption == MaxTyped \in Nat \ {0}

VARIABLES
  draft,    \* draft[f]: what the form shows
  pending,  \* the fields of pending.current; their values are those of draft
  timer,    \* a save is due
  wizard,   \* "OPEN", "SUBMITTING" (submit() awaits its flush), "POSTED" (the submission
            \* is under way) or "LEFT"
  ready,    \* saveAndExit() or submit(), when the flush it awaited is over
  flights,  \* PATCH requests: the fields and values, who awaits it, how far
  saved,    \* saved[f]: the row of the property
  doubtful  \* fields whose last save failed or may have been overtaken (history)

wizardVars == <<draft, pending, timer, wizard, ready, flights, saved, doubtful>>

WizardInit ==
  /\ draft = [f \in Field |-> 0] /\ saved = [f \in Field |-> 0]
  /\ pending = {} /\ doubtful = {} /\ flights = {}
  /\ timer = FALSE
  /\ wizard = "OPEN" /\ ready = {}

OnScreen == wizard # "LEFT"
\* The handlers that do something after their flush; go() only turns the page.
Awaiter == {"EXIT", "SUBMIT"}
\* Edits so far: the value of the latest one.
Typed(n) == (\E f \in Field : draft[f] = n) /\ \A f \in Field : draft[f] <= n
Carries(p, f) == f \in DOMAIN p.values

\* patch(): an edit is shown, waits, and puts the save off.  Nothing is disabled
\* while a save is under way.
Edit(f) ==
  /\ OnScreen
  /\ \E n \in 0..(MaxTyped - 1) : Typed(n) /\ draft' = [draft EXCEPT ![f] = n + 1]
  /\ pending' = pending \cup {f}
  /\ timer' = TRUE
  /\ UNCHANGED <<wizard, ready, flights, saved, doubtful>>

\* flush(): takes all that waits into one PATCH, or does nothing.  A field that is
\* under way already may arrive in the other order.
Flush(awaited) ==
  /\ pending' = {}
  /\ flights' = IF pending = {} THEN flights
                ELSE flights \cup {[values |-> [f \in pending |-> draft[f]],
                                    awaited |-> awaited, at |-> "SENT"]}
  /\ doubtful' = (doubtful \ pending)
                   \cup { f \in pending : \E p \in flights : Carries(p, f) }

TimerFires ==
  /\ OnScreen /\ timer
  /\ timer' = FALSE
  /\ Flush("NOBODY")
  /\ UNCHANGED <<draft, wizard, ready, saved>>

\* go(): flushes before the step changes, and leaves the timer to run.
Go ==
  /\ OnScreen /\ pending # {}
  /\ Flush("NOBODY")
  /\ UNCHANGED <<draft, timer, wizard, ready, saved>>

\* saveAndExit() and submit() await the PATCH of their own flush, and none when
\* nothing waits to be saved.
FlushFor(h) ==
  /\ Flush(h)
  /\ ready' = IF pending = {} THEN ready \cup {h} ELSE ready
  /\ UNCHANGED <<draft, timer, saved>>

\* The button is never disabled: it can be pressed again and during a submission.
SaveAndExit == OnScreen /\ FlushFor("EXIT") /\ UNCHANGED wizard
\* Disabled while it submits.
PressSubmit == wizard = "OPEN" /\ wizard' = "SUBMITTING" /\ FlushFor("SUBMIT")

\* update(): takes a PATCH in every status a wizard can meet, one under moderation
\* included.
Arrive(p) ==
  /\ p.at \in {"SENT", "STRANDED"}
  /\ saved' = [f \in Field |-> IF Carries(p, f) THEN p.values[f] ELSE saved[f]]
  /\ flights' = (flights \ {p}) \cup
                  (IF p.at = "STRANDED" THEN {} ELSE {[p EXCEPT !.at = "WRITTEN"]})
  /\ UNCHANGED <<draft, pending, timer, wizard, ready, doubtful>>

\* The flush that sent it is over, whether it saved anything or not.
FlushOver(p) == ready' = ready \cup ({p.awaited} \cap Awaiter)

\* (Mutant: pending.current is emptied when the PATCH has been answered.)
AnswerEmpties(p) ==
  /\ p.at = "WRITTEN"
  /\ flights' = flights \ {p}
  /\ pending' = {}
  /\ FlushOver(p)
  /\ UNCHANGED <<draft, timer, wizard, saved, doubtful>>

Answer(p) ==
  /\ p.at = "WRITTEN"
  /\ flights' = flights \ {p}
  /\ FlushOver(p)
  /\ UNCHANGED <<draft, pending, timer, wizard, saved, doubtful>>

\* The request is refused, or it or its answer is lost: the catch of flush() shows an
\* error, and what was taken from pending is not put back.
Fail(p) ==
  /\ p.at # "STRANDED"
  /\ flights' = flights \ {p}
  /\ doubtful' = doubtful \cup { f \in DOMAIN p.values : saved[f] # p.values[f] }
  /\ FlushOver(p)
  /\ UNCHANGED <<draft, pending, timer, wizard, saved>>

\* The connection breaks, and the server has the request all the same.
Strand(p) ==
  /\ p.at = "SENT"
  /\ flights' = (flights \ {p}) \cup {[p EXCEPT !.at = "STRANDED", !.awaited = "NOBODY"]}
  /\ doubtful' = doubtful \cup DOMAIN p.values
  /\ FlushOver(p)
  /\ UNCHANGED <<draft, pending, timer, wizard, saved>>

\* The page is left: the effect's cleanup stops the timer, and pending goes with
\* the page.  Requests under way go on.
LeavePage ==
  /\ OnScreen
  /\ wizard' = "LEFT"
  /\ timer' = FALSE /\ pending' = {}
  /\ UNCHANGED <<draft, ready, flights, saved, doubtful>>

Exit == "EXIT" \in ready /\ LeavePage
\* The tab is closed, or the landlord goes elsewhere.
CloseTab == LeavePage

\* submit(): posted once its own flush is over, whatever was typed since; refused,
\* the wizard stays.
PostSubmission ==
  /\ wizard = "SUBMITTING" /\ "SUBMIT" \in ready
  /\ wizard' = "POSTED" /\ ready' = ready \ {"SUBMIT"}
  /\ UNCHANGED <<draft, pending, timer, flights, saved, doubtful>>
TakeSubmission == wizard = "POSTED" /\ LeavePage
RefuseSubmission ==
  /\ wizard = "POSTED"
  /\ wizard' = "OPEN"
  /\ UNCHANGED <<draft, pending, timer, ready, flights, saved, doubtful>>

WizardNext ==
  \/ \E f \in Field : Edit(f)
  \/ TimerFires \/ Go \/ SaveAndExit \/ PressSubmit
  \/ \E p \in flights : Arrive(p) \/ Answer(p) \/ Fail(p) \/ Strand(p)
  \/ Exit \/ CloseTab
  \/ PostSubmission \/ TakeSubmission \/ RefuseSubmission
WizardSpec == WizardInit /\ [][WizardNext]_wizardVars
-----------------------------------------------------------------------------
Values == UNION { [fields -> 0..MaxTyped] : fields \in SUBSET Field }

\* Types, bounded by the constants.
WizardTypeOK ==
  /\ draft \in [Field -> 0..MaxTyped] /\ saved \in [Field -> 0..MaxTyped]
  /\ pending \subseteq Field /\ doubtful \subseteq Field
  /\ timer \in BOOLEAN /\ ready \subseteq Awaiter
  /\ wizard \in {"OPEN", "SUBMITTING", "POSTED", "LEFT"}
  /\ flights \subseteq [values : Values, awaited : Awaiter \cup {"NOBODY"},
                        at : {"SENT", "WRITTEN", "STRANDED"}]

\* Nothing that was typed is dropped while the wizard is open: what the form shows is
\* in the row, on its way there, or waiting for a save that is due -- edits made while
\* a save is under way included.  Not so a field whose last PATCH failed, which nothing
\* sends again, and one whose two last PATCHes were under way at once, which may
\* arrive in the other order (flush, patch).
EditsReachTheListing ==
  OnScreen =>
    \A f \in Field \ doubtful :
      \/ f \in pending /\ timer
      \/ f \notin pending /\ \E p \in flights : Carries(p, f) /\ p.values[f] = draft[f]
      \/ f \notin pending /\ saved[f] = draft[f]
================================================================================
