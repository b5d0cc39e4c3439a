------------------------------ MODULE Completion ------------------------------
(***************************************************************************)
(* resolveCompletion() of src/server/domain/booking/completion.ts: what    *)
(* the answers of the two parties, the tenant's check-in and the state of  *)
(* the confirmation window decide about a stay, and whether the landlord   *)
(* owes the service fee for it.                                            *)
(***************************************************************************)

TookPlace == "TOOK_PLACE"
DidNotTakePlace == "DID_NOT_TAKE_PLACE"
NoAnswer == "NO_ANSWER"
Answer == {TookPlace, DidNotTakePlace}

NoSignal == "NO_SIGNAL"

\* FraudSignalKind of completion.ts.
SignalKind == { "UNILATERAL_LANDLORD_DENIAL", "SILENT_COMPLETION_NO_EVIDENCE",
                "COMPLETION_CONTRADICTION" }

\* The sentences completion_reason may hold, one name for each.
ResolutionReason ==
  { "BOTH_CONFIRMED", "BOTH_DENIED", "CONTRADICTION", "LANDLORD_ADMITTED",
    "TENANT_CONFIRMED", "TENANT_DENIED", "LANDLORD_DENIED", "CHECK_IN_RECORD",
    "NO_EVIDENCE" }

\* CompletionOutcome; PENDING carries no verdict.
Outcome(state, accrueFee, signal, reason) ==
  [state |-> state, accrueFee |-> accrueFee, signal |-> signal, reason |-> reason]

ResolveCompletion(tenant, landlord, hasCheckInRecord, deadlinePassed) ==
  IF tenant # NoAnswer /\ landlord # NoAnswer THEN
       IF tenant # landlord
         THEN Outcome("DISPUTED", FALSE, "COMPLETION_CONTRADICTION", "CONTRADICTION")
       ELSE IF tenant = TookPlace
         THEN Outcome("COMPLETED", TRUE, NoSignal, "BOTH_CONFIRMED")
         ELSE Outcome("NOT_TAKEN_PLACE", FALSE, NoSignal, "BOTH_DENIED")
  ELSE IF landlord = TookPlace THEN
       Outcome("COMPLETED", TRUE, NoSignal, "LANDLORD_ADMITTED")
  ELSE IF ~deadlinePassed THEN
       Outcome("PENDING", FALSE, NoSignal, "PENDING")
  ELSE IF tenant = TookPlace THEN
       Outcome("COMPLETED", TRUE, NoSignal, "TENANT_CONFIRMED")
  ELSE IF tenant = DidNotTakePlace THEN
       Outcome("NOT_TAKEN_PLACE", FALSE, NoSignal, "TENANT_DENIED")
  ELSE IF landlord = DidNotTakePlace THEN
       Outcome("NOT_TAKEN_PLACE", FALSE, "UNILATERAL_LANDLORD_DENIAL", "LANDLORD_DENIED")
  ELSE IF hasCheckInRecord THEN
       Outcome("COMPLETED", TRUE, NoSignal, "CHECK_IN_RECORD")
  ELSE Outcome("NOT_TAKEN_PLACE", FALSE, "SILENT_COMPLETION_NO_EVIDENCE", "NO_EVIDENCE")
=============================================================================
