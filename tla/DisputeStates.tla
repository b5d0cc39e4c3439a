---------------------------- MODULE DisputeStates ----------------------------
(***************************************************************************)
(* The dispute case table of src/server/domain/dispute.ts: which action of *)
(* the staff moves a case from which status to which.  Permissions and     *)
(* written reasons are checked from the caller's role and input, not from  *)
(* the state, and are left out.                                            *)
(***************************************************************************)

CaseStatus ==
  { "OPEN", "UNDER_REVIEW", "WAITING_FOR_PARTY", "ESCALATED", "RESOLVED", "CLOSED" }

\* The statuses the services count as an open case.
OpenCaseStatus == CaseStatus \ {"RESOLVED", "CLOSED"}

Move(from, action, to) == [from |-> from, action |-> action, to |-> to]

DisputeTransitions ==
  { Move("OPEN", "TAKE", "UNDER_REVIEW"), Move("ESCALATED", "TAKE", "UNDER_REVIEW"),
    Move("UNDER_REVIEW", "REQUEST_INFORMATION", "WAITING_FOR_PARTY"),
    Move("WAITING_FOR_PARTY", "REQUEST_INFORMATION", "WAITING_FOR_PARTY"),
    Move("WAITING_FOR_PARTY", "RESUME", "UNDER_REVIEW") }
  \cup { Move(from, "ESCALATE", "ESCALATED") : from \in OpenCaseStatus \ {"ESCALATED"} }
  \cup { Move(from, "RESOLVE", "RESOLVED") : from \in OpenCaseStatus \ {"OPEN"} }
  \cup { Move(from, "CLOSE", "CLOSED") : from \in OpenCaseStatus }
  \cup { Move(from, "REOPEN", "UNDER_REVIEW") : from \in {"RESOLVED", "CLOSED"} }

DisputeAction == { m.action : m \in DisputeTransitions }

\* applyDisputeAction(): where an action leads; empty when the table refuses it.
CaseTargets(from, action) ==
  { m.to : m \in { r \in DisputeTransitions : r.from = from /\ r.action = action } }
=============================================================================
