------------------------------- MODULE Calendar -------------------------------
(***************************************************************************)
(* What the calendar promises, with no booking, status or trigger in       *)
(* sight: a night of a property has at most one claimant; a claim takes    *)
(* all its nights at once or none of them; a night is never handed from    *)
(* one claimant to another without being free in between.  BookingService  *)
(* is shown to implement this specification.                               *)
(***************************************************************************)
CONSTANTS Claimant,   \* who can claim: a booking or a landlord's block
          RowsOf      \* the rows [night, claimant] each claimant stands for

VARIABLE claims       \* the rows claimed

Init == claims = {}

Claim(c) ==
  /\ \A row \in RowsOf[c], held \in claims : held.night # row.night
  /\ claims' = claims \cup RowsOf[c]

Release(c) ==
  /\ RowsOf[c] \subseteq claims
  /\ claims' = claims \ RowsOf[c]

Next == \E c \in Claimant : Claim(c) \/ Release(c)

Spec == Init /\ [][Next]_claims
=============================================================================
