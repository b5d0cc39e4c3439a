------------------------------ MODULE MCBooking ------------------------------
(***************************************************************************)
(* Small instances of the booking service for TLC: one property, two       *)
(* tenants, and the stays b1, b2, b3, of which b2 overlaps the other two.   *)
(***************************************************************************)
EXTENDS BookingProperties

CONSTANTS tenant1, tenant2, landlord, flat, b1, b2, b3, block1, case1, case2

Stay(who, from, to) == [property |-> flat, tenant |-> who, from |-> from, to |-> to]

MCOwner == [p \in Property |-> landlord]
MCMinNights == [p \in Property |-> 1]
MCMaxNights == [p \in Property |-> 2]
MCInstantOrRequest == [p \in Property |-> "INSTANT_AND_REQUEST"]
MCRequestOnly == [p \in Property |-> "REQUEST"]

\* b1 and b2 share night 2 between two tenants; b3 is tenant1 again, on
\* nights that meet b2 and not b1.
MCRequest ==
  [b \in Bookings |-> CASE b = b1 -> Stay(tenant1, 1, 3)
                        [] b = b2 -> Stay(tenant2, 2, 4)
                        [] b = b3 -> Stay(tenant1, 3, 4)]

\* The block covers night 1: it meets b1 alone.
MCPeriod == [k \in Block |-> [property |-> flat, from |-> 1, to |-> 2]]
=============================================================================
