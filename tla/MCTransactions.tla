---------------------------- MODULE MCTransactions ----------------------------
(***************************************************************************)
(* Small instances of BookingTransactions for TLC: the nights 1 to 3 of    *)
(* one property and the calls that can meet on them.                       *)
(***************************************************************************)
EXTENDS TransactionProperties

CONSTANTS tenant1, tenant2, tenant3, tenant4, flat, b0, b1, b2, b3, b4, b5, block1

MCRequest ==
  LET Ask(who, from, to) == [property |-> flat, tenant |-> who, from |-> from, to |-> to]
  IN [b \in Bookings |-> CASE b = b0 -> Ask(tenant3, 2, 3)
                           [] b = b1 -> Ask(tenant1, 1, 3)
                           [] b = b2 -> Ask(tenant2, 2, 4)
                           [] b = b3 -> Ask(tenant1, 2, 3)
                           [] b = b4 -> Ask(tenant4, 2, 3)
                           [] b = b5 -> Ask(tenant2, 3, 4)]

\* The block covers night 2, the night that all the stays share.
MCPeriod == [k \in Block |-> [property |-> flat, from |-> 2, to |-> 3]]

\* b0 is a confirmed stay, b1 and b2 have been requested, b4 and b5
\* have not yet...
MCRequested ==
  [b \in Bookings |-> CASE b = b0 -> "CONFIRMED" [] b \in {b4, b5} -> "NONE"
                          [] OTHER -> "REQUESTED"]
\* ...or nobody has asked for anything.
MCNobody == [b \in Bookings |-> "NONE"]

\* Who has asked has a thread, and it was released when the booking was confirmed.
MCThread ==
  [u \in Tenant |->
     LET asked == { b \in Bookings : Request[b].tenant = u /\ FirstStatus[b] # "NONE" }
     IN IF asked = {} THEN [release |-> "NONE", booking |-> NoBooking]
        ELSE LET b == CHOOSE x \in asked : TRUE
             IN [release |-> IF FirstStatus[b] = "CONFIRMED" THEN "RELEASED" ELSE "BLOCKED",
                 booking |-> b]]

To(event, c) == [event |-> event, on |-> c]

\* The calls that can meet.  b1 and b3 are the same tenant's, and so are b2 and b5:
\* the tenant of b2 withdraws it and asks for night 3 alone.
MCCall ==
  [t \in Tx |-> CASE t = "accept1"   -> To("ACCEPT_REQUEST", b1)
                  [] t = "accept2"   -> To("ACCEPT_REQUEST", b2)
                  [] t = "cancel0"   -> To("CANCEL_BY_TENANT", b0)
                  [] t = "withdraw2" -> To("WITHDRAW", b2)
                  [] t = "block"     -> To("BLOCK", block1)
                  [] t = "instant4"  -> To("INSTANT_BOOK", b4)
                  [] t = "ask1"      -> To("REQUEST", b1)
                  [] t = "ask3"      -> To("REQUEST", b3)
                  [] t = "again5"    -> To("REQUEST", b5)]
=============================================================================
