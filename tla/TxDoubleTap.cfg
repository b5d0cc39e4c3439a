SPECIFICATION Spec
CONSTANTS
  tenant1 = tenant1 tenant2 = tenant2 tenant3 = tenant3 tenant4 = tenant4 flat = flat
  b0 = b0 b1 = b1 b2 = b2 b3 = b3 b4 = b4 b5 = b5 block1 = block1
  Request <- MCRequest
  Period <- MCPeriod
  Free = Free
  NoTx = NoTx
  NoBooking = NoBooking
  Landlord = Landlord
  MinNights = 1
  MaxNights = 3
  FirstThread <- MCThread
  Bookings = {b1, b2, b3}
  Block = {block1}
  Tx = {"ask1", "ask3"}
  Call <- MCCall
  FirstStatus <- MCNobody

INVARIANTS
  OneLiveRequest
