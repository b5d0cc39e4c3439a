SPECIFICATION FairSpec
CONSTANTS
  tenant1 = tenant1 tenant2 = tenant2 landlord = landlord flat = flat
  b1 = b1 b2 = b2 b3 = b3 block1 = block1 case1 = case1 case2 = case2
  User = {tenant1, landlord}
  Property = {flat}
  Owner <- MCOwner
  Request <- MCRequest
  Period <- MCPeriod
  MinNights <- MCMinNights
  MaxNights <- MCMaxNights
  NoBooking = NoBooking
  Bookings = {b1}
  Block = {}
  Case = {case1}
  BookingMode <- MCInstantOrRequest
  RequestTTL = 1
  CompletionWindow = 2
  ReviewWindow = 1
  Horizon = 6
  LastRequestDay = 0

INVARIANTS
  FeeExactlyOnce
  VerdictsRestOnEvidence
  SilenceGetsTheFullWindow
PROPERTIES
  EndedForGood
  DisputeFreezes
  SweepActsOnTime
  RequestsAreAnswered
  StaysAreSettled
