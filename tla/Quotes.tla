--------------------------------- MODULE Quotes ---------------------------------
(***************************************************************************)
(* From the price a tenant is shown to the fee of the stay                 *)
(* (ui/booking-panel.tsx, GET /listings/:id/quote in api/routes/bookings.ts,*)
(* requestBooking and accrueServiceFee in services/booking-service.ts).    *)
(* The panel asks for a quote whenever the dates change; answers come back *)
(* late, in any order or not at all, and the landlord edits the prices at  *)
(* any time.                                                               *)
(***************************************************************************)
EXTENDS Pricing, FiniteSets

CONSTANTS Stay,        \* stays that can be picked: records [from, to]
          Listing,     \* what the listing's row can say
          RuleBook,    \* what its pricing rules can be, in the order of the query
          FeeBps,      \* booking.service_fee_bps: 500
          MaxFetches,  \* bound on the quotes one tenant asks for
          MaxEdits     \* bound on the edits of the landlord

\* The columns of property and pricing_rule: amounts in kopecks, dates as days.
PriceUnit == {"NIGHT", "MONTH"}
Rule == [kind : {"LENGTH_OF_STAY", "SEASONAL"}, from : Int, to : Int,
         price : Nat, unit : PriceUnit, priority : Int]

ASSUME QuotesAssumption ==
  /\ \A stay \in Stay : stay.from \in Int /\ stay.to \in Int /\ stay.from < stay.to
  /\ \A l \in Listing : /\ l.price \in Nat /\ l.unit \in PriceUnit
                        /\ l.cleaning \in Nat /\ l.fixed \in Nat /\ l.deposit \in Nat
  /\ \A book \in RuleBook : book \in Seq(Rule)
  /\ FeeBps \in 0..BpsWhole /\ MaxEdits \in Nat

VARIABLES
  listing,  \* the property's row
  rules,    \* its pricing rules
  dates,    \* the stay picked in the panel (<<>>: none)
  fetches,  \* fetches[k]: the stay the k-th fetch asks for, and whether it is under way
  answers,  \* what the server has answered to the fetches, not yet arrived
  shown,    \* the quote in the panel, its stay and its fetch (<<>>: none)
  confirming, \* the pane of the last look before booking is open
  edits,    \* edits of the landlord so far
  booking,  \* the terms written into the booking (<<>>: not booked)
  accrued   \* the service fee of the completed stay (-1: none)

quotesVars == <<listing, rules, dates, fetches, answers, shown, confirming, edits, booking,
                accrued>>
offerVars == <<listing, rules, edits>>
panelVars == <<dates, fetches, answers, shown>>

QuotesInit ==
  /\ listing \in Listing /\ rules \in RuleBook
  /\ dates = <<>> /\ fetches = <<>> /\ answers = {} /\ shown = <<>> /\ confirming = FALSE
  /\ edits = 0
  /\ booking = <<>> /\ accrued = -1

\* The tenant picks other dates: the effect of the old ones is cleaned up, the
\* quote on the screen stays until the next arrives.
PickDates(stay) ==
  /\ booking = <<>>
  /\ Len(fetches) < MaxFetches
  /\ dates # <<stay>>
  /\ dates' = <<stay>>
  /\ fetches' = Append([k \in DOMAIN fetches |-> [fetches[k] EXCEPT !.cancelled = TRUE]],
                       [stay |-> stay, cancelled |-> FALSE, open |-> TRUE])
  /\ UNCHANGED <<answers, shown, confirming, booking, accrued>> /\ UNCHANGED offerVars

\* A range that is reversed, or too short or too long, empties the panel.
PickNothing ==
  /\ booking = <<>> /\ dates # <<>>
  /\ dates' = <<>> /\ shown' = <<>>
  /\ fetches' = [k \in DOMAIN fetches |-> [fetches[k] EXCEPT !.cancelled = TRUE]]
  /\ UNCHANGED <<answers, confirming, booking, accrued>> /\ UNCHANGED offerVars

\* The route prices the stay from the listing's row; it passes no rules.
AnswerQuote(k) ==
  /\ k \in DOMAIN fetches /\ fetches[k].open
  /\ fetches' = [fetches EXCEPT ![k].open = FALSE]
  /\ answers' = answers \cup
       {[fetch |-> k, edit |-> edits,
         quote |-> Quote(fetches[k].stay.from, fetches[k].stay.to, listing, <<>>)]}
  /\ UNCHANGED <<dates, shown, confirming, booking, accrued>> /\ UNCHANGED offerVars

LoseQuote(k) ==
  /\ k \in DOMAIN fetches /\ fetches[k].open
  /\ fetches' = [fetches EXCEPT ![k].open = FALSE]
  /\ UNCHANGED <<dates, answers, shown, confirming, booking, accrued>> /\ UNCHANGED offerVars

\* An answer arrives; that of a cancelled effect is dropped.
ShowQuote(a) ==
  /\ booking = <<>>
  /\ answers' = answers \ {a}
  /\ shown' = IF fetches[a.fetch].cancelled THEN shown ELSE <<a>>
  /\ UNCHANGED <<dates, fetches, confirming, booking, accrued>> /\ UNCHANGED offerVars

\* updateListing(), replacePricingRules().
EditPrices(l, r) ==
  /\ edits < MaxEdits
  /\ l = listing \/ r = rules
  /\ l # listing \/ r # rules
  /\ listing' = l /\ rules' = r /\ edits' = edits + 1
  /\ UNCHANGED <<confirming, booking, accrued>> /\ UNCHANGED panelVars

\* The buttons that open the confirmation are enabled while any quote is shown...
OpenConfirm ==
  /\ booking = <<>> /\ ~confirming
  /\ shown # <<>>
  /\ confirming' = TRUE
  /\ UNCHANGED <<booking, accrued>> /\ UNCHANGED offerVars /\ UNCHANGED panelVars

CloseConfirm ==
  /\ booking = <<>> /\ confirming
  /\ confirming' = FALSE
  /\ UNCHANGED <<booking, accrued>> /\ UNCHANGED offerVars /\ UNCHANGED panelVars

\* ...and its last button is enabled whatever became of the quote and of the dates
\* meanwhile; the route refuses a stay that is none.  requestBooking() prices the stay
\* anew, with the rules, and writes the terms into the booking.
BookStay ==
  /\ booking = <<>> /\ confirming /\ dates # <<>>
  /\ booking' = <<[stay |-> dates[1], edit |-> edits, bps |-> FeeBps,
                   quote |-> Quote(dates[1].from, dates[1].to, listing, rules)]>>
  /\ confirming' = FALSE
  /\ UNCHANGED accrued /\ UNCHANGED offerVars /\ UNCHANGED panelVars

\* accrueServiceFee() at the end of the stay.
FeeOfStay ==
  /\ booking # <<>> /\ accrued = -1
  /\ accrued' = ServiceFee(booking[1].quote.feeBase, booking[1].bps)
  /\ UNCHANGED <<confirming, booking>> /\ UNCHANGED offerVars /\ UNCHANGED panelVars

QuotesNext ==
  \/ \E s \in Stay : PickDates(s)
  \/ PickNothing
  \/ \E k \in 1..MaxFetches : AnswerQuote(k) \/ LoseQuote(k)
  \/ \E a \in answers : ShowQuote(a)
  \/ \E l \in Listing, r \in RuleBook : EditPrices(l, r)
  \/ OpenConfirm \/ CloseConfirm \/ BookStay \/ FeeOfStay

QuotesSpec == QuotesInit /\ [][QuotesNext]_quotesVars
-----------------------------------------------------------------------------
QuotesTypeOK ==
  /\ listing \in Listing /\ rules \in RuleBook
  /\ dates \in {<<>>} \cup { <<s>> : s \in Stay }
  /\ fetches \in Seq([stay : Stay, cancelled : BOOLEAN, open : BOOLEAN])
  /\ \A a \in answers : a.fetch \in DOMAIN fetches
  /\ shown = <<>> \/ shown[1].fetch \in DOMAIN fetches
  /\ confirming \in BOOLEAN
  /\ edits \in 0..MaxEdits
  /\ booking = <<>> \/ booking[1].stay \in Stay
  /\ accrued \in Int

\* The price of one night, as a multiple of 1/BillingMonth of a kopeck, read off
\* the rules directly: the season's of the highest priority that covers it, else
\* that of the tier the length of the stay falls into, else the listing's.
ExactNight(day, stay, l, book) ==
  LET best(among) == { i \in among : \A j \in among : book[i].priority >= book[j].priority }
      ofMonth(p) == IF p.unit = "MONTH" THEN p.price ELSE p.price * BillingMonth
      season == best({ i \in DOMAIN book :
                         book[i].kind = "SEASONAL" /\ day \in book[i].from..(book[i].to - 1) })
      tier == best({ i \in DOMAIN book :
                       book[i].kind = "LENGTH_OF_STAY"
                         /\ stay.to - stay.from \in book[i].from..book[i].to })
  IN { ofMonth(p) : p \in IF season # {} THEN { book[i] : i \in season }
                          ELSE IF tier # {} THEN { book[i] : i \in tier } ELSE {l} }

\* The rent that is written into a booking is the sum of the exact prices of its
\* nights, but for half a kopeck a night of rounding, and without a season a stay
\* of whole billing months costs exactly its monthly price.  Rules of the same
\* priority are left out: the code takes whichever the query returns first.
RentIsExact ==
  booking # <<>> /\ booking[1].edit = edits =>
    LET stay == booking[1].stay
        days == stay.from..(stay.to - 1)
        nights == stay.to - stay.from
        rent == booking[1].quote.rent
        exact == SumOf([k \in 1..nights |->
                   CHOOSE x \in ExactNight(stay.from + k - 1, stay, listing, rules) : TRUE])
        clear == \A d \in days : Cardinality(ExactNight(d, stay, listing, rules)) = 1
    IN clear =>
       /\ 2 * AbsoluteValue(BillingMonth * rent - exact) <= BillingMonth * nights
       /\ nights % BillingMonth = 0
            /\ (\A i \in DOMAIN rules :
                  rules[i].kind = "SEASONAL" => days \cap rules[i].from..(rules[i].to - 1) = {})
            => BillingMonth * rent = exact

\* The panel's promise: what it shows for these dates is what gets recorded, as
\* long as the landlord edits nothing in between.
ShownIsRecorded ==
  booking # <<>> /\ shown # <<>> /\ shown[1].edit = booking[1].edit
    /\ fetches[shown[1].fetch].stay = booking[1].stay
      => shown[1].quote.total = booking[1].quote.total
=============================================================================
