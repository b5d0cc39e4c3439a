-------------------------------- MODULE Pricing --------------------------------
(***************************************************************************)
(* The price of a stay (domain/pricing.ts), as a function of the listing's *)
(* prices and rules.                                                       *)
(* Days are numbers; the nights of a stay are From..To-1.                  *)
(***************************************************************************)
EXTENDS Money, Sequences, SequencesExt

CONSTANT BillingMonth  \* NIGHTS_PER_BILLING_MONTH: 30

ASSUME PricingAssumption == BillingMonth \in Nat \ {0}

ToNightly(price, unit) == IF unit = "NIGHT" THEN price ELSE DivideRound(price, BillingMonth)
-----------------------------------------------------------------------------
(* A listing is a record [price, unit, cleaning, utilities, fixed, deposit].*)
(* A rule is a record [kind, from, to, price, unit, priority]; from..to are *)
(* the nights of a length-of-stay tier, both included, or the days of a     *)
(* season, the last excluded.  Rules come in the order of the query.        *)

SumOf(s) == FoldLeft(LAMBDA a, b : a + b, 0, s)

InTier(rule, nights) == rule.kind = "LENGTH_OF_STAY" /\ rule.from <= nights /\ nights <= rule.to
\* (Mutant: the last day of a season is one of its nights.)
InSeasonToItsEnd(rule, day) ==
  rule.kind = "SEASONAL" /\ rule.from <= day /\ day <= rule.to

InSeason(rule, day) == rule.kind = "SEASONAL" /\ rule.from <= day /\ day < rule.to

\* The first of the rules with these indices when they are sorted, stably, by
\* priority and then by the lower bound (tiers) or by priority alone (seasons).
FirstTier(rules, indices) ==
  CHOOSE i \in indices : \A j \in indices \ {i} :
    \/ rules[i].priority > rules[j].priority
    \/ rules[i].priority = rules[j].priority /\ rules[i].from > rules[j].from
    \/ rules[i].priority = rules[j].priority /\ rules[i].from = rules[j].from /\ i < j
FirstSeason(rules, indices) ==
  CHOOSE i \in indices : \A j \in indices \ {i} :
    \/ rules[i].priority > rules[j].priority
    \/ rules[i].priority = rules[j].priority /\ i < j

TiersFor(rules, nights) == { i \in DOMAIN rules : InTier(rules[i], nights) }
SeasonsOn(rules, day) == { i \in DOMAIN rules : InSeason(rules[i], day) }

\* The price that holds outside every season: a tier's or the listing's.
Effective(listing, rules, nights) ==
  LET tiers == TiersFor(rules, nights)
  IN IF tiers = {} THEN [price |-> listing.price, unit |-> listing.unit]
     ELSE rules[FirstTier(rules, tiers)]

\* computeRent(): whole billing months at the monthly price when no season meets
\* the stay, else night by night.
ComputeRent(from, to, listing, rules) ==
  LET nights == to - from
      effective == Effective(listing, rules, nights)
      seasonal == \E day \in from..(to - 1) : SeasonsOn(rules, day) # {}
      nightPrice(day) ==
        LET seasons == SeasonsOn(rules, day)
        IN IF seasons = {} THEN ToNightly(effective.price, effective.unit)
           ELSE LET s == rules[FirstSeason(rules, seasons)] IN ToNightly(s.price, s.unit)
  IN IF effective.unit = "MONTH" /\ ~seasonal
     THEN effective.price * (nights \div BillingMonth)
            + ToNightly(effective.price, "MONTH") * (nights % BillingMonth)
     ELSE SumOf([k \in 1..nights |-> nightPrice(from + k - 1)])

\* What a line of the quote adds to the total.
Committed(line) == IF line.variable \/ line.code = "DEPOSIT" THEN 0 ELSE line.amount

\* quote(): the total is the sum of the lines shown, but for the variable ones
\* and the deposit; the base of the fee is added up on its own.
Quote(from, to, listing, rules) ==
  LET rent == ComputeRent(from, to, listing, rules)
      fixed == IF listing.utilities = "FIXED_EXTRA" THEN listing.fixed ELSE 0
      Line(code, amount, variable) == [code |-> code, amount |-> amount, variable |-> variable]
      Some(line) == IF line.amount > 0 THEN <<line>> ELSE <<>>
      lines == <<Line("RENT", rent, FALSE)>> \o Some(Line("CLEANING", listing.cleaning, FALSE))
                 \o Some(Line("UTILITIES", fixed, FALSE))
                 \o (IF listing.utilities = "VARIABLE_METERED"
                     THEN <<Line("UTILITIES_METERED", 0, TRUE)>> ELSE <<>>)
                 \o Some(Line("DEPOSIT", listing.deposit, FALSE))
  IN [rent |-> rent, lines |-> lines,
      total |-> SumOf([k \in DOMAIN lines |-> Committed(lines[k])]),
      feeBase |-> rent + listing.cleaning + fixed]
=============================================================================
