------------------------------- MODULE MCServices -------------------------------
(***************************************************************************)
(* Small instances of the services that share no row with one another, for *)
(* TLC.  A behaviour plays in one scene: one of the components moves and   *)
(* the others stay as they began, so that the states of the scenes add up  *)
(* instead of multiplying.  What a row of one means to another (a stay     *)
(* that completes and accrues a fee, an account that is closed) is an      *)
(* action of the component that owns the row.                              *)
(***************************************************************************)
EXTENDS Finance, Idempotency, Reviews, Registration, Sessions, SecondFactor, Retention,
        Listings, Verification, Quotes, Tickets, Telegram,
        PhoneNumbers, Wizard

CONSTANTS Scenes, fee1, fee2, pay1, pay2, waive1, waive2, book, settle,
          run1, run2, hold1, status1, status2, status3, photo1, photo2, photo3,
          apply1, apply2, apply3, paper1, desk1, desk2, user1, user2,
          user3

VARIABLE scene

vars == <<scene, financeVars, idempotencyVars, reviewsVars, registrationVars, sessionsVars,
          secondFactorVars, retentionVars, listingsVars, verificationVars, quotesVars, ticketsVars,
          telegramVars, phoneVars, wizardVars>>
-----------------------------------------------------------------------------
(* Finance: two fees of two kopecks, payments of one or two.               *)
MCFeeMinor == [f \in Fee |-> 2]

(* Idempotency: a key whose handler keeps it with the booking, and one of a*)
(* payment, each sent three times and once with another body.              *)
MCAttempt == { book, settle } \X (1..3)
MCKeyOf == [a \in MCAttempt |-> a[1]]
MCBodyOf == [a \in MCAttempt |-> IF a[2] = 3 THEN "other" ELSE "first"]

(* Telegram: two codes of one account and one of another.                  *)
MCTokenOf == [t \in 1..3 |-> IF t = 3 THEN user2 ELSE user1]

(* Phone numbers: two accounts with an e-mail address, one without.        *)
MCPhone == [u \in Owner |-> IF u \in Emailed THEN NoNumber ELSE 7]

(* Quotes: billing months of three nights, a listing let by the month and  *)
(* one by the night; stays of three nights, of one month, two months and a *)
(* few nights more.                                                        *)
MCStay == {[from |-> 1, to |-> 4], [from |-> 1, to |-> 7], [from |-> 3, to |-> 5]}
MCListing ==
  {[price |-> 44, unit |-> "MONTH", cleaning |-> 5, utilities |-> "FIXED_EXTRA", fixed |-> 7,
    deposit |-> 20],
   [price |-> 10, unit |-> "NIGHT", cleaning |-> 0, utilities |-> "VARIABLE_METERED", fixed |-> 0,
    deposit |-> 0]}
Tier(from, to, price, unit, priority) ==
  [kind |-> "LENGTH_OF_STAY", from |-> from, to |-> to, price |-> price, unit |-> unit,
   priority |-> priority]
Season(from, to, price, unit, priority) ==
  [Tier(from, to, price, unit, priority) EXCEPT !.kind = "SEASONAL"]
MCRuleBook ==
  {<<>>,
   <<Tier(1, 6, 9, "NIGHT", 0), Tier(3, 3, 40, "MONTH", 1)>>,
   <<Season(2, 4, 15, "NIGHT", 0), Season(3, 6, 50, "MONTH", 1)>>,
   <<Tier(3, 6, 31, "MONTH", 0), Season(4, 5, 12, "NIGHT", 0)>>}
-----------------------------------------------------------------------------
\* The scenes that begin in several ways do so only when they are played.
Init ==
  /\ scene \in Scenes
  /\ FinanceInit /\ IdempotencyInit /\ ReviewsInit /\ RegistrationInit /\ SessionsInit
  /\ SecondFactorInit /\ RetentionInit /\ ListingsInit /\ VerificationInit /\ QuotesInit
  /\ TicketsInit /\ TelegramInit /\ PhoneInit /\ WizardInit
  /\ scene # "Idempotency" => at[<<book, 1>>] = "ARRIVED"
  /\ scene # "Listings" => complete
  /\ scene # "Quotes" => rules = <<>> /\ listing.unit = "NIGHT"
  /\ scene # "Tickets" => kind = "TICKET"
  /\ scene # "PhoneNumbers" => phone = MCPhone

\* The components that are not played stay as they are.
Only(s) ==
  /\ scene = s /\ UNCHANGED scene
  /\ s # "Finance" => UNCHANGED financeVars
  /\ s # "Idempotency" => UNCHANGED idempotencyVars
  /\ s # "Reviews" => UNCHANGED reviewsVars
  /\ s # "Registration" => UNCHANGED registrationVars
  /\ s # "Sessions" => UNCHANGED sessionsVars
  /\ s # "SecondFactor" => UNCHANGED secondFactorVars
  /\ s # "Retention" => UNCHANGED retentionVars
  /\ s # "Listings" => UNCHANGED listingsVars
  /\ s # "Verification" => UNCHANGED verificationVars
  /\ s # "Quotes" => UNCHANGED quotesVars
  /\ s # "Tickets" => UNCHANGED ticketsVars
  /\ s # "Telegram" => UNCHANGED telegramVars
  /\ s # "PhoneNumbers" => UNCHANGED phoneVars
  /\ s # "Wizard" => UNCHANGED wizardVars

Next ==
  \/ scene = "Finance" /\ FinanceNext /\ Only("Finance")
  \/ scene = "Idempotency" /\ IdempotencyNext /\ Only("Idempotency")
  \/ scene = "Reviews" /\ ReviewsNext /\ Only("Reviews")
  \/ scene = "Registration" /\ RegistrationNext /\ Only("Registration")
  \/ scene = "Sessions" /\ SessionsNext /\ Only("Sessions")
  \/ scene = "SecondFactor" /\ SecondFactorNext /\ Only("SecondFactor")
  \/ scene = "Retention" /\ RetentionNext /\ Only("Retention")
  \/ scene = "Listings" /\ ListingsNext /\ Only("Listings")
  \/ scene = "Verification" /\ VerificationNext /\ Only("Verification")
  \/ scene = "Quotes" /\ QuotesNext /\ Only("Quotes")
  \/ scene = "Tickets" /\ TicketsNext /\ Only("Tickets")
  \/ scene = "Telegram" /\ TelegramNext /\ Only("Telegram")
  \/ scene = "PhoneNumbers" /\ PhoneNext /\ Only("PhoneNumbers")
  \/ scene = "Wizard" /\ WizardNext /\ Only("Wizard")

Spec == Init /\ [][Next]_vars

\* The clock passes expires_at of a key, and the retention job is run again and
\* again.
Fairness ==
  /\ \A k \in Key : WF_vars(Lapse(k) /\ Only("Idempotency"))
  /\ WF_vars(SweepKeys /\ Only("Idempotency"))

FairSpec == Spec /\ Fairness
-----------------------------------------------------------------------------
\* Types, each component's while it is played: the others stay as it began.
ServicesTypeOK ==
  /\ scene = "Finance" => FinanceTypeOK
  /\ scene = "Idempotency" => IdempotencyTypeOK
  /\ scene = "Reviews" => ReviewsTypeOK
  /\ scene = "Registration" => RegistrationTypeOK
  /\ scene = "Sessions" => SessionsTypeOK
  /\ scene = "SecondFactor" => SecondFactorTypeOK
  /\ scene = "Retention" => RetentionTypeOK
  /\ scene = "Listings" => ListingsTypeOK
  /\ scene = "Verification" => VerificationTypeOK
  /\ scene = "Quotes" => QuotesTypeOK
  /\ scene = "Tickets" => TicketsTypeOK
  /\ scene = "Telegram" => TelegramTypeOK
  /\ scene = "PhoneNumbers" => PhoneTypeOK
  /\ scene = "Wizard" => WizardTypeOK
=============================================================================
