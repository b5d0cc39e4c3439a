---------------------------- MODULE ServicesProofs ----------------------------
(***************************************************************************)
(* What is proved of each service alone holds of them side by side, and so *)
(* of every behaviour of MCServices: whatever scene is played, the steps   *)
(* of each service are its own.                                            *)
(***************************************************************************)
EXTENDS MCServices, AccountProofs, DeskProofs, FinanceProofs, RequestProofs

\* A behaviour of the scenes is one of every service: nothing that the composition
\* does to a row is not done by the component that owns it.
LEMMA ScenesAreServices ==
  Spec => /\ FinanceSpec /\ IdempotencySpec /\ ReviewsSpec /\ RegistrationSpec
          /\ SessionsSpec /\ SecondFactorSpec /\ RetentionSpec /\ ListingsSpec
          /\ VerificationSpec /\ QuotesSpec /\ TicketsSpec /\ TelegramSpec
          /\ PhoneSpec /\ WizardSpec
<1>1. Spec => FinanceSpec
  <2>1. Init => FinanceInit
    BY DEF Init
  <2>2. [Next]_vars => [FinanceNext]_financeVars
    BY DEF Next, Only, vars
  <2> QED
    BY <2>1, <2>2, PTL DEF Spec, FinanceSpec
<1>2. Spec => IdempotencySpec
  <2>1. Init => IdempotencyInit
    BY DEF Init
  <2>2. [Next]_vars => [IdempotencyNext]_idempotencyVars
    BY DEF Next, Only, vars
  <2> QED
    BY <2>1, <2>2, PTL DEF Spec, IdempotencySpec
<1>3. Spec => ReviewsSpec
  <2>1. Init => ReviewsInit
    BY DEF Init
  <2>2. [Next]_vars => [ReviewsNext]_reviewsVars
    BY DEF Next, Only, vars
  <2> QED
    BY <2>1, <2>2, PTL DEF Spec, ReviewsSpec
<1>4. Spec => RegistrationSpec
  <2>1. Init => RegistrationInit
    BY DEF Init
  <2>2. [Next]_vars => [RegistrationNext]_registrationVars
    BY DEF Next, Only, vars
  <2> QED
    BY <2>1, <2>2, PTL DEF Spec, RegistrationSpec
<1>5. Spec => SessionsSpec
  <2>1. Init => SessionsInit
    BY DEF Init
  <2>2. [Next]_vars => [SessionsNext]_sessionsVars
    BY DEF Next, Only, vars
  <2> QED
    BY <2>1, <2>2, PTL DEF Spec, SessionsSpec
<1>6. Spec => SecondFactorSpec
  <2>1. Init => SecondFactorInit
    BY DEF Init
  <2>2. [Next]_vars => [SecondFactorNext]_secondFactorVars
    BY DEF Next, Only, vars
  <2> QED
    BY <2>1, <2>2, PTL DEF Spec, SecondFactorSpec
<1>7. Spec => RetentionSpec
  <2>1. Init => RetentionInit
    BY DEF Init
  <2>2. [Next]_vars => [RetentionNext]_retentionVars
    BY DEF Next, Only, vars
  <2> QED
    BY <2>1, <2>2, PTL DEF Spec, RetentionSpec
<1>8. Spec => ListingsSpec
  <2>1. Init => ListingsInit
    BY DEF Init
  <2>2. [Next]_vars => [ListingsNext]_listingsVars
    BY DEF Next, Only, vars
  <2> QED
    BY <2>1, <2>2, PTL DEF Spec, ListingsSpec
<1>9. Spec => VerificationSpec
  <2>1. Init => VerificationInit
    BY DEF Init
  <2>2. [Next]_vars => [VerificationNext]_verificationVars
    BY DEF Next, Only, vars
  <2> QED
    BY <2>1, <2>2, PTL DEF Spec, VerificationSpec
<1>10. Spec => QuotesSpec
  <2>1. Init => QuotesInit
    BY DEF Init
  <2>2. [Next]_vars => [QuotesNext]_quotesVars
    BY DEF Next, Only, vars
  <2> QED
    BY <2>1, <2>2, PTL DEF Spec, QuotesSpec
<1>11. Spec => TicketsSpec
  <2>1. Init => TicketsInit
    BY DEF Init
  <2>2. [Next]_vars => [TicketsNext]_ticketsVars
    BY DEF Next, Only, vars
  <2> QED
    BY <2>1, <2>2, PTL DEF Spec, TicketsSpec
<1>12. Spec => TelegramSpec
  <2>1. Init => TelegramInit
    BY DEF Init
  <2>2. [Next]_vars => [TelegramNext]_telegramVars
    BY DEF Next, Only, vars
  <2> QED
    BY <2>1, <2>2, PTL DEF Spec, TelegramSpec
<1>13. Spec => PhoneSpec
  <2>1. Init => PhoneInit
    BY DEF Init
  <2>2. [Next]_vars => [PhoneNext]_phoneVars
    BY DEF Next, Only, vars
  <2> QED
    BY <2>1, <2>2, PTL DEF Spec, PhoneSpec
<1>14. Spec => WizardSpec
  <2>1. Init => WizardInit
    BY DEF Init
  <2>2. [Next]_vars => [WizardNext]_wizardVars
    BY DEF Next, Only, vars
  <2> QED
    BY <2>1, <2>2, PTL DEF Spec, WizardSpec
<1> QED
  BY <1>1, <1>2, <1>3, <1>4, <1>5, <1>6, <1>7, <1>8, <1>9, <1>10, <1>11, <1>12, <1>13, <1>14
-----------------------------------------------------------------------------
(* Types.                                                                  *)
(* The types of the tables of each service, from the invariant that its    *)
(* promises were proved with.                                              *)

LEMMA IdempotencyTypes == IdempotencySpec => []IdempotencyTypeOK
<1>1. IdempotencyInv => IdempotencyTypeOK
  BY DEF IdempotencyInv
<1> QED
  BY <1>1, IdempotencyInvariant, PTL

LEMMA ReviewsTypes == ReviewsSpec => []ReviewsTypeOK
<1>1. ReviewsInit => ReviewsInv
  BY ReviewsInvInit
<1>2. ReviewsInv /\ [ReviewsNext]_reviewsVars => ReviewsInv'
  BY ReviewsInvNext
<1>3. ReviewsInv => ReviewsTypeOK
  BY DEF ReviewsInv
<1> QED
  BY <1>1, <1>2, <1>3, PTL DEF ReviewsSpec

LEMMA RegistrationTypes == RegistrationSpec => []RegistrationTypeOK
<1>1. RegistrationInit => RegistrationInv
  BY RegistrationInvInit
<1>2. RegistrationInv /\ [RegistrationNext]_registrationVars => RegistrationInv'
  BY RegistrationInvNext
<1>3. RegistrationInv => RegistrationTypeOK
  BY DEF RegistrationInv
<1> QED
  BY <1>1, <1>2, <1>3, PTL DEF RegistrationSpec

LEMMA RetentionTypes == RetentionSpec => []RetentionTypeOK
<1>1. RetentionInv => RetentionTypeOK
  BY DEF RetentionInv
<1> QED
  BY <1>1, RetentionInvariant, PTL

LEMMA ListingsTypes == ListingsSpec => []ListingsTypeOK
<1>1. ListingsInv => ListingsTypeOK
  BY DEF ListingsInv
<1> QED
  BY <1>1, ListingsInvariant, PTL

LEMMA VerificationTypes == VerificationSpec => []VerificationTypeOK
<1>1. VerificationInv => VerificationTypeOK
  BY DEF VerificationInv
<1> QED
  BY <1>1, VerificationInvariant, PTL

LEMMA TicketsTypes == TicketsSpec => []TicketsTypeOK
<1>1. TicketsInit => TicketsInv
  BY TicketsInvInit
<1>2. TicketsInv /\ [TicketsNext]_ticketsVars => TicketsInv'
  BY TicketsInvNext, TicketsAssumption
<1>3. TicketsInv => TicketsTypeOK
  BY DEF TicketsInv
<1> QED
  BY <1>1, <1>2, <1>3, PTL DEF TicketsSpec

LEMMA TelegramTypes == TelegramSpec => []TelegramTypeOK
<1>1. TelegramInit => TelegramInv
  BY TelegramInvInit, TelegramAssumption
<1>2. TelegramInv /\ [TelegramNext]_telegramVars => TelegramInv'
  BY TelegramInvNext, TelegramAssumption
<1>3. TelegramInv => TelegramTypeOK
  BY DEF TelegramInv
<1> QED
  BY <1>1, <1>2, <1>3, PTL DEF TelegramSpec

LEMMA PhoneTypes == PhoneSpec => []PhoneTypeOK
<1>1. PhoneInit => PhoneInv
  BY PhoneInvInit
<1>2. PhoneInv /\ [PhoneNext]_phoneVars => PhoneInv'
  BY PhoneInvNext, PhoneNumbersAssumption
<1>3. PhoneInv => PhoneTypeOK
  BY DEF PhoneInv
<1> QED
  BY <1>1, <1>2, <1>3, PTL DEF PhoneSpec

LEMMA WizardTypes == WizardSpec => []WizardTypeOK
<1>1. WizardInit => WizardTypeOK
  BY WizardInvInit, WizardAssumption DEF WizardInv
<1>2. WizardTypeOK /\ [WizardNext]_wizardVars => WizardTypeOK'
  BY WizardTypeNext, WizardAssumption
<1> QED
  BY <1>1, <1>2, PTL DEF WizardSpec

\* Whatever scene is played, every row of its tables is one that the schema takes.
THEOREM ServicesTypesHold == Spec => []ServicesTypeOK
<1> DEFINE AllTyped ==
      /\ FinanceTypeOK /\ IdempotencyTypeOK /\ ReviewsTypeOK /\ RegistrationTypeOK
      /\ SessionsTypeOK /\ SecondFactorTypeOK /\ RetentionTypeOK /\ ListingsTypeOK
      /\ VerificationTypeOK /\ QuotesTypeOK /\ TicketsTypeOK /\ TelegramTypeOK
      /\ PhoneTypeOK /\ WizardTypeOK
<1>1. AllTyped => ServicesTypeOK
  BY DEF ServicesTypeOK
<1>2. Spec => []AllTyped
  BY ScenesAreServices, FinanceTypesHold, IdempotencyTypes, ReviewsTypes, RegistrationTypes,
     SessionsTypes, SecondFactorTypes, RetentionTypes, ListingsTypes, VerificationTypes,
     QuotesTypes, TicketsTypes, TelegramTypes, PhoneTypes, WizardTypes, PTL
<1> QED
  BY <1>1, <1>2, PTL
-----------------------------------------------------------------------------
\* What the services promise each alone holds of the product: side by side, with the
\* scene that is played taking its steps among the others' rows (the fourteen services
\* of MCServices, one conjunct a promise).
THEOREM ServicesKeepTheirPromises ==
  Spec => /\ []ForgivenOnce /\ OldestFirst
          /\ []OneEffectPerKey /\ []SuccessIsTrue
          /\ []DoubleBlind
          /\ []WrongAnswersCount
          /\ []OneLivePerLogin
          /\ []CodesWorkOnce
          /\ []PurgedIsTrue /\ []ParentHoldsStopPurges
          /\ []OneCover /\ PauseOutranksOwner
          /\ []OneLiveApplication /\ DecisionsAreFinal
          /\ []RentIsExact /\ []FeeIsAShareOfTheTotal
          /\ []WaitsOnAQuestion
          /\ []ClosedHoldsNoChat
          /\ ProvenNumbersStay
          /\ []EditsReachTheListing
BY ScenesAreServices, WaiversAreExclusive, PaymentsSettleTheOldest, KeysActOnce, AnswersAreTrue,
   ReviewsAreBlind, WrongAnswersAreCounted, OneSessionPerLogin, CodesAreSpent, PurgesAreTrue,
   ParentHoldsProtect, ListingsHaveOneCover, ModeratorsHaveTheLastWord, OneLive,
   DecisionsStayFinal, RentsAreExact, FeesAreShares, QuestionsAreAnswered,
   ClosedAccountsAreSilent, ProofsOutlastClaims, NothingTypedIsDropped
===============================================================================
