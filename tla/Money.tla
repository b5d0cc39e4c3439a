--------------------------------- MODULE Money ---------------------------------
(***************************************************************************)
(* Amounts of money in kopecks and the one way they are divided            *)
(* (domain/money.ts).  bigint is unbounded, and so are the integers here.  *)
(***************************************************************************)
EXTENDS Integers

CONSTANT BpsWhole  \* BPS_DENOMINATOR: 10000

ASSUME MoneyAssumption == BpsWhole \in Nat \ {0}

AbsoluteValue(x) == IF x < 0 THEN -x ELSE x

\* divideRoundHalfAwayFromZero() by a positive divisor.
DivideRound(n, d) ==
  LET quotient == (2 * AbsoluteValue(n) + d) \div (2 * d)
  IN IF n < 0 THEN -quotient ELSE quotient

ApplyBps(amount, bps) == DivideRound(amount * bps, BpsWhole)
ServiceFee(feeBase, bps) == ApplyBps(feeBase, bps)
=============================================================================
