----------------------------- MODULE FinanceProofs -----------------------------
(***************************************************************************)
(* Proofs about money.  For every amount and every rate, the division is   *)
(* exact to half a kopeck and the fee that is taken of a payment lies      *)
(* between nothing and the payment.  For every listing, every set of rules *)
(* and every stay, the rent is the sum of the exact prices of the nights,  *)
(* to half a kopeck a night, the total is the base of the fee, the fee its *)
(* share, and a listing without rules records what its panel showed.  For  *)
(* any number of fees, payments and waivers at a time, a fee is forgiven   *)
(* at most once, and payments that meet no other call settle the oldest    *)
(* fees and agree with the ledger.                                         *)
(***************************************************************************)
EXTENDS Finance, Quotes, FiniteSetTheorems, WellFoundedInduction, TLAPS

\* What \div computes, for a positive divisor.
LEMMA DivBounds ==
  ASSUME NEW m \in Int, NEW k \in Int, k > 0
  PROVE  /\ m \div k \in Int
         /\ k * (m \div k) <= m
         /\ m < k * (m \div k) + k
<1>1. m \div k \in Int /\ m % k \in 0..(k - 1)
  OBVIOUS
<1>2. m = k * (m \div k) + (m % k)
  OBVIOUS
<1>3. k * (m \div k) \in Int
  BY <1>1
<1> QED
  BY <1>1, <1>2, <1>3

\* The quotient is a whole number of kopecks within half a kopeck of the exact
\* one, whatever the sign (divideRoundHalfAwayFromZero).
THEOREM RoundsToNearest ==
  ASSUME NEW n \in Int, NEW d \in Nat \ {0}
  PROVE  /\ DivideRound(n, d) \in Int
         /\ 2 * AbsoluteValue(d * DivideRound(n, d) - n) <= d
<1> DEFINE a == AbsoluteValue(n)
           m == 2 * a + d
           k == 2 * d
           q == m \div k
           p == d * q
<1>1. a \in Nat /\ m \in Int /\ k \in Int /\ k > 0
  BY DEF AbsoluteValue
<1>2. q \in Int /\ k * q <= m /\ m < k * q + k
  <2> HIDE DEF m, k
  <2> QED
    BY <1>1, DivBounds
<1>3. p \in Int /\ k * q = 2 * p /\ d * (-q) = -p
  BY <1>2
<1>4. 2 * p <= 2 * a + d /\ 2 * a + d < 2 * p + 2 * d
  BY <1>2, <1>3
<1>5. DivideRound(n, d) = IF n < 0 THEN -q ELSE q
  BY DEF DivideRound
<1>6. CASE n < 0
  <2>1. a = -n /\ d * DivideRound(n, d) = -p
    BY <1>3, <1>5, <1>6 DEF AbsoluteValue
  <2>2. -d <= 2 * (-p - n) /\ 2 * (-p - n) <= d
    <3> HIDE DEF p, a
    <3> QED
      BY <1>1, <1>3, <1>4, <2>1
  <2> QED
    <3> HIDE DEF p, q
    <3> QED
      BY <1>2, <1>3, <1>5, <1>6, <2>1, <2>2 DEF AbsoluteValue
<1>7. CASE ~(n < 0)
  <2>1. a = n /\ d * DivideRound(n, d) = p
    BY <1>3, <1>5, <1>7 DEF AbsoluteValue
  <2>2. -d <= 2 * (p - n) /\ 2 * (p - n) <= d
    <3> HIDE DEF p, a
    <3> QED
      BY <1>1, <1>3, <1>4, <2>1
  <2> QED
    <3> HIDE DEF p, q
    <3> QED
      BY <1>2, <1>3, <1>5, <1>7, <2>1, <2>2 DEF AbsoluteValue
<1> QED
  BY <1>6, <1>7

\* A quotient is never negative for a dividend that is not, and never exceeds a
\* whole number that the exact one does not exceed.
LEMMA RoundStaysBelow ==
  ASSUME NEW n \in Nat, NEW d \in Nat \ {0}, NEW w \in Nat, n <= d * w
  PROVE  DivideRound(n, d) \in 0..w
<1> DEFINE q == DivideRound(n, d)
           p == d * q
           v == d * w
<1>1. q \in Int /\ 2 * AbsoluteValue(p - n) <= d
  BY RoundsToNearest
<1>2. p \in Int /\ v \in Int /\ n <= v
  BY <1>1
<1>3. 2 * p <= 2 * v + d /\ -d <= 2 * p
  <2> HIDE DEF p, v
  <2> QED
    BY <1>1, <1>2 DEF AbsoluteValue
<1>4. ASSUME q > w
      PROVE  FALSE
  <2> HIDE DEF q
  <2>1. q >= w + 1
    BY <1>1, <1>4
  <2>2. d * q >= d * (w + 1)
    BY <1>1, <2>1
  <2>3. d * (w + 1) = v + d
    OBVIOUS
  <2>4. p >= v + d
    BY <2>2, <2>3
  <2> HIDE DEF p, v
  <2> QED
    BY <1>2, <1>3, <2>4
<1>5. ASSUME q < 0
      PROVE  FALSE
  <2> HIDE DEF q
  <2>1. q <= -1
    BY <1>1, <1>5
  <2>2. d * q <= d * (-1)
    BY <1>1, <2>1
  <2>3. p <= -d
    BY <2>2
  <2> HIDE DEF p
  <2> QED
    BY <1>2, <1>3, <2>3
<1> QED
  BY <1>1, <1>4, <1>5

\* The fee of a completed stay is never negative and never more than the amount
\* it is a share of, at any rate up to the whole: no rounding makes the landlord
\* owe more than was paid (accrueServiceFee, serviceFee).
THEOREM FeeWithinBase ==
  ASSUME MoneyAssumption, NEW base \in Nat, NEW bps \in 0..BpsWhole
  PROVE  ServiceFee(base, bps) \in 0..base
<1>1. base * bps \in Nat
  OBVIOUS
<1>2. base * bps <= base * BpsWhole
  BY DEF MoneyAssumption
<1>3. base * BpsWhole = BpsWhole * base
  BY DEF MoneyAssumption
<1>4. base * bps <= BpsWhole * base
  BY <1>2, <1>3
<1> QED
  BY <1>1, <1>4, RoundStaysBelow DEF ServiceFee, ApplyBps, MoneyAssumption

\* A whole number of times what is off by at most half of k is off by at most half
\* of k that many times.
LEMMA ManyHalves ==
  ASSUME NEW r \in Nat, NEW x \in Int, NEW k \in Nat, 2 * x <= k, -k <= 2 * x
  PROVE  2 * (r * x) <= r * k /\ -(r * k) <= 2 * (r * x)
<1>1. 0 <= r * (k - 2 * x) /\ 0 <= r * (k + 2 * x)
  <2> DEFINE y == k - 2 * x
             z == k + 2 * x
  <2>1. y \in Nat /\ z \in Nat
    OBVIOUS
  <2>2. 0 <= r * y /\ 0 <= r * z
    <3> HIDE DEF y, z
    <3> QED
      BY <2>1
  <2> QED
    BY <2>2
<1>2. r * (k - 2 * x) = r * k - 2 * (r * x) /\ r * (k + 2 * x) = r * k + 2 * (r * x)
  OBVIOUS
<1>3. r * k \in Int /\ r * x \in Int
  OBVIOUS
<1> QED
  BY <1>1, <1>2, <1>3

\* A stay that is let by the month outside every season costs the monthly price for
\* each whole billing month exactly, and each night that is left over is off by
\* half a kopeck at most (computeRent).
THEOREM MonthlyRentIsExact ==
  ASSUME NEW from \in Int, NEW to \in Int, from < to, NEW house, NEW book,
         Effective(house, book, to - from).unit = "MONTH",
         Effective(house, book, to - from).price \in Int,
         \A day \in from..(to - 1) : SeasonsOn(book, day) = {}
  PROVE  LET rent  == ComputeRent(from, to, house, book)
             price == Effective(house, book, to - from).price
             left  == (to - from) % BillingMonth
         IN /\ rent \in Int
            /\ 2 * AbsoluteValue(BillingMonth * rent - price * (to - from)) <= BillingMonth * left
            /\ left = 0 => rent = price * ((to - from) \div BillingMonth)
<1> DEFINE nights == to - from
           price == Effective(house, book, nights).price
           rent == ComputeRent(from, to, house, book)
           months == nights \div BillingMonth
           left == nights % BillingMonth
           night == DivideRound(price, BillingMonth)
           off == BillingMonth * night - price
<1>1. rent = price * months + night * left
  BY DEF ComputeRent, ToNightly
<1>2. BillingMonth \in Nat \ {0} /\ nights \in Nat /\ price \in Int
  BY PricingAssumption
<1> HIDE DEF nights, price, rent
<1>3. months \in Int /\ left \in 0..(BillingMonth - 1) /\ nights = BillingMonth * months + left
  BY <1>2
<1> HIDE DEF months, left
<1>4. night \in Int /\ off \in Int /\ 2 * AbsoluteValue(off) <= BillingMonth
  BY <1>2, RoundsToNearest
<1>5. 2 * off <= BillingMonth /\ -BillingMonth <= 2 * off
  BY <1>2, <1>4 DEF AbsoluteValue
<1>6. BillingMonth * rent - price * nights = left * off
  <2>1. BillingMonth * rent = BillingMonth * (price * months) + BillingMonth * (night * left)
    BY <1>1, <1>2, <1>3, <1>4
  <2>2. price * nights = BillingMonth * (price * months) + price * left
    BY <1>2, <1>3
  <2>3. left * off = BillingMonth * (night * left) - price * left
    BY <1>2, <1>3, <1>4
  <2>4. BillingMonth * (price * months) \in Int /\ BillingMonth * (night * left) \in Int
        /\ price * left \in Int
    BY <1>2, <1>3, <1>4
  <2> HIDE DEF off
  <2> QED
    BY <2>1, <2>2, <2>3, <2>4
<1>7. 2 * (left * off) <= left * BillingMonth /\ -(left * BillingMonth) <= 2 * (left * off)
  <2> HIDE DEF off
  <2> QED
    BY <1>2, <1>3, <1>4, <1>5, ManyHalves
<1>8. rent \in Int
  BY <1>1, <1>2, <1>3, <1>4
<1>9. 2 * AbsoluteValue(BillingMonth * rent - price * nights) <= BillingMonth * left
  <2>1. left * BillingMonth = BillingMonth * left /\ left * BillingMonth \in Int /\ left * off \in Int
    BY <1>2, <1>3, <1>4
  <2> HIDE DEF off
  <2> QED
    BY <1>6, <1>7, <2>1 DEF AbsoluteValue
<1>10. left = 0 => rent = price * months
  BY <1>1, <1>2, <1>3, <1>4
<1> QED
  BY <1>8, <1>9, <1>10 DEF rent, price, nights, months, left
-----------------------------------------------------------------------------
(* Sums.                                                                   *)
(*                                                                         *)
(* A fold adds up a finite set in some order.  What holds of every sum is  *)
(* proved by looking at a smallest subset where it fails: proper inclusion *)
(* is well founded among the subsets of a finite set.                      *)

\* Among the subsets of a finite set there is a smallest counterexample.
LEMMA SmallestOf ==
  ASSUME NEW D, IsFiniteSet(D), NEW Bad, Bad \subseteq SUBSET D, Bad # {}
  PROVE  \E T \in Bad : \A U \in Bad : U \subseteq T => U = T
<1>1. IsWellFoundedOn(StrictSubsetOrdering(D), SUBSET D)
  BY FS_StrictSubsetOrderingWellFounded, FS_FiniteSubsetsOfFinite
<1>2. PICK T \in Bad : \A U \in Bad : <<U, T>> \notin StrictSubsetOrdering(D)
  BY <1>1, WFMin
<1> QED
  BY <1>2 DEF StrictSubsetOrdering

\* g adds up v over the subsets of D, taking the element that c picks first.
AddsUp(g, v, c, D) ==
  g = [T \in SUBSET D |-> IF T = {} THEN 0 ELSE g[T \ {c[T]}] + v[c[T]]]

Picks(c, D) == \A T \in SUBSET D : T # {} => c[T] \in T

LEMMA SumsAgree ==
  ASSUME NEW D, IsFiniteSet(D), NEW c, Picks(c, D), NEW v,
         NEW E \in SUBSET D, NEW F \in SUBSET D, NEW g, NEW h,
         AddsUp(g, v, c, E), AddsUp(h, v, c, F)
  PROVE  \A T \in SUBSET D : T \subseteq E /\ T \subseteq F => g[T] = h[T]
<1> DEFINE Bad == {T \in SUBSET D : T \subseteq E /\ T \subseteq F /\ g[T] # h[T]}
<1>1. SUFFICES ASSUME Bad # {} PROVE FALSE
  OBVIOUS
<1>2. PICK T \in Bad : \A U \in Bad : U \subseteq T => U = T
  <2>1. Bad \subseteq SUBSET D
    OBVIOUS
  <2> HIDE DEF Bad
  <2> QED
    BY <1>1, <2>1, SmallestOf
<1>3. T \in SUBSET E /\ T \in SUBSET F /\ g[T] # h[T] /\ T \in SUBSET D
  BY <1>2
<1>4. g[T] = IF T = {} THEN 0 ELSE g[T \ {c[T]}] + v[c[T]]
  BY <1>3 DEF AddsUp
<1>5. h[T] = IF T = {} THEN 0 ELSE h[T \ {c[T]}] + v[c[T]]
  BY <1>3 DEF AddsUp
<1>6. T # {}
  BY <1>3, <1>4, <1>5
<1>7. c[T] \in T
  BY <1>3, <1>6 DEF Picks
<1>8. T \ {c[T]} \notin Bad
  BY <1>2, <1>7
<1>9. g[T \ {c[T]}] = h[T \ {c[T]}]
  BY <1>3, <1>8
<1> QED
  BY <1>3, <1>4, <1>5, <1>6, <1>9

LEMMA SumsExist ==
  ASSUME NEW D, IsFiniteSet(D), NEW c, Picks(c, D), NEW v
  PROVE  \E g : AddsUp(g, v, c, D)
<1> DEFINE Bad == {E \in SUBSET D : ~ \E g : AddsUp(g, v, c, E)}
<1>1. SUFFICES ASSUME Bad # {} PROVE FALSE
  OBVIOUS
<1>2. PICK E \in Bad : \A U \in Bad : U \subseteq E => U = E
  <2>1. Bad \subseteq SUBSET D
    OBVIOUS
  <2> HIDE DEF Bad
  <2> QED
    BY <1>1, <2>1, SmallestOf
<1>3. E \in SUBSET D /\ ~ \E g : AddsUp(g, v, c, E)
  BY <1>2
<1>4. \A x \in E : \E g : AddsUp(g, v, c, E \ {x})
  BY <1>2, <1>3
<1> HIDE DEF Bad
<1> DEFINE part(x) == CHOOSE g : AddsUp(g, v, c, E \ {x})
           sum(T) == IF T = {} THEN 0 ELSE part(c[T])[T \ {c[T]}] + v[c[T]]
           g == [T \in SUBSET E |-> sum(T)]
<1>5. \A x \in E : AddsUp(part(x), v, c, E \ {x})
  BY <1>4
<1> HIDE DEF part
<1>6. ASSUME NEW T \in SUBSET E, T # {}
      PROVE  sum(T \ {c[T]}) = part(c[T])[T \ {c[T]}]
  <2> DEFINE x == c[T]
             U == T \ {x}
  <2>1. x \in T /\ x \in E /\ U \in SUBSET (E \ {x}) /\ U \in SUBSET E
    BY <1>3, <1>6 DEF Picks
  <2>2. part(x)[U] = IF U = {} THEN 0 ELSE part(x)[U \ {c[U]}] + v[c[U]]
    BY <1>5, <2>1 DEF AddsUp
  <2>3. CASE U = {}
    BY <2>2, <2>3
  <2>4. CASE U # {}
    <3> DEFINE y == c[U]
               W == U \ {y}
    <3>1. y \in U /\ y \in E /\ y # x
      BY <1>3, <2>1, <2>4 DEF Picks
    <3>2. W \in SUBSET D /\ W \subseteq E \ {x} /\ W \subseteq E \ {y}
          /\ E \ {x} \in SUBSET D /\ E \ {y} \in SUBSET D
      BY <1>3, <2>1
    <3>3. AddsUp(part(x), v, c, E \ {x}) /\ AddsUp(part(y), v, c, E \ {y})
      BY <1>5, <2>1, <3>1
    <3>4. part(x)[W] = part(y)[W]
      <4> HIDE DEF W, U, x, y
      <4> QED
        BY <3>2, <3>3, SumsAgree
    <3> QED
      BY <2>2, <2>4, <3>4
  <2> QED
    BY <2>3, <2>4
<1>7. ASSUME NEW T \in SUBSET E
      PROVE  sum(T) = IF T = {} THEN 0 ELSE g[T \ {c[T]}] + v[c[T]]
  <2>1. CASE T = {}
    BY <2>1
  <2>2. CASE T # {}
    <3>1. g[T \ {c[T]}] = sum(T \ {c[T]})
      <4>1. T \ {c[T]} \in SUBSET E
        OBVIOUS
      <4> HIDE DEF sum
      <4> QED
        BY <4>1
    <3>2. g[T \ {c[T]}] = part(c[T])[T \ {c[T]}]
      BY <1>6, <2>2, <3>1
    <3> HIDE DEF g
    <3> QED
      BY <2>2, <3>2
  <2> QED
    BY <2>1, <2>2
<1>8. AddsUp(g, v, c, E)
  <2>1. g = [T \in SUBSET E |-> IF T = {} THEN 0 ELSE g[T \ {c[T]}] + v[c[T]]]
    <3> HIDE DEF sum
    <3> QED
     BY <1>7
  <2> HIDE DEF g
  <2> QED
    BY <2>1 DEF AddsUp
<1> QED
  BY <1>3, <1>8

\* Induction over the subsets of a finite set.
LEMMA SubsetInduction ==
  ASSUME NEW D, IsFiniteSet(D), NEW Good,
         \A T \in SUBSET D : (\A x \in T : T \ {x} \in Good) => T \in Good
  PROVE  D \in Good
<1> DEFINE Bad == (SUBSET D) \ Good
<1>1. SUFFICES ASSUME Bad # {} PROVE FALSE
  OBVIOUS
<1>2. PICK T \in Bad : \A U \in Bad : U \subseteq T => U = T
  <2>1. Bad \subseteq SUBSET D
    OBVIOUS
  <2> HIDE DEF Bad
  <2> QED
    BY <1>1, <2>1, SmallestOf
<1>3. T \in SUBSET D /\ T \notin Good
  OBVIOUS
<1>4. \A x \in T : T \ {x} \in Good
  <2>1. ASSUME NEW x \in T, T \ {x} \notin Good PROVE FALSE
    BY <1>2, <1>3, <2>1
  <2> QED
    BY <2>1
<1>5. (\A x \in T : T \ {x} \in Good) => T \in Good
  BY <1>3
<1> QED
  BY <1>3, <1>4, <1>5

Total(R, S) == \A x, y \in S : x # y => <<x, y>> \in R \/ <<y, x>> \in R

\* A finite set that is ordered has a first element.
LEMMA FirstExists ==
  ASSUME NEW S, IsFiniteSet(S), S # {}, NEW R, Total(R, S), IsTransitivelyClosedOn(R, S)
  PROVE  \E x \in S : \A y \in S \ {x} : <<x, y>> \in R
<1> DEFINE First(T, x) == \A y \in T \ {x} : <<x, y>> \in R
           Good == {T \in SUBSET S : T = {} \/ \E x \in T : First(T, x)}
<1>1. ASSUME NEW T \in SUBSET S, \A x \in T : T \ {x} \in Good
      PROVE  T \in Good
  <2>1. SUFFICES ASSUME T # {} PROVE \E x \in T : First(T, x)
    OBVIOUS
  <2>2. PICK x \in T : TRUE
    BY <2>1
  <2>3. CASE T \ {x} = {}
    BY <2>2, <2>3
  <2>4. CASE T \ {x} # {}
    <3>1. PICK m \in T \ {x} : First(T \ {x}, m)
      BY <1>1, <2>2, <2>4
    <3>2. CASE <<x, m>> \in R
      <4>1. \A y \in T \ {x} : <<x, y>> \in R
        BY <2>2, <3>1, <3>2 DEF IsTransitivelyClosedOn
      <4> QED
        BY <4>1
    <3>3. CASE <<m, x>> \in R
      <4>1. \A y \in T \ {m} : <<m, y>> \in R
        BY <2>2, <3>1, <3>3 DEF IsTransitivelyClosedOn
      <4> QED
        BY <3>1, <4>1
    <3> QED
      BY <2>2, <3>1, <3>2, <3>3 DEF Total
  <2> QED
    BY <2>3, <2>4
<1>2. S \in Good
  <2>1. \A T \in SUBSET S : (\A x \in T : T \ {x} \in Good) => T \in Good
    BY <1>1
  <2> HIDE DEF Good
  <2> QED
    BY <2>1, SubsetInduction
<1> QED
  BY <1>2

LEMMA MaxIsIn ==
  ASSUME NEW T, IsFiniteSet(T), T # {}, T \subseteq Int
  PROVE  Max(T) \in T
<1> DEFINE R == {p \in T \X T : p[1] >= p[2]}
<1>1. \A x, y \in T : <<x, y>> \in R <=> x >= y
  OBVIOUS
<1> HIDE DEF R
<1>2. Total(R, T)
  BY <1>1 DEF Total
<1>3. IsTransitivelyClosedOn(R, T)
  BY <1>1 DEF IsTransitivelyClosedOn
<1>4. PICK x \in T : \A y \in T \ {x} : <<x, y>> \in R
  BY <1>2, <1>3, FirstExists
<1>5. ASSUME NEW y \in T PROVE x >= y
  <2>1. CASE x = y
    BY <2>1
  <2>2. CASE x # y
    <3>1. <<x, y>> \in R
      BY <1>4, <2>2
    <3> QED
      BY <1>1, <3>1
  <2> QED
    BY <2>1, <2>2
<1> QED
  BY <1>5 DEF Max

Latest(n) == [T \in SUBSET (1..n) |-> Max(T)]

LEMMA LatestPicks == \A n \in Nat : IsFiniteSet(1..n) /\ Picks(Latest(n), 1..n)
<1>1. SUFFICES ASSUME NEW n \in Nat
               PROVE IsFiniteSet(1..n) /\ \A T \in SUBSET (1..n) : T # {} => Max(T) \in T
  BY DEF Picks, Latest
<1>2. IsFiniteSet(1..n)
  BY FS_Interval
<1>3. ASSUME NEW T \in SUBSET (1..n), T # {}
      PROVE  Max(T) \in T
  <2>1. IsFiniteSet(T)
    BY <1>2, FS_Subset
  <2>2. T \subseteq Int
    OBVIOUS
  <2> QED
    BY <1>3, <2>1, <2>2, MaxIsIn
<1> QED
  BY <1>2, <1>3

\* SumOf as the library computes it.
LEMMA SumIsAFold ==
  ASSUME NEW n \in Nat, NEW v, v = [i \in 1..n |-> v[i]]
  PROVE  \E g : AddsUp(g, v, Latest(n), 1..n) /\ SumOf(v) = g[1..n]
<1> DEFINE Body(h) == [T \in SUBSET (1..n) |-> IF T = {} THEN 0 ELSE h[T \ {Max(T)}] + v[Max(T)]]
           g == CHOOSE h : h = Body(h)
<1>1. DOMAIN v = 1..n
  OBVIOUS
<1>2. SumOf(v) = g[1..n]
  <2>1. SumOf(v) = (CHOOSE h : h = [T \in SUBSET (DOMAIN v) |->
                      IF T = {} THEN 0 ELSE h[T \ {Max(T)}] + v[Max(T)]])[DOMAIN v]
    BY DEF SumOf, FoldLeft, MapThenFoldSet
  <2> QED
    BY <1>1, <2>1
<1>3. \A h : AddsUp(h, v, Latest(n), 1..n) <=> h = Body(h)
  BY DEF AddsUp, Latest
<1>4. \E h : AddsUp(h, v, Latest(n), 1..n)
  BY LatestPicks, SumsExist
<1>5. g = Body(g)
  <2> HIDE DEF Body
  <2> QED
    BY <1>3, <1>4
<1> QED
  <2> HIDE DEF g
  <2> QED
    BY <1>2, <1>3, <1>5

\* A sum of k times numbers that are each off by at most half of k.
LEMMA SumsStayClose ==
  ASSUME NEW n \in Nat, NEW v \in [1..n -> Int], NEW w \in [1..n -> Int], NEW k \in Nat,
         \A i \in 1..n : 2 * (k * v[i] - w[i]) <= k /\ -k <= 2 * (k * v[i] - w[i])
  PROVE  /\ SumOf(v) \in Int /\ SumOf(w) \in Int
         /\ 2 * (k * SumOf(v) - SumOf(w)) <= k * n
         /\ -(k * n) <= 2 * (k * SumOf(v) - SumOf(w))
<1>1. PICK g : AddsUp(g, v, Latest(n), 1..n) /\ SumOf(v) = g[1..n]
  BY SumIsAFold
<1>2. PICK h : AddsUp(h, w, Latest(n), 1..n) /\ SumOf(w) = h[1..n]
  BY SumIsAFold
<1> DEFINE Close(T) == /\ g[T] \in Int /\ h[T] \in Int
                       /\ 2 * (k * g[T] - h[T]) <= k * Cardinality(T)
                       /\ -(k * Cardinality(T)) <= 2 * (k * g[T] - h[T])
           Good == {T \in SUBSET (1..n) : Close(T)}
<1>3. ASSUME NEW T \in SUBSET (1..n), \A x \in T : T \ {x} \in Good
      PROVE  T \in Good
  <2>1. CASE T = {}
    <3>1. g[T] = 0 /\ h[T] = 0
      BY <1>1, <1>2, <2>1 DEF AddsUp
    <3>2. Cardinality(T) = 0
      BY <2>1, FS_EmptySet
    <3> QED
      BY <3>1, <3>2
  <2>2. CASE T # {}
    <3> DEFINE x == Max(T)
               U == T \ {x}
    <3>1. x \in T /\ x \in 1..n
      BY <2>2, LatestPicks DEF Picks, Latest
    <3>2. g[T] = g[U] + v[x] /\ h[T] = h[U] + w[x]
      BY <1>1, <1>2, <2>2 DEF AddsUp, Latest
    <3>3. Close(U)
      BY <1>3, <3>1
    <3>4. /\ Cardinality(T) = Cardinality(U) + 1 /\ Cardinality(U) \in Nat
      <4>1. IsFiniteSet(T)
        BY LatestPicks, FS_Subset
      <4>2. IsFiniteSet(U) /\ Cardinality(U) = Cardinality(T) - 1
        <5> HIDE DEF x
        <5> QED
        BY <3>1, <4>1, FS_RemoveElement
      <4> QED
        BY <4>1, <4>2, FS_CardinalityType
    <3>5. v[x] \in Int /\ w[x] \in Int /\ 2 * (k * v[x] - w[x]) <= k /\ -k <= 2 * (k * v[x] - w[x])
      BY <3>1
    <3> DEFINE gu == g[U]
               hu == h[U]
               vx == v[x]
               wx == w[x]
               m == Cardinality(U)
    <3>6. gu \in Int /\ hu \in Int /\ vx \in Int /\ wx \in Int /\ m \in Nat
      BY <3>3, <3>4, <3>5
    <3>7. k * (gu + vx) = k * gu + k * vx /\ k * (m + 1) = k * m + k
          /\ k * gu \in Int /\ k * vx \in Int /\ k * m \in Int
      <4> HIDE DEF gu, hu, vx, wx, m
      <4> QED
        BY <3>6
    <3>8. /\ 2 * (k * gu - hu) <= k * m /\ -(k * m) <= 2 * (k * gu - hu)
          /\ 2 * (k * vx - wx) <= k /\ -k <= 2 * (k * vx - wx)
      BY <3>3, <3>5
    <3>9. /\ 2 * (k * (gu + vx) - (hu + wx)) <= k * (m + 1)
          /\ -(k * (m + 1)) <= 2 * (k * (gu + vx) - (hu + wx))
      <4> HIDE DEF gu, hu, vx, wx, m
      <4> QED
        BY <3>6, <3>7, <3>8
    <3>10. g[T] = gu + vx /\ h[T] = hu + wx /\ Cardinality(T) = m + 1
      BY <3>2, <3>4
    <3>11. g[T] \in Int /\ h[T] \in Int
      <4> HIDE DEF gu, hu, vx, wx
      <4> QED
        BY <3>6, <3>10
    <3>12. Close(T)
      <4> HIDE DEF gu, hu, vx, wx, m
      <4> QED
      BY <3>9, <3>10, <3>11
    <3> QED
      BY <3>12
  <2> QED
    BY <2>1, <2>2
<1>4. 1..n \in Good
  <2>1. \A T \in SUBSET (1..n) : (\A x \in T : T \ {x} \in Good) => T \in Good
    BY <1>3
  <2> HIDE DEF Good
  <2> QED
    BY <2>1, LatestPicks, SubsetInduction
<1>5. Cardinality(1..n) = n
  BY FS_Interval
<1> QED
  BY <1>1, <1>2, <1>4, <1>5

\* The sum of a constant is a product.
LEMMA SumOfConstant ==
  ASSUME NEW n \in Nat, NEW p \in Int, NEW v, v = [i \in 1..n |-> p]
  PROVE  SumOf(v) = p * n
<1>1. PICK g : AddsUp(g, v, Latest(n), 1..n) /\ SumOf(v) = g[1..n]
  BY SumIsAFold
<1> DEFINE Good == {T \in SUBSET (1..n) : g[T] = p * Cardinality(T)}
<1>2. ASSUME NEW T \in SUBSET (1..n), \A x \in T : T \ {x} \in Good
      PROVE  T \in Good
  <2>1. CASE T = {}
    <3>1. g[T] = 0
      BY <1>1, <2>1 DEF AddsUp
    <3>2. Cardinality(T) = 0
      BY <2>1, FS_EmptySet
    <3> QED
      BY <3>1, <3>2
  <2>2. CASE T # {}
    <3> DEFINE x == Max(T)
               U == T \ {x}
    <3>1. x \in T /\ x \in 1..n
      BY <2>2, LatestPicks DEF Picks, Latest
    <3>2. g[T] = g[U] + p
      BY <1>1, <2>2, <3>1 DEF AddsUp, Latest
    <3>3. g[U] = p * Cardinality(U)
      BY <1>2, <3>1
    <3>4. Cardinality(T) = Cardinality(U) + 1 /\ Cardinality(U) \in Nat
      <4>1. IsFiniteSet(T)
        BY LatestPicks, FS_Subset
      <4>2. IsFiniteSet(U) /\ Cardinality(U) = Cardinality(T) - 1
        <5> HIDE DEF x
        <5> QED
        BY <3>1, <4>1, FS_RemoveElement
      <4> QED
        BY <4>1, <4>2, FS_CardinalityType
    <3>5. \A m \in Nat : p * (m + 1) = p * m + p
      OBVIOUS
    <3>6. g[T] = p * Cardinality(T)
      <4> HIDE DEF U
      <4> QED
      BY <3>2, <3>3, <3>4, <3>5
    <3> QED
      BY <3>6
  <2> QED
    BY <2>1, <2>2
<1>3. 1..n \in Good
  <2>1. \A T \in SUBSET (1..n) : (\A x \in T : T \ {x} \in Good) => T \in Good
    BY <1>2
  <2> HIDE DEF Good
  <2> QED
    BY <2>1, LatestPicks, SubsetInduction
<1>4. Cardinality(1..n) = n
  BY FS_Interval
<1> QED
  BY <1>1, <1>3, <1>4
-----------------------------------------------------------------------------
(* The rent.                                                               *)
(*                                                                         *)
(* Both sums of RentIsExact run over the nights of the stay: the rent adds *)
(* rounded prices of a night, the exact price adds 1/BillingMonth of       *)
(* kopecks.  A night is off by half a kopeck at most, and so the nights    *)
(* together by half a kopeck each.                                         *)

\* The rule that prices a night, or the listing, and its price in
\* 1/BillingMonth of a kopeck.
NightTerms(day, nights, l, book) ==
  IF SeasonsOn(book, day) = {} THEN Effective(l, book, nights)
  ELSE book[FirstSeason(book, SeasonsOn(book, day))]
MonthPrice(p) == IF p.unit = "MONTH" THEN p.price ELSE p.price * BillingMonth

LEMMA RulesAreTyped ==
  ASSUME NEW book \in Seq(Rule)
  PROVE  /\ IsFiniteSet(DOMAIN book) /\ DOMAIN book \subseteq Int
         /\ \A i \in DOMAIN book : book[i] \in Rule
<1>1. DOMAIN book = 1..Len(book) /\ Len(book) \in Nat
  OBVIOUS
<1>2. IsFiniteSet(1..Len(book))
  BY <1>1, FS_Interval
<1> QED
  BY <1>1, <1>2

\* The season that prices a night is one of those with the highest priority.
LEMMA FirstSeasonIsBest ==
  ASSUME NEW book \in Seq(Rule), NEW S \in SUBSET DOMAIN book, S # {}
  PROVE  /\ FirstSeason(book, S) \in S
         /\ \A j \in S : book[FirstSeason(book, S)].priority >= book[j].priority
<1> DEFINE Before(i, j) == \/ book[i].priority > book[j].priority
                           \/ book[i].priority = book[j].priority /\ i < j
           R == {p \in S \X S : Before(p[1], p[2])}
<1>1. \A i, j \in S : <<i, j>> \in R <=> Before(i, j)
  OBVIOUS
<1>2. \A i \in S : i \in Int /\ book[i].priority \in Int
  BY RulesAreTyped DEF Rule
<1> HIDE DEF R
<1>3. Total(R, S)
  BY <1>1, <1>2 DEF Total
<1>4. IsTransitivelyClosedOn(R, S)
  BY <1>1, <1>2 DEF IsTransitivelyClosedOn
<1>5. IsFiniteSet(S)
  BY RulesAreTyped, FS_Subset
<1>6. \E i \in S : \A j \in S \ {i} : <<i, j>> \in R
  BY <1>3, <1>4, <1>5, FirstExists
<1>7. \E i \in S : \A j \in S \ {i} : Before(i, j)
  BY <1>1, <1>6
<1>8. FirstSeason(book, S) \in S /\ \A j \in S \ {FirstSeason(book, S)} : Before(FirstSeason(book, S), j)
  BY <1>7 DEF FirstSeason
<1> QED
  BY <1>2, <1>8

\* And so is the tier that prices a stay.
LEMMA FirstTierIsBest ==
  ASSUME NEW book \in Seq(Rule), NEW S \in SUBSET DOMAIN book, S # {}
  PROVE  /\ FirstTier(book, S) \in S
         /\ \A j \in S : book[FirstTier(book, S)].priority >= book[j].priority
<1> DEFINE Before(i, j) ==
             \/ book[i].priority > book[j].priority
             \/ book[i].priority = book[j].priority /\ book[i].from > book[j].from
             \/ book[i].priority = book[j].priority /\ book[i].from = book[j].from /\ i < j
           R == {p \in S \X S : Before(p[1], p[2])}
<1>1. \A i, j \in S : <<i, j>> \in R <=> Before(i, j)
  OBVIOUS
<1>2. \A i \in S : i \in Int /\ book[i].priority \in Int /\ book[i].from \in Int
  BY RulesAreTyped DEF Rule
<1> HIDE DEF R
<1>3. Total(R, S)
  BY <1>1, <1>2 DEF Total
<1>4. IsTransitivelyClosedOn(R, S)
  <2>1. ASSUME NEW i \in S, NEW j \in S, NEW k \in S, Before(i, j), Before(j, k)
        PROVE  Before(i, k)
    <3>1. \A a \in {i, j, k} : a \in Int /\ book[a].priority \in Int /\ book[a].from \in Int
      BY <1>2
    <3>2. CASE book[i].priority > book[j].priority
      BY <2>1, <3>1, <3>2
    <3>3. CASE book[j].priority > book[k].priority
      BY <2>1, <3>1, <3>3
    <3>4. CASE book[i].priority = book[j].priority /\ book[j].priority = book[k].priority
      BY <2>1, <3>1, <3>4
    <3> QED
      BY <2>1, <3>2, <3>3, <3>4
  <2> HIDE DEF Before
  <2> QED
    BY <1>1, <2>1 DEF IsTransitivelyClosedOn
<1>5. IsFiniteSet(S)
  BY RulesAreTyped, FS_Subset
<1>6. \E i \in S : \A j \in S \ {i} : <<i, j>> \in R
  BY <1>3, <1>4, <1>5, FirstExists
<1>7. \E i \in S : \A j \in S \ {i} : Before(i, j)
  BY <1>1, <1>6
<1>8. FirstTier(book, S) \in S /\ \A j \in S \ {FirstTier(book, S)} : Before(FirstTier(book, S), j)
  BY <1>7 DEF FirstTier
<1> QED
  BY <1>2, <1>8

LEMMA EffectiveIsTyped ==
  ASSUME NEW book \in Seq(Rule), NEW l, l.price \in Nat, l.unit \in PriceUnit, NEW nights \in Int
  PROVE  Effective(l, book, nights).price \in Nat /\ Effective(l, book, nights).unit \in PriceUnit
<1>1. CASE TiersFor(book, nights) = {}
  BY <1>1 DEF Effective
<1>2. CASE TiersFor(book, nights) # {}
  <2>1. FirstTier(book, TiersFor(book, nights)) \in DOMAIN book
    BY <1>2, FirstTierIsBest DEF TiersFor
  <2> QED
    BY <1>2, <2>1, RulesAreTyped DEF Effective, Rule
<1> QED
  BY <1>1, <1>2

LEMMA TermsAreTyped ==
  ASSUME NEW book \in Seq(Rule), NEW l, l.price \in Nat, l.unit \in PriceUnit,
         NEW day \in Int, NEW nights \in Int
  PROVE  /\ NightTerms(day, nights, l, book).price \in Nat
         /\ NightTerms(day, nights, l, book).unit \in PriceUnit
<1>1. Effective(l, book, nights).price \in Nat /\ Effective(l, book, nights).unit \in PriceUnit
  BY EffectiveIsTyped
<1>2. CASE SeasonsOn(book, day) = {}
  BY <1>1, <1>2 DEF NightTerms
<1>3. CASE SeasonsOn(book, day) # {}
  <2>1. FirstSeason(book, SeasonsOn(book, day)) \in DOMAIN book
    BY <1>3, FirstSeasonIsBest DEF SeasonsOn
  <2> QED
    BY <1>1, <1>3, <2>1, RulesAreTyped DEF NightTerms, Rule
<1> QED
  BY <1>2, <1>3

\* The price of a night as the service picks it is one of its exact prices.
LEMMA TermsAreExact ==
  ASSUME NEW book \in Seq(Rule), NEW l, NEW day \in Int, NEW stay,
         stay.from \in Int, stay.to \in Int
  PROVE  /\ IsFiniteSet(ExactNight(day, stay, l, book))
         /\ MonthPrice(NightTerms(day, stay.to - stay.from, l, book)) \in ExactNight(day, stay, l, book)
<1> DEFINE nights == stay.to - stay.from
           E == ExactNight(day, stay, l, book)
           Best(S) == {i \in S : \A j \in S : book[i].priority >= book[j].priority}
           seasons == SeasonsOn(book, day)
           tiers == TiersFor(book, nights)
           Of(S) == {MonthPrice(book[i]) : i \in S}
<1>1. \A i \in DOMAIN book : book[i].from \in Int /\ book[i].to \in Int
  BY RulesAreTyped DEF Rule
<1>2. seasons = {i \in DOMAIN book : book[i].kind = "SEASONAL" /\ day \in book[i].from..(book[i].to - 1)}
  BY <1>1 DEF SeasonsOn, InSeason
<1>3. tiers = {i \in DOMAIN book : book[i].kind = "LENGTH_OF_STAY"
                                     /\ stay.to - stay.from \in book[i].from..book[i].to}
  BY <1>1 DEF TiersFor, InTier
<1>4. E = {MonthPrice(p) : p \in IF Best(seasons) # {} THEN {book[i] : i \in Best(seasons)}
                                 ELSE IF Best(tiers) # {} THEN {book[i] : i \in Best(tiers)} ELSE {l}}
  BY <1>2, <1>3 DEF ExactNight, MonthPrice
<1>5. E = IF Best(seasons) # {} THEN Of(Best(seasons))
          ELSE IF Best(tiers) # {} THEN Of(Best(tiers)) ELSE {MonthPrice(l)}
  <2> HIDE DEF E, Best, seasons, tiers
  <2> QED
    BY <1>4
<1>6. ASSUME NEW S \in SUBSET DOMAIN book
      PROVE  IsFiniteSet(Of(S))
  <2> DEFINE f == [i \in S |-> MonthPrice(book[i])]
  <2>1. f \in Surjection(S, Of(S))
    BY DEF Surjection
  <2>2. IsFiniteSet(S)
    BY RulesAreTyped, FS_Subset
  <2> QED
    <3> HIDE DEF f
    <3> QED
      BY <2>1, <2>2, FS_Surjection
<1>7. seasons \in SUBSET DOMAIN book /\ tiers \in SUBSET DOMAIN book
  BY DEF SeasonsOn, TiersFor
<1>8. IsFiniteSet({MonthPrice(l)})
  BY FS_Singleton
<1> HIDE DEF E, seasons, tiers
<1>9. IsFiniteSet(E)
  BY <1>5, <1>6, <1>7, <1>8
<1>10. CASE seasons # {}
  <2>1. FirstSeason(book, seasons) \in Best(seasons)
    BY <1>7, <1>10, FirstSeasonIsBest
  <2>2. NightTerms(day, nights, l, book) = book[FirstSeason(book, seasons)]
    BY <1>10 DEF NightTerms, seasons
  <2> QED
    BY <1>5, <1>9, <2>1, <2>2 DEF E
<1>11. CASE seasons = {} /\ tiers # {}
  <2>1. FirstTier(book, tiers) \in Best(tiers) /\ Best(seasons) = {}
    BY <1>7, <1>11, FirstTierIsBest
  <2>2. NightTerms(day, nights, l, book) = book[FirstTier(book, tiers)]
    BY <1>11 DEF NightTerms, Effective, seasons, tiers
  <2> QED
    BY <1>5, <1>9, <2>1, <2>2 DEF E
<1>12. CASE seasons = {} /\ tiers = {}
  <2>1. Best(tiers) = {} /\ Best(seasons) = {}
    BY <1>12
  <2>2. MonthPrice(NightTerms(day, nights, l, book)) = MonthPrice(l)
    BY <1>12 DEF NightTerms, Effective, seasons, tiers, MonthPrice
  <2> QED
    BY <1>5, <1>9, <2>1, <2>2 DEF E
<1> QED
  BY <1>10, <1>11, <1>12

\* A price by the night that is taken from it is off by half a kopeck at most.
LEMMA NightIsClose ==
  ASSUME NEW p, p.price \in Nat, p.unit \in PriceUnit
  PROVE  /\ ToNightly(p.price, p.unit) \in Int /\ MonthPrice(p) \in Int
         /\ 2 * (BillingMonth * ToNightly(p.price, p.unit) - MonthPrice(p)) <= BillingMonth
         /\ -BillingMonth <= 2 * (BillingMonth * ToNightly(p.price, p.unit) - MonthPrice(p))
<1>1. BillingMonth \in Nat \ {0}
  BY PricingAssumption
<1>2. CASE p.unit = "NIGHT"
  BY <1>1, <1>2 DEF ToNightly, MonthPrice
<1>3. CASE p.unit = "MONTH"
  <2> DEFINE d == DivideRound(p.price, BillingMonth)
             off == BillingMonth * d - p.price
  <2>1. d \in Int /\ 2 * AbsoluteValue(off) <= BillingMonth
    BY <1>1, RoundsToNearest
  <2>2. off \in Int /\ ToNightly(p.price, p.unit) = d /\ MonthPrice(p) = p.price
    BY <1>1, <1>3, <2>1 DEF ToNightly, MonthPrice
  <2>3. 2 * off <= BillingMonth /\ -BillingMonth <= 2 * off
    <3> HIDE DEF off
    <3> QED
      BY <1>1, <2>1, <2>2 DEF AbsoluteValue
  <2> QED
    <3> HIDE DEF d
    <3> QED
      BY <2>1, <2>2, <2>3
<1> QED
  BY <1>2, <1>3 DEF PriceUnit

\* Whatever the rules, the rent is the sum of the exact prices of the nights but for
\* half a kopeck a night, and exactly that sum when whole billing months meet no season.
LEMMA RentStaysClose ==
  ASSUME NEW book \in RuleBook, NEW l \in Listing, NEW stay \in Stay,
         \A d \in stay.from..(stay.to - 1) : Cardinality(ExactNight(d, stay, l, book)) = 1
  PROVE  LET days == stay.from..(stay.to - 1)
             nights == stay.to - stay.from
             rent == ComputeRent(stay.from, stay.to, l, book)
             exact == SumOf([k \in 1..nights |->
                        CHOOSE x \in ExactNight(stay.from + k - 1, stay, l, book) : TRUE])
         IN /\ 2 * AbsoluteValue(BillingMonth * rent - exact) <= BillingMonth * nights
            /\ nights % BillingMonth = 0
                 /\ (\A i \in DOMAIN book :
                       book[i].kind = "SEASONAL" => days \cap book[i].from..(book[i].to - 1) = {})
                 => BillingMonth * rent = exact
<1> DEFINE days == stay.from..(stay.to - 1)
           nights == stay.to - stay.from
           rent == ComputeRent(stay.from, stay.to, l, book)
           terms(k) == NightTerms(stay.from + k - 1, nights, l, book)
           w == [k \in 1..nights |-> CHOOSE x \in ExactNight(stay.from + k - 1, stay, l, book) : TRUE]
           wx == [k \in 1..nights |-> MonthPrice(terms(k))]
           v == [k \in 1..nights |-> ToNightly(terms(k).price, terms(k).unit)]
           flat == Effective(l, book, nights)
           calm == \A day \in days : SeasonsOn(book, day) = {}
           outside == \A i \in DOMAIN book :
                        book[i].kind = "SEASONAL" => days \cap book[i].from..(book[i].to - 1) = {}
           Claim == /\ 2 * AbsoluteValue(BillingMonth * rent - SumOf(w)) <= BillingMonth * nights
                    /\ nights % BillingMonth = 0 /\ outside => BillingMonth * rent = SumOf(w)
<1>1. /\ stay.from \in Int /\ stay.to \in Int /\ stay.from < stay.to
      /\ l.price \in Nat /\ l.unit \in PriceUnit /\ book \in Seq(Rule)
  BY QuotesAssumption
<1>2. nights \in Nat /\ nights > 0 /\ BillingMonth \in Nat \ {0}
  BY <1>1, PricingAssumption
<1>3. \A k \in 1..nights : stay.from + k - 1 \in days /\ stay.from + k - 1 \in Int
  BY <1>1
<1>4. \A k \in 1..nights : terms(k).price \in Nat /\ terms(k).unit \in PriceUnit
  BY <1>1, <1>2, <1>3, TermsAreTyped
<1>5. w = wx
  <2>1. ASSUME NEW k \in 1..nights
        PROVE  (CHOOSE x \in ExactNight(stay.from + k - 1, stay, l, book) : TRUE) = MonthPrice(terms(k))
    <3> DEFINE E == ExactNight(stay.from + k - 1, stay, l, book)
    <3>1. IsFiniteSet(E) /\ MonthPrice(terms(k)) \in E
      BY <1>1, <1>3, TermsAreExact
    <3>2. Cardinality(E) = 1
      BY <1>3
    <3>3. \E x : E = {x}
      <4> HIDE DEF E
      <4> QED
        BY <3>1, <3>2, FS_Singleton
    <3> QED
      <4> HIDE DEF E, terms
      <4> QED
        BY <3>1, <3>3 DEF E
  <2> HIDE DEF terms
  <2> QED
    BY <2>1
<1>6. flat.price \in Nat /\ flat.unit \in PriceUnit
  <2>1. nights \in Int
    BY <1>2
  <2> HIDE DEF nights
  <2> QED
    BY <1>1, <2>1, EffectiveIsTyped
<1>7. rent = IF flat.unit = "MONTH" /\ calm
             THEN flat.price * (nights \div BillingMonth)
                    + ToNightly(flat.price, "MONTH") * (nights % BillingMonth)
             ELSE SumOf(v)
  BY DEF ComputeRent, NightTerms
<1>8. /\ SumOf(v) \in Int /\ SumOf(wx) \in Int
      /\ 2 * (BillingMonth * SumOf(v) - SumOf(wx)) <= BillingMonth * nights
      /\ -(BillingMonth * nights) <= 2 * (BillingMonth * SumOf(v) - SumOf(wx))
  <2>1. \A k \in 1..nights : 
          /\ ToNightly(terms(k).price, terms(k).unit) \in Int /\ MonthPrice(terms(k)) \in Int
          /\ 2 * (BillingMonth * ToNightly(terms(k).price, terms(k).unit) - MonthPrice(terms(k))) <= BillingMonth
          /\ -BillingMonth <= 2 * (BillingMonth * ToNightly(terms(k).price, terms(k).unit) - MonthPrice(terms(k)))
    <3> HIDE DEF terms
    <3> QED
      BY <1>4, NightIsClose
  <2>2. v \in [1..nights -> Int] /\ wx \in [1..nights -> Int]
    <3> HIDE DEF terms
    <3> QED
      BY <2>1
  <2>3. \A k \in 1..nights : 2 * (BillingMonth * v[k] - wx[k]) <= BillingMonth
                              /\ -BillingMonth <= 2 * (BillingMonth * v[k] - wx[k])
    <3> HIDE DEF terms
    <3> QED
      BY <2>1
  <2> HIDE DEF v, wx, nights
  <2> QED
    BY <1>2, <2>2, <2>3, SumsStayClose
\* Without a season every night has the same price.
<1>9. ASSUME calm PROVE SumOf(wx) = MonthPrice(flat) * nights
                        /\ SumOf(v) = ToNightly(flat.price, flat.unit) * nights
  <2>1. \A k \in 1..nights : terms(k) = flat
    BY <1>3, <1>9 DEF NightTerms
  <2>2. wx = [k \in 1..nights |-> MonthPrice(flat)]
    <3> HIDE DEF terms, flat
    <3> QED
      BY <2>1
  <2>3. v = [k \in 1..nights |-> ToNightly(flat.price, flat.unit)]
    <3> HIDE DEF terms, flat
    <3> QED
      BY <2>1
  <2>4. MonthPrice(flat) \in Int /\ ToNightly(flat.price, flat.unit) \in Int
    BY <1>6, NightIsClose
  <2> HIDE DEF v, wx, nights, flat
  <2> QED
    BY <1>2, <2>2, <2>3, <2>4, SumOfConstant
<1>10. ASSUME outside PROVE calm
  <2>1. \A i \in DOMAIN book : book[i].from \in Int /\ book[i].to \in Int
    BY <1>1, RulesAreTyped DEF Rule
  <2>2. ASSUME NEW day \in days, NEW i \in DOMAIN book, InSeason(book[i], day) PROVE FALSE
    <3>1. day \in book[i].from..(book[i].to - 1) /\ book[i].kind = "SEASONAL"
      BY <1>1, <2>1, <2>2 DEF InSeason
    <3> QED
      BY <1>10, <3>1
  <2> QED
    BY <2>2 DEF SeasonsOn
<1> HIDE DEF rent, v, wx, w
<1>11. ASSUME flat.unit = "MONTH" /\ calm PROVE Claim
  <2>1. /\ rent \in Int
        /\ 2 * AbsoluteValue(BillingMonth * rent - flat.price * nights)
             <= BillingMonth * (nights % BillingMonth)
        /\ nights % BillingMonth = 0 => rent = flat.price * (nights \div BillingMonth)
    <3>1. /\ Effective(l, book, stay.to - stay.from).unit = "MONTH"
          /\ Effective(l, book, stay.to - stay.from).price \in Int
      BY <1>6, <1>11
    <3>2. \A day \in stay.from..(stay.to - 1) : SeasonsOn(book, day) = {}
      BY <1>11
    <3> QED
      BY <1>1, <3>1, <3>2, MonthlyRentIsExact DEF rent
  <2>2. SumOf(w) = flat.price * nights
    BY <1>5, <1>9, <1>11 DEF MonthPrice
  <2> DEFINE left == nights % BillingMonth
             months == nights \div BillingMonth
  <2>3. left \in 0..(BillingMonth - 1) /\ months \in Int /\ nights = BillingMonth * months + left
        /\ left <= nights
    <3> HIDE DEF nights
    <3>1. left \in 0..(BillingMonth - 1) /\ months \in Int /\ nights = BillingMonth * months + left
      BY <1>2
    <3>2. months >= 0
      BY <1>2
    <3>3. \A k, j \in Nat : k * j \in Nat
      OBVIOUS
    <3>4. BillingMonth * months \in Nat
      BY <1>2, <3>1, <3>2, <3>3
    <3> QED
      BY <1>2, <3>1, <3>4
  <2>4. BillingMonth * left <= BillingMonth * nights
    <3>1. \A j, k, m \in Nat : j <= k => m * j <= m * k
      <4>1. ASSUME NEW j \in Nat, NEW k \in Nat, NEW m \in Nat, j <= k PROVE m * j <= m * k
        <5>1. m * (k - j) \in Nat /\ m * (k - j) = m * k - m * j /\ m * k \in Int /\ m * j \in Int
          BY <4>1
        <5> QED
          BY <5>1
      <4> QED
        BY <4>1
    <3> HIDE DEF nights, left
    <3> QED
      BY <1>2, <2>3, <3>1
  <2>5. 2 * AbsoluteValue(BillingMonth * rent - SumOf(w)) <= BillingMonth * nights
    <3> DEFINE a == 2 * AbsoluteValue(BillingMonth * rent - SumOf(w))
    <3>1. a <= BillingMonth * left
      BY <2>1, <2>2
    <3>2. a \in Int /\ BillingMonth * left \in Int /\ BillingMonth * nights \in Int
      <4>1. SumOf(w) \in Int
        BY <1>5, <1>8
      <4>2. BillingMonth * rent - SumOf(w) \in Int
        BY <1>2, <2>1, <4>1
      <4>3. a \in Int
        BY <4>2 DEF AbsoluteValue
      <4> HIDE DEF nights, left, a
      <4> QED
        BY <1>2, <2>3, <4>3
    <3> HIDE DEF a, left, nights
    <3> QED
      BY <2>4, <3>1, <3>2 DEF a
  <2>6. left = 0 => BillingMonth * rent = SumOf(w)
    <3> HIDE DEF nights, left, months, flat
    <3>1. ASSUME left = 0 PROVE BillingMonth * rent = SumOf(w)
      <4>1. rent = flat.price * months /\ nights = BillingMonth * months
        BY <1>2, <2>1, <2>3, <3>1 DEF left, months
      <4>2. BillingMonth * (flat.price * months) = flat.price * (BillingMonth * months)
        BY <1>2, <1>6, <2>3
      <4> QED
        BY <2>2, <4>1, <4>2
    <3> QED
      BY <3>1
  <2> QED
    BY <2>5, <2>6
<1>12. ASSUME ~(flat.unit = "MONTH" /\ calm) PROVE Claim
  <2>1. rent = SumOf(v)
    BY <1>7, <1>12
  <2>2. 2 * AbsoluteValue(BillingMonth * rent - SumOf(w)) <= BillingMonth * nights
    <3> DEFINE off == BillingMonth * SumOf(v) - SumOf(wx)
    <3>1. off \in Int
      BY <1>2, <1>8
    <3>2. 2 * off <= BillingMonth * nights /\ -(BillingMonth * nights) <= 2 * off
      BY <1>8
    <3>3. BillingMonth * nights \in Int
      BY <1>2
    <3> HIDE DEF nights, off
    <3> QED
      BY <1>5, <2>1, <3>1, <3>2, <3>3 DEF off, AbsoluteValue
  <2>3. calm => BillingMonth * rent = SumOf(w)
    <3>1. ASSUME calm PROVE BillingMonth * rent = SumOf(w)
      <4>1. flat.unit = "NIGHT"
        BY <1>6, <1>12, <3>1 DEF PriceUnit
      <4>2. MonthPrice(flat) = flat.price * BillingMonth /\ ToNightly(flat.price, flat.unit) = flat.price
        BY <4>1 DEF MonthPrice, ToNightly
      <4>3. SumOf(w) = (flat.price * BillingMonth) * nights /\ rent = flat.price * nights
        BY <1>5, <1>9, <2>1, <3>1, <4>2
      <4> HIDE DEF nights, flat
      <4> QED
        BY <1>2, <1>6, <4>3
    <3> QED
      BY <3>1
  <2> HIDE DEF calm, outside, nights
  <2> QED
    BY <1>10, <2>2, <2>3
<1>13. Claim
  <2> HIDE DEF Claim, calm
  <2> QED
    BY <1>11, <1>12
<1> QED
  BY <1>13 DEF rent, w
-----------------------------------------------------------------------------
\* What is written into a booking is the quote of its stay on the offer it was made on.
BookedInv ==
  /\ listing \in Listing /\ rules \in RuleBook /\ edits \in Nat
  /\ dates # <<>> => dates[1] \in Stay
  /\ booking # <<>> =>
       /\ booking[1].stay \in Stay /\ booking[1].edit \in Nat /\ booking[1].edit <= edits
       /\ booking[1].edit = edits =>
            booking[1].quote =
              Quote(booking[1].stay.from, booking[1].stay.to, listing, rules)

LEMMA QuotedRent ==
  ASSUME NEW from, NEW to, NEW l, NEW book
  PROVE  Quote(from, to, l, book).rent = ComputeRent(from, to, l, book)
BY DEF Quote

LEMMA BookedInit == QuotesInit => BookedInv
BY DEF QuotesInit, BookedInv

LEMMA BookedNext == BookedInv /\ [QuotesNext]_quotesVars => BookedInv'
<1> SUFFICES ASSUME BookedInv, [QuotesNext]_quotesVars PROVE BookedInv'
  OBVIOUS
<1> USE DEF BookedInv
<1>1. ASSUME NEW s \in Stay, PickDates(s) PROVE BookedInv'
  BY <1>1 DEF PickDates, offerVars
<1>2. CASE PickNothing
  BY <1>2 DEF PickNothing, offerVars
<1>3. ASSUME NEW k, AnswerQuote(k) \/ LoseQuote(k) PROVE BookedInv'
  BY <1>3 DEF AnswerQuote, LoseQuote, offerVars
<1>4. ASSUME NEW a, ShowQuote(a) PROVE BookedInv'
  BY <1>4 DEF ShowQuote, offerVars
<1>5. ASSUME NEW l \in Listing, NEW r \in RuleBook, EditPrices(l, r) PROVE BookedInv'
  <2>1. edits' = edits + 1 /\ booking' = booking /\ listing' \in Listing /\ rules' \in RuleBook
        /\ dates' = dates
    BY <1>5 DEF EditPrices, panelVars
  <2> QED
    BY <2>1
<1>6. CASE BookStay
  <2>1. /\ UNCHANGED <<listing, rules, edits, dates>> /\ dates # <<>>
        /\ booking' = <<[stay |-> dates[1], edit |-> edits, bps |-> FeeBps,
                         quote |-> Quote(dates[1].from, dates[1].to, listing, rules)]>>
    BY <1>6 DEF BookStay, offerVars, panelVars
  <2>2. /\ booking'[1].stay = dates[1] /\ booking'[1].edit = edits
        /\ booking'[1].quote = Quote(dates[1].from, dates[1].to, listing, rules)
    BY <2>1
  <2> QED
    BY <2>1, <2>2
<1>7. CASE FeeOfStay
  BY <1>7 DEF FeeOfStay, offerVars, panelVars
<1>8. CASE OpenConfirm \/ CloseConfirm
  BY <1>8 DEF OpenConfirm, CloseConfirm, offerVars, panelVars
<1>9. CASE UNCHANGED quotesVars
  BY <1>9 DEF quotesVars
<1> QED
  BY <1>1, <1>2, <1>3, <1>4, <1>5, <1>6, <1>7, <1>8, <1>9 DEF QuotesNext

LEMMA BookedIsExact == BookedInv => RentIsExact
<1> SUFFICES ASSUME BookedInv, booking # <<>>, booking[1].edit = edits PROVE RentIsExact
  BY DEF RentIsExact
<1> DEFINE stay == booking[1].stay
<1>1. stay \in Stay /\ listing \in Listing /\ rules \in RuleBook
  BY DEF BookedInv
<1>2. booking[1].quote.rent = ComputeRent(stay.from, stay.to, listing, rules)
  BY QuotedRent DEF BookedInv
<1> HIDE DEF stay
<1> QED
  BY <1>1, <1>2, RentStaysClose DEF RentIsExact, stay

\* The rent that is recorded is the sum of the exact prices of the nights, but for half
\* a kopeck a night, for every listing, every set of rules and every stay
\* (requestBooking, computeRent).
THEOREM RentsAreExact == QuotesSpec => []RentIsExact
BY BookedInit, BookedNext, BookedIsExact, PTL DEF QuotesSpec
-----------------------------------------------------------------------------
(* The total and the fee.                                                  *)
(*                                                                         *)
(* quote() adds the total up from the lines it shows, and the base of the  *)
(* fee from the amounts themselves; the fee is charged on the second, and  *)
(* the tenant pays the first.                                              *)

LEMMA SumOfNaturals ==
  ASSUME NEW n \in Nat, NEW v \in [1..n -> Nat]
  PROVE  SumOf(v) \in Nat
<1>1. PICK g : AddsUp(g, v, Latest(n), 1..n) /\ SumOf(v) = g[1..n]
  BY SumIsAFold
<1> DEFINE Good == {T \in SUBSET (1..n) : g[T] \in Nat}
<1>2. ASSUME NEW T \in SUBSET (1..n), \A x \in T : T \ {x} \in Good
      PROVE  T \in Good
  <2>1. CASE T = {}
    BY <1>1, <2>1 DEF AddsUp
  <2>2. CASE T # {}
    <3> DEFINE x == Max(T)
    <3>1. x \in T /\ x \in 1..n
      BY <2>2, LatestPicks DEF Picks, Latest
    <3>2. g[T] = g[T \ {x}] + v[x]
      BY <1>1, <2>2 DEF AddsUp, Latest
    <3>3. g[T \ {x}] \in Nat /\ v[x] \in Nat
      BY <1>2, <3>1
    <3> HIDE DEF x
    <3>4. g[T] \in Nat
      BY <3>2, <3>3
    <3> QED
      BY <3>4
  <2> QED
    BY <2>1, <2>2
<1>3. 1..n \in Good
  <2>1. \A T \in SUBSET (1..n) : (\A x \in T : T \ {x} \in Good) => T \in Good
    BY <1>2
  <2> HIDE DEF Good
  <2> QED
    BY <2>1, LatestPicks, SubsetInduction
<1> QED
  BY <1>1, <1>3

LEMMA SumOfAppend ==
  ASSUME NEW n \in Nat, NEW m \in Nat, n < m, m <= n + 1, NEW v \in [1..n -> Int],
         NEW w \in [1..m -> Int], \A i \in 1..n : w[i] = v[i]
  PROVE  SumOf(w) = SumOf(v) + w[m]
<1>1. m \in Nat /\ 1..n \in SUBSET (1..m) /\ m \in 1..m /\ (1..m) \ {m} = 1..n
  OBVIOUS
<1>2. PICK g : AddsUp(g, v, Latest(n), 1..n) /\ SumOf(v) = g[1..n]
  BY SumIsAFold
<1>3. PICK h : AddsUp(h, w, Latest(m), 1..m) /\ SumOf(w) = h[1..m]
  BY <1>1, SumIsAFold
<1>4. AddsUp(g, w, Latest(m), 1..n)
  <2>1. ASSUME NEW T \in SUBSET (1..n), T # {}
        PROVE  Latest(m)[T] = Latest(n)[T] /\ w[Latest(n)[T]] = v[Latest(n)[T]]
    <3>1. Latest(m)[T] = Latest(n)[T]
      BY <1>1 DEF Latest
    <3>2. Latest(n)[T] \in 1..n
      BY <2>1, LatestPicks DEF Picks
    <3> QED
      BY <3>1, <3>2
  <2>2. g = [T \in SUBSET (1..n) |->
               IF T = {} THEN 0 ELSE g[T \ {Latest(n)[T]}] + v[Latest(n)[T]]]
    BY <1>2 DEF AddsUp
  <2>3. g = [T \in SUBSET (1..n) |->
               IF T = {} THEN 0 ELSE g[T \ {Latest(m)[T]}] + w[Latest(m)[T]]]
    <3> DEFINE A(T) == IF T = {} THEN 0 ELSE g[T \ {Latest(n)[T]}] + v[Latest(n)[T]]
               B(T) == IF T = {} THEN 0 ELSE g[T \ {Latest(m)[T]}] + w[Latest(m)[T]]
    <3>1. \A T \in SUBSET (1..n) : A(T) = B(T)
      BY <2>1
    <3>2. g = [T \in SUBSET (1..n) |-> A(T)]
      BY <2>2
    <3> HIDE DEF A, B
    <3>3. g = [T \in SUBSET (1..n) |-> B(T)]
      BY <3>1, <3>2
    <3> QED
      BY <3>3 DEF B
  <2> QED
    BY <2>3 DEF AddsUp
<1>5. g[1..n] = h[1..n]
  <2> DEFINE Good == {T \in SUBSET (1..n) : g[T] = h[T]}
  <2>1. ASSUME NEW T \in SUBSET (1..n), \A x \in T : T \ {x} \in Good
        PROVE  T \in Good
    <3> DEFINE x == Latest(m)[T]
    <3>1. T \in SUBSET (1..m) /\ (T # {} => x \in T)
      BY <1>1, <2>1, LatestPicks DEF Picks
    <3>2. g[T] = (IF T = {} THEN 0 ELSE g[T \ {x}] + w[x])
      BY <1>4, <2>1 DEF AddsUp
    <3>3. h[T] = (IF T = {} THEN 0 ELSE h[T \ {x}] + w[x])
      BY <1>3, <3>1 DEF AddsUp
    <3> HIDE DEF x
    <3> QED
      BY <2>1, <3>1, <3>2, <3>3
  <2>2. \A T \in SUBSET (1..n) : (\A x \in T : T \ {x} \in Good) => T \in Good
    BY <2>1
  <2>3. 1..n \in Good
    <3> HIDE DEF Good
    <3> QED
      BY <2>2, LatestPicks, SubsetInduction
  <2> QED
    BY <2>3
<1>6. Max(1..m) = m
  <2>1. \A y \in 1..m : m >= y
    BY <1>1
  <2>2. \A z \in 1..m : (\A y \in 1..m : z >= y) => z = m
    BY <1>1
  <2> QED
    BY <1>1, <2>1, <2>2 DEF Max
<1>7. h[1..m] = h[(1..m) \ {m}] + w[m]
  <2>1. 1..m # {} /\ Latest(m)[1..m] = m
    BY <1>1, <1>6 DEF Latest
  <2> QED
    BY <1>1, <1>3, <2>1 DEF AddsUp
<1> QED
  BY <1>1, <1>2, <1>3, <1>5, <1>7

\* The total of some lines, and of one more.
TotalOf(lines) == SumOf([k \in DOMAIN lines |-> Committed(lines[k])])

LEMMA LineAdds ==
  ASSUME NEW L, NEW lines \in Seq(L), NEW x \in L, \A y \in L : Committed(y) \in Int
  PROVE  TotalOf(lines \o <<x>>) = TotalOf(lines) + Committed(x)
<1> DEFINE n == Len(lines)
           m == n + 1
           more == lines \o <<x>>
           v == [k \in 1..n |-> Committed(lines[k])]
           w == [k \in 1..m |-> IF k = m THEN Committed(x) ELSE v[k]]
<1>1. n \in Nat /\ DOMAIN lines = 1..n
  OBVIOUS
<1>2. DOMAIN more = 1..(n + 1) /\ more[n + 1] = x /\ \A k \in 1..n : more[k] = lines[k]
  OBVIOUS
<1>3. TotalOf(lines) = SumOf(v)
  BY <1>1 DEF TotalOf
<1>4. TotalOf(more) = SumOf(w)
  <2>1. [k \in DOMAIN more |-> Committed(more[k])] = w
    <3>1. \A k \in 1..(n + 1) : Committed(more[k]) = w[k]
      <4>1. \A k \in 1..(n + 1) : k = n + 1 \/ k \in 1..n
        BY <1>1
      <4> HIDE DEF more, n
      <4> QED
        BY <1>2, <4>1
    <3> HIDE DEF more, n
    <3> QED
      BY <1>2, <3>1
  <2> QED
    BY <2>1 DEF TotalOf
<1>5. v \in [1..n -> Int]
  OBVIOUS
<1>6. w \in [1..m -> Int] /\ w[m] = Committed(x) /\ \A i \in 1..n : w[i] = v[i]
  <2>1. m \in 1..m /\ \A i \in 1..n : i \in 1..m /\ i # m
    BY <1>1
  <2>2. \A i \in 1..m : i = m \/ i \in 1..n
    BY <1>1
  <2>3. Committed(x) \in Int
    OBVIOUS
  <2> HIDE DEF n, m, v
  <2> QED
    BY <1>5, <2>1, <2>2, <2>3
<1>7. m \in Nat /\ n < m /\ m <= n + 1
  BY <1>1
<1> HIDE DEF more, n, m, v, w
<1>9. SumOf(w) = SumOf(v) + Committed(x)
  <2>1. SumOf(w) = SumOf(v) + w[m]
    BY <1>1, <1>5, <1>6, <1>7, SumOfAppend
  <2> QED
    BY <1>6, <2>1
<1> QED
  BY <1>3, <1>4, <1>9 DEF more

\* Whatever the listing charges, the lines that are shown add up to the base of the
\* fee (quote).
THEOREM TotalIsTheBase ==
  ASSUME NEW from, NEW to, NEW l, NEW book, ComputeRent(from, to, l, book) \in Nat,
         l.cleaning \in Nat, l.fixed \in Nat, l.deposit \in Nat
  PROVE  /\ Quote(from, to, l, book).total = Quote(from, to, l, book).feeBase
         /\ Quote(from, to, l, book).total \in Nat
<1> DEFINE rent == ComputeRent(from, to, l, book)
           fixed == IF l.utilities = "FIXED_EXTRA" THEN l.fixed ELSE 0
           Line(code, amount, variable) == [code |-> code, amount |-> amount, variable |-> variable]
           Some(line) == IF line.amount > 0 THEN <<line>> ELSE <<>>
           r == Line("RENT", rent, FALSE)
           c == Line("CLEANING", l.cleaning, FALSE)
           u == Line("UTILITIES", fixed, FALSE)
           m == Line("UTILITIES_METERED", 0, TRUE)
           d == Line("DEPOSIT", l.deposit, FALSE)
           L == {r, c, u, m, d}
           lines1 == <<r>>
           lines2 == lines1 \o Some(c)
           lines3 == lines2 \o Some(u)
           metered == IF l.utilities = "VARIABLE_METERED" THEN <<m>> ELSE <<>>
           lines4 == lines3 \o metered
           lines5 == lines4 \o Some(d)
<1>1. Quote(from, to, l, book).total = TotalOf(lines5)
  BY DEF Quote, TotalOf
<1>2. Quote(from, to, l, book).feeBase = rent + l.cleaning + fixed
  BY DEF Quote
<1>3. /\ Committed(r) = rent /\ Committed(c) = l.cleaning /\ Committed(u) = fixed
      /\ Committed(m) = 0 /\ Committed(d) = 0
      /\ c.amount = l.cleaning /\ u.amount = fixed /\ d.amount = l.deposit
  BY DEF Committed
<1>4. rent \in Nat /\ fixed \in Nat /\ l.cleaning \in Nat /\ l.deposit \in Nat
  OBVIOUS
<1>5. r \in L /\ c \in L /\ u \in L /\ m \in L /\ d \in L
  OBVIOUS
<1>5a. \A y \in L : Committed(y) \in Int
  <2> HIDE DEF r, c, u, m, d, rent, fixed
  <2> QED
    BY <1>3, <1>4
\* A line is there or adds nothing.
<1>6. ASSUME NEW lines \in Seq(L), NEW x \in L, Committed(x) \in Nat, TotalOf(lines) \in Nat,
             x.amount \in Nat, x.amount = 0 => Committed(x) = 0
      PROVE  lines \o Some(x) \in Seq(L) /\ TotalOf(lines \o Some(x)) = TotalOf(lines) + Committed(x)
  <2>1. CASE x.amount > 0
    <3>1. Some(x) = <<x>> /\ lines \o <<x>> \in Seq(L)
      <4> HIDE DEF L
      <4> QED
        BY <1>6, <2>1
    <3> HIDE DEF L, Some
    <3> QED
      BY <1>6, <1>5a, <3>1, LineAdds
  <2>2. CASE ~(x.amount > 0)
    <3>1. Some(x) = <<>> /\ lines \o <<>> = lines /\ Committed(x) = 0
      <4> HIDE DEF L
      <4> QED
        BY <1>6, <2>2
    <3> HIDE DEF L, Some
    <3> QED
      BY <1>6, <3>1
  <2> QED
    BY <2>1, <2>2
<1>7. lines1 \in Seq(L) /\ TotalOf(lines1) = rent
  <2>1. lines1 \in Seq(L) /\ DOMAIN lines1 = 1..1 /\ lines1[1] = r
    <3> HIDE DEF L, r
    <3> QED
      BY <1>5
  <2>2. [k \in DOMAIN lines1 |-> Committed(lines1[k])] = [k \in 1..1 |-> rent]
    <3> HIDE DEF lines1, r, rent
    <3> QED
      BY <1>3, <2>1
  <2>3. SumOf([k \in 1..1 |-> rent]) = rent * 1
    <3> DEFINE one == [k \in 1..1 |-> rent]
    <3>1. one = [k \in 1..1 |-> rent]
      OBVIOUS
    <3>2. rent \in Int /\ 1 \in Nat
      BY <1>4
    <3> HIDE DEF one, rent
    <3>3. SumOf(one) = rent * 1
      BY <3>1, <3>2, SumOfConstant, Zenon
    <3> QED
      BY <3>1, <3>3
  <2> HIDE DEF lines1, L, rent
  <2> QED
    BY <1>4, <2>1, <2>2, <2>3 DEF TotalOf
<1> HIDE DEF L, Some, r, c, u, m, d, lines1, rent, fixed
<1>8. lines2 \in Seq(L) /\ TotalOf(lines2) = rent + l.cleaning
  BY <1>3, <1>4, <1>5, <1>6, <1>7
<1> HIDE DEF lines2
<1>9. lines3 \in Seq(L) /\ TotalOf(lines3) = rent + l.cleaning + fixed
  BY <1>3, <1>4, <1>5, <1>6, <1>8
<1> HIDE DEF lines3
<1>10. lines4 \in Seq(L) /\ TotalOf(lines4) = rent + l.cleaning + fixed
  <2>1. CASE l.utilities = "VARIABLE_METERED"
    <3>1. lines4 = lines3 \o <<m>> /\ lines3 \o <<m>> \in Seq(L)
      BY <1>5, <1>9, <2>1
    <3>2. TotalOf(lines3 \o <<m>>) = TotalOf(lines3) + Committed(m)
      BY <1>5, <1>5a, <1>9, LineAdds
    <3> QED
      BY <1>3, <1>4, <1>9, <3>1, <3>2
  <2>2. CASE l.utilities # "VARIABLE_METERED"
    <3>1. lines4 = lines3
      BY <1>9, <2>2
    <3> QED
      BY <1>9, <3>1
  <2> QED
    BY <2>1, <2>2
<1> HIDE DEF lines4
<1>11. TotalOf(lines5) = rent + l.cleaning + fixed
  BY <1>3, <1>4, <1>5, <1>6, <1>10
<1> HIDE DEF lines5
<1> QED
  BY <1>1, <1>2, <1>4, <1>11

\* A night never costs less than nothing, and neither does a stay.
LEMMA RentIsNat ==
  ASSUME NEW stay \in Stay, NEW l \in Listing, NEW book \in RuleBook
  PROVE  ComputeRent(stay.from, stay.to, l, book) \in Nat
<1> DEFINE nights == stay.to - stay.from
           flat == Effective(l, book, nights)
           calm == \A day \in stay.from..(stay.to - 1) : SeasonsOn(book, day) = {}
           terms(k) == NightTerms(stay.from + k - 1, nights, l, book)
           v == [k \in 1..nights |-> ToNightly(terms(k).price, terms(k).unit)]
<1>1. /\ stay.from \in Int /\ stay.to \in Int /\ stay.from < stay.to
      /\ l.price \in Nat /\ l.unit \in PriceUnit /\ book \in Seq(Rule)
  BY QuotesAssumption
<1>2. nights \in Nat /\ BillingMonth \in Nat \ {0} /\ nights \div BillingMonth \in Nat
      /\ nights % BillingMonth \in Nat
  BY <1>1, PricingAssumption
<1>3. \A price \in Nat : \A unit \in PriceUnit : ToNightly(price, unit) \in Nat
  <2>1. ASSUME NEW price \in Nat PROVE DivideRound(price, BillingMonth) \in Nat
    <3>1. BillingMonth * price \in Nat /\ price <= BillingMonth * price
      BY <1>2
    <3> QED
      BY <1>2, <3>1, RoundStaysBelow
  <2> QED
    BY <2>1 DEF ToNightly
<1>4. flat.price \in Nat /\ flat.unit \in PriceUnit
  <2>1. nights \in Int
    BY <1>2
  <2> HIDE DEF nights
  <2> QED
    BY <1>1, <2>1, EffectiveIsTyped
<1>5. \A k \in 1..nights : terms(k).price \in Nat /\ terms(k).unit \in PriceUnit
  <2>1. nights \in Int /\ \A k \in 1..nights : stay.from + k - 1 \in Int
    BY <1>1
  <2> HIDE DEF nights
  <2> QED
    BY <1>1, <2>1, TermsAreTyped
<1>6. SumOf(v) \in Nat
  <2>1. v \in [1..nights -> Nat]
    <3> HIDE DEF terms
    <3> QED
      BY <1>3, <1>5
  <2> HIDE DEF v, nights
  <2> QED
    BY <1>2, <2>1, SumOfNaturals
<1>7. flat.price * (nights \div BillingMonth)
        + ToNightly(flat.price, "MONTH") * (nights % BillingMonth) \in Nat
  <2>1. \A a, b, c, d \in Nat : a * b + c * d \in Nat
    OBVIOUS
  <2>2. ToNightly(flat.price, "MONTH") \in Nat
    BY <1>3, <1>4 DEF PriceUnit
  <2> HIDE DEF flat, nights
  <2> QED
    BY <1>2, <1>4, <2>1, <2>2
<1>8. ComputeRent(stay.from, stay.to, l, book) =
        IF flat.unit = "MONTH" /\ calm
        THEN flat.price * (nights \div BillingMonth)
               + ToNightly(flat.price, "MONTH") * (nights % BillingMonth)
        ELSE SumOf(v)
  BY DEF ComputeRent, NightTerms
<1> QED
  <2> HIDE DEF flat, calm, v, nights
  <2> QED
    BY <1>6, <1>7, <1>8

LEMMA StayIsPriced ==
  ASSUME NEW stay \in Stay, NEW l \in Listing, NEW book \in RuleBook
  PROVE  /\ Quote(stay.from, stay.to, l, book).total = Quote(stay.from, stay.to, l, book).feeBase
         /\ Quote(stay.from, stay.to, l, book).total \in Nat
<1>1. l.cleaning \in Nat /\ l.fixed \in Nat /\ l.deposit \in Nat
  BY QuotesAssumption
<1>2. ComputeRent(stay.from, stay.to, l, book) \in Nat
  BY RentIsNat
<1> QED
  BY <1>1, <1>2, TotalIsTheBase

\* A row of fetches.
Fetch == [stay : Stay, cancelled : BOOLEAN, open : BOOLEAN]

\* The booking carries its price, and the fee is what the base of that price gives.
PricedInv ==
  /\ listing \in Listing /\ rules \in RuleBook /\ edits \in 0..MaxEdits
  /\ dates \in {<<>>} \cup { <<s>> : s \in Stay }
  /\ fetches \in Seq(Fetch)
  /\ \A a \in answers : a.fetch \in DOMAIN fetches
  /\ shown # <<>> => shown[1].fetch \in DOMAIN fetches
  /\ confirming \in BOOLEAN
  /\ booking # <<>> =>
       /\ booking[1].stay \in Stay /\ booking[1].bps = FeeBps
       /\ booking[1].quote.total = booking[1].quote.feeBase
       /\ booking[1].quote.total \in Nat
  /\ accrued # -1 =>
       /\ booking # <<>>
       /\ accrued = ServiceFee(booking[1].quote.feeBase, booking[1].bps)

\* A fetch keeps its stay, whatever becomes of it.
LEMMA FetchesKeepTheirStays ==
  ASSUME PricedInv, [QuotesNext]_quotesVars
  PROVE  /\ fetches' \in Seq(Fetch) /\ DOMAIN fetches \subseteq DOMAIN fetches'
         /\ \A k \in DOMAIN fetches : fetches'[k].stay = fetches[k].stay
<1> DEFINE off == [k \in DOMAIN fetches |-> [fetches[k] EXCEPT !.cancelled = TRUE]]
<1>1. fetches \in Seq(Fetch) /\ DOMAIN fetches = 1..Len(fetches) /\ Len(fetches) \in Nat
  BY DEF PricedInv
<1>2. \A f \in Fetch : /\ [f EXCEPT !.cancelled = TRUE] \in Fetch
                       /\ [f EXCEPT !.cancelled = TRUE].stay = f.stay
                       /\ [f EXCEPT !.open = FALSE] \in Fetch
                       /\ [f EXCEPT !.open = FALSE].stay = f.stay
  BY DEF Fetch
<1>3. \A k \in DOMAIN fetches : fetches[k] \in Fetch
  BY <1>1
<1>4. off \in Seq(Fetch) /\ DOMAIN off = DOMAIN fetches /\ Len(off) = Len(fetches)
      /\ \A k \in DOMAIN fetches : off[k].stay = fetches[k].stay
  <2>1. off \in [1..Len(fetches) -> Fetch]
    BY <1>1, <1>2, <1>3
  <2>2. \A k \in DOMAIN fetches : off[k].stay = fetches[k].stay
    BY <1>2, <1>3
  <2> HIDE DEF off
  <2> QED
    BY <1>1, <2>1, <2>2
<1>5. ASSUME NEW s \in Stay, PickDates(s)
      PROVE  /\ fetches' \in Seq(Fetch) /\ DOMAIN fetches \subseteq DOMAIN fetches'
             /\ \A k \in DOMAIN fetches : fetches'[k].stay = fetches[k].stay
  <2> DEFINE f == [stay |-> s, cancelled |-> FALSE, open |-> TRUE]
  <2>1. fetches' = Append(off, f)
    BY <1>5 DEF PickDates
  <2>2. f \in Fetch
    BY DEF Fetch
  <2> HIDE DEF off, f
  <2> QED
    BY <1>1, <1>4, <2>1, <2>2
<1>6. CASE PickNothing
  <2>1. fetches' = off
    BY <1>6 DEF PickNothing
  <2> HIDE DEF off
  <2> QED
    BY <1>4, <2>1
<1>7. ASSUME NEW k, AnswerQuote(k) \/ LoseQuote(k)
      PROVE  /\ fetches' \in Seq(Fetch) /\ DOMAIN fetches \subseteq DOMAIN fetches'
             /\ \A j \in DOMAIN fetches : fetches'[j].stay = fetches[j].stay
  <2>1. k \in DOMAIN fetches /\ fetches' = [fetches EXCEPT ![k].open = FALSE]
    BY <1>7 DEF AnswerQuote, LoseQuote
  <2>2. fetches' = [j \in DOMAIN fetches |-> IF j = k THEN [fetches[k] EXCEPT !.open = FALSE]
                                             ELSE fetches[j]]
    BY <2>1
  <2>3. fetches' \in [1..Len(fetches) -> Fetch]
    BY <1>1, <1>2, <1>3, <2>2
  <2>4. \A j \in DOMAIN fetches : fetches'[j].stay = fetches[j].stay
    BY <1>2, <1>3, <2>2
  <2> QED
    BY <1>1, <2>3, <2>4
<1>8. CASE UNCHANGED fetches
  BY <1>1, <1>8
<1> HIDE DEF off
<1> QED
  BY <1>5, <1>6, <1>7, <1>8 DEF QuotesNext, quotesVars, ShowQuote, EditPrices, OpenConfirm,
     CloseConfirm, BookStay, FeeOfStay,
     panelVars

LEMMA PricedInit == QuotesInit => PricedInv
<1>1. <<>> \in Seq(Fetch)
  OBVIOUS
<1>2. QuotesInit => confirming \in BOOLEAN
  BY DEF QuotesInit
<1>3. MaxEdits \in Nat
  BY QuotesAssumption
<1> QED
  BY <1>1, <1>2, <1>3 DEF QuotesInit, PricedInv

LEMMA PricedNext == PricedInv /\ [QuotesNext]_quotesVars => PricedInv'
<1> SUFFICES ASSUME PricedInv, [QuotesNext]_quotesVars PROVE PricedInv'
  OBVIOUS
<1>1. fetches' \in Seq(Fetch) /\ DOMAIN fetches \subseteq DOMAIN fetches'
  BY FetchesKeepTheirStays
<1> USE DEF PricedInv
<1>2. ASSUME NEW s \in Stay, PickDates(s) PROVE PricedInv'
  BY <1>1, <1>2 DEF PickDates, offerVars
<1>3. CASE PickNothing
  BY <1>1, <1>3 DEF PickNothing, offerVars
<1>4. ASSUME NEW k, AnswerQuote(k) PROVE PricedInv'
  BY <1>1, <1>4 DEF AnswerQuote, offerVars
<1>5. ASSUME NEW k, LoseQuote(k) PROVE PricedInv'
  BY <1>1, <1>5 DEF LoseQuote, offerVars
<1>6. ASSUME NEW a \in answers, ShowQuote(a) PROVE PricedInv'
  <2>1. shown' = shown \/ shown' = <<a>>
    BY <1>6 DEF ShowQuote
  <2> QED
    BY <1>1, <1>6, <2>1 DEF ShowQuote, offerVars
<1>7. ASSUME NEW l \in Listing, NEW r \in RuleBook, EditPrices(l, r) PROVE PricedInv'
  BY <1>1, <1>7, QuotesAssumption DEF EditPrices, panelVars
<1>8. CASE BookStay
  <2> DEFINE s == dates[1]
  <2>1. s \in Stay /\ booking = <<>> /\ accrued = -1
    BY <1>8 DEF BookStay
  <2>2. /\ booking'[1].stay = s /\ booking'[1].bps = FeeBps
        /\ booking'[1].quote = Quote(s.from, s.to, listing, rules)
    BY <1>8 DEF BookStay
  <2>3. booking'[1].quote.total = booking'[1].quote.feeBase /\ booking'[1].quote.total \in Nat
    <3> HIDE DEF s
    <3> QED
      BY <2>1, <2>2, StayIsPriced
  <2> QED
    BY <1>1, <1>8, <2>1, <2>2, <2>3 DEF BookStay, offerVars, panelVars
<1>9. CASE FeeOfStay
  BY <1>1, <1>9 DEF FeeOfStay, offerVars, panelVars
<1>10. CASE OpenConfirm \/ CloseConfirm
  BY <1>1, <1>10 DEF OpenConfirm, CloseConfirm, offerVars, panelVars
<1>11. CASE UNCHANGED quotesVars
  BY <1>1, <1>11 DEF quotesVars
<1> QED
  BY <1>2, <1>3, <1>4, <1>5, <1>6, <1>7, <1>8, <1>9, <1>10, <1>11 DEF QuotesNext

\* What the panel has recorded and the fee that is accrued are rows the schema takes.
LEMMA QuotesTypes == QuotesSpec => []QuotesTypeOK
<1>1. PricedInv => QuotesTypeOK
  <2>1. ASSUME PricedInv, booking # <<>>
        PROVE  ServiceFee(booking[1].quote.feeBase, booking[1].bps) \in Int
    <3> DEFINE base == booking[1].quote.feeBase
    <3>1. base \in Nat /\ booking[1].bps = FeeBps /\ FeeBps \in 0..BpsWhole
      BY <2>1, QuotesAssumption DEF PricedInv
    <3> HIDE DEF base
    <3>2. ServiceFee(base, FeeBps) \in 0..base
      BY <3>1, FeeWithinBase, MoneyAssumption
    <3> QED
      BY <3>1, <3>2 DEF base
  <2> QED
    BY <2>1 DEF PricedInv, QuotesTypeOK, Fetch
<1> QED
  BY <1>1, PricedInit, PricedNext, PTL DEF QuotesSpec

\* The fee of a completed stay is paid out of what the tenant was charged for it, and
\* is the contracted share of it to within half a kopeck, whatever the listing charges,
\* whatever its rules and whenever it was edited (accrueServiceFee).
FeeIsAShareOfTheTotal ==
  accrued # -1 =>
    LET total == booking[1].quote.total
    IN /\ accrued \in 0..total
       /\ 2 * AbsoluteValue(BpsWhole * accrued - total * FeeBps) <= BpsWhole

THEOREM FeesAreShares == QuotesSpec => []FeeIsAShareOfTheTotal
<1>1. PricedInv => FeeIsAShareOfTheTotal
  <2> SUFFICES ASSUME PricedInv, accrued # -1 PROVE FeeIsAShareOfTheTotal
    BY DEF FeeIsAShareOfTheTotal
  <2> DEFINE total == booking[1].quote.total
  <2>1. total \in Nat /\ accrued = ServiceFee(total, FeeBps)
    BY DEF PricedInv
  <2>2. FeeBps \in 0..BpsWhole /\ BpsWhole \in Nat \ {0} /\ FeeBps \in Int
    BY MoneyAssumption, QuotesAssumption
  <2> HIDE DEF total
  <2>3. accrued \in 0..total
    BY <2>1, <2>2, FeeWithinBase, MoneyAssumption
  <2>4. 2 * AbsoluteValue(BpsWhole * accrued - total * FeeBps) <= BpsWhole
    <3>1. total * FeeBps \in Int
      BY <2>1, <2>2
    <3> QED
      BY <2>1, <2>2, <3>1, RoundsToNearest DEF ServiceFee, ApplyBps
  <2> QED
    BY <2>3, <2>4 DEF FeeIsAShareOfTheTotal, total
<1> QED
  BY <1>1, PricedInit, PricedNext, PTL DEF QuotesSpec

\* The fee rounds to nothing exactly when the share is less than half a kopeck: only
\* then is the entry of the ledger zero, which its CHECK refuses (accrueServiceFee).
THEOREM FeeRoundsToNothing ==
  ASSUME NEW base \in Nat, NEW bps \in Nat
  PROVE  ServiceFee(base, bps) = 0 <=> 2 * (base * bps) < BpsWhole
<1> DEFINE n == base * bps
           m == 2 * n + BpsWhole
           k == 2 * BpsWhole
           q == m \div k
<1>1. n \in Nat /\ BpsWhole \in Nat \ {0} /\ m \in Int /\ k \in Int /\ k > 0
  BY MoneyAssumption
<1>2. q \in Int /\ k * q <= m /\ m < k * q + k
  <2> HIDE DEF m, k
  <2> QED
    BY <1>1, DivBounds
<1>3. ServiceFee(base, bps) = q
  <2> HIDE DEF n
  <2>1. AbsoluteValue(n) = n /\ ~(n < 0)
    BY <1>1 DEF AbsoluteValue
  <2> QED
    BY <2>1 DEF ServiceFee, ApplyBps, DivideRound, n
<1> HIDE DEF q
<1>4. q = 0 => 2 * n < BpsWhole
  BY <1>1, <1>2
<1>5. ASSUME 2 * n < BpsWhole PROVE q = 0
  <2>1. m < k /\ 0 <= m
    BY <1>1, <1>5
  <2>2. k * q < k /\ 0 < k * q + k
    <3>1. k * q \in Int
      BY <1>1, <1>2
    <3> HIDE DEF m, k
    <3> QED
      BY <1>1, <1>2, <2>1, <3>1
  <2>3. ASSUME q >= 1 PROVE FALSE
    <3> HIDE DEF k
    <3>1. k * (q - 1) \in Nat /\ k * (q - 1) = k * q - k /\ k * q \in Int
      <4>1. \A a, b \in Nat : a * b \in Nat
        OBVIOUS
      <4>2. q - 1 \in Nat /\ k \in Nat
        BY <1>1, <1>2, <2>3
      <4> QED
        BY <1>1, <1>2, <4>1, <4>2
    <3> QED
      BY <1>1, <2>2, <3>1
  <2>4. ASSUME q <= -1 PROVE FALSE
    <3>1. k * q <= k * (-1)
      BY <1>1, <1>2, <2>4
    <3> HIDE DEF k
    <3> QED
      BY <1>1, <1>2, <2>2, <3>1
  <2> QED
    BY <1>2, <2>3, <2>4
<1> QED
  BY <1>3, <1>4, <1>5
-----------------------------------------------------------------------------
(* The panel's promise.                                                    *)
(*                                                                         *)
(* ShownIsRecorded does not hold: the route passes no rules, requestBooking *)
(* does.  That is all that breaks it.                                      *)

\* What an answer says is the listing's price without rules, unless it was edited since.
Fresh(a) ==
  /\ a.fetch \in DOMAIN fetches /\ a.edit \in Int /\ a.edit <= edits
  /\ a.edit = edits =>
       a.quote = Quote(fetches[a.fetch].stay.from, fetches[a.fetch].stay.to, listing, <<>>)

\* That is so of every answer under way and of the one on the screen.
OfferedInv ==
  /\ PricedInv
  /\ \A a \in answers : Fresh(a)
  /\ shown # <<>> => Fresh(shown[1])

LEMMA OfferedInit == QuotesInit => OfferedInv
BY PricedInit DEF QuotesInit, OfferedInv

LEMMA OfferedNext == OfferedInv /\ [QuotesNext]_quotesVars => OfferedInv'
<1> SUFFICES ASSUME OfferedInv, [QuotesNext]_quotesVars PROVE OfferedInv'
  OBVIOUS
<1>1. /\ PricedInv /\ PricedInv'
      /\ \A a \in answers : Fresh(a)
      /\ shown # <<>> => Fresh(shown[1])
  BY PricedNext DEF OfferedInv
<1>2. /\ DOMAIN fetches \subseteq DOMAIN fetches'
      /\ \A k \in DOMAIN fetches : fetches'[k].stay = fetches[k].stay
  BY <1>1, FetchesKeepTheirStays
<1>3. edits \in Int /\ ((edits' = edits /\ listing' = listing) \/ edits' = edits + 1)
  <2>1. edits \in Int
    BY <1>1, QuotesAssumption DEF PricedInv
  <2> QED
    BY <2>1 DEF QuotesNext, quotesVars, PickDates, PickNothing, AnswerQuote, LoseQuote, ShowQuote,
       EditPrices, OpenConfirm,
     CloseConfirm, BookStay, FeeOfStay, offerVars
\* What was true of an answer stays so.
<1>4. ASSUME NEW a, Fresh(a) PROVE Fresh(a)'
  <2>1. fetches'[a.fetch].stay = fetches[a.fetch].stay
    BY <1>2, <1>4 DEF Fresh
  <2> QED
    BY <1>2, <1>3, <1>4, <2>1 DEF Fresh
<1>5. ASSUME NEW b, b \in answers' PROVE Fresh(b)'
  <2>1. CASE b \in answers
    BY <1>1, <1>4, <2>1
  <2>2. CASE b \notin answers
    <3>1. PICK k : AnswerQuote(k)
      BY <1>5, <2>2 DEF QuotesNext, quotesVars, PickDates, PickNothing, LoseQuote, ShowQuote,
         EditPrices, OpenConfirm,
     CloseConfirm, BookStay, FeeOfStay, panelVars
    <3>2. b = [fetch |-> k, edit |-> edits,
               quote |-> Quote(fetches[k].stay.from, fetches[k].stay.to, listing, <<>>)]
      BY <1>5, <2>2, <3>1 DEF AnswerQuote
    <3>3. Fresh(b)
      <4>1. k \in DOMAIN fetches /\ b.fetch = k /\ b.edit = edits
            /\ b.quote = Quote(fetches[k].stay.from, fetches[k].stay.to, listing, <<>>)
        BY <3>1, <3>2 DEF AnswerQuote
      <4> QED
        BY <1>3, <4>1 DEF Fresh
    <3> QED
      BY <1>4, <3>3
  <2> QED
    BY <2>1, <2>2
<1>6. ASSUME shown' # <<>> PROVE Fresh(shown[1])'
  <2>1. \/ shown' = shown
        \/ \E a \in answers : shown' = <<a>>
    BY <1>6 DEF QuotesNext, quotesVars, PickDates, PickNothing, AnswerQuote, LoseQuote, ShowQuote,
       EditPrices, OpenConfirm,
     CloseConfirm, BookStay, FeeOfStay, panelVars
  <2>2. PICK b : Fresh(b) /\ shown'[1] = b
    <3>1. CASE shown' = shown
      BY <1>1, <1>6, <3>1
    <3>2. ASSUME NEW a \in answers, shown' = <<a>> PROVE Fresh(a) /\ shown'[1] = a
      BY <1>1, <3>2
    <3> QED
      BY <2>1, <3>1, <3>2
  <2>3. Fresh(b)'
    BY <1>4, <2>2
  <2> QED
    BY <2>2, <2>3 DEF Fresh
<1> QED
  BY <1>1, <1>5, <1>6 DEF OfferedInv

\* A listing without pricing rules keeps the promise of the panel: with the quote of
\* these dates shown and nothing edited since, the booking records the total that was
\* shown (GET /listings/:id/quote, requestBooking).
THEOREM QuotesWithoutRulesAreKept ==
  QuotesSpec => [][BookStay /\ rules = <<>> => ShownIsRecorded']_quotesVars
<1>1. ASSUME OfferedInv, BookStay, rules = <<>> PROVE ShownIsRecorded'
  <2> DEFINE a == shown[1]
             s == dates[1]
  <2>1. shown' = shown /\ fetches' = fetches /\ (shown # <<>> => Fresh(a))
    BY <1>1 DEF OfferedInv, BookStay, panelVars
  <2>2. /\ booking'[1].stay = s /\ booking'[1].edit = edits
        /\ booking'[1].quote = Quote(s.from, s.to, listing, <<>>)
    BY <1>1 DEF BookStay
  <2>3. ASSUME shown # <<>>, a.edit = edits, fetches[a.fetch].stay = s
        PROVE  a.quote = Quote(s.from, s.to, listing, <<>>)
    BY <2>1, <2>3 DEF Fresh
  <2> HIDE DEF a, s
  <2> QED
    BY <2>1, <2>2, <2>3 DEF ShownIsRecorded, a
<1> QED
  BY <1>1, OfferedInit, OfferedNext, PTL DEF QuotesSpec
-----------------------------------------------------------------------------
(* Waivers.                                                                *)
(*                                                                         *)
(* ForgivenOnce is not inductive: a waiver commits on what it read when it *)
(* took the row.  LockInv says why that is still true then: the rows that  *)
(* two calls hold are different, and a fee whose row a waiver holds stays  *)
(* PAYABLE until the waiver is over.                                       *)

\* The part of FinanceTypeOK that the proof needs.
RowsTyped ==
  /\ feeStatus \in [Fee -> {"NONE", "PAYABLE", "PAID", "WAIVED"}]
  /\ forgiven \in [Fee -> Nat]
  /\ call \in [FinanceCall -> {"IDLE", "POOL", "LIST", "SETTLE", "WAIVE", "DONE"}]
  /\ held \in [FinanceCall -> SUBSET Fee]

LockInv ==
  /\ \A c, d \in FinanceCall : c # d => held[c] \cap held[d] = {}
  /\ \A c \in FinanceCall : call[c] \in {"IDLE", "DONE"} => held[c] = {}
  /\ \A c \in FinanceCall : call[c] = "WAIVE" => \A f \in held[c] : feeStatus[f] = "PAYABLE"

FinanceInv == RowsTyped /\ LockInv /\ ForgivenOnce
-----------------------------------------------------------------------------
LEMMA FinanceInvInit == FinanceInit => FinanceInv
  BY DEF FinanceInit, FinanceInv, RowsTyped, LockInv, ForgivenOnce

\* A call that is over leaves the rows of the others alone.
LEMMA FinishKeepsLocks ==
  ASSUME RowsTyped, NEW c \in FinanceCall, Finish(c)
  PROVE  /\ call' \in [FinanceCall -> {"IDLE", "POOL", "LIST", "SETTLE", "WAIVE", "DONE"}]
         /\ held' \in [FinanceCall -> SUBSET Fee]
         /\ call'[c] = "DONE" /\ held'[c] = {}
         /\ \A d \in FinanceCall \ {c} : call'[d] = call[d] /\ held'[d] = held[d]
  BY DEF RowsTyped, Finish

\* What ends a call without writing a row, or writes rows that nobody else holds,
\* keeps the locks in order.
LEMMA FinishKeepsLockInv ==
  ASSUME RowsTyped, LockInv, NEW c \in FinanceCall, Finish(c),
         feeStatus' \in [Fee -> {"NONE", "PAYABLE", "PAID", "WAIVED"}],
         \A f \in Fee \ held[c] : feeStatus'[f] = feeStatus[f]
  PROVE  LockInv'
<1>1. \A d, e \in FinanceCall : d # e => held'[d] \cap held'[e] = {}
  BY FinishKeepsLocks DEF LockInv
<1>2. \A d \in FinanceCall : call'[d] \in {"IDLE", "DONE"} => held'[d] = {}
  BY FinishKeepsLocks DEF LockInv
<1>3. ASSUME NEW d \in FinanceCall, call'[d] = "WAIVE", NEW f \in held'[d]
      PROVE  feeStatus'[f] = "PAYABLE"
  <2>1. d # c /\ call[d] = "WAIVE" /\ f \in held[d]
    BY <1>3, FinishKeepsLocks
  <2>2. f \in Fee \ held[c] /\ feeStatus[f] = "PAYABLE"
    BY <2>1 DEF LockInv, RowsTyped
  <2> QED
    BY <2>2
<1> QED
  BY <1>1, <1>2, <1>3 DEF LockInv

\* A call that takes row f, which nobody else holds, keeps the locks in order.
LEMMA TakingKeepsLockInv ==
  ASSUME RowsTyped, LockInv, NEW c \in FinanceCall, NEW f \in Fee, ~LockedFor(c, f),
         NEW place \in {"SETTLE", "WAIVE"},
         call' = [call EXCEPT ![c] = place],
         held' = [held EXCEPT ![c] = @ \cup {f}],
         place = "WAIVE" => held[c] = {} /\ feeStatus[f] = "PAYABLE",
         UNCHANGED feeStatus
  PROVE  LockInv'
<1>1. /\ call'[c] = place /\ held'[c] = held[c] \cup {f}
      /\ \A d \in FinanceCall \ {c} : call'[d] = call[d] /\ held'[d] = held[d] /\ f \notin held[d]
  BY DEF RowsTyped, LockedFor
<1>2. \A d, e \in FinanceCall : d # e => held'[d] \cap held'[e] = {}
  BY <1>1 DEF LockInv
<1>3. \A d \in FinanceCall : call'[d] \in {"IDLE", "DONE"} => held'[d] = {}
  BY <1>1 DEF LockInv
<1>4. \A d \in FinanceCall : call'[d] = "WAIVE" => \A g \in held'[d] : feeStatus'[g] = "PAYABLE"
  BY <1>1 DEF LockInv
<1> QED
  BY <1>2, <1>3, <1>4 DEF LockInv
-----------------------------------------------------------------------------
LEMMA FinanceInvNext ==
  ASSUME FinanceAssumption, FinanceInv, [FinanceNext]_financeVars
  PROVE  FinanceInv'
<1> USE DEF FinanceInv
<1>1. ASSUME NEW f \in Fee, AccrueFee(f)
      PROVE  FinanceInv'
  BY <1>1 DEF AccrueFee, RowsTyped, LockInv, ForgivenOnce
<1>2. ASSUME NEW c \in FinanceCall, BeginPayment(c)
      PROVE  FinanceInv'
  BY <1>2 DEF BeginPayment, RowsTyped, LockInv, ForgivenOnce
<1>3. ASSUME NEW c \in FinanceCall, ReadPool(c) \/ ListFees(c)
      PROVE  FinanceInv'
  BY <1>3 DEF ReadPool, ListFees, RowsTyped, LockInv, ForgivenOnce
<1>4. ASSUME NEW c \in FinanceCall, NEW f \in Fee, SettleFee(c, f)
      PROVE  FinanceInv'
  <2>1. call[c] = "SETTLE" /\ call' = [call EXCEPT ![c] = "SETTLE"]
    BY <1>4 DEF SettleFee, RowsTyped
  <2>2. LockInv'
    BY <1>4, <2>1, TakingKeepsLockInv DEF SettleFee
  <2> QED
    BY <1>4, <2>2 DEF SettleFee, RowsTyped, ForgivenOnce
<1>5. ASSUME NEW c \in FinanceCall, CommitPayment(c)
      PROVE  FinanceInv'
  <2>1. /\ feeStatus' = [f \in Fee |-> IF f \in held[c] THEN "PAID" ELSE feeStatus[f]]
        /\ Finish(c) /\ UNCHANGED forgiven
    BY <1>5 DEF CommitPayment, WriteHeld
  <2>2. LockInv'
    BY <2>1, FinishKeepsLockInv DEF RowsTyped
  <2>3. RowsTyped'
    BY <2>1, FinishKeepsLocks DEF RowsTyped
  <2>4. ForgivenOnce'
    BY <2>1 DEF ForgivenOnce, RowsTyped
  <2> QED
    BY <2>2, <2>3, <2>4
<1>6. ASSUME NEW c \in FinanceCall, NEW f \in Fee, LockFee(c, f)
      PROVE  FinanceInv'
  <2>1. held[c] = {} /\ held' = [held EXCEPT ![c] = @ \cup {f}]
    BY <1>6 DEF LockFee, LockInv, RowsTyped
  <2>2. LockInv'
    BY <1>6, <2>1, TakingKeepsLockInv DEF LockFee
  <2> QED
    BY <1>6, <2>2 DEF LockFee, RowsTyped, ForgivenOnce
<1>7. ASSUME NEW c \in FinanceCall, Finish(c), UNCHANGED <<feeStatus, forgiven>>
      PROVE  FinanceInv'
  <2>1. LockInv'
    BY <1>7, FinishKeepsLockInv DEF RowsTyped
  <2> QED
    BY <1>7, <2>1, FinishKeepsLocks DEF RowsTyped, ForgivenOnce
<1>8. ASSUME NEW c \in FinanceCall, CommitWaiver(c)
      PROVE  FinanceInv'
  <2>1. /\ feeStatus' = [f \in Fee |-> IF f \in held[c] THEN "WAIVED" ELSE feeStatus[f]]
        /\ forgiven' = [f \in Fee |-> IF f \in held[c] THEN forgiven[f] + 1 ELSE forgiven[f]]
        /\ Finish(c)
    BY <1>8 DEF CommitWaiver, WriteHeld
  <2>2. \A f \in held[c] : feeStatus[f] = "PAYABLE" /\ forgiven[f] = 0
    BY <1>8 DEF CommitWaiver, LockInv, ForgivenOnce, RowsTyped
  <2>3. LockInv'
    BY <2>1, FinishKeepsLockInv DEF RowsTyped
  <2>4. RowsTyped'
    BY <2>1, FinishKeepsLocks DEF RowsTyped
  <2>5. ForgivenOnce'
    BY <2>1, <2>2 DEF ForgivenOnce, RowsTyped
  <2> QED
    BY <2>3, <2>4, <2>5
<1>9. CASE UNCHANGED financeVars
  BY <1>9 DEF financeVars, RowsTyped, LockInv, ForgivenOnce, LockedFor
<1> QED
  BY <1>1, <1>2, <1>3, <1>4, <1>5, <1>6, <1>7, <1>8, <1>9
  DEF FinanceNext, PaymentStep, FinanceCall, RefuseWaiver, LoseCall

\* A fee is forgiven at most once, and one that was forgiven is never owed again,
\* however many payments and waivers run at a time and wherever they are cut off.
THEOREM WaiversAreExclusive == FinanceSpec => []ForgivenOnce
<1>1. FinanceInv /\ [FinanceNext]_financeVars => FinanceInv'
  BY FinanceInvNext, FinanceAssumption
<1>2. FinanceInv => ForgivenOnce
  BY DEF FinanceInv
<1> QED
  BY FinanceInvInit, <1>1, <1>2, PTL DEF FinanceSpec
-----------------------------------------------------------------------------
(* Payments.                                                               *)
(*                                                                         *)
(* A payment that meets no other call finds the statuses as it read them:  *)
(* OrderInv says what its pool and its list are then, from the rows it has *)
(* already written.  Nothing is owed to the pool (PoolInv) as long as no   *)
(* two calls ever met.                                                     *)

\* The part of FinanceTypeOK that the sums need.
PoolTyped ==
  /\ accruedAt \in [Fee -> Nat]
  /\ received \in Nat
  /\ till \in [FinanceCall -> [amount : Nat, remaining : Int, todo : SUBSET Fee]]
  /\ overlapped \in BOOLEAN

\* What call c has written or locked is PAYABLE until it commits.
Alone ==
  /\ \A c, d \in FinanceCall : Open(c) /\ Open(d) => c = d
  /\ \A c \in FinanceCall : call[c] \in {"POOL", "LIST"} => held[c] = {}

PoolOf(c) == received + till[c].amount - SumOfFees(FeesWith("PAID") \cup held[c])

OrderInv ==
  /\ Alone
  /\ \A c \in FinanceCall : call[c] \in {"LIST", "SETTLE"} => till[c].remaining = PoolOf(c)
  /\ \A c \in FinanceCall : call[c] = "SETTLE" =>
       till[c].todo \cap held[c] = {} /\ till[c].todo \cup held[c] = FeesWith("PAYABLE")

\* The pool covers what is PAID, and what is PAID was not forgiven.
LedgerInv ==
  /\ StatusMatchesLedger
  /\ \A c \in FinanceCall : call[c] \in {"LIST", "SETTLE"} => till[c].remaining >= 0

PaymentInv == FinanceInv /\ PoolTyped /\ (~overlapped => OrderInv /\ LedgerInv)
-----------------------------------------------------------------------------
FirstFee == [T \in SUBSET Fee |-> CHOOSE f \in T : TRUE]

\* SumOfFees as the library computes it.
LEMMA SumOfFeesIsAFold ==
  ASSUME FinanceAssumption, NEW S \in SUBSET Fee
  PROVE  \E g : AddsUp(g, FeeMinor, FirstFee, S) /\ SumOfFees(S) = g[S]
<1> DEFINE First(T) == CHOOSE f \in T : TRUE
           Body(h) == [T \in SUBSET S |-> IF T = {} THEN 0 ELSE h[T \ {First(T)}] + FeeMinor[First(T)]]
           g == CHOOSE h : h = Body(h)
<1>1. SumOfFees(S) = g[S]
  BY DEF SumOfFees, FoldSet, MapThenFoldSet
<1>2. \A h : AddsUp(h, FeeMinor, FirstFee, S) <=> h = Body(h)
  <2>1. \A T \in SUBSET S : FirstFee[T] = First(T)
    BY DEF FirstFee
  <2> HIDE DEF First
  <2> QED
    BY <2>1 DEF AddsUp
<1>3. \E h : AddsUp(h, FeeMinor, FirstFee, S)
  <2>1. IsFiniteSet(S) /\ Picks(FirstFee, S)
    BY FS_Subset DEF FinanceAssumption, Picks, FirstFee
  <2> QED
    BY <2>1, SumsExist
<1>4. g = Body(g)
  <2> HIDE DEF Body
  <2> QED
    BY <1>2, <1>3
<1> QED
  <2> HIDE DEF g
  <2> QED
    BY <1>1, <1>2, <1>4

\* Fees may be added in any order.
LEMMA FeesAddUp ==
  ASSUME FinanceAssumption
  PROVE  /\ SumOfFees({}) = 0
         /\ \A S \in SUBSET Fee : SumOfFees(S) \in Nat
         /\ \A S \in SUBSET Fee : \A f \in Fee \ S :
              SumOfFees(S \cup {f}) = SumOfFees(S) + FeeMinor[f]
<1>1. IsFiniteSet(Fee) /\ Picks(FirstFee, Fee) /\ FeeMinor \in [Fee -> Nat]
  BY DEF FinanceAssumption, Picks, FirstFee
<1>2. PICK g : AddsUp(g, FeeMinor, FirstFee, Fee)
  BY <1>1, SumsExist
<1>3. ASSUME NEW S \in SUBSET Fee PROVE SumOfFees(S) = g[S]
  <2>1. PICK h : AddsUp(h, FeeMinor, FirstFee, S) /\ SumOfFees(S) = h[S]
    BY SumOfFeesIsAFold
  <2>2. \A T \in SUBSET Fee : T \subseteq S /\ T \subseteq Fee => h[T] = g[T]
    BY <1>1, <1>2, <2>1, SumsAgree
  <2> QED
    BY <2>1, <2>2
<1> DEFINE Good == {T \in SUBSET Fee : /\ g[T] \in Nat
                                 /\ \A f \in T : g[T \ {f}] \in Nat /\ g[T] = g[T \ {f}] + FeeMinor[f]}
<1>4. ASSUME NEW T \in SUBSET Fee, \A x \in T : T \ {x} \in Good
      PROVE  T \in Good
  <2>1. CASE T = {}
    BY <1>2, <2>1 DEF AddsUp
  <2>2. CASE T # {}
    <3> DEFINE c == FirstFee[T]
    <3>1. c \in T /\ g[T] = g[T \ {c}] + FeeMinor[c]
      BY <1>1, <1>2, <2>2 DEF AddsUp, Picks
    <3>2. T \ {c} \in Good
      BY <1>4, <3>1
    <3>3. g[T] \in Nat
      BY <1>1, <3>1, <3>2
    <3>4. ASSUME NEW f \in T, f # c
          PROVE  g[T] = g[T \ {f}] + FeeMinor[f]
      <4> DEFINE U == (T \ {c}) \ {f}
      <4>1. g[T \ {c}] = g[U] + FeeMinor[f]
        BY <3>2, <3>4
      <4>2. (T \ {f}) \ {c} = U /\ U \in SUBSET Fee
        OBVIOUS
      <4>3. g[T \ {f}] = g[U] + FeeMinor[c]
        BY <1>4, <3>1, <3>4, <4>2
      <4>4. g[U] \in Nat /\ FeeMinor[f] \in Nat /\ FeeMinor[c] \in Nat
        BY <1>1, <3>1, <3>2, <3>4
      <4> HIDE DEF U, c
      <4> QED
        BY <1>1, <3>1, <3>4, <4>1, <4>3, <4>4
    <3>5. \A f \in T : g[T \ {f}] \in Nat
      BY <1>4
    <3> HIDE DEF c
    <3> QED
      BY <3>1, <3>3, <3>4, <3>5
  <2> QED
    BY <2>1, <2>2
<1>5. ASSUME NEW S \in SUBSET Fee PROVE S \in Good
  <2>1. \A T \in SUBSET S : (\A x \in T : T \ {x} \in Good) => T \in Good
    BY <1>4
  <2>2. IsFiniteSet(S)
    BY <1>1, FS_Subset
  <2> HIDE DEF Good
  <2> QED
    BY <2>1, <2>2, SubsetInduction
<1>6. ASSUME NEW S \in SUBSET Fee, NEW f \in Fee \ S
      PROVE  SumOfFees(S \cup {f}) = SumOfFees(S) + FeeMinor[f]
  <2>1. S \cup {f} \in SUBSET Fee /\ S \cup {f} \in Good /\ (S \cup {f}) \ {f} = S
    BY <1>5
  <2> QED
    BY <1>3, <2>1
<1>7. g[{}] = 0
  BY <1>2 DEF AddsUp
<1> QED
  BY <1>3, <1>5, <1>6, <1>7
-----------------------------------------------------------------------------
LEMMA PaymentInvInit == FinanceAssumption /\ FinanceInit => PaymentInv
<1> SUFFICES ASSUME FinanceAssumption, FinanceInit PROVE PaymentInv
  OBVIOUS
<1>1. FinanceInv
  BY FinanceInvInit
<1>2. PoolTyped
  <2>1. EmptyTill \in [amount : Nat, remaining : Int, todo : SUBSET Fee]
    BY DEF EmptyTill
  <2> QED
    BY <2>1 DEF FinanceInit, PoolTyped
<1>3. OrderInv
  BY DEF FinanceInit, OrderInv, Alone, Open
<1>4. LedgerInv
  <2>1. FeesWith("PAID") = {} /\ received = 0
    BY DEF FinanceInit, FeesWith
  <2>2. \A c \in FinanceCall : call[c] = "IDLE"
    BY DEF FinanceInit
  <2> QED
    BY <2>1, <2>2, FeesAddUp DEF LedgerInv, StatusMatchesLedger
<1> QED
  BY <1>1, <1>2, <1>3, <1>4 DEF PaymentInv

LEMMA PoolTypedNext ==
  ASSUME FinanceAssumption, RowsTyped, PoolTyped, [FinanceNext]_financeVars
  PROVE  PoolTyped'
<1> USE DEF PoolTyped
<1>1. ASSUME NEW f \in Fee, AccrueFee(f) PROVE PoolTyped'
  <2>1. Cardinality(Fee \ FeesWith("NONE")) \in Nat
    BY FS_Subset, FS_CardinalityType DEF FinanceAssumption
  <2> QED
    BY <1>1, <2>1 DEF AccrueFee
<1>2. ASSUME NEW c \in FinanceCall, BeginPayment(c) PROVE PoolTyped'
  BY <1>2 DEF BeginPayment, NoteOverlap, FinanceAssumption
<1>3. ASSUME NEW c \in FinanceCall, ReadPool(c) PROVE PoolTyped'
  <2>1. FeesWith("PAID") \in SUBSET Fee
    BY DEF FeesWith
  <2>2. received + till[c].amount - SumOfFees(FeesWith("PAID")) \in Int
    BY <2>1, FeesAddUp
  <2> QED
    BY <1>3, <2>2 DEF ReadPool
<1>4. ASSUME NEW c \in FinanceCall, ListFees(c) PROVE PoolTyped'
  BY <1>4 DEF ListFees, FeesWith
<1>5. ASSUME NEW c \in FinanceCall, NEW f \in Fee, SettleFee(c, f) PROVE PoolTyped'
  <2>1. till[c].remaining - FeeMinor[f] \in Int
    BY DEF FinanceAssumption
  <2> QED
    BY <1>5, <2>1 DEF SettleFee
<1>6. ASSUME NEW c \in FinanceCall, CommitPayment(c) PROVE PoolTyped'
  BY <1>6 DEF CommitPayment, Finish, EmptyTill
<1>7. ASSUME NEW c \in FinanceCall, NEW f \in Fee, LockFee(c, f) PROVE PoolTyped'
  BY <1>7 DEF LockFee, NoteOverlap
<1>8. ASSUME NEW c \in FinanceCall, Finish(c), UNCHANGED <<accruedAt, received, overlapped>>
      PROVE  PoolTyped'
  BY <1>8 DEF Finish, EmptyTill
<1>9. CASE UNCHANGED financeVars
  BY <1>9 DEF financeVars
<1> QED
  BY <1>1, <1>2, <1>3, <1>4, <1>5, <1>6, <1>7, <1>8, <1>9
  DEF FinanceNext, PaymentStep, FinanceCall, RefuseWaiver, LoseCall, CommitWaiver

\* When call c alone is open, and is neither reading the pool nor settling after the
\* step, nothing is left to say of pools and lists.
LEMMA NothingPending ==
  ASSUME NEW c \in FinanceCall, StatusMatchesLedger',
         \A d \in FinanceCall \ {c} : call'[d] \in {"IDLE", "DONE"},
         call'[c] \in {"IDLE", "DONE", "POOL", "WAIVE"},
         call'[c] = "POOL" => held'[c] = {}
  PROVE  OrderInv' /\ LedgerInv'
<1>1. \A d \in FinanceCall : call'[d] \notin {"LIST", "SETTLE"}
  OBVIOUS
<1>2. Alone'
  BY DEF Alone, Open
<1> QED
  BY <1>1, <1>2 DEF OrderInv, LedgerInv

\* While call c alone is open, all that is pending is what c reads.
LEMMA OnlyPending ==
  ASSUME NEW c \in FinanceCall, StatusMatchesLedger',
         \A d \in FinanceCall \ {c} : call'[d] \in {"IDLE", "DONE"},
         call'[c] \in {"LIST", "SETTLE"},
         till'[c].remaining = PoolOf(c)', till'[c].remaining >= 0,
         call'[c] = "LIST" => held'[c] = {},
         call'[c] = "SETTLE" => /\ till'[c].todo \cap held'[c] = {}
                                /\ till'[c].todo \cup held'[c] = FeesWith("PAYABLE")'
  PROVE  OrderInv' /\ LedgerInv'
<1>1. \A d \in FinanceCall : call'[d] \notin {"IDLE", "DONE"} => d = c
  OBVIOUS
<1>2. Alone'
  BY <1>1 DEF Alone, Open
<1>3. \A d \in FinanceCall : call'[d] \in {"LIST", "SETTLE"} =>
        till'[d].remaining = PoolOf(d)' /\ till'[d].remaining >= 0
  <2>1. ASSUME NEW d \in FinanceCall, call'[d] \in {"LIST", "SETTLE"}
        PROVE  till'[d].remaining = PoolOf(d)' /\ till'[d].remaining >= 0
    <3>1. d = c
      BY <1>1, <2>1
    <3> QED
      BY <3>1
  <2> QED
    BY <2>1
<1>4. \A d \in FinanceCall : call'[d] = "SETTLE" =>
        till'[d].todo \cap held'[d] = {} /\ till'[d].todo \cup held'[d] = FeesWith("PAYABLE")'
  BY <1>1
<1> QED
  BY <1>2, <1>3, <1>4 DEF OrderInv, LedgerInv
\* A call takes its next step on what it read, as long as no two calls have met.
LEMMA OrderNext ==
  ASSUME FinanceAssumption, PaymentInv, [FinanceNext]_financeVars, ~overlapped'
  PROVE  OrderInv' /\ LedgerInv'
<1> DEFINE PAID == FeesWith("PAID")
<1>1. /\ RowsTyped /\ PoolTyped /\ LockInv /\ ForgivenOnce
      /\ PAID \in SUBSET Fee /\ SumOfFees(PAID) \in Nat
  <2>1. PAID \in SUBSET Fee
    BY DEF FeesWith
  <2> QED
    BY <2>1, FeesAddUp DEF PaymentInv, FinanceInv
\* Every step leaves the history as it is or adds to it.
<1>2. ~overlapped
  <2>1. CASE \E f \in Fee : AccrueFee(f)
    BY <1>1, <2>1 DEF AccrueFee, PoolTyped
  <2>2. CASE \E c \in FinanceCall : BeginPayment(c) \/ \E f \in Fee : LockFee(c, f)
    BY <1>1, <2>2 DEF BeginPayment, LockFee, NoteOverlap, PoolTyped
  <2>3. CASE UNCHANGED overlapped
    BY <2>3
  <2> QED
    BY <2>1, <2>2, <2>3
    DEF FinanceNext, PaymentStep, FinanceCall, ReadPool, ListFees, CommitPayment, SettleFee,
        CommitWaiver, RefuseWaiver, LoseCall, financeVars
<1>3. OrderInv /\ LedgerInv /\ StatusMatchesLedger
  BY <1>2 DEF PaymentInv, LedgerInv
\* A call that begins meets nobody, and one that is open is alone.
<1>4. ASSUME NEW c \in FinanceCall, NoteOverlap(c)
      PROVE  \A d \in FinanceCall \ {c} : call[d] \in {"IDLE", "DONE"}
  BY <1>4 DEF NoteOverlap, Open
<1>5. ASSUME NEW c \in FinanceCall, Open(c)
      PROVE  \A d \in FinanceCall \ {c} : call[d] \in {"IDLE", "DONE"}
  BY <1>3, <1>5 DEF OrderInv, Alone, Open
<1>6. ASSUME UNCHANGED <<feeStatus, received, forgiven>>
      PROVE  /\ StatusMatchesLedger'
             /\ \A s : FeesWith(s)' = FeesWith(s)
  BY <1>3, <1>6 DEF StatusMatchesLedger, FeesWith
<1>7. ASSUME NEW f \in Fee, AccrueFee(f) PROVE OrderInv' /\ LedgerInv'
  <2>1. \A d \in FinanceCall : call[d] \in {"IDLE", "DONE"} /\ call'[d] = call[d]
    BY <1>7 DEF AccrueFee, Open
  <2>2. PAID' = PAID /\ received' = received /\ forgiven' = forgiven
    BY <1>1, <1>7 DEF AccrueFee, FeesWith, RowsTyped
  <2>3. StatusMatchesLedger'
    BY <1>3, <2>2 DEF StatusMatchesLedger
  <2>4. Alone'
    BY <2>1 DEF Alone, Open
  <2> QED
    BY <2>1, <2>3, <2>4 DEF OrderInv, LedgerInv
<1>8. ASSUME NEW c \in FinanceCall, BeginPayment(c) PROVE OrderInv' /\ LedgerInv'
  <2>1. call'[c] = "POOL" /\ \A d \in FinanceCall \ {c} : call'[d] \in {"IDLE", "DONE"}
    BY <1>1, <1>4, <1>8 DEF BeginPayment, RowsTyped
  <2>2. held'[c] = {}
    BY <1>1, <1>8 DEF BeginPayment, LockInv
  <2>3. StatusMatchesLedger'
    BY <1>6, <1>8 DEF BeginPayment
  <2> QED
    BY <2>1, <2>2, <2>3, NothingPending
<1>9. ASSUME NEW c \in FinanceCall, ReadPool(c) PROVE OrderInv' /\ LedgerInv'
  <2>1. held[c] = {} /\ \A d \in FinanceCall \ {c} : call'[d] \in {"IDLE", "DONE"}
    BY <1>1, <1>3, <1>5, <1>9 DEF ReadPool, RowsTyped, OrderInv, Alone, Open
  <2>2. /\ call'[c] = "LIST" /\ held'[c] = held[c] /\ received' = received
        /\ till'[c].remaining = received + till[c].amount - SumOfFees(PAID)
        /\ till'[c].amount = till[c].amount
    BY <1>1, <1>9 DEF ReadPool, RowsTyped, PoolTyped
  <2>3. StatusMatchesLedger' /\ PAID' = PAID
    BY <1>6, <1>9 DEF ReadPool
  <2>4. till'[c].remaining = PoolOf(c)'
    BY <2>1, <2>2, <2>3 DEF PoolOf
  <2>5. till'[c].remaining >= 0
    BY <1>1, <1>3, <2>2 DEF StatusMatchesLedger, PoolTyped
  <2> QED
    BY <2>1, <2>2, <2>3, <2>4, <2>5, OnlyPending
<1>10. ASSUME NEW c \in FinanceCall, ListFees(c) PROVE OrderInv' /\ LedgerInv'
  <2>1. held[c] = {} /\ \A d \in FinanceCall \ {c} : call'[d] \in {"IDLE", "DONE"}
    BY <1>1, <1>3, <1>5, <1>10 DEF ListFees, RowsTyped, OrderInv, Alone, Open
  <2>2. /\ call'[c] = "SETTLE" /\ held'[c] = held[c] /\ received' = received
        /\ till'[c].remaining = till[c].remaining /\ till'[c].amount = till[c].amount
        /\ till'[c].todo = FeesWith("PAYABLE")
    BY <1>1, <1>10 DEF ListFees, RowsTyped, PoolTyped
  <2>3. /\ StatusMatchesLedger' /\ PAID' = PAID
        /\ FeesWith("PAYABLE")' = FeesWith("PAYABLE")
    BY <1>6, <1>10 DEF ListFees
  <2>4. till[c].remaining = PoolOf(c) /\ till[c].remaining >= 0
    BY <1>3, <1>10 DEF ListFees, OrderInv, LedgerInv
  <2>5. till'[c].remaining = PoolOf(c)'
    BY <2>2, <2>3, <2>4 DEF PoolOf
  <2> QED
    BY <2>1, <2>2, <2>3, <2>4, <2>5, OnlyPending
<1>11. ASSUME NEW c \in FinanceCall, NEW f \in Fee, SettleFee(c, f) PROVE OrderInv' /\ LedgerInv'
  <2>1. /\ call[c] = "SETTLE" /\ f \in till[c].todo /\ till[c].remaining >= FeeMinor[f]
        /\ \A d \in FinanceCall \ {c} : call'[d] \in {"IDLE", "DONE"}
    BY <1>1, <1>5, <1>11 DEF SettleFee, Covered, Oldest, Open
  <2>2. /\ call'[c] = "SETTLE" /\ held'[c] = held[c] \cup {f} /\ received' = received
        /\ till'[c].remaining = till[c].remaining - FeeMinor[f]
        /\ till'[c].amount = till[c].amount /\ till'[c].todo = till[c].todo \ {f}
    BY <1>1, <1>11, <2>1 DEF SettleFee, RowsTyped, PoolTyped
  <2>3. /\ StatusMatchesLedger' /\ PAID' = PAID
        /\ FeesWith("PAYABLE")' = FeesWith("PAYABLE")
    BY <1>6, <1>11 DEF SettleFee
  <2>4. /\ till[c].remaining = PoolOf(c)
        /\ till[c].todo \cap held[c] = {} /\ till[c].todo \cup held[c] = FeesWith("PAYABLE")
    BY <1>3, <2>1 DEF OrderInv
  <2>5. f \notin PAID \cup held[c] /\ PAID \cup held[c] \in SUBSET Fee
    BY <1>1, <2>1, <2>4 DEF FeesWith
  <2>6. SumOfFees(PAID \cup held'[c]) = SumOfFees(PAID \cup held[c]) + FeeMinor[f]
    <3>1. PAID \cup held'[c] = (PAID \cup held[c]) \cup {f}
      BY <2>2
    <3> HIDE DEF PAID
    <3> QED
      BY <2>5, <3>1, FeesAddUp
  <2>7. SumOfFees(PAID \cup held[c]) \in Nat /\ FeeMinor[f] \in Nat
    BY <2>5, FeesAddUp DEF FinanceAssumption
  <2>8. till'[c].remaining = PoolOf(c)' /\ till'[c].remaining >= 0
    <3>1. received \in Int /\ till[c].amount \in Int /\ till[c].remaining \in Int
      BY <1>1 DEF PoolTyped
    <3>2. /\ PoolOf(c) = received + till[c].amount - SumOfFees(PAID \cup held[c])
          /\ PoolOf(c)' = received' + till'[c].amount - SumOfFees(PAID' \cup held'[c])
      BY DEF PoolOf
    <3>3. PoolOf(c)' = received + till[c].amount - SumOfFees(PAID \cup held'[c])
      BY <2>2, <2>3, <3>2
    <3> HIDE DEF PAID
    <3> QED
      BY <2>1, <2>2, <2>4, <2>6, <2>7, <3>1, <3>2, <3>3
  <2>9. till'[c].todo \cap held'[c] = {} /\ till'[c].todo \cup held'[c] = FeesWith("PAYABLE")'
    BY <2>1, <2>2, <2>3, <2>4
  <2> QED
    BY <2>1, <2>2, <2>3, <2>8, <2>9, OnlyPending
<1>12. ASSUME NEW c \in FinanceCall, CommitPayment(c) PROVE OrderInv' /\ LedgerInv'
  <2>1. call[c] = "SETTLE" /\ till[c].remaining = PoolOf(c) /\ till[c].remaining >= 0
    BY <1>3, <1>12 DEF CommitPayment, OrderInv, LedgerInv
  <2>2. /\ call'[c] = "DONE" /\ received' = received + till[c].amount /\ forgiven' = forgiven
        /\ \A d \in FinanceCall \ {c} : call'[d] \in {"IDLE", "DONE"}
    BY <1>1, <1>5, <1>12, FinishKeepsLocks DEF CommitPayment, Open
  <2>3. PAID' = PAID \cup held[c]
    BY <1>1, <1>12 DEF CommitPayment, WriteHeld, FeesWith, RowsTyped
  <2>4. \A f \in held[c] : forgiven[f] = 0
    <3>1. held[c] \subseteq FeesWith("PAYABLE")
      BY <1>3, <2>1 DEF OrderInv
    <3> QED
      BY <1>1, <3>1 DEF ForgivenOnce, FeesWith, RowsTyped
  <2>5. SumOfFees(PAID \cup held[c]) \in Nat
    BY <1>1, FeesAddUp DEF RowsTyped
  <2>6. StatusMatchesLedger'
    <3>1. SumOfFees(PAID') <= received'
      <4>1. received \in Int /\ till[c].amount \in Int
        BY <1>1 DEF PoolTyped
      <4>2. PoolOf(c) = received + till[c].amount - SumOfFees(PAID \cup held[c])
        BY DEF PoolOf
      <4>3. SumOfFees(PAID') = SumOfFees(PAID \cup held[c])
        BY <2>3
      <4> HIDE DEF PAID
      <4> QED
        BY <2>1, <2>2, <2>5, <4>1, <4>2, <4>3
    <3>2. \A f \in PAID' : forgiven'[f] = 0
      BY <1>3, <2>2, <2>3, <2>4 DEF StatusMatchesLedger
    <3> QED
      BY <3>1, <3>2 DEF StatusMatchesLedger
  <2> QED
    BY <2>2, <2>6, NothingPending
<1>13. ASSUME NEW c \in FinanceCall, NEW f \in Fee, LockFee(c, f) PROVE OrderInv' /\ LedgerInv'
  <2>1. call'[c] = "WAIVE" /\ \A d \in FinanceCall \ {c} : call'[d] \in {"IDLE", "DONE"}
    BY <1>1, <1>4, <1>13 DEF LockFee, RowsTyped
  <2>2. StatusMatchesLedger'
    BY <1>6, <1>13 DEF LockFee
  <2> QED
    BY <2>1, <2>2, NothingPending
\* A call that ends without a write leaves the others where they are.
<1>14. ASSUME NEW c \in FinanceCall, Finish(c), UNCHANGED <<feeStatus, received, forgiven>>
       PROVE  OrderInv' /\ LedgerInv'
  <2>1. /\ call'[c] = "DONE" /\ held'[c] = {}
        /\ \A d \in FinanceCall \ {c} : call'[d] = call[d] /\ held'[d] = held[d] /\ till'[d] = till[d]
    BY <1>1, <1>14, FinishKeepsLocks DEF Finish, PoolTyped
  <2>2. /\ StatusMatchesLedger' /\ PAID' = PAID
        /\ FeesWith("PAYABLE")' = FeesWith("PAYABLE")
    BY <1>6, <1>14
  <2>3. \A d \in FinanceCall \ {c} : PoolOf(d)' = PoolOf(d)
    BY <1>14, <2>1, <2>2 DEF PoolOf
  <2>4. Alone'
    BY <1>3, <2>1 DEF OrderInv, Alone, Open
  <2>5. \A d \in FinanceCall : call'[d] \in {"LIST", "SETTLE"} =>
          d # c /\ call[d] = call'[d]
    BY <2>1
  <2>6. OrderInv'
    BY <1>3, <2>1, <2>2, <2>3, <2>4, <2>5 DEF OrderInv
  <2>7. LedgerInv'
    BY <1>3, <2>1, <2>2, <2>5 DEF LedgerInv
  <2> QED
    BY <2>6, <2>7
<1>15. ASSUME NEW c \in FinanceCall, CommitWaiver(c) PROVE OrderInv' /\ LedgerInv'
  <2>1. \A f \in held[c] : feeStatus[f] = "PAYABLE"
    BY <1>1, <1>15 DEF CommitWaiver, LockInv
  <2>2. PAID' = PAID /\ received' = received /\ \A f \in PAID : forgiven'[f] = forgiven[f]
    BY <1>1, <1>15, <2>1 DEF CommitWaiver, WriteHeld, FeesWith, RowsTyped
  <2>3. StatusMatchesLedger'
    BY <1>3, <2>2 DEF StatusMatchesLedger
  <2>4. call'[c] = "DONE" /\ \A d \in FinanceCall \ {c} : call'[d] \in {"IDLE", "DONE"}
    BY <1>1, <1>5, <1>15, FinishKeepsLocks DEF CommitWaiver, Open
  <2> QED
    BY <2>3, <2>4, NothingPending
<1>16. CASE UNCHANGED financeVars
  BY <1>3, <1>16 DEF financeVars, OrderInv, LedgerInv, StatusMatchesLedger, PoolOf, FeesWith, Alone, Open
<1> HIDE DEF PAID
<1> QED
  BY <1>7, <1>8, <1>9, <1>10, <1>11, <1>12, <1>13, <1>14, <1>15, <1>16
  DEF FinanceNext, PaymentStep, FinanceCall, RefuseWaiver, LoseCall

LEMMA PaymentInvNext ==
  ASSUME FinanceAssumption, PaymentInv, [FinanceNext]_financeVars
  PROVE  PaymentInv'
<1>1. FinanceInv'
  BY FinanceInvNext DEF PaymentInv
<1>2. PoolTyped'
  BY PoolTypedNext DEF PaymentInv, FinanceInv
<1>3. ~overlapped' => OrderInv' /\ LedgerInv'
  BY OrderNext
<1> QED
  BY <1>1, <1>2, <1>3 DEF PaymentInv

\* What a payment leaves owed when it commits, having met no other call.
LEMMA CommitSettlesOldest ==
  ASSUME FinanceAssumption, PaymentInv, NEW c \in Payment, CommitPayment(c), ~overlapped,
         NEW f \in Fee,
         Oldest(f, {g \in Fee : feeStatus'[g] = "PAYABLE"})
  PROVE  FeeMinor[f] > received' - SumOfFees({g \in Fee : feeStatus'[g] = "PAID"})
<1>1. /\ call[c] = "SETTLE" /\ c \in FinanceCall /\ till[c].remaining = PoolOf(c)
      /\ till[c].todo \cap held[c] = {} /\ till[c].todo \cup held[c] = FeesWith("PAYABLE")
  BY DEF CommitPayment, FinanceCall, PaymentInv, OrderInv
<1>2. /\ received' = received + till[c].amount
      /\ feeStatus' = [g \in Fee |-> IF g \in held[c] THEN "PAID" ELSE feeStatus[g]]
  BY DEF CommitPayment, WriteHeld
<1>3. {g \in Fee : feeStatus'[g] = "PAYABLE"} = till[c].todo
  BY <1>1, <1>2 DEF FeesWith
<1>4. {g \in Fee : feeStatus'[g] = "PAID"} = FeesWith("PAID") \cup held[c]
  BY <1>1, <1>2 DEF FeesWith, PaymentInv, FinanceInv, RowsTyped
<1>5. ~(till[c].remaining >= FeeMinor[f])
  BY <1>3 DEF CommitPayment, Covered
<1>6. till[c].remaining \in Int /\ FeeMinor[f] \in Int
  BY <1>1 DEF PaymentInv, PoolTyped, FinanceAssumption
<1>7. till[c].remaining = received' - SumOfFees({g \in Fee : feeStatus'[g] = "PAID"})
  <2> DEFINE paid == {g \in Fee : feeStatus'[g] = "PAID"}
  <2>1. SumOfFees(paid) = SumOfFees(FeesWith("PAID") \cup held[c])
    BY <1>4
  <2> HIDE DEF paid
  <2>2. till[c].remaining = received' - SumOfFees(paid)
    <3>1. /\ received \in Int /\ till[c].amount \in Int
          /\ FeesWith("PAID") \cup held[c] \in SUBSET Fee
      BY <1>1 DEF PaymentInv, PoolTyped, FinanceInv, RowsTyped, FeesWith
    <3>2. SumOfFees(FeesWith("PAID") \cup held[c]) \in Int
      BY <3>1, FeesAddUp
    <3>3. till[c].remaining = received + till[c].amount - SumOfFees(FeesWith("PAID") \cup held[c])
      BY <1>1 DEF PoolOf
    <3>4. received' = received + till[c].amount
      BY <1>2
    <3> QED
      BY <2>1, <3>1, <3>2, <3>3, <3>4
  <2> QED
    BY <2>2 DEF paid
<1> QED
  BY <1>5, <1>6, <1>7

\* A payment that met no other call leaves no fee owed that the money received so far
\* could settle, for any number of fees of any amount (recordPayment).
THEOREM PaymentsSettleTheOldest == FinanceSpec => OldestFirst
<1>1. PaymentInv /\ [FinanceNext]_financeVars => PaymentInv'
  BY PaymentInvNext, FinanceAssumption
<1>2. PaymentInv => \A c \in Payment :
             LET owed == {f \in Fee : feeStatus'[f] = "PAYABLE"}
                 rest == received' - SumOfFees({f \in Fee : feeStatus'[f] = "PAID"})
             IN CommitPayment(c) /\ ~overlapped
                  => \A f \in owed : Oldest(f, owed) => FeeMinor[f] > rest
  BY CommitSettlesOldest, FinanceAssumption
<1> QED
  BY PaymentInvInit, FinanceAssumption, <1>1, <1>2, PTL DEF FinanceSpec, OldestFirst

\* As long as no two calls have met, what is marked PAID was paid and was not forgiven
\* as well: the service's claim fails only where FinanceRace shows it to fail.
THEOREM SerialLedgerMatches == FinanceSpec => [](~overlapped => StatusMatchesLedger)
<1>1. PaymentInv /\ [FinanceNext]_financeVars => PaymentInv'
  BY PaymentInvNext, FinanceAssumption
<1>2. PaymentInv => (~overlapped => StatusMatchesLedger)
  BY DEF PaymentInv, LedgerInv
<1> QED
  BY PaymentInvInit, FinanceAssumption, <1>1, <1>2, PTL DEF FinanceSpec

\* Every variable of the ledger stays in its type.
THEOREM FinanceTypesHold == FinanceSpec => []FinanceTypeOK
<1>1. PaymentInv /\ [FinanceNext]_financeVars => PaymentInv'
  BY PaymentInvNext, FinanceAssumption
<1>2. PaymentInv => FinanceTypeOK
  BY DEF PaymentInv, FinanceInv, RowsTyped, PoolTyped, FinanceTypeOK
<1> QED
  BY PaymentInvInit, FinanceAssumption, <1>1, <1>2, PTL DEF FinanceSpec
=============================================================================
