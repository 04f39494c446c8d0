------------------------- MODULE BookingPriceProofs -------------------------
(***************************************************************************)
(* The price of a booking, for every party, table and fee: what a charge   *)
(* is worth before and after its fee, what a table adds up to, how a       *)
(* discount is spread, and what holds of the price and of the ledger while *)
(* the team and the webhooks work on both.                                 *)
(***************************************************************************)
EXTENDS BookingPrice, Fees, BookingLedgerProofs

-----------------------------------------------------------------------------
(* The two conversions of an amount (Fees).                                *)

LEMMA Quotient ==
  ASSUME NEW n \in Nat, NEW d \in Nat \ {0}
  PROVE  /\ n \div d \in Nat
         /\ (n \div d) * d <= n
         /\ n < (n \div d) * d + d
  BY SMT

LEMMA CeilBounds ==
  ASSUME NEW n \in Nat, NEW d \in Nat \ {0}
  PROVE  /\ Ceil(n, d) \in Nat
         /\ n <= Ceil(n, d) * d
         /\ Ceil(n, d) * d < n + d
<1> DEFINE q == (n + d - 1) \div d
<1>1. n + d - 1 \in Nat
  OBVIOUS
<1>2. q \in Nat /\ q * d <= n + d - 1 /\ n + d - 1 < q * d + d
  BY <1>1, Quotient
<1>3. q * d \in Nat
  BY <1>2
<1> HIDE DEF q
<1>4. n <= q * d /\ q * d < n + d
  BY <1>2, <1>3
<1> QED
  BY <1>2, <1>4 DEF Ceil, q

LEMMA RoundBounds ==
  ASSUME NEW n \in Nat, NEW d \in Nat \ {0}
  PROVE  /\ Round(n, d) \in Nat
         /\ 2 * d * Round(n, d) <= 2 * n + d
         /\ 2 * n - d < 2 * d * Round(n, d)
<1> DEFINE q == (2 * n + d) \div (2 * d)
<1>1. 2 * n + d \in Nat /\ 2 * d \in Nat \ {0}
  OBVIOUS
<1>2. q \in Nat /\ q * (2 * d) <= 2 * n + d /\ 2 * n + d < q * (2 * d) + 2 * d
  BY <1>1, Quotient
<1> HIDE DEF q
<1>3. q * (2 * d) = 2 * d * q /\ 2 * d * q \in Nat
  BY <1>2
<1> QED
  BY <1>2, <1>3 DEF Round, q

LEMMA ProductIsPositive ==
  ASSUME NEW a \in Nat \ {0}, NEW b \in Nat \ {0}
  PROVE  a * b \in Nat \ {0}
  BY SMT

LEMMA Cancel ==
  ASSUME NEW a \in Int, NEW b \in Int, NEW d \in Nat \ {0}, a * d < b * d
  PROVE  a < b
<1>1. SUFFICES ASSUME b <= a PROVE FALSE
  OBVIOUS
<1>2. (a - b) * d >= 0
  BY <1>1, SMT
<1>3. (a - b) * d = a * d - b * d
  BY SMT
<1> QED
  BY <1>2, <1>3

\* The parts of a fee that leaves something, and the two sides of the quotient
\* the gross amount is rounded up from.
LEMMA Parts ==
  ASSUME NEW net \in Nat, NEW fee \in Fee, Possible(fee), NEW g \in Int
  PROVE  LET t == Whole - fee.transaction
             a == Whole - fee.anticipation
             n == (net * Whole + fee.fixed * a) * Whole
         IN /\ t \in Nat \ {0} /\ a \in Nat \ {0} /\ t * a \in Nat \ {0}
            /\ t <= Whole /\ a <= Whole /\ n \in Nat
            /\ Left(g, fee) = g * (t * a) - fee.fixed * a * Whole
            /\ n = net * Whole * Whole + fee.fixed * a * Whole
<1> DEFINE t == Whole - fee.transaction
           a == Whole - fee.anticipation
           n == (net * Whole + fee.fixed * a) * Whole
<1>1. fee.transaction \in Nat /\ fee.fixed \in Nat /\ fee.anticipation \in Nat
      /\ Whole \in Nat \ {0}
  BY WholeAssumption DEF Fee
<1>2. t \in Nat \ {0} /\ a \in Nat \ {0} /\ t <= Whole /\ a <= Whole
  BY <1>1 DEF Possible
<1>3. t * a \in Nat \ {0}
  BY <1>2, ProductIsPositive
<1>4. Left(g, fee) = (g * t - fee.fixed * Whole) * a
  BY DEF Left
<1> HIDE DEF t, a
<1>5. (g * t - fee.fixed * Whole) * a = g * (t * a) - fee.fixed * a * Whole
  BY <1>1, <1>2, SMT
<1>6. n \in Nat /\ n = net * Whole * Whole + fee.fixed * a * Whole
  BY <1>1, <1>2, SMT
<1> QED
  BY <1>2, <1>3, <1>4, <1>5, <1>6 DEF t, a

LEMMA GrossBounds ==
  ASSUME NEW net \in Nat, NEW fee \in Fee, Possible(fee)
  PROVE  LET g == GrossUp(net, fee)
             t == Whole - fee.transaction
             a == Whole - fee.anticipation
         IN /\ g \in Nat
            /\ net * Whole * Whole <= Left(g, fee)
            /\ Left(g, fee) < net * Whole * Whole + t * a
<1> DEFINE g == GrossUp(net, fee)
           t == Whole - fee.transaction
           a == Whole - fee.anticipation
           n == (net * Whole + fee.fixed * a) * Whole
<1>1. t * a \in Nat \ {0} /\ n \in Nat
  BY Parts, 0 \in Int
<1>2. g = Ceil(n, t * a)
  BY DEF GrossUp
<1> HIDE DEF n
<1>3. g \in Nat /\ n <= g * (t * a) /\ g * (t * a) < n + t * a
  BY <1>1, <1>2, CeilBounds
<1>4. Left(g, fee) = g * (t * a) - fee.fixed * a * Whole
      /\ n = net * Whole * Whole + fee.fixed * a * Whole
  BY <1>3, Parts DEF n
<1> HIDE DEF g, t, a
<1> DEFINE x == g * (t * a)  y == fee.fixed * a * Whole  z == net * Whole * Whole
<1>5. x \in Int /\ y \in Int /\ z \in Int
  <2>1. fee.fixed \in Int /\ Whole \in Int /\ a \in Int
    BY WholeAssumption DEF Fee, a
  <2>2. fee.fixed * a \in Int /\ net * Whole \in Int
    BY <2>1
  <2> QED
    BY <1>1, <1>3, <2>1, <2>2
<1>6. n <= x /\ x < n + t * a /\ Left(g, fee) = x - y /\ n = z + y
  BY <1>3, <1>4
<1> HIDE DEF x, y, z
<1>7. z <= Left(g, fee) /\ Left(g, fee) < z + t * a
  BY <1>1, <1>5, <1>6
<1> QED
  BY <1>3, <1>7 DEF g, t, a, z

\* PG-04, "Arredondamento para cima: [...] a menos significa receber menos do que a
\* inscricao vale" (grossUp.ts): whatever the net amount and the fees, the gross
\* amount leaves at least the net one.
THEOREM GrossLeavesTheNet ==
  ASSUME NEW net \in Nat, NEW fee \in Fee, Possible(fee)
  PROVE  Leaves(GrossUp(net, fee), fee, net)
  BY GrossBounds DEF Leaves

\* And no more than it takes: any amount that leaves the net one is as large.
THEOREM GrossIsTheLeast ==
  ASSUME NEW net \in Nat, NEW fee \in Fee, Possible(fee),
         NEW gross \in Nat, Leaves(gross, fee, net)
  PROVE  GrossUp(net, fee) <= gross
<1> DEFINE g == GrossUp(net, fee)
           t == Whole - fee.transaction
           a == Whole - fee.anticipation
           d == t * a
           y == fee.fixed * a * Whole
           z == net * Whole * Whole
<1>1. g \in Nat /\ Left(g, fee) < z + d
  BY GrossBounds
<1>2. d \in Nat \ {0} /\ Left(g, fee) = g * d - y /\ Left(gross, fee) = gross * d - y
  BY <1>1, Parts
<1>3. z <= Left(gross, fee)
  BY DEF Leaves
<1>4. y \in Int /\ z \in Int
  <2>1. fee.fixed \in Int /\ Whole \in Int /\ a \in Int
    BY WholeAssumption DEF Fee
  <2>2. fee.fixed * a \in Int /\ net * Whole \in Int
    BY <2>1
  <2> QED
    BY <2>1, <2>2
<1> HIDE DEF g, d, y, z
<1>5. g * d < gross * d + d
  BY <1>1, <1>2, <1>3, <1>4
<1>6. gross * d + d = (gross + 1) * d
  BY <1>2, SMT
<1>7. g < gross + 1
  BY <1>1, <1>2, <1>5, <1>6, Cancel
<1> QED
  BY <1>1, <1>7 DEF g

LEMMA Scale ==
  ASSUME NEW x \in Int, NEW y \in Int, NEW c \in Nat \ {0}
  PROVE  /\ x <= y => x * c <= y * c
         /\ x < y => x * c < y * c
<1>1. (y - x) * c = y * c - x * c
  BY SMT
<1>2. ASSUME x <= y PROVE (y - x) * c >= 0
  BY <1>2, SMT
<1>3. ASSUME x < y PROVE (y - x) * c > 0
  BY <1>3, SMT
<1> QED
  BY <1>1, <1>2, <1>3

\* What is left of an amount after a rounded percentage, from both sides.
LEMMA AfterPercent ==
  ASSUME NEW x \in Nat, NEW p \in 0 .. Whole, NEW c \in Nat,
         NEW w, w = Whole
  PROVE  LET k == x - Round(x * p, w) - c
         IN /\ Round(x * p, w) \in Nat
            /\ 2 * (x * (w - p) - c * w) - w <= 2 * w * k
            /\ 2 * w * k < 2 * (x * (w - p) - c * w) + w
<1> DEFINE r == Round(x * p, w)
<1>1. p \in Nat /\ w \in Nat \ {0} /\ x * p \in Nat
  BY WholeAssumption
<1>2. r \in Nat /\ 2 * w * r <= 2 * (x * p) + w /\ 2 * (x * p) - w < 2 * w * r
  BY <1>1, RoundBounds
<1> HIDE DEF r
<1>3. 2 * w * (x - r - c) = 2 * w * x - 2 * w * r - 2 * (c * w)
  BY <1>1, <1>2, SMT
<1>4. 2 * (x * (w - p) - c * w) = 2 * w * x - 2 * (x * p) - 2 * (c * w)
  BY <1>1, SMT
<1> DEFINE wx == 2 * w * x  wr == 2 * w * r  cw == 2 * (c * w)  xp == 2 * (x * p)
<1>5. wx \in Int /\ wr \in Int /\ cw \in Int /\ xp \in Int
  BY <1>1, <1>2, SMT
<1>6. wr <= xp + w /\ xp - w < wr
  BY <1>2
<1> HIDE DEF wx, wr, cw, xp
<1>7. (wx - xp - cw) - w <= wx - wr - cw /\ wx - wr - cw < (wx - xp - cw) + w
  BY <1>1, <1>5, <1>6
<1> QED
  BY <1>2, <1>3, <1>4, <1>7 DEF r, wx, wr, cw, xp

\* The arithmetic of the round trip: p is what the transaction leaves of the gross
\* amount, l the same rounded, k what is left of l after the anticipation.
LEMMA WithinACent ==
  ASSUME NEW w \in Nat \ {0}, NEW t \in Nat \ {0}, NEW a \in Nat \ {0}, t <= w, a <= w,
         NEW n \in Nat, NEW p \in Int, NEW l \in Int,
         n * w * w <= p * a, p * a < n * w * w + t * a,
         2 * p - w <= 2 * w * l, 2 * w * l < 2 * p + w
  PROVE  /\ l <= 0 => n <= 1
         /\ \A k \in Int : 2 * (l * a) - w <= 2 * w * k /\ 2 * w * k < 2 * (l * a) + w
              => n - 1 <= k /\ k <= n + 1
<1> DEFINE s == w * w
<1>1. s \in Nat \ {0} /\ w * a \in Nat /\ w * a <= s /\ t * a \in Nat /\ t * a <= s
  <2>1. s \in Nat \ {0} /\ w * a \in Nat \ {0} /\ t * a \in Nat \ {0}
    BY ProductIsPositive
  <2>2. a * w <= w * w /\ t * a <= w * a
    BY Scale
  <2>3. a * w = w * a
    BY SMT
  <2> QED
    BY <2>1, <2>2, <2>3
<1>2. n * w * w = n * s /\ n * s \in Nat
  BY <1>1, SMT
<1>3. 2 * (p * a) - w * a <= 2 * w * l * a /\ 2 * w * l * a < 2 * (p * a) + w * a
  <2>1. 2 * p - w \in Int /\ 2 * w * l \in Int /\ 2 * p + w \in Int
    BY SMT
  <2>2. (2 * p - w) * a <= 2 * w * l * a /\ 2 * w * l * a < (2 * p + w) * a
    BY <2>1, Scale
  <2>3. (2 * p - w) * a = 2 * (p * a) - w * a /\ (2 * p + w) * a = 2 * (p * a) + w * a
    BY SMT
  <2> QED
    BY <2>2, <2>3
<1> DEFINE pa == p * a  wa == w * a  ta == t * a  x == 2 * w * l * a  ns == n * s
<1>4. pa \in Int /\ x \in Int
  BY SMT
<1>5. ns <= pa /\ pa < ns + ta /\ 2 * pa - wa <= x /\ x < 2 * pa + wa
  BY <1>2, <1>3
<1>6. ASSUME l <= 0 PROVE n <= 1
  <2>1. x <= 0
    <3>1. l * (2 * w * a) <= 0 * (2 * w * a)
      <4>1. 2 * w * a \in Nat \ {0}
        BY <1>1, ProductIsPositive, SMT
      <4> QED
        BY <1>6, <4>1, Scale
    <3>2. x = l * (2 * w * a) /\ 0 * (2 * w * a) = 0
      BY SMT
    <3> QED
      BY <3>1, <3>2
  <2> HIDE DEF s, pa, wa, ta, x, ns
  <2>2. 2 * ns <= s
    BY <1>1, <1>2, <1>4, <1>5, <2>1 DEF wa, ns
  <2>3. n * s < 2 * s
    BY <1>1, <1>2, <2>2 DEF ns
  <2> QED
    BY <1>1, <2>3, Cancel
<1>7. ASSUME NEW k \in Int, 2 * (l * a) - w <= 2 * w * k, 2 * w * k < 2 * (l * a) + w
      PROVE  n - 1 <= k /\ k <= n + 1
  <2>1. x - s <= 2 * (k * s) /\ 2 * (k * s) < x + s
    <3>1. 2 * (l * a) - w \in Int /\ 2 * w * k \in Int /\ 2 * (l * a) + w \in Int
      BY SMT
    <3>2. (2 * (l * a) - w) * w <= 2 * w * k * w /\ 2 * w * k * w < (2 * (l * a) + w) * w
      BY <1>7, <3>1, Scale
    <3>3. /\ (2 * (l * a) - w) * w = x - s
          /\ (2 * (l * a) + w) * w = x + s
          /\ 2 * w * k * w = 2 * (k * s)
      BY SMT
    <3> QED
      BY <3>2, <3>3
  <2> DEFINE ks == k * s
  <2>2. ks \in Int
    BY <1>1
  <2>3. x - s <= 2 * ks /\ 2 * ks < x + s
    BY <2>1
  <2> HIDE DEF s, pa, wa, ta, x, ns, ks
  <2>4. 2 * ns - 2 * s <= 2 * ks /\ 2 * ks < 2 * ns + 4 * s
    BY <1>1, <1>2, <1>4, <1>5, <2>2, <2>3 DEF wa, ta, ns
  <2>5. ns - 2 * s < ks /\ ks < ns + 2 * s
    BY <1>1, <1>2, <2>2, <2>4 DEF ns
  <2>6. ns - 2 * s = (n - 2) * s /\ ns + 2 * s = (n + 2) * s
    BY <1>1, SMT DEF ns
  <2>7. n - 2 < k /\ k < n + 2
    BY <1>1, <2>5, <2>6, Cancel DEF ks
  <2> QED
    BY <2>7
<1> QED
  BY <1>6, <1>7

\* PG-09 undoes PG-04 ("as bases sao as mesmas do gross-up", grossUp.ts): what a hand
\* registers of a payment of the gross amount is the net one, give or take a cent,
\* whatever the fees and however both sides round.
THEOREM RoundTrip ==
  ASSUME NEW net \in Nat, NEW fee \in Fee, Possible(fee)
  PROVE  LET left == NetOfFee(GrossUp(net, fee), fee)
         IN net - 1 <= left /\ left <= net + 1
<1> DEFINE g == GrossUp(net, fee)
           t == Whole - fee.transaction
           a == Whole - fee.anticipation
           r == Round(g * fee.transaction, Whole)
           l == g - r - fee.fixed
           c == Round(l * fee.anticipation, Whole)
           p == g * t - fee.fixed * Whole
<1>1. /\ g \in Nat
      /\ net * Whole * Whole <= Left(g, fee)
      /\ Left(g, fee) < net * Whole * Whole + t * a
  BY GrossBounds
<1>2. /\ t \in Nat \ {0} /\ a \in Nat \ {0} /\ t <= Whole /\ a <= Whole
      /\ Whole \in Nat \ {0} /\ fee.fixed \in Nat /\ fee.transaction \in 0 .. Whole
      /\ fee.anticipation \in 0 .. Whole
  BY <1>1, Parts, WholeAssumption DEF Fee, Possible
<1>3. Left(g, fee) = p * a
  BY DEF Left
<1>4. r \in Nat /\ 2 * p - Whole <= 2 * Whole * l /\ 2 * Whole * l < 2 * p + Whole
  BY <1>1, <1>2, AfterPercent
<1>5. NetOfFee(g, fee) = IF r + fee.fixed >= g \/ c >= g - (r + fee.fixed) THEN 0
                         ELSE g - (r + fee.fixed) - c
  <2>1. g - (r + fee.fixed) = l
    BY <1>1, <1>2, <1>4
  <2> QED
    BY <2>1 DEF NetOfFee
<1>6. p \in Int /\ l \in Int
  BY <1>1, <1>2, <1>4, SMT
<1> HIDE DEF g, t, a, r, p
<1>7. /\ l <= 0 => net <= 1
      /\ \A k \in Int : 2 * (l * a) - Whole <= 2 * Whole * k /\ 2 * Whole * k < 2 * (l * a) + Whole
              => net - 1 <= k /\ k <= net + 1
  BY <1>1, <1>2, <1>3, <1>4, <1>6, WithinACent
<1>8. CASE l <= 0
  BY <1>1, <1>2, <1>4, <1>5, <1>7, <1>8 DEF g
<1>9. CASE l > 0
  <2>1. l \in Nat
    BY <1>6, <1>9
  <2> HIDE DEF l
  <2> DEFINE k == l - c - 0
  <2>2. /\ c \in Nat
        /\ 2 * (l * (Whole - fee.anticipation) - 0 * Whole) - Whole <= 2 * Whole * k
        /\ 2 * Whole * k < 2 * (l * (Whole - fee.anticipation) - 0 * Whole) + Whole
    BY <1>2, <2>1, AfterPercent
  <2> HIDE DEF c
  <2>3. l * (Whole - fee.anticipation) - 0 * Whole = l * a
    BY <1>2, <2>1, SMT DEF a
  <2>4. k = l - c /\ k \in Int
    BY <2>1, <2>2
  <2>5. net - 1 <= k /\ k <= net + 1
    BY <1>7, <2>2, <2>3, <2>4
  <2>6. NetOfFee(g, fee) = IF c >= l THEN 0 ELSE l - c
    BY <1>1, <1>2, <1>4, <1>5, <1>9, <2>1, <2>2 DEF l
  <2> QED
    BY <2>1, <2>2, <2>4, <2>5, <2>6 DEF g
<1> QED
  BY <1>6, <1>8, <1>9

-----------------------------------------------------------------------------
(* The price and the ledger.                                               *)

LEMMA LedgerStepsAreItsOwn == ASSUME LedgerSteps PROVE Next
  BY DEF LedgerSteps, Next, Reads, Writes

\* A request on the price writes no column of the ledger.
LEMMA PriceStepsLeaveIt == ASSUME PriceSteps PROVE UNCHANGED vars
<1>1. CASE \E d \in Desks, order \in Orders : RestoreReads(d, order)
  BY <1>1 DEF RestoreReads
<1>2. CASE \E d \in Desks, order \in Orders, cut \in Cuts : DiscountReads(d, order, cut)
  BY <1>2 DEF DiscountReads
<1>3. CASE \E d \in Desks : DiscountWrites(d) \/ RestoreWrites(d) \/ QuoteDies(d)
  BY <1>3 DEF DiscountWrites, RestoreWrites, QuoteDies
<1>4. CASE AddPriceVersion
  BY <1>4 DEF AddPriceVersion
<1> QED
  BY <1>1, <1>2, <1>3, <1>4 DEF PriceSteps

\* Discounts, restores and new versions of the prices, begun, written or dead at
\* any point, leave the ledger free to do what it did without them and nothing
\* else: its theorems hold of the composition (BookingLedgerProofs).
THEOREM PriceKeepsTheLedger == PriceSpec => KeepsTheLedger
<1>1. PriceInit => Init
  BY DEF PriceInit
<1>2. [PriceNext]_allVars => [Next]_vars
  <2>1. CASE LedgerSteps
    BY <2>1, LedgerStepsAreItsOwn
  <2>2. CASE PriceSteps
    BY <2>2, PriceStepsLeaveIt
  <2>3. CASE UNCHANGED allVars
    BY <2>3 DEF allVars
  <2> QED
    BY <2>1, <2>2, <2>3 DEF PriceNext
<1> QED
  BY <1>1, <1>2, PTL DEF PriceSpec, KeepsTheLedger, Spec

-----------------------------------------------------------------------------
(* A discount (Pricing).                                                   *)

LEMMA TotalIsSum ==
  ASSUME NEW units
  PROVE  Total(units) = SumOver(units, DOMAIN units)
BY DEF Total, SumOver, MapThenSumSet, MapThenFoldSet

LEMMA TotalIsWhole ==
  ASSUME NEW D, IsFiniteSet(D), NEW units \in [D -> Nat]
  PROVE  Total(units) \in Nat /\ Total(units) = SumOver(units, D)
BY TotalIsSum, SumNat

LEMMA QuotientRest ==
  ASSUME NEW n \in Nat, NEW d \in Nat \ {0}
  PROVE  /\ n \div d \in Nat /\ n % d \in Nat /\ n % d < d
         /\ n = d * (n \div d) + (n % d)
  BY SMT

\* In the order the cents are given no two participants have the same place.
LEMMA FractionsOrder ==
  ASSUME NEW n \in Nat, NEW fraction \in [1 .. n -> Nat]
  PROVE  LET R == {x \in (1 .. n) \X (1 .. n) : ByFraction(fraction, x[1], x[2])}
         IN /\ \A j, i \in 1 .. n : <<j, i>> \in R <=> ByFraction(fraction, j, i)
            /\ \A i \in 1 .. n : <<i, i>> \notin R
            /\ \A i, j, k \in 1 .. n : <<i, j>> \in R /\ <<j, k>> \in R => <<i, k>> \in R
            /\ \A i, j \in 1 .. n : i # j => <<i, j>> \in R \/ <<j, i>> \in R
<1>. DEFINE R == {x \in (1 .. n) \X (1 .. n) : ByFraction(fraction, x[1], x[2])}
<1>1. \A j, i \in 1 .. n : <<j, i>> \in R <=> ByFraction(fraction, j, i)
  OBVIOUS
<1>. HIDE DEF R
<1>2. \A i \in 1 .. n : ~ByFraction(fraction, i, i)
  BY DEF ByFraction
<1>3. \A i, j, k \in 1 .. n :
        ByFraction(fraction, i, j) /\ ByFraction(fraction, j, k) => ByFraction(fraction, i, k)
  BY DEF ByFraction
<1>4. \A i, j \in 1 .. n : i # j => ByFraction(fraction, i, j) \/ ByFraction(fraction, j, i)
  BY DEF ByFraction
<1>5. /\ \A i \in 1 .. n : <<i, i>> \notin R
      /\ \A i, j, k \in 1 .. n : <<i, j>> \in R /\ <<j, k>> \in R => <<i, k>> \in R
      /\ \A i, j \in 1 .. n : i # j => <<i, j>> \in R \/ <<j, i>> \in R
  BY <1>1, <1>2, <1>3, <1>4
<1>. QED BY <1>1, <1>5 DEF R

\* The cents that are left are fewer than who has a fraction of one coming.
LEMMA RestIsSmall ==
  ASSUME NEW n \in Nat, NEW fraction \in [1 .. n -> Nat], NEW d \in Nat \ {0}, NEW rest \in Int,
         \A i \in 1 .. n : fraction[i] < d, SumOver(fraction, 1 .. n) = d * rest
  PROVE  /\ rest \in Nat
         /\ rest <= Cardinality({i \in 1 .. n : fraction[i] > 0})
<1>. DEFINE D == 1 .. n
            P == {i \in D : fraction[i] > 0}
            one == [i \in D |-> IF fraction[i] > 0 THEN d ELSE 0]
<1>1. IsFiniteSet(D) /\ IsFiniteSet(P) /\ P \in SUBSET D /\ Cardinality(P) \in Nat
  <2>1. IsFiniteSet(D)
    BY FS_Interval
  <2>. QED BY <2>1, FS_Subset, FS_CardinalityType
<1>2. SumOver(fraction, D) \in Nat
  BY <1>1, SumNat
<1>3. rest \in Nat
  <2>1. d * rest \in Nat
    BY <1>2
  <2>. QED BY <2>1, SMT
<1>4. SumOver(fraction, D) <= SumOver(one, D)
  <2>1. \A i \in D : fraction[i] \in Int /\ one[i] \in Int /\ fraction[i] <= one[i]
    OBVIOUS
  <2>. HIDE DEF D, one
  <2>. QED BY <1>1, <2>1, SumAtMost
<1>5. SumOver(one, D) = d * Cardinality(P)
  <2>1. \A i \in D : one[i] \in Int
    OBVIOUS
  <2>2. \A i \in P : one[i] = d
    OBVIOUS
  <2>3. \A i \in D \ P : one[i] = 0
    OBVIOUS
  <2>4. IsFiniteSet(D \ P)
    BY <1>1, FS_Subset
  <2>. HIDE DEF D, P, one
  <2>5. SumOver(one, D) = SumOver(one, P) + SumOver(one, D \ P)
    BY <1>1, <2>1, SumSplits
  <2>6. SumOver(one, D \ P) = 0
    BY <2>3, <2>4, SumZero
  <2>7. SumOver(one, P) = d * Cardinality(P)
    BY <1>1, <2>2, SumOfEqual
  <2>8. d * Cardinality(P) \in Int
    BY <1>1
  <2>. QED BY <2>5, <2>6, <2>7, <2>8
<1>6. d * rest <= d * Cardinality(P)
  BY <1>4, <1>5
<1>7. rest <= Cardinality(P)
  <2>. DEFINE k == Cardinality(P)
  <2>1. k \in Nat /\ d * rest <= d * k
    BY <1>1, <1>6
  <2>. HIDE DEF k
  <2>2. SUFFICES ASSUME k < rest PROVE FALSE
    BY <2>1, <1>3 DEF k
  <2>3. k * d < rest * d
    BY <2>1, <2>2, <1>3, SMT
  <2>4. k * d = d * k /\ rest * d = d * rest /\ d * k \in Int /\ d * rest \in Int
    BY <2>1, <1>3, SMT
  <2>. QED BY <2>1, <2>3, <2>4
<1>. QED BY <1>3, <1>7

LEMMA Distribute ==
  ASSUME NEW d \in Int, NEW t \in Int, NEW s \in Int
  PROVE  d * (t - s) = t * d - d * s /\ t * d \in Int /\ d * s \in Int
BY SMT

LEMMA TimesMore ==
  ASSUME NEW u \in Nat \ {0}, NEW t \in Nat, NEW d \in Nat, t < d
  PROVE  u * t < u * d
<1>. DEFINE m == d - t
<1>1. m \in Nat \ {0} /\ d = t + m
  OBVIOUS
<1>. HIDE DEF m
<1>2. u * m > 0 /\ u * m \in Int /\ u * t \in Int
  BY <1>1, SMT
<1>3. u * (t + m) = u * t + u * m
  BY <1>1, SMT
<1>. QED BY <1>1, <1>2, <1>3

LEMMA NothingShared ==
  ASSUME NEW d \in Nat \ {0}, NEW t \in Nat, NEW s \in Nat, NEW f \in Nat, 0 * t = d * s + f
  PROVE  s = 0 /\ f = 0
<1>1. 0 * t = 0 /\ d * s \in Nat
  BY SMT
<1>2. d * s = 0 /\ f = 0
  BY <1>1
<1>3. s # 0 => d * s # 0
  BY SMT
<1>. QED BY <1>2, <1>3

\* distributeDiscount, "a soma dos novos unitarios bate exatamente com o total
\* combinado": the prices stay whole, add up to what is left, and none is raised,
\* for any participants and any cut.
LEMMA DiscountSpreads ==
  ASSUME NEW n \in Nat, NEW units \in [1 .. n -> Nat], NEW cut \in Nat \ {0}, cut <= Total(units)
  PROVE  LET cheaper == DistributeDiscount(units, cut)
         IN /\ cheaper \in [1 .. n -> Nat]
            /\ Total(cheaper) = Total(units) - cut
            /\ \A i \in 1 .. n : cheaper[i] <= units[i]
<1>. DEFINE D == 1 .. n
            d == Total(units)
            t == d - cut
            share == [i \in DOMAIN units |-> (units[i] * t) \div d]
            fraction == [i \in DOMAIN units |-> (units[i] * t) % d]
            rest == t - Total(share)
            rank(i) == Cardinality({j \in DOMAIN units : ByFraction(fraction, j, i)})
            cheaper == DistributeDiscount(units, cut)
<1>0. DOMAIN units = D
  OBVIOUS
<1>1. IsFiniteSet(D) /\ Cardinality(D) = n
  <2>1. 1 \in Int /\ n \in Int
    OBVIOUS
  <2>2. IsFiniteSet(1 .. n) /\ Cardinality(1 .. n) = IF 1 > n THEN 0 ELSE n - 1 + 1
    BY <2>1, FS_Interval
  <2>. QED BY <2>2
<1>2. d \in Nat \ {0} /\ t \in Nat /\ t < d /\ d = SumOver(units, D)
  <2>1. Total(units) \in Nat /\ Total(units) = SumOver(units, D)
    BY <1>1, TotalIsWhole
  <2>. QED BY <2>1
<1>3. cheaper = IF t = 0 THEN [i \in DOMAIN units |-> 0]
                ELSE [i \in DOMAIN units |-> IF rank(i) < rest THEN share[i] + 1 ELSE share[i]]
  BY DEF DistributeDiscount
<1>. HIDE DEF d, t, cheaper
<1>4. CASE t = 0
  <2>1. cheaper = [i \in D |-> 0]
    BY <1>0, <1>3, <1>4
  <2>. HIDE DEF D
  <2>2. DOMAIN cheaper = D /\ \A i \in D : cheaper[i] = 0
    BY <2>1
  <2>3. Total(cheaper) = 0
    BY <1>1, <2>2, TotalIsSum, SumZero
  <2>. QED BY <2>1, <2>3, <1>0, <1>4 DEF cheaper, d, t, D
<1>5. CASE t # 0
  <2>1. ASSUME NEW i \in D
        PROVE  /\ share[i] \in Nat /\ fraction[i] \in Nat /\ fraction[i] < d
               /\ units[i] * t = d * share[i] + fraction[i]
    <3>1. units[i] * t \in Nat
      BY <1>2
    <3>. QED BY <1>2, <3>1, QuotientRest
  <2>2. share \in [D -> Nat] /\ fraction \in [D -> Nat]
    BY <2>1
  <2>. HIDE DEF share, fraction
  <2>3. SumOver(fraction, D) = d * rest
    <3>. DEFINE scaled == [i \in D |-> t * units[i]]
                whole == [i \in D |-> d * share[i]]
    <3>1. /\ \A i \in D : units[i] \in Int /\ scaled[i] = t * units[i]
          /\ \A i \in D : share[i] \in Int /\ whole[i] = d * share[i]
      BY <2>2
    <3>. HIDE DEF scaled, whole
    <3>2. \A i \in D : whole[i] \in Int /\ fraction[i] \in Int /\ scaled[i] = whole[i] + fraction[i]
      <4>. SUFFICES ASSUME NEW i \in D
                    PROVE  whole[i] \in Int /\ fraction[i] \in Int /\ scaled[i] = whole[i] + fraction[i]
        OBVIOUS
      <4>1. units[i] \in Nat
        OBVIOUS
      <4>. DEFINE u == units[i]
                  s == share[i]
                  f == fraction[i]
      <4>2. u \in Nat /\ s \in Nat /\ f \in Nat /\ u * t = d * s + f /\ whole[i] = d * s /\ scaled[i] = t * u
        BY <2>1, <3>1, <4>1
      <4>. HIDE DEF u, s
      <4>3. u * t = t * u /\ d * s \in Int
        BY <4>2, <1>2, SMT
      <4>. QED BY <4>2, <4>3
    <3>. HIDE DEF D
    <3>3. SumOver(scaled, D) = t * SumOver(units, D)
      BY <1>1, <1>2, <3>1, SumScales
    <3>4. SumOver(whole, D) = d * SumOver(share, D)
      BY <1>1, <1>2, <3>1, SumScales
    <3>5. SumOver(scaled, D) = SumOver(whole, D) + SumOver(fraction, D)
      BY <1>1, <3>2, SumAdds
    <3>6. Total(share) \in Nat /\ Total(share) = SumOver(share, D)
      BY <1>1, <2>2, TotalIsWhole
    <3>7. SumOver(fraction, D) \in Nat
      BY <1>1, <2>2, SumNat
    <3>. DEFINE s == Total(share)
    <3>8. s \in Nat /\ t * d = d * s + SumOver(fraction, D)
      BY <1>2, <3>3, <3>4, <3>5, <3>6
    <3>. HIDE DEF s
    <3>9. d * (t - s) = t * d - d * s /\ t * d \in Int /\ d * s \in Int
      BY <1>2, <3>8, Distribute
    <3>10. SumOver(fraction, D) = d * (t - s)
      BY <3>7, <3>8, <3>9
    <3>. QED BY <3>10 DEF s
  <2>4. Total(share) \in Nat /\ Total(share) = SumOver(share, D)
    BY <1>1, <2>2, TotalIsWhole
  <2>. DEFINE P == {i \in D : fraction[i] > 0}
  <2>5. rest \in Nat /\ rest <= Cardinality(P) /\ Cardinality(P) \in Nat /\ Cardinality(P) <= n
    <3>1. \A i \in D : fraction[i] < d
      BY <2>1
    <3>2. rest \in Int
      BY <1>2, <2>4
    <3>. HIDE DEF rest
    <3>3. rest \in Nat /\ rest <= Cardinality(P)
      BY <1>2, <2>2, <2>3, <3>1, <3>2, RestIsSmall
    <3>. HIDE DEF D
    <3>4. P \in SUBSET D
      OBVIOUS
    <3>. HIDE DEF P
    <3>5. Cardinality(P) \in Nat /\ Cardinality(P) <= n
      BY <1>1, <3>4, FS_Subset, FS_CardinalityType
    <3>. QED BY <3>3, <3>5
  <2>. DEFINE R == {x \in D \X D : ByFraction(fraction, x[1], x[2])}
  <2>6. /\ \A j, i \in D : <<j, i>> \in R <=> ByFraction(fraction, j, i)
        /\ \A i \in D : <<i, i>> \notin R
        /\ \A i, j, k \in D : <<i, j>> \in R /\ <<j, k>> \in R => <<i, k>> \in R
        /\ \A i, j \in D : i # j => <<i, j>> \in R \/ <<j, i>> \in R
    BY <2>2, FractionsOrder
  <2>. HIDE DEF R
  <2>7. /\ \A i \in D : Place(R, D)[i] \in Nat
        /\ \A k \in 0 .. n : Cardinality({i \in D : Place(R, D)[i] < k}) = k
    <3>. HIDE DEF D
    <3>. QED BY <1>1, <2>6, PlacesFill
  <2>8. \A i \in D : Place(R, D)[i] = rank(i)
    BY <1>0, <2>6 DEF Place
  <2>. HIDE DEF rank, rest
  <2>. DEFINE Gets == {i \in D : rank(i) < rest}
              extra == [i \in D |-> IF rank(i) < rest THEN 1 ELSE 0]
  <2>9. Cardinality(Gets) = rest
    <3>1. rest \in 0 .. n
      BY <2>5
    <3>2. Gets = {i \in D : Place(R, D)[i] < rest}
      BY <2>8
    <3>. QED BY <3>1, <3>2, <2>7
  <2>10. SumOver(extra, D) = rest
    <3>1. /\ \A i \in D : extra[i] \in Int
          /\ \A i \in Gets : extra[i] = 1
          /\ \A i \in D \ Gets : extra[i] = 0
      OBVIOUS
    <3>2. Gets \in SUBSET D /\ IsFiniteSet(Gets) /\ IsFiniteSet(D \ Gets)
      BY <1>1, FS_Subset
    <3>. HIDE DEF D, Gets, extra
    <3>3. SumOver(extra, D) = SumOver(extra, Gets) + SumOver(extra, D \ Gets)
      BY <1>1, <3>1, <3>2, SumSplits
    <3>4. SumOver(extra, Gets) = 1 * Cardinality(Gets)
      BY <3>1, <3>2, SumOfEqual
    <3>5. SumOver(extra, D \ Gets) = 0
      BY <3>1, <3>2, SumZero
    <3>. QED BY <3>3, <3>4, <3>5, <2>5, <2>9
  <2>11. /\ cheaper \in [D -> Nat]
         /\ \A i \in D : cheaper[i] = share[i] + extra[i] /\ extra[i] \in Nat
    BY <1>0, <1>3, <1>5, <2>2
  <2>12. Total(cheaper) = t
    <3>1. Total(cheaper) = SumOver(cheaper, D)
      BY <1>1, <2>11, TotalIsWhole
    <3>2. \A i \in D : share[i] \in Int /\ extra[i] \in Int /\ cheaper[i] = share[i] + extra[i]
      BY <2>2, <2>11
    <3>. HIDE DEF D, extra
    <3>3. SumOver(cheaper, D) = SumOver(share, D) + SumOver(extra, D)
      BY <1>1, <3>2, SumAdds
    <3>4. rest = t - Total(share)
      BY DEF rest
    <3>. QED BY <1>2, <2>4, <2>10, <3>1, <3>3, <3>4
  <2>13. ASSUME NEW i \in D PROVE cheaper[i] <= units[i]
    <3>1. CASE units[i] = 0
      <4>1. share[i] = 0 /\ fraction[i] = 0
        <5>1. 0 * t = d * share[i] + fraction[i] /\ share[i] \in Nat /\ fraction[i] \in Nat
          BY <3>1, <2>1
        <5>. QED BY <5>1, <1>2, NothingShared
      <4>2. rest <= rank(i)
        <5>. DEFINE B == {j \in DOMAIN units : ByFraction(fraction, j, i)}
        <5>1. P \in SUBSET B /\ B \in SUBSET D
          BY <1>0, <4>1, <2>2 DEF ByFraction
        <5>2. rank(i) = Cardinality(B)
          BY DEF rank
        <5>. HIDE DEF P, B, D
        <5>3. IsFiniteSet(B) /\ Cardinality(P) <= Cardinality(B) /\ Cardinality(B) \in Nat
          BY <1>1, <5>1, FS_Subset, FS_CardinalityType
        <5>. QED BY <2>5, <5>2, <5>3
      <4>3. extra[i] = 0
        <5>1. rank(i) \in Nat
          BY <2>7, <2>8
        <5>. QED BY <4>2, <5>1, <2>5
      <4>. QED BY <3>1, <4>1, <4>3, <2>11
    <3>2. CASE units[i] # 0
      <4>. DEFINE u == units[i]
                  s == share[i]
      <4>1. u \in Nat \ {0} /\ s \in Nat /\ d * s <= u * t
        <5>1. u \in Nat \ {0} /\ s \in Nat /\ fraction[i] \in Nat /\ u * t = d * s + fraction[i]
          BY <3>2, <2>1
        <5>2. d * s \in Nat
          BY <5>1, <1>2
        <5>. HIDE DEF u, s
        <5>. QED BY <5>1, <5>2
      <4>2. s < u
        <5>. HIDE DEF u, s
        <5>1. SUFFICES ASSUME u <= s PROVE FALSE
          BY <4>1
        <5>2. u * t < u * d
          BY <1>2, <4>1, TimesMore
        <5>3. d * u <= d * s
          BY <1>2, <4>1, <5>1, SMT
        <5>4. d * u = u * d /\ d * u \in Int /\ u * t \in Int /\ d * s \in Int
          BY <1>2, <4>1, SMT
        <5>. QED BY <4>1, <5>2, <5>3, <5>4
      <4>3. extra[i] \in {0, 1}
        OBVIOUS
      <4>4. cheaper[i] = s + extra[i]
        BY <2>11
      <4>. HIDE DEF u, s, extra
      <4>5. cheaper[i] <= u
        BY <4>1, <4>2, <4>3, <4>4
      <4>. QED BY <4>5 DEF u
    <3>. QED BY <3>1, <3>2
  <2>. QED BY <2>11, <2>12, <2>13 DEF cheaper, d, t
<1>. QED BY <1>2, <1>4, <1>5

-----------------------------------------------------------------------------
(* The table, and the order the participants are read in.                  *)

\* Every participant is read, once.
LEMMA OrderFills ==
  ASSUME NEW order \in Orders
  PROVE  LET n == Cardinality(Party) IN
         /\ n \in Nat /\ IsFiniteSet(1 .. n)
         /\ order \in [1 .. n -> Party] /\ DOMAIN order = 1 .. n
         /\ \A i, j \in 1 .. n : order[i] = order[j] => i = j
         /\ {order[i] : i \in 1 .. n} = Party
<1>. DEFINE n == Cardinality(Party)
            D == 1 .. n
<1>1. IsFiniteSet(Party) /\ n \in Nat
  BY PriceAssumption, FS_CardinalityType
<1>2. IsFiniteSet(D) /\ Cardinality(D) = n
  <2>1. 1 \in Int /\ n \in Int
    BY <1>1
  <2>2. IsFiniteSet(1 .. n) /\ Cardinality(1 .. n) = IF 1 > n THEN 0 ELSE n - 1 + 1
    BY <2>1, FS_Interval
  <2>. QED BY <1>1, <2>2
<1>3. order \in [D -> Party] /\ DOMAIN order = D /\ \A i, j \in D : order[i] = order[j] => i = j
  BY DEF Orders
<1>. HIDE DEF D
<1>4. order \in Injection(D, Party)
  BY <1>3 DEF Injection, IsInjective
<1>5. order \in Surjection(D, Party)
  BY <1>1, <1>2, <1>4, FS_Injection
<1>6. \A p \in Party : \E i \in D : order[i] = p
  BY <1>5 DEF Surjection
<1>7. {order[i] : i \in D} = Party
  BY <1>3, <1>6
<1>. QED BY <1>1, <1>2, <1>3, <1>7 DEF D

\* Neither way of the reading changes what the prices add up to.
LEMMA ReadingKeepsTotal ==
  ASSUME NEW order \in Orders, NEW f \in [Party -> Nat]
  PROVE  /\ Listed(f, order) \in [1 .. Cardinality(Party) -> Nat]
         /\ Total(Listed(f, order)) = Total(f) /\ Total(f) \in Nat
<1>. DEFINE n == Cardinality(Party)
            D == 1 .. n
            g == Listed(f, order)
<1>1. /\ IsFiniteSet(D) /\ order \in [D -> Party] /\ DOMAIN order = D
      /\ \A i, j \in D : order[i] = order[j] => i = j
      /\ {order[i] : i \in D} = Party
  BY OrderFills
<1>. HIDE DEF D
<1>2. g \in [D -> Nat] /\ \A i \in D : g[i] = f[order[i]] /\ f[order[i]] \in Int
  BY <1>1 DEF Listed
<1>. HIDE DEF g
<1>3. SumOver(g, D) = SumOver(f, {order[i] : i \in D})
  BY <1>1, <1>2, SumMoves
<1>4. Total(g) = SumOver(g, D)
  BY <1>1, <1>2, TotalIsWhole
<1>5. Total(f) = SumOver(f, Party) /\ Total(f) \in Nat
  BY PriceAssumption, TotalIsWhole
<1>. QED BY <1>1, <1>2, <1>3, <1>4, <1>5 DEF g, D

\* Who is called what does not matter to a total.
LEMMA RenamingKeepsTotal ==
  ASSUME NEW D, IsFiniteSet(D), NEW E, NEW h, \A x, y \in D : h[x] = h[y] => x = y,
         {h[x] : x \in D} = E,
         NEW f \in [E -> Nat], NEW units \in [D -> Nat], \A x \in D : units[x] = f[h[x]]
  PROVE  Total(units) = Total(f)
<1>1. \A x \in D : f[h[x]] \in Int
  OBVIOUS
<1>2. SumOver(units, D) = SumOver(f, {h[x] : x \in D})
  BY <1>1, SumMoves
<1>3. DOMAIN units = D /\ DOMAIN f = E
  OBVIOUS
<1>. QED BY <1>2, <1>3, TotalIsSum

ReadsAll(order, D) ==
  /\ IsFiniteSet(D) /\ order \in [D -> Party]
  /\ \A i, j \in D : order[i] = order[j] => i = j
  /\ {order[i] : i \in D} = Party

LEMMA WritesEach ==
  ASSUME NEW D, NEW order, ReadsAll(order, D), NEW units \in [D -> Nat]
  PROVE  /\ ByParticipant(units, order) \in [Party -> Nat]
         /\ \A i \in D : ByParticipant(units, order)[order[i]] = units[i]
         /\ Total(ByParticipant(units, order)) = Total(units)
<1>. DEFINE f == ByParticipant(units, order)
<1>1. /\ IsFiniteSet(D) /\ order \in [D -> Party]
      /\ \A i, j \in D : order[i] = order[j] => i = j
      /\ {order[i] : i \in D} = Party
  BY DEF ReadsAll
<1>2. ASSUME NEW i \in D
      PROVE  (CHOOSE j \in DOMAIN order : order[j] = order[i]) = i
  BY <1>1
<1>3. \A i \in D : order[i] \in Party /\ f[order[i]] = units[i]
  BY <1>1, <1>2 DEF ByParticipant
<1>4. \A p \in Party : \E i \in D : order[i] = p
  BY <1>1
<1>5. DOMAIN f = Party /\ f = [p \in Party |-> f[p]]
  BY DEF ByParticipant
<1>. HIDE DEF f
<1>6. \A p \in Party : f[p] \in Nat
  BY <1>3, <1>4
<1>7. f \in [Party -> Nat]
  BY <1>5, <1>6
<1>8. Total(units) = Total(f)
  BY <1>1, <1>3, <1>7, RenamingKeepsTotal
<1>. QED BY <1>3, <1>7, <1>8 DEF f

LEMMA WritingKeepsTotal ==
  ASSUME NEW order \in Orders, NEW units
  PROVE  units \in [1 .. Cardinality(Party) -> Nat] =>
           /\ ByParticipant(units, order) \in [Party -> Nat]
           /\ \A i \in 1 .. Cardinality(Party) : ByParticipant(units, order)[order[i]] = units[i]
           /\ Total(ByParticipant(units, order)) = Total(units)
<1>1. ReadsAll(order, 1 .. Cardinality(Party))
  BY OrderFills DEF ReadsAll
<1>2. ASSUME NEW D, ReadsAll(order, D)
      PROVE  units \in [D -> Nat] =>
               /\ ByParticipant(units, order) \in [Party -> Nat]
               /\ \A i \in D : ByParticipant(units, order)[order[i]] = units[i]
               /\ Total(ByParticipant(units, order)) = Total(units)
  BY <1>2, WritesEach
<1>. QED BY <1>1, <1>2

LEMMA CountsAgree ==
  ASSUME NEW order \in Orders, NEW band
  PROVE  Count(Listed(Band, order), band) = Count(Band, band)
<1>. DEFINE D == 1 .. Cardinality(Party)
            S == {i \in D : Band[order[i]] = band}
            T == {p \in Party : Band[p] = band}
<1>1. /\ IsFiniteSet(D) /\ order \in [D -> Party] /\ DOMAIN order = D
      /\ \A i, j \in D : order[i] = order[j] => i = j
      /\ {order[i] : i \in D} = Party
  BY OrderFills
<1>. HIDE DEF D
<1>2. IsFiniteSet(S)
  BY <1>1, FS_Subset
<1>3. DOMAIN Band = Party
  BY PriceAssumption
<1>4. Count(Listed(Band, order), band) = Cardinality(S) /\ Count(Band, band) = Cardinality(T)
  <2>1. {i \in DOMAIN Listed(Band, order) : Listed(Band, order)[i] = band} = S
    BY <1>1 DEF Listed
  <2>. QED BY <1>3, <2>1 DEF Count
<1>5. [i \in S |-> order[i]] \in Bijection(S, T)
  <2>. DEFINE g == [i \in S |-> order[i]]
  <2>1. g \in [S -> T]
    BY <1>1
  <2>2. \A i, j \in S : g[i] = g[j] => i = j
    BY <1>1
  <2>3. ASSUME NEW p \in T PROVE \E i \in S : g[i] = p
    <3>1. PICK i \in D : order[i] = p
      BY <1>1
    <3>. QED BY <3>1
  <2>. HIDE DEF g, S, T
  <2>4. DOMAIN g = S
    BY <2>1
  <2>. QED BY <2>1, <2>2, <2>3, <2>4 DEF g, Bijection, Injection, Surjection, IsInjective
<1>. HIDE DEF S, T
<1>6. ExistsBijection(S, T)
  BY <1>5 DEF ExistsBijection
<1>. QED BY <1>2, <1>4, <1>6, FS_Bijection


LEMMA WithoutCount ==
  ASSUME NEW A, IsFiniteSet(A), NEW B \in SUBSET A
  PROVE  /\ IsFiniteSet(B) /\ IsFiniteSet(A \ B)
         /\ Cardinality(A) \in Nat /\ Cardinality(B) \in Nat
         /\ Cardinality(A \ B) = Cardinality(A) - Cardinality(B)
<1>1. IsFiniteSet(B) /\ IsFiniteSet(A \ B)
  BY FS_Subset
<1>2. Cardinality(A \ B) = Cardinality(A) - Cardinality(A \cap B)
  BY <1>1, FS_Difference
<1>3. A \cap B = B
  OBVIOUS
<1>. QED BY <1>1, <1>2, <1>3, FS_CardinalityType

Ranked(place, A) ==
  /\ \A i \in A : place[i] \in Nat
  /\ \A k \in 0 .. Cardinality(A) : Cardinality({i \in A : place[i] < k}) = k

PayByPlace(u, A, place, couple, extra) ==
  \A i \in A : u[i] = IF place[i] = 0 THEN couple ELSE IF place[i] = 1 THEN 0 ELSE extra

\* The adults, by how many come before them: one pays the couple, one pays nothing,
\* the others pay as extras.
LEMMA AdultsAddUp ==
  ASSUME NEW A, IsFiniteSet(A), NEW place, NEW u, NEW couple \in Nat, NEW extra \in Nat,
         Cardinality(A) >= 2, Ranked(place, A), PayByPlace(u, A, place, couple, extra)
  PROVE  SumOver(u, A) = couple + (Cardinality(A) - 2) * extra
<1>. DEFINE B1 == {i \in A : place[i] < 1}
            B2 == {i \in A : place[i] < 2}
            a == Cardinality(A)
<1>0. /\ \A i \in A : place[i] \in Nat
      /\ \A k \in 0 .. a : Cardinality({i \in A : place[i] < k}) = k
      /\ \A i \in A : u[i] = IF place[i] = 0 THEN couple ELSE IF place[i] = 1 THEN 0 ELSE extra
  BY DEF Ranked, PayByPlace
<1>1. a \in Nat /\ a >= 2
  BY FS_CardinalityType
<1>2. Cardinality(B1) = 1 /\ Cardinality(B2) = 2
  BY <1>0, <1>1
<1>3. /\ \A i \in B1 : u[i] = couple
      /\ \A i \in B2 \ B1 : u[i] = 0
      /\ \A i \in A \ B2 : u[i] = extra
  BY <1>0
<1>4. B1 \in SUBSET B2 /\ B2 \in SUBSET A
  BY <1>0
<1>5. \A i \in A : u[i] \in Int
  BY <1>0
<1>. HIDE DEF B1, B2, a
<1>6. /\ IsFiniteSet(B2) /\ IsFiniteSet(A \ B2) /\ IsFiniteSet(B1) /\ IsFiniteSet(B2 \ B1)
      /\ Cardinality(A \ B2) = a - 2
  BY <1>1, <1>2, <1>4, WithoutCount DEF a
<1>7. SumOver(u, A) = SumOver(u, B2) + SumOver(u, A \ B2)
  BY <1>4, <1>5, SumSplits
<1>8. SumOver(u, B2) = SumOver(u, B1) + SumOver(u, B2 \ B1)
  <2>1. \A i \in B2 : u[i] \in Int
    BY <1>4, <1>5
  <2>. QED BY <1>4, <1>6, <2>1, SumSplits
<1>9. SumOver(u, B1) = couple * Cardinality(B1)
  BY <1>3, <1>6, SumOfEqual
<1>10. SumOver(u, B2 \ B1) = 0
  BY <1>3, <1>6, SumZero
<1>11. SumOver(u, A \ B2) = extra * Cardinality(A \ B2)
  BY <1>3, <1>6, SumOfEqual
<1>12. couple * 1 = couple /\ extra * (a - 2) = (a - 2) * extra /\ (a - 2) * extra \in Int
  BY <1>1, SMT
<1>. QED BY <1>1, <1>2, <1>6, <1>7, <1>8, <1>9, <1>10, <1>11, <1>12 DEF a


\* priceParticipants, "a soma dos unitarios e sempre o total": the prices of the
\* participants add up to calculateBookingTotal, for any participants in any order
\* and any table.
LEMMA TableAddsUp ==
  ASSUME NEW n \in Nat, NEW bands, NEW prices \in PriceTable
  PROVE  bands \in [1 .. n -> AgeBands] =>
           /\ PriceParticipants(bands, prices) \in [1 .. n -> Nat]
           /\ BookingTotal(bands, prices) \in Nat
           /\ Total(PriceParticipants(bands, prices)) = BookingTotal(bands, prices)
<1>. DEFINE D == 1 .. n
            A == {i \in D : bands[i] = "adult"}
            M == {i \in D : bands[i] = "child_mid"}
            Y == {i \in D : bands[i] = "child_young"}
            R == {x \in D \X D : x[1] < x[2]}
            place == Place(R, A)
            u == PriceParticipants(bands, prices)
            a == Cardinality(A)
<1>0. SUFFICES ASSUME bands \in [D -> AgeBands]
               PROVE  /\ u \in [D -> Nat] /\ BookingTotal(bands, prices) \in Nat
                      /\ Total(u) = BookingTotal(bands, prices)
  OBVIOUS
<1>1. IsFiniteSet(D)
  <2>1. 1 \in Int /\ n \in Int
    OBVIOUS
  <2>. QED BY <2>1, FS_Interval
<1>2. /\ Count(bands, "adult") = a /\ Count(bands, "child_mid") = Cardinality(M)
      /\ Count(bands, "child_young") = Cardinality(Y)
  BY <1>0 DEF Count
<1>3. /\ A \in SUBSET D /\ M \in SUBSET D \ A /\ Y = (D \ A) \ M
  BY <1>0 DEF AgeBands
<1>4. /\ prices.couple \in Nat /\ prices.solo \in Nat /\ prices.extra \in Nat
      /\ prices.mid \in Nat /\ prices.young \in Nat
  BY DEF PriceTable
<1>5. /\ \A i, j \in D : <<i, j>> \in R <=> i < j
      /\ \A i \in A : <<i, i>> \notin R
      /\ \A i, j, k \in A : <<i, j>> \in R /\ <<j, k>> \in R => <<i, k>> \in R
      /\ \A i, j \in A : i # j => <<i, j>> \in R \/ <<j, i>> \in R
  OBVIOUS
<1>6. \A i \in A : place[i] = Cardinality({j \in 1 .. i - 1 : bands[j] = "adult"})
  <2>1. ASSUME NEW i \in A
        PROVE  {j \in A : <<j, i>> \in R} = {j \in 1 .. i - 1 : bands[j] = "adult"}
    BY <1>0
  <2>. QED BY <2>1 DEF Place
<1>7. DOMAIN u = D /\ DOMAIN bands = D
  BY <1>0 DEF PriceParticipants
<1>8. /\ \A i \in M : u[i] = prices.mid
      /\ \A i \in Y : u[i] = prices.young
      /\ \A i \in A : u[i] = IF a = 1 THEN prices.solo
                             ELSE IF place[i] = 0 THEN prices.couple
                             ELSE IF place[i] = 1 THEN 0 ELSE prices.extra
  BY <1>0, <1>2, <1>6 DEF PriceParticipants
<1>. HIDE DEF u, R
<1>9. \A i \in D : u[i] \in Nat
  <2>1. D = A \cup M \cup Y
    BY <1>3
  <2>. HIDE DEF A, M, Y, D, place, a
  <2>. QED BY <1>4, <1>8, <2>1
<1>. HIDE DEF D, A, M, Y
<1>10. /\ IsFiniteSet(A) /\ IsFiniteSet(D \ A) /\ IsFiniteSet(M) /\ IsFiniteSet(Y)
       /\ a \in Nat /\ Cardinality(M) \in Nat /\ Cardinality(Y) \in Nat
  BY <1>1, <1>3, WithoutCount
<1>11. /\ \A i \in A : place[i] \in Nat
       /\ \A k \in 0 .. a : Cardinality({i \in A : place[i] < k}) = k
  BY <1>5, <1>10, PlacesFill
<1>. HIDE DEF place
<1>12. SumOver(u, A) = (IF a >= 2 THEN prices.couple ELSE IF a = 1 THEN prices.solo ELSE 0)
                       + (IF a > 2 THEN a - 2 ELSE 0) * prices.extra
  <2>1. CASE a >= 2
    <3>1. SumOver(u, A) = prices.couple + (a - 2) * prices.extra
      <4>1. \A i \in A : u[i] = IF place[i] = 0 THEN prices.couple
                                ELSE IF place[i] = 1 THEN 0 ELSE prices.extra
        BY <1>8, <2>1
      <4>. DEFINE couple == prices.couple
                  extra == prices.extra
      <4>2. couple \in Nat /\ extra \in Nat /\ Cardinality(A) >= 2
        BY <1>4, <2>1
      <4>3. Ranked(place, A) /\ PayByPlace(u, A, place, couple, extra)
        BY <1>11, <4>1 DEF Ranked, PayByPlace
      <4>. HIDE DEF couple, extra
      <4>4. SumOver(u, A) = couple + (Cardinality(A) - 2) * extra
        BY <1>10, <4>2, <4>3, AdultsAddUp
      <4>. QED BY <4>4 DEF couple, extra
    <3>2. (IF a > 2 THEN a - 2 ELSE 0) = a - 2
      BY <1>10, <2>1
    <3>. QED BY <2>1, <3>1, <3>2
  <2>2. CASE a = 1
    <3>1. \A i \in A : u[i] = prices.solo
      BY <1>8, <2>2
    <3>2. SumOver(u, A) = prices.solo * a
      BY <1>4, <1>10, <3>1, SumOfEqual
    <3>3. prices.solo * 1 = prices.solo /\ 0 * prices.extra = 0
      BY <1>4, SMT
    <3>. QED BY <1>4, <2>2, <3>2, <3>3
  <2>3. CASE a = 0
    <3>1. A = {}
      BY <1>10, <2>3, FS_EmptySet
    <3>2. SumOver(u, A) = 0
      BY <3>1, SumEmpty
    <3>3. 0 * prices.extra = 0
      BY <1>4, SMT
    <3>. QED BY <2>3, <3>2, <3>3
  <2>. HIDE DEF a
  <2>. QED BY <1>10, <2>1, <2>2, <2>3
<1>13. SumOver(u, M) = Cardinality(M) * prices.mid /\ SumOver(u, Y) = Cardinality(Y) * prices.young
  <2>1. SumOver(u, M) = prices.mid * Cardinality(M)
    BY <1>4, <1>8, <1>10, SumOfEqual
  <2>2. SumOver(u, Y) = prices.young * Cardinality(Y)
    BY <1>4, <1>8, <1>10, SumOfEqual
  <2>3. \A x, y \in Nat : x * y = y * x
    BY SMT
  <2>. QED BY <1>4, <1>10, <2>1, <2>2, <2>3
<1>14. SumOver(u, D) = SumOver(u, A) + SumOver(u, M) + SumOver(u, Y)
  <2>1. SumOver(u, D) = SumOver(u, A) + SumOver(u, D \ A)
    BY <1>1, <1>3, <1>9, SumSplits
  <2>2. SumOver(u, D \ A) = SumOver(u, M) + SumOver(u, Y)
    <3>1. \A i \in D \ A : u[i] \in Int
      BY <1>9
    <3>. QED BY <1>3, <1>10, <3>1, SumSplits
  <2>3. SumOver(u, A) \in Int /\ SumOver(u, M) \in Int /\ SumOver(u, Y) \in Int
    <3>1. \A i \in A : u[i] \in Int
      BY <1>3, <1>9
    <3>2. \A i \in M : u[i] \in Int
      BY <1>3, <1>9
    <3>3. \A i \in Y : u[i] \in Int
      BY <1>3, <1>9
    <3>4. SumOver(u, A) \in Int
      BY <1>10, <3>1, SumInt
    <3>5. SumOver(u, M) \in Int
      BY <1>10, <3>2, SumInt
    <3>6. SumOver(u, Y) \in Int
      BY <1>10, <3>3, SumInt
    <3>. QED BY <3>4, <3>5, <3>6
  <2>. QED BY <2>1, <2>2, <2>3
<1>15. u \in [D -> Nat]
  <2>1. u = [i \in D |-> u[i]]
    BY <1>0, <1>7 DEF u, PriceParticipants
  <2>. QED BY <1>9, <2>1
<1>16. Total(u) \in Nat /\ Total(u) = SumOver(u, D)
  BY <1>1, <1>15, TotalIsWhole
<1>17. Total(u) = BookingTotal(bands, prices)
  BY <1>2, <1>12, <1>13, <1>14, <1>16 DEF BookingTotal
<1>. QED BY <1>15, <1>16, <1>17 DEF u, D


-----------------------------------------------------------------------------
(* The invariant of the prices, with any number of requests at once.       *)

QuotesAddUp == \A d \in Desks : quote[d].at # "idle" => Total(quote[d].unit) = quote[d].total

PriceTypes ==
  /\ unit \in [Party -> Nat] /\ source \in {"auto", "override"}
  /\ version \in DOMAIN Tables
  /\ quote \in [Desks -> QuoteType] /\ cuts \in 0 .. MaxCuts
  /\ agreed \in Nat /\ first \in [Party -> Nat]

PriceInv == PriceTypes /\ UnitsAddUp /\ QuotesAddUp

LEMMA PricedIsTotal ==
  ASSUME NEW order \in Orders, NEW prices \in PriceTable
  PROVE  /\ Priced(order, prices) \in [Party -> Nat]
         /\ BookingTotal(Band, prices) \in Nat
         /\ Total(Priced(order, prices)) = BookingTotal(Band, prices)
<1>. DEFINE n == Cardinality(Party)
            bands == Listed(Band, order)
            units == PriceParticipants(bands, prices)
<1>1. n \in Nat /\ order \in [1 .. n -> Party] /\ DOMAIN order = 1 .. n
  BY OrderFills
<1>2. bands \in [1 .. n -> AgeBands]
  BY <1>1, PriceAssumption DEF Listed
<1>3. BookingTotal(bands, prices) = BookingTotal(Band, prices)
  BY CountsAgree DEF BookingTotal
<1>. HIDE DEF bands, n
<1>4. /\ units \in [1 .. n -> Nat] /\ BookingTotal(bands, prices) \in Nat
      /\ Total(units) = BookingTotal(bands, prices)
  BY <1>1, <1>2, TableAddsUp
<1>. HIDE DEF units
<1>5. ByParticipant(units, order) \in [Party -> Nat] /\ Total(ByParticipant(units, order)) = Total(units)
  BY <1>4, WritingKeepsTotal DEF n
<1>. QED BY <1>3, <1>4, <1>5 DEF Priced, units, bands

LEMMA TableApplies == ASSUME version \in DOMAIN Tables PROVE Table \in PriceTable
  BY PriceAssumption DEF Table

\* What the team asks for is a whole number of cents.
LEMMA CutsAreWhole ==
  ASSUME unit \in [Party -> Nat], NEW cut \in Cuts, Allowed(cut)
  PROVE  cut \in Nat \ {0} /\ cut <= Total(unit) /\ Total(unit) \in Nat
<1>1. Total(unit) \in Nat
  BY PriceAssumption, TotalIsWhole
<1>2. ASSUME NEW n \in Percents, cut = DiscountFromPercent(Contracted, n) PROVE cut \in Nat
  <2>1. n \in Nat
    BY PriceAssumption
  <2>2. Total(unit) * n \in Nat
    BY <1>1, <2>1, SMT
  <2>. QED BY <1>2, <2>2, QuotientRest DEF DiscountFromPercent, Contracted
<1>3. cut \in Nat
  BY <1>2, PriceAssumption DEF Cuts
<1>. QED BY <1>1, <1>3 DEF Allowed, Contracted

Cheaper(order, cut) == ByParticipant(DistributeDiscount(Listed(unit, order), cut), order)

LEMMA DiscountAddsUp ==
  ASSUME unit \in [Party -> Nat], NEW order \in Orders, NEW cut \in Cuts, Allowed(cut)
  PROVE  /\ Cheaper(order, cut) \in [Party -> Nat]
         /\ Total(Cheaper(order, cut)) = Contracted - cut /\ Contracted - cut \in Nat
         /\ \A p \in Party : Cheaper(order, cut)[p] <= unit[p]
<1>. DEFINE n == Cardinality(Party)
            units == Listed(unit, order)
            less == DistributeDiscount(units, cut)
            f == Cheaper(order, cut)
<1>1. cut \in Nat \ {0} /\ cut <= Total(unit) /\ Total(unit) \in Nat
  BY CutsAreWhole
<1>2. /\ n \in Nat /\ order \in [1 .. n -> Party] /\ DOMAIN order = 1 .. n
      /\ \A p \in Party : \E i \in 1 .. n : order[i] = p
  BY OrderFills
<1>3. units \in [1 .. n -> Nat] /\ Total(units) = Total(unit)
  BY ReadingKeepsTotal
<1>4. \A i \in 1 .. n : units[i] = unit[order[i]]
  BY <1>2 DEF Listed
<1>. HIDE DEF n, units
<1>5. /\ less \in [1 .. n -> Nat] /\ Total(less) = Total(units) - cut
      /\ \A i \in 1 .. n : less[i] <= units[i]
  BY <1>1, <1>2, <1>3, DiscountSpreads
<1>6. f = ByParticipant(less, order)
  BY DEF Cheaper, units
<1>. HIDE DEF less, f
<1>7. /\ f \in [Party -> Nat] /\ Total(f) = Total(less)
      /\ \A i \in 1 .. n : f[order[i]] = less[i]
  BY <1>5, <1>6, WritingKeepsTotal DEF n
<1>8. \A p \in Party : f[p] <= unit[p]
  <2>. SUFFICES ASSUME NEW p \in Party PROVE f[p] <= unit[p]
    OBVIOUS
  <2>1. PICK i \in 1 .. n : order[i] = p
    BY <1>2
  <2>. QED BY <1>4, <1>5, <1>7, <2>1
<1>. QED BY <1>1, <1>3, <1>5, <1>7, <1>8 DEF f, Contracted


LEMMA PriceStarts == ASSUME PriceInit PROVE PriceInv
<1>1. version \in DOMAIN Tables
  <2>1. Tables \in Seq(PriceTable) /\ Tables # <<>>
    BY PriceAssumption
  <2>2. Len(Tables) \in Nat /\ DOMAIN Tables = 1 .. Len(Tables) /\ Len(Tables) > 0
    BY <2>1
  <2>. QED BY <2>2 DEF PriceInit
<1>2. Table \in PriceTable /\ Roll \in Orders
  BY <1>1, TableApplies, PriceAssumption
<1>3. /\ unit \in [Party -> Nat] /\ agreed \in Nat /\ first \in [Party -> Nat]
      /\ Total(unit) = agreed
  BY <1>2, PricedIsTotal DEF PriceInit
<1>4. IdleQuote \in QuoteType
  BY DEF IdleQuote, QuoteType
<1>5. quote \in [Desks -> QuoteType] /\ QuotesAddUp
  BY <1>4 DEF PriceInit, QuotesAddUp, IdleQuote
<1>. QED BY <1>1, <1>3, <1>5, PriceAssumption
         DEF PriceInit, PriceInv, PriceTypes, UnitsAddUp, Contracted

\* A step of the ledger at most marks the requests it comes between as late.
LEMMA LateKeeps ==
  ASSUME PriceInv, Late, UNCHANGED <<price, version, cuts>>
  PROVE  PriceInv'
<1>1. \A d \in Desks : /\ quote'[d] \in QuoteType /\ quote'[d].at = quote[d].at
                       /\ quote'[d].unit = quote[d].unit /\ quote'[d].total = quote[d].total
  BY DEF Late, PriceInv, PriceTypes, QuoteType
<1>2. quote' \in [Desks -> QuoteType]
  BY <1>1 DEF Late
<1>3. QuotesAddUp'
  BY <1>1 DEF PriceInv, QuotesAddUp
<1>. QED BY <1>2, <1>3 DEF PriceInv, PriceTypes, UnitsAddUp, Contracted, price

LEMMA PriceStepKeeps ==
  ASSUME PriceInv, PriceSteps
  PROVE  PriceInv'
<1>. USE DEF PriceInv, PriceTypes
<1>1. ASSUME NEW d \in Desks, NEW order \in Orders, RestoreReads(d, order) PROVE PriceInv'
  <2>. DEFINE q == [at |-> "restores", unit |-> Priced(order, Table),
                    total |-> BookingTotal(Band, Table), late |-> FALSE]
  <2>1. quote' = [quote EXCEPT ![d] = q] /\ UNCHANGED <<price, version>> /\ cuts' = cuts + 1 /\ cuts < MaxCuts
    BY <1>1 DEF RestoreReads, AsksPrice
  <2>2. q \in QuoteType /\ Total(q.unit) = q.total
    BY TableApplies, PricedIsTotal DEF QuoteType
  <2>. HIDE DEF q
  <2>3. QuotesAddUp'
    BY <2>1, <2>2 DEF QuotesAddUp
  <2>4. cuts' \in 0 .. MaxCuts
    BY <2>1, PriceAssumption
  <2>. QED BY <2>1, <2>2, <2>3, <2>4 DEF UnitsAddUp, Contracted, price
<1>2. ASSUME NEW d \in Desks, NEW order \in Orders, NEW cut \in Cuts, DiscountReads(d, order, cut)
      PROVE  PriceInv'
  <2>. DEFINE q == [at |-> "discounts", unit |-> Cheaper(order, cut),
                    total |-> Contracted - cut, late |-> FALSE]
  <2>1. quote' = [quote EXCEPT ![d] = q] /\ UNCHANGED <<price, version>> /\ cuts' = cuts + 1 /\ cuts < MaxCuts
    BY <1>2 DEF DiscountReads, AsksPrice, Cheaper
  <2>2. q \in QuoteType /\ Total(q.unit) = q.total
    BY <1>2, DiscountAddsUp DEF QuoteType, DiscountReads
  <2>. HIDE DEF q
  <2>3. QuotesAddUp'
    BY <2>1, <2>2 DEF QuotesAddUp
  <2>4. cuts' \in 0 .. MaxCuts
    BY <2>1, PriceAssumption
  <2>. QED BY <2>1, <2>2, <2>3, <2>4 DEF UnitsAddUp, Contracted, price
<1>3. ASSUME NEW d \in Desks, DiscountWrites(d) \/ RestoreWrites(d) \/ QuoteDies(d)
      PROVE  PriceInv'
  <2>1. IdleQuote \in QuoteType /\ IdleQuote.at = "idle"
    BY DEF IdleQuote, QuoteType
  <2>2. quote[d].at # "idle" /\ quote' = [quote EXCEPT ![d] = IdleQuote] /\ UNCHANGED <<version, cuts>>
    BY <1>3 DEF DiscountWrites, RestoreWrites, QuoteDies
  <2>3. quote' \in [Desks -> QuoteType] /\ QuotesAddUp'
    BY <2>1, <2>2 DEF QuotesAddUp
  <2>4. /\ quote[d].unit \in [Party -> Nat] /\ quote[d].total \in Nat
        /\ Total(quote[d].unit) = quote[d].total
    BY <2>2 DEF QuotesAddUp, QuoteType
  <2>5. \/ unit' = quote[d].unit /\ agreed' = quote[d].total
        \/ unit' = unit /\ agreed' = agreed
    BY <1>3 DEF DiscountWrites, RestoreWrites, QuoteDies, price
  <2>6. unit' \in [Party -> Nat] /\ agreed' \in Nat /\ UnitsAddUp'
    BY <2>4, <2>5 DEF UnitsAddUp, Contracted
  <2>7. source' \in {"auto", "override"} /\ first' \in [Party -> Nat]
    BY <1>3, <2>4 DEF DiscountWrites, RestoreWrites, QuoteDies, price
  <2>. QED BY <2>2, <2>3, <2>6, <2>7
<1>4. CASE AddPriceVersion
  <2>1. UNCHANGED <<price, quote, cuts>> /\ version' = version + 1 /\ version < Len(Tables)
    BY <1>4 DEF AddPriceVersion
  <2>2. version' \in DOMAIN Tables
    <3>1. Len(Tables) \in Nat /\ DOMAIN Tables = 1 .. Len(Tables)
      BY PriceAssumption
    <3>. QED BY <2>1, <3>1
  <2>. QED BY <2>1, <2>2 DEF UnitsAddUp, Contracted, QuotesAddUp, price
<1>. QED BY <1>1, <1>2, <1>3, <1>4 DEF PriceSteps

LEMMA PriceNextKeeps ==
  ASSUME PriceInv, [PriceNext]_allVars
  PROVE  PriceInv'
<1>1. CASE UNCHANGED allVars
  BY <1>1 DEF allVars, priceVars, price, PriceInv, PriceTypes, UnitsAddUp, Contracted, QuotesAddUp
<1>. QED BY <1>1, LateKeeps, PriceStepKeeps DEF PriceNext

LEMMA PriceHolds == PriceSpec => []PriceInv
BY PriceStarts, PriceNextKeeps, PTL DEF PriceSpec

\* Prices are whole amounts that are never negative, and the ledger keeps its types
\* under them.
THEOREM PricesAreWhole == PriceSpec => []PriceTypeOK
<1>1. PriceSpec => []TypeOK
  BY PriceKeepsTheLedger, TypeCorrect, PTL DEF KeepsTheLedger
<1>2. TypeOK /\ PriceInv => PriceTypeOK
  BY DEF PriceInv, PriceTypes, PriceTypeOK
<1>. QED BY <1>1, <1>2, PriceHolds, PTL

\* Whatever the party, the table, the discounts and the order the participants were
\* read in, and with any number of requests at once, no cent is lost and none is
\* made: the prices add up to what was agreed.
THEOREM PricesAddUp == PriceSpec => []UnitsAddUp
<1>1. PriceInv => UnitsAddUp
  BY DEF PriceInv
<1>. QED BY <1>1, PriceHolds, PTL

-----------------------------------------------------------------------------
(* What needs one request on the price at a time: a discount is computed   *)
(* from what it read, and written whatever was written since.              *)

\* The team's requests on the price of one booking do not overlap.
OneQuote == \A d, e \in Desks : quote[d].at # "idle" /\ quote[e].at # "idle" => d = e

\* A discount on its way is below the table, and below what was received by no more
\* than what came in since.
QuoteInv ==
  \A d \in Desks : quote[d].at = "discounts" =>
    /\ \A p \in Party : quote[d].unit[p] <= first[p]
    /\ received <= quote[d].total \/ quote[d].late

CutInv == NobodyPaysMore /\ QuoteInv

LEMMA CutStarts == ASSUME PriceInit PROVE CutInv
<1>1. PriceInv
  BY PriceStarts
<1>2. unit = first /\ unit \in [Party -> Nat]
  BY <1>1 DEF PriceInit, PriceInv, PriceTypes
<1>3. \A p \in Party : unit[p] <= first[p]
  BY <1>2
<1>. QED BY <1>3 DEF PriceInit, CutInv, NobodyPaysMore, QuoteInv, IdleQuote

LEMMA CutNext ==
  ASSUME PriceInv, OneQuote, CutInv, [PriceNext]_allVars
  PROVE  CutInv'
<1>. USE DEF PriceInv, PriceTypes
<1>0. quote \in [Desks -> QuoteType] /\ QuoteInv /\ NobodyPaysMore
  BY DEF CutInv
<1>1. CASE UNCHANGED allVars
  BY <1>1 DEF allVars, vars, book, priceVars, price, CutInv, NobodyPaysMore, QuoteInv
<1>2. CASE LedgerSteps /\ Late /\ UNCHANGED <<price, version, cuts>>
  <2>1. ASSUME NEW d \in Desks, quote'[d].at = "discounts"
        PROVE  /\ \A p \in Party : quote'[d].unit[p] <= first'[p]
               /\ received' <= quote'[d].total \/ quote'[d].late
    <3>1. /\ quote'[d].at = quote[d].at /\ quote'[d].unit = quote[d].unit
          /\ quote'[d].total = quote[d].total /\ (quote[d].late => quote'[d].late)
          /\ (quote[d].at # "idle" /\ received' # received => quote'[d].late)
      BY <1>0, <1>2 DEF Late, QuoteType
    <3>. QED BY <1>0, <1>2, <2>1, <3>1 DEF QuoteInv, price
  <2>. QED BY <1>0, <1>2, <2>1 DEF CutInv, NobodyPaysMore, QuoteInv, price
<1>3. ASSUME PriceSteps PROVE received' = received
  BY <1>3, PriceStepsLeaveIt DEF vars, book
<1>4. ASSUME NEW d \in Desks, NEW order \in Orders, RestoreReads(d, order) PROVE CutInv'
  <2>1. received' = received
    BY <1>3, <1>4 DEF PriceSteps
  <2>2. UNCHANGED price /\ quote'[d].at = "restores" /\ \A e \in Desks \ {d} : quote'[e] = quote[e]
    BY <1>0, <1>4 DEF RestoreReads
  <2>. QED BY <1>0, <2>1, <2>2 DEF CutInv, NobodyPaysMore, QuoteInv, price
<1>5. ASSUME NEW d \in Desks, NEW order \in Orders, NEW cut \in Cuts, DiscountReads(d, order, cut)
      PROVE  CutInv'
  <2>1. received' = received
    BY <1>3, <1>5 DEF PriceSteps
  <2>2. /\ UNCHANGED price /\ \A e \in Desks \ {d} : quote'[e] = quote[e]
        /\ quote'[d].unit = Cheaper(order, cut) /\ quote'[d].total = Contracted - cut
        /\ Allowed(cut)
    BY <1>0, <1>5 DEF DiscountReads, Cheaper
  <2>3. /\ Cheaper(order, cut) \in [Party -> Nat] /\ Contracted - cut \in Nat
        /\ \A p \in Party : Cheaper(order, cut)[p] <= unit[p]
    BY <2>2, DiscountAddsUp
  <2>4. \A p \in Party : Cheaper(order, cut)[p] <= first[p]
    BY <1>0, <2>3 DEF NobodyPaysMore
  <2>5. received <= Contracted - cut
    BY <2>2 DEF Allowed
  <2>. QED BY <1>0, <2>1, <2>2, <2>4, <2>5 DEF CutInv, NobodyPaysMore, QuoteInv, price
<1>6. ASSUME NEW d \in Desks, DiscountWrites(d) \/ RestoreWrites(d) \/ QuoteDies(d)
      PROVE  CutInv'
  <2>1. quote[d].at # "idle" /\ quote' = [quote EXCEPT ![d] = IdleQuote]
    BY <1>6 DEF DiscountWrites, RestoreWrites, QuoteDies
  <2>2. \A e \in Desks : quote'[e].at = "idle"
    BY <1>0, <2>1 DEF OneQuote, IdleQuote
  <2>3. /\ quote[d].unit \in [Party -> Nat]
        /\ quote[d].at = "discounts" => \A p \in Party : quote[d].unit[p] <= first[p]
    BY <1>0 DEF QuoteInv, QuoteType
  <2>4. \/ DiscountWrites(d) /\ unit' = quote[d].unit /\ first' = first /\ quote[d].at = "discounts"
        \/ RestoreWrites(d) /\ unit' = quote[d].unit /\ first' = quote[d].unit
        \/ QuoteDies(d) /\ unit' = unit /\ first' = first
    BY <1>6 DEF DiscountWrites, RestoreWrites, QuoteDies, price
  <2>5. NobodyPaysMore'
    BY <1>0, <2>3, <2>4 DEF NobodyPaysMore
  <2>. QED BY <2>2, <2>5 DEF CutInv, QuoteInv
<1>7. CASE AddPriceVersion
  <2>1. received' = received
    BY <1>3, <1>7 DEF PriceSteps
  <2>. QED BY <1>0, <1>7, <2>1 DEF AddPriceVersion, CutInv, NobodyPaysMore, QuoteInv, price
<1>. QED BY <1>1, <1>2, <1>4, <1>5, <1>6, <1>7 DEF PriceNext, PriceSteps

LEMMA CutHolds == PriceSpec /\ []OneQuote => []CutInv
BY CutStarts, CutNext, PriceHolds, PTL DEF PriceSpec

\* Discounts and restores that follow each other, in any number, raise nobody above
\* the table and give no cent to who travels for nothing in it.
THEOREM NobodyIsRaised == PriceSpec /\ []OneQuote => []NobodyPaysMore
<1>1. CutInv => NobodyPaysMore
  BY DEF CutInv
<1>. QED BY <1>1, CutHolds, PTL

\* A discount of a booking that owed nothing leaves it owing nothing, with money
\* moving at any point between its check and its write.
THEOREM DiscountsLeaveNoDebt == PriceSpec /\ []OneQuote => DiscountsOweNothing
<1>. DEFINE Kept == \A d \in Desks :
                      quote[d].at = "discounts" /\ unit' # unit /\ received <= Contracted
                        => received' <= Total(unit') \/ quote[d].late
<1>1. ASSUME PriceInv, OneQuote, CutInv, [PriceNext]_allVars PROVE Kept
  <2>. SUFFICES ASSUME NEW d \in Desks, quote[d].at = "discounts", unit' # unit
                PROVE  received' <= Total(unit') \/ quote[d].late
    OBVIOUS
  <2>1. PriceSteps
    BY <1>1 DEF PriceNext, allVars, priceVars, price
  <2>2. PICK e \in Desks : DiscountWrites(e) \/ RestoreWrites(e)
    BY <2>1 DEF PriceSteps, RestoreReads, DiscountReads, QuoteDies, AddPriceVersion, price
  <2>3. e = d
    BY <1>1, <2>2 DEF OneQuote, DiscountWrites, RestoreWrites
  <2>4. unit' = quote[d].unit /\ Total(quote[d].unit) = quote[d].total
    BY <1>1, <2>2, <2>3 DEF DiscountWrites, RestoreWrites, PriceInv, QuotesAddUp
  <2>5. received' = received
    BY <2>1, PriceStepsLeaveIt DEF vars, book
  <2>. QED BY <1>1, <2>4, <2>5 DEF CutInv, QuoteInv
<1>2. PriceSpec /\ []OneQuote => [][Kept]_allVars
  BY <1>1, PriceHolds, CutHolds, PTL DEF PriceSpec
<1>. QED BY <1>2 DEF DiscountsOweNothing

=============================================================================
