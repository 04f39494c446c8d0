-------------------------------- MODULE Fees --------------------------------
(***************************************************************************)
(* The fees of the payment provider: what a customer pays so that the net  *)
(* amount is left, and what is left of what a customer paid.               *)
(*                                                                         *)
(* A percentage is a whole number of basis points.  Amounts are in cents   *)
(* and exact before they are rounded; the code computes in floating point. *)
(***************************************************************************)
EXTENDS Integers

CONSTANT Whole  \* the basis points of 100%: 10 000 in the code

ASSUME WholeAssumption == Whole \in Nat \ {0}

\* Two percentages on two bases: the transaction on what is paid, the
\* anticipation on what the transaction leaves.
Fee == [transaction : 0 .. Whole, fixed : Nat, anticipation : Nat]

\* Math.ceil and Math.round of a quotient.
Ceil(n, d) == (n + d - 1) \div d
Round(n, d) == (2 * n + d) \div (2 * d)

\* effectiveFee: the anticipation of a card is interest by the month, on the mean
\* time its parcels wait: (installments + 1) / 2 cycles of so many days.
Anticipation(monthly, cycleDays, installments) ==
  Round(monthly * (installments + 1) * cycleDays, 60)

EffectiveFee(quote, card, billing, installments) ==
  [transaction |-> quote.percent, fixed |-> quote.fixed,
   anticipation |-> IF billing = "CREDIT_CARD"
                    THEN Anticipation(card.monthly, card.cycleDays, installments) ELSE 0]

\* A fee that takes everything has no gross amount: ImpossibleFeeError.
Possible(fee) == fee.transaction < Whole /\ fee.anticipation < Whole

\* grossUpAmount: (net / (1 - anticipation) + fixed) / (1 - transaction), up.
GrossUp(net, fee) ==
  Ceil((net * Whole + fee.fixed * (Whole - fee.anticipation)) * Whole,
       (Whole - fee.transaction) * (Whole - fee.anticipation))

\* netOfFee: each fee is rounded, and nothing is owed to the provider.
NetOfFee(paid, fee) ==
  LET taken == Round(paid * fee.transaction, Whole) + fee.fixed
      left == paid - taken
      cost == Round(left * fee.anticipation, Whole)
  IN IF taken >= paid \/ cost >= left THEN 0 ELSE left - cost

-----------------------------------------------------------------------------

\* What the provider leaves of a gross amount, times Whole * Whole: the formula the
\* code gives, (gross * (1 - transaction) - fixed) * (1 - anticipation).
Left(gross, fee) ==
  (gross * (Whole - fee.transaction) - fee.fixed * Whole) * (Whole - fee.anticipation)

Leaves(gross, fee, net) == Left(gross, fee) >= net * Whole * Whole
=============================================================================
