-------------------------------- MODULE Totals --------------------------------
(***************************************************************************)
(* Running totals of signed quantities, the sum(...) of the code, and an   *)
(* amount of money divided in proportion to quantities.                    *)
(***************************************************************************)
EXTENDS Integers, Sequences

\* sum(quantities): the total of a sequence, from the first to the last.
Total(d) ==
  LET running[k \in 0..Len(d)] == IF k = 0 THEN 0 ELSE running[k - 1] + d[k]
  IN running[Len(d)]

QuantitiesOf(ls) == [k \in DOMAIN ls |-> ls[k].quantity]

SumQuantities(ls) == Total(QuantitiesOf(ls))

-----------------------------------------------------------------------------
\* Decimal.quantize to cents, half to even.
Rounded(n, d) ==
  LET up == (2 * n + d) \div (2 * d)
  IN IF (2 * n + d) % (2 * d) = 0 /\ up % 2 = 1 THEN up - 1 ELSE up

\* Mutation of BasisShares: fractions of a cent are cut off.
BasisSharesCutOff(parts, basis) ==
  LET share == [k \in DOMAIN parts |-> (basis * parts[k].quantity) \div SumQuantities(parts)]
      given == Total([k \in 1 .. Len(parts) - 1 |-> share[k]])
  IN [k \in DOMAIN parts |-> IF k < Len(parts) THEN share[k] ELSE basis - given]

\* apply_realized_basis: in proportion, and what remains to the last.
BasisShares(parts, basis) ==
  LET share == [k \in DOMAIN parts |-> Rounded(basis * parts[k].quantity, SumQuantities(parts))]
      given == Total([k \in 1 .. Len(parts) - 1 |-> share[k]])
  IN [k \in DOMAIN parts |-> IF k < Len(parts) THEN share[k] ELSE basis - given]
=============================================================================
