-------------------------------- MODULE Fees --------------------------------
(***************************************************************************)
(* Class Fees of lib-base: the rates of borrowing and redeeming, which     *)
(* follow from the base rate and decay with the minutes since the last     *)
(* operation that had a fee.                                               *)
(***************************************************************************)
EXTENDS Trove

CONSTANTS
    MINIMUM_BORROWING_RATE,
    MAXIMUM_BORROWING_RATE,
    MINIMUM_REDEMPTION_RATE,
    minuteDecayFactor,
    beta,
    MINUTE          \* clock ticks of a minute

ASSUME FeesAssumption ==
    /\ {MINIMUM_BORROWING_RATE, MAXIMUM_BORROWING_RATE, MINIMUM_REDEMPTION_RATE} \subseteq 0 .. DIGITS
    /\ minuteDecayFactor \in 0 .. DIGITS - 1
    /\ {beta, MINUTE} \subseteq Nat \ {0}

Least(a, b) == IF a <= b THEN a ELSE b
Most(a, b) == IF a >= b THEN a ELSE b

\* Decimal.pow(): by squaring, each product rounded to the nearest digit.
roundedMul(x, y) == (x * y + DIGITS \div 2) \div DIGITS
square[exponent \in Nat] == [x \in Nat |-> [y \in Nat |->
    IF exponent <= 1 THEN roundedMul(x, y)
    ELSE square[exponent \div 2][roundedMul(x, x)][IF exponent % 2 = 1 THEN roundedMul(x, y) ELSE y]]]
pow(x, exponent) == IF exponent = 0 THEN DIGITS ELSE square[exponent][x][DIGITS]

\* The arguments of the constructor that differ from one Fees to another.
MakeFees(baseRateWithoutDecay, lastFeeOperation, timeOfLatestBlock, recoveryMode) ==
    [baseRateWithoutDecay |-> baseRateWithoutDecay, lastFeeOperation |-> lastFeeOperation,
     timeOfLatestBlock |-> timeOfLatestBlock, recoveryMode |-> recoveryMode]

\* A clock that is behind counts as no time elapsed.
baseRate(fees) ==
    LET elapsed == Most(fees.timeOfLatestBlock - fees.lastFeeOperation, 0)
    IN  Mul(pow(minuteDecayFactor, elapsed \div MINUTE), fees.baseRateWithoutDecay)

borrowingRate(fees) ==
    IF fees.recoveryMode THEN 0
    ELSE Least(MINIMUM_BORROWING_RATE + baseRate(fees), MAXIMUM_BORROWING_RATE)

redemptionRate(fees, redeemedFractionOfSupply) ==
    Least(MINIMUM_REDEMPTION_RATE + Div(redeemedFractionOfSupply, beta) + baseRate(fees), DIGITS)
=============================================================================
