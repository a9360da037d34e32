-------------------------------- MODULE Trove --------------------------------
(***************************************************************************)
(* The arithmetic of lib-base: class Decimal, and class Trove with the     *)
(* changes that lead from one Trove to another.                            *)
(*                                                                         *)
(* A Decimal is the natural number it keeps in _bigNumber, the value times *)
(* DIGITS.  Decimals have no negative values: `sub` throws.  Its users     *)
(* compare first, and where one may not have, the operator here has a      *)
(* precondition that its caller's guard states.                            *)
(***************************************************************************)
EXTENDS Integers

CONSTANTS
    DIGITS,     \* 10^PRECISION
    INFINITY,   \* Decimal.INFINITY
    RESERVE     \* HCHF_LIQUIDATION_RESERVE

ASSUME DecimalAssumption ==
    /\ DIGITS \in Nat \ {0}
    /\ INFINITY \in Nat
    /\ RESERVE \in Nat \ {0}

------------------------------------------------------------------------------
(* Decimal.                                                                *)

Mul(a, b) == (a * b) \div DIGITS
Div(a, b) == IF b = 0 THEN INFINITY ELSE (a * DIGITS) \div b
DivCeil(a, b) == IF b = 0 THEN INFINITY ELSE (a * DIGITS + (b - 1)) \div b
MulDiv(a, b, c) == IF c = 0 THEN INFINITY ELSE (a * b) \div c

\* The debt a borrowed amount makes, fee included, and the amount to borrow for
\* a debt.
ApplyFee(rate, amount) == Mul(amount, DIGITS + rate)

\* Broken: the borrowed amount is rounded down.
UnapplyFeeFloor(rate, debt) == Div(debt, DIGITS + rate)

UnapplyFee(rate, debt) == DivCeil(debt, DIGITS + rate)

------------------------------------------------------------------------------
(* Trove: a record of its collateral and its debt.                         *)

MakeTrove(collateral, debt) == [collateral |-> collateral, debt |-> debt]
EmptyTrove == MakeTrove(0, 0)
IsEmpty(trove) == trove.collateral = 0 /\ trove.debt = 0

\* netDebt throws unless the debt has the reserve in it.
HasNetDebt(trove) == trove.debt >= RESERVE
NetDebt(trove) == trove.debt - RESERVE

CollateralRatio(trove, price) == MulDiv(trove.collateral, price, trove.debt)

\* The difference, or zero where it would be negative.
Less(a, b) == IF a > b THEN a - b ELSE 0

\* A change.  `params` is a function on the parameters the change has.
NoChange == [type |-> "none"]
InvalidCreation(trove) == [type |-> "invalidCreation", invalidTrove |-> trove]
Creation(params) == [type |-> "creation", params |-> params]
Closure(params) == [type |-> "closure", params |-> params]
Adjustment(params, setToZero) ==
    [type |-> "adjustment", params |-> params, setToZero |-> setToZero]

DebtChange(trove, that, rate) ==
    IF that.debt > trove.debt
    THEN [borrowHCHF |-> UnapplyFee(rate, that.debt - trove.debt)]
    ELSE [repayHCHF |-> trove.debt - that.debt]

CollateralChange(trove, that) ==
    IF that.collateral > trove.collateral
    THEN [depositCollateral |-> that.collateral - trove.collateral]
    ELSE [withdrawCollateral |-> trove.collateral - that.collateral]

\* { ...debt, ...collateral }
Both(debt, collateral) ==
    [key \in DOMAIN debt \cup DOMAIN collateral |->
        IF key \in DOMAIN collateral THEN collateral[key] ELSE debt[key]]

\* The value of a parameter, zero if the change does not have it.
Param(params, key) == IF key \in DOMAIN params THEN params[key] ELSE 0

\* trove.whatChanged(that, rate).  To close a trove, it needs HasNetDebt(trove).
WhatChanged(trove, that, rate) ==
    LET sameCollateral == trove.collateral = that.collateral
        sameDebt == trove.debt = that.debt
        debtChange == DebtChange(trove, that, rate)
        collateralChange == CollateralChange(trove, that)
        zeroed == IF that.debt = 0 /\ ~sameDebt THEN "debt"
                  ELSE IF that.collateral = 0 /\ ~sameCollateral THEN "collateral" ELSE "none"
    IN  CASE sameCollateral /\ sameDebt -> NoChange
          [] IsEmpty(trove) /\ ~IsEmpty(that) ->
                IF HasNetDebt(that)
                THEN Creation([depositCollateral |-> that.collateral,
                               borrowHCHF |-> UnapplyFee(rate, NetDebt(that))])
                ELSE InvalidCreation(that)
          [] ~IsEmpty(trove) /\ IsEmpty(that) ->
                Closure(IF NetDebt(trove) # 0
                        THEN [withdrawCollateral |-> trove.collateral, repayHCHF |-> NetDebt(trove)]
                        ELSE [withdrawCollateral |-> trove.collateral])
          [] OTHER ->
                Adjustment(IF sameCollateral THEN debtChange
                           ELSE IF sameDebt THEN collateralChange
                           ELSE Both(debtChange, collateralChange), zeroed)

\* trove.apply(change, rate).  Creating needs an empty trove, closing one that
\* is not.
Apply(trove, change, rate) ==
    LET deposit == Param(change.params, "depositCollateral")
        withdraw == Param(change.params, "withdrawCollateral")
        borrow == ApplyFee(rate, Param(change.params, "borrowHCHF"))
        repay == Param(change.params, "repayHCHF")
    IN  CASE change.type = "none" -> trove
          [] change.type = "invalidCreation" -> change.invalidTrove
          [] change.type = "creation" -> MakeTrove(deposit, RESERVE + borrow)
          [] change.type = "closure" -> EmptyTrove
          [] change.type = "adjustment" ->
                MakeTrove(IF change.setToZero = "collateral" THEN 0
                          ELSE Less(trove.collateral + deposit, withdraw),
                          IF change.setToZero = "debt" THEN 0
                          ELSE Less(trove.debt + borrow, repay))

==============================================================================
