------------------------------- MODULE Opening -------------------------------
(***************************************************************************)
(* The form of dev-frontend that opens a Trove: component Opening.  The    *)
(* store goes on bringing other prices and borrowing rates while the user  *)
(* edits the collateral and the amount to borrow.  A commit and the effect *)
(* that fills in the minimum amount are one step.                          *)
(***************************************************************************)
EXTENDS TroveForms

VARIABLES
    price, rate,                \* what the store shows
    collateral, borrowAmount,   \* the edited amounts
    auto                        \* "Adjust automatically"

vars == <<price, rate, collateral, borrowAmount, auto>>

TypeOK ==
    /\ price \in Price
    /\ rate \in Rate
    /\ collateral \in Nat
    /\ borrowAmount \in Nat
    /\ auto \in BOOLEAN

Init ==
    /\ price \in Price
    /\ rate \in Rate
    /\ collateral = 0
    /\ borrowAmount = 0
    /\ auto = FALSE

------------------------------------------------------------------------------
Fee == Mul(borrowAmount, rate)
TotalDebt == borrowAmount + RESERVE + Fee
IsDirty == collateral # 0 \/ borrowAmount # 0
NewTrove == IF IsDirty THEN MakeTrove(collateral, TotalDebt) ELSE EmptyTrove

\* What a render computes and, if it is valid, the button offers a commit later
\* (useStableTroveChange(), as in Adjusting; it is not modelled here).
TroveChange == WhatChanged(EmptyTrove, NewTrove, rate)
ValidChange(selected, hasConnection) ==
    validateTroveChange(EmptyTrove, NewTrove, rate, selected, hasConnection)

\* Decimal.from(1.5)
AutoRatio == (3 * DIGITS) \div 2

\* The amounts are set, and the effect replaces nothing borrowed by the minimum.
Edit(newCollateral, newBorrowAmount) ==
    /\ collateral' = newCollateral
    /\ borrowAmount' = IF newCollateral # 0 /\ newBorrowAmount = 0
                       THEN MINIMUM_NET_DEBT ELSE newBorrowAmount
    /\ UNCHANGED <<price, rate, auto>>

\* Broken: the amount to borrow is not checked.
TypeCollateralUnchecked(amount) ==
    LET adjusts == auto /\ Div(Mul(amount, price), TotalDebt) < AutoRatio
        affordable == Div(Mul(amount, price), AutoRatio)
    IN  Edit(amount, IF adjusts THEN Div(affordable - RESERVE, rate + DIGITS) ELSE borrowAmount)

\* collateralHandler(amount).  Less than the reserve throws, after the
\* collateral was set.
TypeCollateral(amount) ==
    LET adjusts == auto /\ Div(Mul(amount, price), TotalDebt) < AutoRatio
        affordable == Div(Mul(amount, price), AutoRatio)
    IN  Edit(amount, IF adjusts /\ affordable >= RESERVE
                     THEN Div(affordable - RESERVE, rate + DIGITS) ELSE borrowAmount)

\* netDebtHandler(amount).
TypeBorrowAmount(amount) ==
    LET newTotalDebt == amount + RESERVE + Mul(amount, rate)
        adjusts == auto /\ Div(Mul(collateral, price), newTotalDebt) < AutoRatio
    IN  Edit(IF adjusts THEN Div(Mul(newTotalDebt, AutoRatio), price) ELSE collateral, amount)

ToggleAuto ==
    /\ auto' = ~auto
    /\ UNCHANGED <<price, rate, collateral, borrowAmount>>

Reset ==
    /\ IsDirty
    /\ Edit(0, 0)

StoreUpdate(newPrice, newRate) ==
    /\ price' = newPrice
    /\ rate' = newRate
    /\ UNCHANGED <<collateral, borrowAmount, auto>>

Next ==
    \/ \E amount \in Amount : TypeCollateral(amount) \/ TypeBorrowAmount(amount)
    \/ ToggleAuto
    \/ Reset
    \/ \E p \in Price, r \in Rate : StoreUpdate(p, r)

Spec == Init /\ [][Next]_vars

------------------------------------------------------------------------------
(* Properties.                                                             *)

\* Going from the amount to borrow to a total debt and back, rounding down and
\* then up, the change that a render computes borrows the amount on the form to
\* the unit, at any borrowing rate, and results in the total debt on the form.
OffersWhatIsShown ==
    IsDirty =>
        /\ TroveChange.type = "creation"
        /\ TroveChange.params.depositCollateral = collateral
        /\ TroveChange.params.borrowHCHF = borrowAmount
        /\ Apply(EmptyTrove, TroveChange, rate) = NewTrove

==============================================================================
