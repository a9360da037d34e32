----------------------------- MODULE TroveForms ------------------------------
(***************************************************************************)
(* What the forms that open, adjust and close a Trove have in common: the  *)
(* values of the store they work on, and validateTroveChange(), which      *)
(* decides whether a form offers its change.                               *)
(*                                                                         *)
(* The last part is external: what the contract asks of a change.          *)
(***************************************************************************)
EXTENDS Trove

CONSTANTS
    Amount,             \* amounts the user may type
    OpenTrove,          \* values of the user's Trove while it is open
    Price,              \* prices of the collateral
    Rate,               \* borrowing rates
    MINIMUM_NET_DEBT,   \* HCHF_MINIMUM_NET_DEBT
    MCR, CCR            \* MINIMUM_ and CRITICAL_COLLATERAL_RATIO

ASSUME FormsAssumption ==
    /\ Amount \subseteq Nat
    /\ OpenTrove \subseteq {t \in [collateral : Nat, debt : Nat] : HasNetDebt(t)}
    /\ Price \subseteq Nat \ {0}
    /\ Rate \subseteq 0..DIGITS
    /\ MINIMUM_NET_DEBT \in Nat \ {0}
    /\ MCR \in Nat /\ CCR \in Nat /\ MCR <= CCR

------------------------------------------------------------------------------
(* Trove.                                                                  *)

\* HCHF_MINIMUM_DEBT
MINIMUM_DEBT == MINIMUM_NET_DEBT + RESERVE

Add(trove, that) == MakeTrove(trove.collateral + that.collateral, trove.debt + that.debt)
Subtract(trove, that) == MakeTrove(Less(trove.collateral, that.collateral), Less(trove.debt, that.debt))

CollateralRatioIsBelowMinimum(trove, price) == CollateralRatio(trove, price) < MCR
CollateralRatioIsBelowCritical(trove, price) == CollateralRatio(trove, price) < CCR
IsOpenableInRecoveryMode(trove, price) == CollateralRatio(trove, price) >= CCR

------------------------------------------------------------------------------
(* Validation.  A context is what selectForTroveChangeValidation() selects *)
(* of the store, and what validateTroveChange() adds to it.  The operators *)
(* say whether there is no error to describe.                              *)

ValidCreation(params, c) ==
    /\ params.borrowHCHF >= MINIMUM_NET_DEBT
    /\ IF c.recoveryMode
       THEN IsOpenableInRecoveryMode(c.resultingTrove, c.price)
       ELSE ~CollateralRatioIsBelowMinimum(c.resultingTrove, c.price) /\ ~c.wouldTriggerRecoveryMode
    /\ c.hasConnection
    /\ params.depositCollateral <= c.accountBalance

\* Broken: in recovery mode a debt is borrowed whatever becomes of the ratio.
ValidAdjustmentUnguarded(params, c) ==
    /\ IF c.recoveryMode
       THEN Param(params, "withdrawCollateral") = 0
       ELSE ~CollateralRatioIsBelowMinimum(c.resultingTrove, c.price) /\ ~c.wouldTriggerRecoveryMode
    /\ Param(params, "repayHCHF") # 0 =>
         /\ c.resultingTrove.debt >= MINIMUM_DEBT
         /\ params.repayHCHF <= c.hchfBalance
    /\ Param(params, "depositCollateral") <= c.accountBalance

ValidAdjustment(params, c) ==
    /\ IF c.recoveryMode
       THEN /\ Param(params, "withdrawCollateral") = 0
            /\ Param(params, "borrowHCHF") # 0 =>
                 /\ ~CollateralRatioIsBelowCritical(c.resultingTrove, c.price)
                 /\ CollateralRatio(c.resultingTrove, c.price) >= CollateralRatio(c.originalTrove, c.price)
       ELSE ~CollateralRatioIsBelowMinimum(c.resultingTrove, c.price) /\ ~c.wouldTriggerRecoveryMode
    /\ Param(params, "repayHCHF") # 0 =>
         /\ c.resultingTrove.debt >= MINIMUM_DEBT
         /\ params.repayHCHF <= c.hchfBalance
    /\ Param(params, "depositCollateral") <= c.accountBalance

ValidClosure(params, c) ==
    /\ c.numberOfTroves # 1
    /\ ~c.recoveryMode
    /\ Param(params, "repayHCHF") <= c.hchfBalance
    /\ ~c.wouldTriggerRecoveryMode

\* The change if it is valid with the Trove it results in, and no change if not.
Validated(change, original, result, selected, hasConnection) ==
    LET after == Add(Subtract(selected.total, original), result)
        c == [price |-> selected.price, accountBalance |-> selected.accountBalance,
              hchfBalance |-> selected.hchfBalance, numberOfTroves |-> selected.numberOfTroves,
              hasConnection |-> hasConnection, originalTrove |-> original, resultingTrove |-> result,
              recoveryMode |-> CollateralRatioIsBelowCritical(selected.total, selected.price),
              wouldTriggerRecoveryMode |-> CollateralRatioIsBelowCritical(after, selected.price)]
    IN  IF \/ change.type = "creation" /\ ValidCreation(change.params, c)
           \/ change.type = "closure" /\ ValidClosure(change.params, c)
           \/ change.type = "adjustment" /\ ValidAdjustment(change.params, c)
        THEN change ELSE NoChange

\* The change is applied again: its result may differ from what was edited.
validateTroveChange(original, edited, rate, selected, hasConnection) ==
    LET change == WhatChanged(original, edited, rate)
    IN  Validated(change, original, Apply(original, change, rate), selected, hasConnection)

------------------------------------------------------------------------------
(* The contract (external): openTrove(), adjustTrove() and closeTrove() do *)
(* not revert.  `before` is the user's Trove, `system` the rest it looks   *)
(* at.  The fee is rounded down, and so are the ratios.                    *)

ContractRatio(collateral, debt, price) == IF debt = 0 THEN INFINITY ELSE (collateral * price) \div debt

Accepts(before, change, rate, system) ==
    LET params == change.params
        borrow == Param(params, "borrowHCHF")
        minted == borrow + ((borrow * rate) \div DIGITS)
        repay == Param(params, "repayHCHF")
        newCollateral == before.collateral + Param(params, "depositCollateral")
                           - Param(params, "withdrawCollateral")
        newDebt == IF change.type = "closure" THEN 0
                   ELSE before.debt + minted - repay + IF change.type = "creation" THEN RESERVE ELSE 0
        oldRatio == ContractRatio(before.collateral, before.debt, system.price)
        newRatio == ContractRatio(newCollateral, newDebt, system.price)
        recovery == ContractRatio(system.total.collateral, system.total.debt, system.price) < CCR
        newTotalRatio == ContractRatio(system.total.collateral - before.collateral + newCollateral,
                                       system.total.debt - before.debt + newDebt, system.price)
    IN  /\ Param(params, "depositCollateral") <= system.accountBalance
        /\ repay <= system.hchfBalance
        /\ newCollateral >= 0 /\ newDebt >= 0
        /\ CASE change.type = "creation" ->
                  /\ minted >= MINIMUM_NET_DEBT
                  /\ IF recovery THEN newRatio >= CCR ELSE newRatio >= MCR /\ newTotalRatio >= CCR
             [] change.type = "adjustment" ->
                  /\ repay > 0 => newDebt >= RESERVE + MINIMUM_NET_DEBT
                  /\ IF recovery
                     THEN /\ Param(params, "withdrawCollateral") = 0
                          /\ borrow > 0 => newRatio >= CCR /\ newRatio >= oldRatio
                     ELSE newRatio >= MCR /\ newTotalRatio >= CCR
             [] change.type = "closure" ->
                  /\ system.numberOfTroves > 1
                  /\ ~recovery /\ newTotalRatio >= CCR

==============================================================================
