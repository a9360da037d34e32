-------------------------- MODULE HashgraphPopulate --------------------------
(***************************************************************************)
(* The transactions that lib-hashgraph populates: the contract function,   *)
(* its typed arguments, the HBAR it pays and its gas limit, as functions   *)
(* of the parameters and of what was read before (fees, total, Trove,      *)
(* hints).  Addresses are strings; NONE is a parameter left out.           *)
(***************************************************************************)
EXTENDS Fees, Sequences

CONSTANTS
    NONE,
    BorrowingTolerance,       \* defaultBorrowingRateSlippageTolerance
    RedemptionTolerance,      \* defaultRedemptionRateSlippageTolerance
    HCHF_MINIMUM_NET_DEBT,
    RedeemMaxIterations,      \* redeemMaxIterations
    MaxTrialsAtOnce           \* maxNumberOfTrialsAtOnce

AddressZero == "0x0"

uint256(n) == <<"uint256", n>>
address(a) == <<"address", a>>
bool(b) == <<"bool", b>>
addressArray(s) == <<"address[]", s>>

base == 3000000
gasForPotentialLastFeeOperationTimeUpdate == 10000
gasForPotentialListTraversal == 25000
gasForHLQTIssuance == 50000
gasForUnipoolRewardUpdate == 20000

TypedContractExecuteTransaction(contract, functionName, functionParameters, hbar, gas) ==
    [contract |-> contract, functionName |-> functionName,
     functionParameters |-> functionParameters, hbar |-> hbar, gas |-> gas]

------------------------------------------------------------------------------
(* Hints.                                                                  *)

\* The trials of each getApproxHint() call.
trials[total \in Nat] ==
    IF total = 0 THEN <<>>
    ELSE LET n == Least(total, MaxTrialsAtOnce) IN <<n>> \o trials[total - n]
generateTrials(totalNumberOfTrials) == trials[totalNumberOfTrials]

\* results.reduce(): the closest approximate hint, the last one of equals.
closest[results \in Seq([diff : Nat, hintAddress : STRING])] ==
    IF Len(results) = 1 THEN results[1]
    ELSE LET a == closest[SubSeq(results, 1, Len(results) - 1)]
             b == results[Len(results)]
         IN  IF a.diff < b.diff THEN a ELSE b

\* What the contracts answer is part of the list of Troves: getApproxHint[i][n]
\* is the answer to the i-th call, for n trials.
findHintsForNominalCollateralRatio(ratio, list) ==
    IF list.numberOfTroves = 0 THEN <<AddressZero, AddressZero>>
    ELSE IF ratio = INFINITY THEN <<AddressZero, list.first>>
    ELSE LET rounds == generateTrials(list.totalNumberOfTrials)
         IN  list.findInsertPosition[closest[[i \in DOMAIN rounds |-> list.getApproxHint[i][rounds[i]]]].hintAddress]

------------------------------------------------------------------------------
(* Troves.                                                                 *)

populateOpenTrove(params, maxBorrowingRate, fees, hints) ==
    LET finalMaxBorrowingRate ==
          IF maxBorrowingRate # NONE THEN maxBorrowingRate
          ELSE borrowingRate(fees) + BorrowingTolerance
    IN  TypedContractExecuteTransaction("BorrowerOperations", "openTrove",
          <<uint256(finalMaxBorrowingRate), uint256(params.borrowHCHF), address(hints[1]), address(hints[2])>>,
          params.depositCollateral,
          base + gasForPotentialLastFeeOperationTimeUpdate + gasForPotentialListTraversal)

populateCloseTrove ==
    TypedContractExecuteTransaction("BorrowerOperations", "closeTrove", <<>>, 0, base)

\* Normalised params have no zeros.  A maximum rate of zero counts as left out.
populateAdjustTrove(params, maxBorrowingRate, fees, hints) ==
    LET given(p) == IF p \in DOMAIN params THEN params[p] ELSE 0
        borrows == "borrowHCHF" \in DOMAIN params
        finalMaxBorrowingRate ==
          IF maxBorrowingRate \notin {NONE, 0} THEN maxBorrowingRate
          ELSE IF borrows THEN borrowingRate(fees) + BorrowingTolerance ELSE 0
    IN  TypedContractExecuteTransaction("BorrowerOperations", "adjustTrove",
          <<uint256(finalMaxBorrowingRate), uint256(given("withdrawCollateral")),
            uint256(IF borrows THEN params.borrowHCHF ELSE given("repayHCHF")), bool(borrows),
            address(hints[1]), address(hints[2])>>,
          given("depositCollateral"),
          base + gasForPotentialListTraversal
            + (IF borrows THEN gasForPotentialLastFeeOperationTimeUpdate ELSE 0))

populateDepositCollateral(amount, fees, hints) ==
    populateAdjustTrove([depositCollateral |-> amount], NONE, fees, hints)
populateWithdrawCollateral(amount, fees, hints) ==
    populateAdjustTrove([withdrawCollateral |-> amount], NONE, fees, hints)
populateBorrowHCHF(amount, fees, hints) ==
    populateAdjustTrove([borrowHCHF |-> amount], NONE, fees, hints)
populateRepayHCHF(amount, fees, hints) ==
    populateAdjustTrove([repayHCHF |-> amount], NONE, fees, hints)

populateClaimCollateralSurplus ==
    TypedContractExecuteTransaction("BorrowerOperations", "claimCollateral", <<>>, 0, base)

populateLiquidate(addresses) ==
    TypedContractExecuteTransaction("TroveManager", "batchLiquidateTroves",
      <<addressArray(addresses)>>, 0, base + gasForHLQTIssuance)
populateLiquidateOne(owner) ==
    TypedContractExecuteTransaction("TroveManager", "liquidate",
      <<address(owner)>>, 0, base + gasForHLQTIssuance)

\* The number goes through Decimal: one Trove is passed as 10^PRECISION.
populateLiquidateUpTo(maximumNumberOfTrovesToLiquidate) ==
    TypedContractExecuteTransaction("TroveManager", "liquidateTroves",
      <<uint256(maximumNumberOfTrovesToLiquidate * DIGITS)>>, 0, base + gasForHLQTIssuance)

------------------------------------------------------------------------------
(* Stability pool.                                                         *)

populateDepositHCHFInStabilityPool(amount, frontendTag, frontendAddress) ==
    TypedContractExecuteTransaction("StabilityPool", "provideToSP",
      <<uint256(amount), address(IF frontendTag # NONE THEN frontendTag ELSE frontendAddress)>>,
      0, base + gasForHLQTIssuance)
populateWithdrawHCHFFromStabilityPool(amount) ==
    TypedContractExecuteTransaction("StabilityPool", "withdrawFromSP",
      <<uint256(amount)>>, 0, base + gasForHLQTIssuance)
populateWithdrawGainsFromStabilityPool ==
    TypedContractExecuteTransaction("StabilityPool", "withdrawFromSP",
      <<uint256(0)>>, 0, base + gasForHLQTIssuance)
\* Broken: the lower hint comes first.
TransferWithSwappedHints(hints) ==
    TypedContractExecuteTransaction("StabilityPool", "withdrawETHGainToTrove",
      <<address(hints[2]), address(hints[1])>>, 0, base + gasForHLQTIssuance)

populateTransferCollateralGainToTrove(hints) ==
    TypedContractExecuteTransaction("StabilityPool", "withdrawETHGainToTrove",
      <<address(hints[1]), address(hints[2])>>, 0, base + gasForHLQTIssuance)
populateRegisterFrontend(kickbackRate) ==
    TypedContractExecuteTransaction("StabilityPool", "registerFrontEnd",
      <<uint256(kickbackRate)>>, 0, base)

------------------------------------------------------------------------------
(* Redemption.  A populated redemption remembers what it was made from:    *)
(* populateRedemption() is a closure over the fees, the total and the      *)
(* first hint.                                                             *)

\* Broken: the contract may charge what it likes.
AnyRate(fees, total, amount) == DIGITS

defaultMaxRedemptionRate(fees, total, amount) ==
    Least(redemptionRate(fees, Div(amount, total.debt)) + RedemptionTolerance, DIGITS)

populateRedemption(reads, attempted, maxRedemptionRate, truncated, partialHints) ==
    [attemptedHCHFAmount |-> attempted,
     redeemableHCHFAmount |-> truncated,
     isTruncated |-> truncated < attempted,
     maxRedemptionRate |-> maxRedemptionRate,
     reads |-> reads,
     rawPopulatedTransaction |->
       TypedContractExecuteTransaction("TroveManager", "redeemCollateral",
         <<uint256(truncated), address(reads.firstRedemptionHint),
           address(partialHints.upper), address(partialHints.lower), uint256(partialHints.nicr),
           uint256(RedeemMaxIterations * DIGITS),
           uint256(IF maxRedemptionRate # NONE THEN maxRedemptionRate
                   ELSE defaultMaxRedemptionRate(reads.fees, reads.total, truncated))>>,
         0, base + gasForPotentialLastFeeOperationTimeUpdate)]

noPartialHints == [upper |-> AddressZero, lower |-> AddressZero, nicr |-> 0]

\* Broken: the amount stays as it was truncated.
IncreaseByNothing(redemption, newMaxRedemptionRate) ==
    populateRedemption(redemption.reads, redemption.redeemableHCHFAmount,
      redemption.maxRedemptionRate, redemption.redeemableHCHFAmount, noPartialHints)

increaseAmountByMinimumNetDebt(redemption, newMaxRedemptionRate) ==
    LET amount == redemption.redeemableHCHFAmount + HCHF_MINIMUM_NET_DEBT
    IN  populateRedemption(redemption.reads, amount,
          IF newMaxRedemptionRate \notin {NONE, 0} THEN newMaxRedemptionRate
          ELSE redemption.maxRedemptionRate,
          amount, noPartialHints)

\* Throws if nothing can be redeemed.
CanRedeem(reads) == reads.truncatedHCHFamount # 0

populateRedeemHCHF(amount, maxRedemptionRate, reads) ==
    populateRedemption(reads, amount,
      IF maxRedemptionRate # 0 THEN maxRedemptionRate ELSE NONE,
      reads.truncatedHCHFamount, reads.partialHints)

------------------------------------------------------------------------------
(* Staking and liquidity mining.                                           *)

populateStakeHLQT(amount) ==
    TypedContractExecuteTransaction("HLQTStaking", "stake", <<uint256(amount)>>, 0, base)
populateUnstakeHLQT(amount) ==
    TypedContractExecuteTransaction("HLQTStaking", "unstake", <<uint256(amount)>>, 0, base)
populateWithdrawGainsFromStaking == populateUnstakeHLQT(0)

\* Throws without an allowance.
populateApproveUniTokens(allowance) ==
    TypedContractExecuteTransaction("IERC20", "approve",
      <<address("saucerSwapPool"), uint256(allowance)>>, 0, base)
populateStakeUniTokens(amount) ==
    TypedContractExecuteTransaction("Unipool", "stake",
      <<uint256(amount)>>, 0, base + gasForUnipoolRewardUpdate)
populateUnstakeUniTokens(amount) ==
    TypedContractExecuteTransaction("Unipool", "withdraw",
      <<uint256(amount)>>, 0, base + gasForUnipoolRewardUpdate)
populateWithdrawHLQTRewardFromLiquidityMining ==
    TypedContractExecuteTransaction("Unipool", "claimReward", <<>>, 0, base + gasForUnipoolRewardUpdate)
populateExitLiquidityMining ==
    TypedContractExecuteTransaction("Unipool", "withdrawAndClaim", <<>>, 0, base + gasForUnipoolRewardUpdate)

------------------------------------------------------------------------------
\* The methods of PopulatableLiquity, for one amount; setPrice() throws.
asPopulatable(amount, maxRate, reads, hints) ==
    [openTrove |-> populateOpenTrove([depositCollateral |-> amount, borrowHCHF |-> amount + 1], maxRate, reads.fees, hints),
     closeTrove |-> populateCloseTrove,
     adjustTrove |-> populateAdjustTrove([depositCollateral |-> amount, borrowHCHF |-> amount + 1], maxRate, reads.fees, hints),
     depositCollateral |-> populateDepositCollateral(amount, reads.fees, hints),
     withdrawCollateral |-> populateWithdrawCollateral(amount, reads.fees, hints),
     borrowHCHF |-> populateBorrowHCHF(amount, reads.fees, hints),
     repayHCHF |-> populateRepayHCHF(amount, reads.fees, hints),
     claimCollateralSurplus |-> populateClaimCollateralSurplus,
     liquidate |-> populateLiquidate(hints),
     liquidateOne |-> populateLiquidateOne(hints[1]),
     liquidateUpTo |-> populateLiquidateUpTo(amount),
     depositHCHFInStabilityPool |-> populateDepositHCHFInStabilityPool(amount, NONE, "frontend"),
     withdrawHCHFFromStabilityPool |-> populateWithdrawHCHFFromStabilityPool(amount),
     withdrawGainsFromStabilityPool |-> populateWithdrawGainsFromStabilityPool,
     transferCollateralGainToTrove |-> populateTransferCollateralGainToTrove(hints),
     redeemHCHF |-> populateRedeemHCHF(amount, maxRate, reads).rawPopulatedTransaction,
     stakeHLQT |-> populateStakeHLQT(amount),
     unstakeHLQT |-> populateUnstakeHLQT(amount),
     withdrawGainsFromStaking |-> populateWithdrawGainsFromStaking,
     registerFrontend |-> populateRegisterFrontend(amount),
     approveUniTokens |-> populateApproveUniTokens(amount),
     stakeUniTokens |-> populateStakeUniTokens(amount),
     unstakeUniTokens |-> populateUnstakeUniTokens(amount),
     withdrawHLQTRewardFromLiquidityMining |-> populateWithdrawHLQTRewardFromLiquidityMining,
     exitLiquidityMining |-> populateExitLiquidityMining]
=============================================================================
