--------------------------- MODULE EthersPopulate ---------------------------
(***************************************************************************)
(* The transactions that lib-ethers populates, as in HashgraphPopulate.    *)
(* Arguments have no types: ethers encodes them by the interface of the    *)
(* contract.  Every call names a gas limit, so that no gas is estimated    *)
(* and what would be added to an estimate is not.                          *)
(***************************************************************************)
EXTENDS Fees, Sequences

CONSTANTS NONE, BorrowingTolerance, RedemptionTolerance, HCHF_MINIMUM_NET_DEBT, RedeemMaxIterations,
          MaxTrialsAtOnce

AddressZero == "0x0"
gasLimit == 3000000

estimateAndPopulate(contract, functionName, value, args) ==
    [contract |-> contract, functionName |-> functionName, value |-> value, args |-> args, gas |-> gasLimit]

\* generateTrials(): full calls first, and the rest.
generateTrials(totalNumberOfTrials) ==
    LET full == totalNumberOfTrials \div MaxTrialsAtOnce
        rest == totalNumberOfTrials % MaxTrialsAtOnce
    IN  [i \in 1 .. full |-> MaxTrialsAtOnce] \o (IF rest = 0 THEN <<>> ELSE <<rest>>)

\* As in HashgraphPopulate: of the closest hints the last one.
_findHintsForNominalCollateralRatio(ratio, list) ==
    IF list.numberOfTroves = 0 THEN <<AddressZero, AddressZero>>
    ELSE IF ratio = INFINITY THEN <<AddressZero, list.first>>
    ELSE LET rounds == generateTrials(list.totalNumberOfTrials)
             results == [i \in DOMAIN rounds |-> list.getApproxHint[i][rounds[i]]]
             best == CHOOSE i \in DOMAIN results :
                       \A j \in DOMAIN results :
                         \/ results[i].diff < results[j].diff
                         \/ results[i].diff = results[j].diff /\ j <= i
         IN  list.findInsertPosition[results[best].hintAddress]

openTrove(params, maxBorrowingRate, fees, hints) ==
    estimateAndPopulate("BorrowerOperations", "openTrove", params.depositCollateral,
      <<IF maxBorrowingRate # NONE THEN maxBorrowingRate ELSE borrowingRate(fees) + BorrowingTolerance,
        params.borrowHCHF>> \o hints)

closeTrove == estimateAndPopulate("BorrowerOperations", "closeTrove", 0, <<>>)

adjustTrove(params, maxBorrowingRate, fees, hints) ==
    LET given(p) == IF p \in DOMAIN params THEN params[p] ELSE 0
        borrows == "borrowHCHF" \in DOMAIN params
    IN  estimateAndPopulate("BorrowerOperations", "adjustTrove", given("depositCollateral"),
          <<IF maxBorrowingRate # NONE THEN maxBorrowingRate
            ELSE IF borrows THEN borrowingRate(fees) + BorrowingTolerance ELSE 0,
            given("withdrawCollateral"),
            IF borrows THEN params.borrowHCHF ELSE given("repayHCHF"), borrows>> \o hints)

depositCollateral(amount, fees, hints) ==
    adjustTrove([depositCollateral |-> amount], NONE, fees, hints)
withdrawCollateral(amount, fees, hints) ==
    adjustTrove([withdrawCollateral |-> amount], NONE, fees, hints)
borrowHCHF(amount, maxBorrowingRate, fees, hints) ==
    adjustTrove([borrowHCHF |-> amount], maxBorrowingRate, fees, hints)
repayHCHF(amount, fees, hints) ==
    adjustTrove([repayHCHF |-> amount], NONE, fees, hints)

claimCollateralSurplus == estimateAndPopulate("BorrowerOperations", "claimCollateral", 0, <<>>)

liquidate(addresses) == estimateAndPopulate("TroveManager", "batchLiquidateTroves", 0, <<addresses>>)
liquidateOne(owner) == estimateAndPopulate("TroveManager", "liquidate", 0, <<owner>>)
liquidateUpTo(n) == estimateAndPopulate("TroveManager", "liquidateTroves", 0, <<n>>)

depositHCHFInStabilityPool(amount, frontendTag, ofConnection) ==
    estimateAndPopulate("StabilityPool", "provideToSP", 0,
      <<amount, IF frontendTag # NONE THEN frontendTag
                ELSE IF ofConnection # NONE THEN ofConnection ELSE AddressZero>>)
withdrawHCHFFromStabilityPool(amount) == estimateAndPopulate("StabilityPool", "withdrawFromSP", 0, <<amount>>)
withdrawGainsFromStabilityPool == estimateAndPopulate("StabilityPool", "withdrawFromSP", 0, <<0>>)
transferCollateralGainToTrove(hints) == estimateAndPopulate("StabilityPool", "withdrawETHGainToTrove", 0, hints)
registerFrontend(kickbackRate) == estimateAndPopulate("StabilityPool", "registerFrontEnd", 0, <<kickbackRate>>)

defaultMaxRedemptionRate(fees, total, amount) ==
    Least(redemptionRate(fees, Div(amount, total.debt)) + RedemptionTolerance, DIGITS)

populateRedemption(reads, attempted, maxRedemptionRate, truncated, partialHints) ==
    [attemptedHCHFAmount |-> attempted,
     redeemableHCHFAmount |-> truncated,
     isTruncated |-> truncated < attempted,
     maxRedemptionRate |-> maxRedemptionRate,
     reads |-> reads,
     rawPopulatedTransaction |->
       estimateAndPopulate("TroveManager", "redeemCollateral", 0,
         <<truncated, reads.firstRedemptionHint, partialHints.upper, partialHints.lower, partialHints.nicr,
           RedeemMaxIterations,
           IF maxRedemptionRate # NONE THEN maxRedemptionRate
           ELSE defaultMaxRedemptionRate(reads.fees, reads.total, truncated)>>)]

increaseAmountByMinimumNetDebt(redemption, newMaxRedemptionRate) ==
    LET amount == redemption.redeemableHCHFAmount + HCHF_MINIMUM_NET_DEBT
    IN  populateRedemption(redemption.reads, amount,
          IF newMaxRedemptionRate # NONE THEN newMaxRedemptionRate ELSE redemption.maxRedemptionRate,
          amount, [upper |-> AddressZero, lower |-> AddressZero, nicr |-> 0])

redeemHCHF(amount, maxRedemptionRate, reads) ==
    populateRedemption(reads, amount, maxRedemptionRate, reads.truncatedHCHFamount, reads.partialHints)

stakeHLQT(amount) == estimateAndPopulate("HLQTStaking", "stake", 0, <<amount>>)
unstakeHLQT(amount) == estimateAndPopulate("HLQTStaking", "unstake", 0, <<amount>>)
withdrawGainsFromStaking == unstakeHLQT(0)

approveUniTokens(allowance) ==
    estimateAndPopulate("IERC20", "approve", 0,
      <<"saucerSwapPool", IF allowance # NONE THEN allowance ELSE INFINITY>>)
stakeUniTokens(amount) == estimateAndPopulate("Unipool", "stake", 0, <<amount>>)
unstakeUniTokens(amount) == estimateAndPopulate("Unipool", "withdraw", 0, <<amount>>)
withdrawHLQTRewardFromLiquidityMining == estimateAndPopulate("Unipool", "claimReward", 0, <<>>)
exitLiquidityMining == estimateAndPopulate("Unipool", "withdrawAndClaim", 0, <<>>)

\* The methods of PopulatableLiquity, for one amount.
Populatable(amount, maxRate, reads, hints) ==
    [openTrove |-> openTrove([depositCollateral |-> amount, borrowHCHF |-> amount + 1], maxRate, reads.fees, hints),
     closeTrove |-> closeTrove,
     adjustTrove |-> adjustTrove([depositCollateral |-> amount, borrowHCHF |-> amount + 1], maxRate, reads.fees, hints),
     depositCollateral |-> depositCollateral(amount, reads.fees, hints),
     withdrawCollateral |-> withdrawCollateral(amount, reads.fees, hints),
     borrowHCHF |-> borrowHCHF(amount, NONE, reads.fees, hints),
     repayHCHF |-> repayHCHF(amount, reads.fees, hints),
     claimCollateralSurplus |-> claimCollateralSurplus,
     liquidate |-> liquidate(hints),
     liquidateOne |-> liquidateOne(hints[1]),
     liquidateUpTo |-> liquidateUpTo(amount),
     depositHCHFInStabilityPool |-> depositHCHFInStabilityPool(amount, NONE, "frontend"),
     withdrawHCHFFromStabilityPool |-> withdrawHCHFFromStabilityPool(amount),
     withdrawGainsFromStabilityPool |-> withdrawGainsFromStabilityPool,
     transferCollateralGainToTrove |-> transferCollateralGainToTrove(hints),
     redeemHCHF |-> redeemHCHF(amount, maxRate, reads).rawPopulatedTransaction,
     stakeHLQT |-> stakeHLQT(amount),
     unstakeHLQT |-> unstakeHLQT(amount),
     withdrawGainsFromStaking |-> withdrawGainsFromStaking,
     registerFrontend |-> registerFrontend(amount),
     approveUniTokens |-> approveUniTokens(amount),
     stakeUniTokens |-> stakeUniTokens(amount),
     unstakeUniTokens |-> unstakeUniTokens(amount),
     withdrawHLQTRewardFromLiquidityMining |-> withdrawHLQTRewardFromLiquidityMining,
     exitLiquidityMining |-> exitLiquidityMining]
=============================================================================
