--------------------------- MODULE HashgraphReads ---------------------------
(***************************************************************************)
(* The reads of lib-hashgraph: the contract functions that each read of    *)
(* HashgraphLiquity calls, each in a request of its own.                   *)
(***************************************************************************)

getCollateralSurplusBalance == {"getCollateral"}
getTotalRedistributed == {"L_ETH", "L_HCHFDebt"}
getTroveBeforeRedistribution == {"Troves", "rewardSnapshots"}
getTrove == getTroveBeforeRedistribution \cup getTotalRedistributed
getNumberOfTroves == {"getTroveOwnersCount"}
getPrice == {"fetchPrice"}
\* The Troves that were liquidated are left out of the total.
TotalOfActivePool == {"activePool.getETH", "activePool.getHCHFDebt"}
getTotal ==
  {"activePool.getETH", "activePool.getHCHFDebt", "defaultPool.getETH", "defaultPool.getHCHFDebt"}
getStabilityDeposit ==
  {"deposits", "getCompoundedHCHFDeposit", "getDepositorETHGain", "getDepositorHLQTGain"}
getRemainingStabilityPoolHLQTReward == {"totalHLQTIssued"}
getHCHFInStabilityPool == {"getTotalHCHFDeposits"}
getHCHFBalance == {"hchfToken.balanceOf"}
getHLQTTokenAddress == {"hlqtToken.getTokenAddress"}
getHCHFTokenAddress == {"hchfToken.getTokenAddress"}
getHchfTokenAllowanceOfHchfContract == getHCHFTokenAddress \cup {"hchf.allowance"}
getHLQTBalance == {"hlqtToken.balanceOf"}
getHlqtTokenAllowanceOfHlqtContract == getHLQTTokenAddress \cup {"hlqt.allowance"}
getUniTokenBalance == {"uniToken", "uniToken.balanceOf"}
getLPReward == {"rewardPerToken"}
getUniTokenAllowance == {"uniToken", "uniToken.allowance"}
getRemainingLiquidityMiningHLQTReward ==
  {"totalSupply", "rewardRate", "periodFinish", "lastUpdateTime", "timestamp"}
getLiquidityMiningStake == {"saucerSwapPool.balanceOf"}
getTotalStakedUniTokens == {"totalSupply"}
getLiquidityMiningHLQTReward == {"earned"}
getTroves(beforeRedistribution) ==
  {"getMultipleSortedTroves"} \cup IF beforeRedistribution THEN {} ELSE getTotalRedistributed
getFees == {"lastFeeOperationTime", "baseRate", "timestamp"} \cup getTotal \cup getPrice
getHLQTStake == {"stakes", "getPendingETHGain", "getPendingHCHFGain"}
getTotalStakedHLQT == {"totalHLQTStaked"}
getFrontendStatus == {"frontEnds"}

\* fetchStoreValues(): the reads behind each property of the base state.
\* The riskiest Trove is not read, and the associations come from the mirror
\* node (TokenAssociation).
fetchStoreValues ==
  [price |-> getPrice,
   numberOfTroves |-> getNumberOfTroves,
   totalRedistributed |-> getTotalRedistributed,
   total |-> getTotal,
   hchfInStabilityPool |-> getHCHFInStabilityPool,
   totalStakedHLQT |-> getTotalStakedHLQT,
   _riskiestTroveBeforeRedistribution |-> {},
   totalStakedUniTokens |-> getTotalStakedUniTokens,
   remainingStabilityPoolHLQTReward |-> getRemainingStabilityPoolHLQTReward,
   frontend |-> getFrontendStatus,
   accountBalance |-> {"getBalance"},
   hchfBalance |-> getHCHFBalance,
   hchfTokenAddress |-> getHCHFTokenAddress,
   hlqtTokenAddress |-> getHLQTTokenAddress,
   hlqtBalance |-> getHLQTBalance,
   uniTokenBalance |-> getUniTokenBalance,
   uniTokenAllowance |-> getUniTokenAllowance,
   liquidityMiningStake |-> getLiquidityMiningStake,
   liquidityMiningHLQTReward |-> getLiquidityMiningHLQTReward,
   collateralSurplusBalance |-> getCollateralSurplusBalance,
   troveBeforeRedistribution |-> getTroveBeforeRedistribution,
   stabilityDeposit |-> getStabilityDeposit,
   hlqtStake |-> getHLQTStake,
   ownFrontend |-> getFrontendStatus,
   hchfTokenAllowanceOfHchfContract |-> getHchfTokenAllowanceOfHchfContract,
   hlqtTokenAllowanceOfHlqtContract |-> getHlqtTokenAllowanceOfHlqtContract,
   _feesInNormalMode |-> {"lastFeeOperationTime", "baseRate", "timestamp"},
   remainingLiquidityMiningHLQTReward |-> getRemainingLiquidityMiningHLQTReward]
=============================================================================
