-------------------------- MODULE PlaceholderReads --------------------------
(***************************************************************************)
(* The reads of lib-placeholder, which stands in for lib-hashgraph while   *)
(* no wallet is connected: it reads what is the same for every user and    *)
(* makes up the rest.                                                      *)
(***************************************************************************)

getCollateralSurplusBalance == {"getCollateral"}
getTotalRedistributed == {"L_ETH", "L_HCHFDebt"}
getTroveBeforeRedistribution == {"Troves", "rewardSnapshots"}
getTrove == getTroveBeforeRedistribution \cup getTotalRedistributed
getNumberOfTroves == {"getTroveOwnersCount"}
getPrice == {"fetchPrice"}
getTotal ==
  {"activePool.getETH", "activePool.getHCHFDebt", "defaultPool.getETH", "defaultPool.getHCHFDebt"}
getStabilityDeposit ==
  {"deposits", "getCompoundedHCHFDeposit", "getDepositorETHGain", "getDepositorHLQTGain"}
getRemainingStabilityPoolHLQTReward == {"totalHLQTIssued"}
getHCHFInStabilityPool == {"getTotalHCHFDeposits"}
getHCHFBalance == {"hchfToken.balanceOf"}
getHLQTTokenAddress == {"hlqtToken.getTokenAddress"}
getHCHFTokenAddress == {"hchfToken.getTokenAddress"}
getHchfTokenAllowanceOfHchfContract == getHCHFTokenAddress \cup {"hchf.allowance"}
getHLQTBalance == {"hlqtToken.balanceOf"}
getHlqtTokenAllowanceOfHlqtContract == getHLQTTokenAddress \cup {"hlqt.allowance"}
getUniTokenBalance == {"uniToken", "uniToken.balanceOf"}
getLPReward == {"rewardPerToken"}
getUniTokenAllowance == {"uniToken", "uniToken.allowance"}
getRemainingLiquidityMiningHLQTReward ==
  {"totalSupply", "rewardRate", "periodFinish", "lastUpdateTime", "timestamp"}
getLiquidityMiningStake == {"saucerSwapPool.balanceOf"}
getTotalStakedUniTokens == {"totalSupply"}
getLiquidityMiningHLQTReward == {"earned"}
getTroves(beforeRedistribution) ==
  {"getMultipleSortedTroves"} \cup IF beforeRedistribution THEN {} ELSE getTotalRedistributed
getFees == {"lastFeeOperationTime", "baseRate", "timestamp"} \cup getTotal \cup getPrice
getHLQTStake == {"stakes", "getPendingETHGain", "getPendingHCHFGain"}
getTotalStakedHLQT == {"totalHLQTStaked"}
getFrontendStatus == {"frontEnds"}

\* fetchStoreValues(): the reads behind each property of the base state.
\* What belongs to a user is made up: a fixed amount, or nothing.
fetchStoreValues ==
  [price |-> getPrice,
   numberOfTroves |-> getNumberOfTroves,
   totalRedistributed |-> getTotalRedistributed,
   total |-> getTotal,
   hchfInStabilityPool |-> getHCHFInStabilityPool,
   totalStakedHLQT |-> getTotalStakedHLQT,
   _riskiestTroveBeforeRedistribution |-> {},
   totalStakedUniTokens |-> getTotalStakedUniTokens,
   remainingStabilityPoolHLQTReward |-> getRemainingStabilityPoolHLQTReward,
   frontend |-> getFrontendStatus,
   accountBalance |-> getPrice,
   hchfBalance |-> {},
   hchfTokenAddress |-> getHCHFTokenAddress,
   hlqtTokenAddress |-> getHLQTTokenAddress,
   hlqtBalance |-> {},
   uniTokenBalance |-> {},
   uniTokenAllowance |-> {},
   liquidityMiningStake |-> {},
   liquidityMiningHLQTReward |-> {},
   collateralSurplusBalance |-> {},
   troveBeforeRedistribution |-> {},
   stabilityDeposit |-> {},
   hlqtStake |-> {},
   ownFrontend |-> {},
   hchfTokenAllowanceOfHchfContract |-> {},
   hlqtTokenAllowanceOfHlqtContract |-> {},
   _feesInNormalMode |-> {"lastFeeOperationTime", "baseRate", "timestamp"},
   remainingLiquidityMiningHLQTReward |-> getRemainingLiquidityMiningHLQTReward]
=============================================================================
