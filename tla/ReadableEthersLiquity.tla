------------------------ MODULE ReadableEthersLiquity ------------------------
(***************************************************************************)
(* The reads of lib-ethers: the contract functions that each read of       *)
(* ReadableEthersLiquity calls.  A read of several functions makes several *)
(* requests, each of which is answered from the block its overrides name,  *)
(* or from whatever block is the latest when the node answers.             *)
(***************************************************************************)

getTotalRedistributed == {"L_ETH", "L_HCHFDebt"}
getTroveBeforeRedistribution == {"Troves", "rewardSnapshots"}
getTrove == getTroveBeforeRedistribution \cup getTotalRedistributed
getNumberOfTroves == {"getTroveOwnersCount"}
getPrice == {"fetchPrice"}
_getActivePool == {"activePool.getETH", "activePool.getHCHFDebt"}
_getDefaultPool == {"defaultPool.getETH", "defaultPool.getHCHFDebt"}
getTotal == _getActivePool \cup _getDefaultPool
getStabilityDeposit ==
  {"deposits", "getCompoundedHCHFDeposit", "getDepositorETHGain", "getDepositorHLQTGain"}
getRemainingStabilityPoolHLQTReward == {"totalHLQTIssued"}
getHCHFInStabilityPool == {"getTotalHCHFDeposits"}
getHCHFBalance == {"hchfToken.balanceOf"}
getHLQTTokenAddress == {"hlqtToken.getTokenAddress"}
getHCHFTokenAddress == {"hchfToken.getTokenAddress"}
getHLQTBalance == {"hlqtToken.balanceOf"}
getUniTokenBalance == {"uniToken.balanceOf"}
getUniTokenAllowance == {"uniToken.allowance"}
_getRemainingLiquidityMiningHLQTRewardCalculator ==
  {"totalSupply", "rewardRate", "periodFinish", "lastUpdateTime"}
_getBlockTimestamp == {"timestamp"}
getRemainingLiquidityMiningHLQTReward ==
  _getRemainingLiquidityMiningHLQTRewardCalculator \cup _getBlockTimestamp
getLiquidityMiningStake == {"saucerSwapPool.balanceOf"}
getTotalStakedUniTokens == {"totalSupply"}
getLiquidityMiningHLQTReward == {"earned"}
getCollateralSurplusBalance == {"getCollateral"}
getTroves(beforeRedistribution) ==
  {"getMultipleSortedTroves"} \cup IF beforeRedistribution THEN {} ELSE getTotalRedistributed
_getFeesFactory == {"lastFeeOperationTime", "baseRate"}
getFees == _getFeesFactory \cup getTotal \cup getPrice \cup _getBlockTimestamp
getHLQTStake == {"stakes", "getPendingETHGain", "getPendingHCHFGain"}
getTotalStakedHLQT == {"totalHLQTStaked"}
getFrontendStatus == {"frontEnds"}
getHchfTokenAllowanceOfHchfContract == getHCHFTokenAddress \cup {"hchf.allowance"}
getHlqtTokenAllowanceOfHlqtContract == getHLQTTokenAddress \cup {"hlqt.allowance"}

\* _get(): the reads behind each property of the base state.  The
\* associations come from the mirror node and are left to TokenAssociation.
_get ==
  [price |-> getPrice,
   numberOfTroves |-> getNumberOfTroves,
   totalRedistributed |-> getTotalRedistributed,
   total |-> getTotal,
   hchfInStabilityPool |-> getHCHFInStabilityPool,
   totalStakedHLQT |-> getTotalStakedHLQT,
   _riskiestTroveBeforeRedistribution |-> getTroves(TRUE),
   totalStakedUniTokens |-> getTotalStakedUniTokens,
   remainingStabilityPoolHLQTReward |-> getRemainingStabilityPoolHLQTReward,
   frontend |-> getFrontendStatus,
   accountBalance |-> {"getBalance"},
   hchfBalance |-> getHCHFBalance,
   hchfTokenAddress |-> getHCHFTokenAddress,
   hlqtTokenAddress |-> getHLQTTokenAddress,
   hlqtBalance |-> getHLQTBalance,
   uniTokenBalance |-> getUniTokenBalance,
   uniTokenAllowance |-> getUniTokenAllowance,
   liquidityMiningStake |-> getLiquidityMiningStake,
   liquidityMiningHLQTReward |-> getLiquidityMiningHLQTReward,
   collateralSurplusBalance |-> getCollateralSurplusBalance,
   troveBeforeRedistribution |-> getTroveBeforeRedistribution,
   stabilityDeposit |-> getStabilityDeposit,
   hlqtStake |-> getHLQTStake,
   ownFrontend |-> getFrontendStatus,
   hchfTokenAllowanceOfHchfContract |-> getHchfTokenAllowanceOfHchfContract,
   hlqtTokenAllowanceOfHlqtContract |-> getHlqtTokenAllowanceOfHlqtContract,
   _feesInNormalMode |-> _getFeesFactory \cup _getBlockTimestamp,
   remainingLiquidityMiningHLQTReward |->
     _getRemainingLiquidityMiningHLQTRewardCalculator \cup _getBlockTimestamp]
=============================================================================
