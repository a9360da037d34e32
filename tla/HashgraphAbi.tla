---------------------------- MODULE HashgraphAbi ----------------------------
(***************************************************************************)
(* The interfaces of the contracts, as far as transactions are populated   *)
(* for them: the types of the inputs, and whether the function is payable. *)
(***************************************************************************)

Function(inputs, stateMutability) == [inputs |-> inputs, stateMutability |-> stateMutability]

BorrowerOperations_openTrove == Function(<<"uint256", "uint256", "address", "address">>, "payable")
BorrowerOperations_closeTrove == Function(<<>>, "nonpayable")
BorrowerOperations_adjustTrove == Function(<<"uint256", "uint256", "uint256", "bool", "address", "address">>, "payable")
BorrowerOperations_claimCollateral == Function(<<>>, "nonpayable")
TroveManager_liquidate == Function(<<"address">>, "nonpayable")
TroveManager_batchLiquidateTroves == Function(<<"address[]">>, "nonpayable")
TroveManager_liquidateTroves == Function(<<"uint256">>, "nonpayable")
TroveManager_redeemCollateral == Function(<<"uint256", "address", "address", "address", "uint256", "uint256", "uint256">>, "nonpayable")
StabilityPool_provideToSP == Function(<<"uint256", "address">>, "nonpayable")
StabilityPool_withdrawFromSP == Function(<<"uint256">>, "nonpayable")
StabilityPool_withdrawETHGainToTrove == Function(<<"address", "address">>, "nonpayable")
StabilityPool_registerFrontEnd == Function(<<"uint256">>, "nonpayable")
HLQTStaking_stake == Function(<<"uint256">>, "nonpayable")
HLQTStaking_unstake == Function(<<"uint256">>, "nonpayable")
IERC20_approve == Function(<<"address", "uint256">>, "nonpayable")
Unipool_stake == Function(<<"uint256">>, "nonpayable")
Unipool_withdraw == Function(<<"uint256">>, "nonpayable")
Unipool_claimReward == Function(<<>>, "nonpayable")
Unipool_withdrawAndClaim == Function(<<>>, "nonpayable")

Abi ==
    [BorrowerOperations |->
       [openTrove |-> BorrowerOperations_openTrove,
        closeTrove |-> BorrowerOperations_closeTrove,
        adjustTrove |-> BorrowerOperations_adjustTrove,
        claimCollateral |-> BorrowerOperations_claimCollateral],
     TroveManager |->
       [liquidate |-> TroveManager_liquidate,
        batchLiquidateTroves |-> TroveManager_batchLiquidateTroves,
        liquidateTroves |-> TroveManager_liquidateTroves,
        redeemCollateral |-> TroveManager_redeemCollateral],
     StabilityPool |->
       [provideToSP |-> StabilityPool_provideToSP,
        withdrawFromSP |-> StabilityPool_withdrawFromSP,
        withdrawETHGainToTrove |-> StabilityPool_withdrawETHGainToTrove,
        registerFrontEnd |-> StabilityPool_registerFrontEnd],
     HLQTStaking |->
       [stake |-> HLQTStaking_stake,
        unstake |-> HLQTStaking_unstake],
     IERC20 |->
       [approve |-> IERC20_approve],
     Unipool |->
       [stake |-> Unipool_stake,
        withdraw |-> Unipool_withdraw,
        claimReward |-> Unipool_claimReward,
        withdrawAndClaim |-> Unipool_withdrawAndClaim]]
=============================================================================
