---------------------- MODULE MCBlockPolledLiquityStore ----------------------
(***************************************************************************)
(* A redistribution, which moves collateral and debt from the active to    *)
(* the default pool, and an approval.                                      *)
(***************************************************************************)
EXTENDS BlockPolledLiquityStore

MCTransaction == {"redistribution", "approval"}
MCTouches ==
  [t \in MCTransaction |->
     IF t = "approval" THEN {"hchf.allowance"}
     ELSE {"activePool.getETH", "activePool.getHCHFDebt", "defaultPool.getETH",
           "defaultPool.getHCHFDebt", "L_ETH", "L_HCHFDebt", "getTroveOwnersCount",
           "getMultipleSortedTroves"}]
=============================================================================
