----------------------------- MODULE MCPositions -----------------------------
(***************************************************************************)
(* The pages of the stability deposit and of the stake.  They share no     *)
(* state but the store and the transaction, which each models as far as it *)
(* is concerned, so a behaviour stays on the page it starts with.          *)
(***************************************************************************)
EXTENDS Stability

CONSTANT MaxGain

VARIABLES onPage, sPool, sStored, sUi, sFlight, sWanted, sMissed

S == INSTANCE Staking WITH pool <- sPool, stored <- sStored, ui <- sUi, flight <- sFlight,
                           wanted <- sWanted, missed <- sMissed

stakeVars == <<sPool, sStored, sUi, sFlight, sWanted, sMissed>>
allVars == <<vars, onPage, stakeVars>>

\* The page that is not visited rests in one state.
PagesInit ==
    /\ onPage \in {"deposit", "stake"}
    /\ Init /\ (onPage = "stake" => pool.hchfBalance = Balance)
    /\ S!Init /\ (onPage = "deposit" => sPool.hlqtBalance = Balance)

PagesNext ==
    \/ onPage = "deposit" /\ Next /\ UNCHANGED <<onPage, stakeVars>>
    \/ onPage = "stake" /\ S!Next /\ UNCHANGED <<onPage, vars>>

PagesSpec == PagesInit /\ [][PagesNext]_allVars

\* StakingManager offers only what was typed for the stake that the store knows
\* (see Staking).
StakeOfferedOnce == S!StakeOfferedOnce

\* StakingViewProvider's changePending ends with the transaction (see Staking).
StakeChangeEnds == S!StakeChangeEnds
==============================================================================
