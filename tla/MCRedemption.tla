---------------------------- MODULE MCRedemption ----------------------------
(***************************************************************************)
(* The page to redeem and that of the redemptions so far.  They share no   *)
(* state but that of the contracts, of which each models what concerns it, *)
(* so a behaviour stays on the page it starts with.                        *)
(***************************************************************************)
EXTENDS Redemption

CONSTANTS PageSize, Window, Debt, Load, MaxTime

ASSUME HistoryConstants ==
    {PageSize, Window} \subseteq Nat \ {0} /\ Debt \subseteq Nat /\ MaxTime \in Nat

VARIABLES onPage, ledger, form, url, token, view, loads, searches

H == INSTANCE RedemptionHistory

historyVars == <<ledger, form, url, token, view, loads, searches>>
allVars == <<vars, onPage, historyVars>>

MCTrove(owner, net, collateral) == [owner |-> owner, net |-> net, collateral |-> collateral, safe |-> TRUE]

\* Of the first Trove 2 HCHF or all 6 can be redeemed.
MCInitialTroves == {<<MCTrove("a", 6, 12), MCTrove("b", 9, 20)>>}
MCNewTrove == {MCTrove("c", 6, 13)}

\* The page that is not visited rests in one state.
PagesInit ==
    /\ onPage \in {"redeem", "history"}
    /\ Init /\ (onPage = "history" => caller = "form")
    /\ H!Init
    /\ onPage = "redeem" =>
         /\ token /\ ledger[1].after = 1
         /\ \A c \in DOMAIN form : form[c] = "alias"

PagesNext ==
    \/ onPage = "redeem" /\ Next /\ UNCHANGED <<onPage, historyVars>>
    \/ onPage = "history" /\ H!Next /\ UNCHANGED <<onPage, vars>>

PagesSpec == PagesInit /\ [][PagesNext]_allVars

\* The links of the page lead on without a gap (see RedemptionHistory).
PagesAdjoin == H!PagesAdjoin

\* A row tells what was redeemed from the Trove (see RedemptionHistory).
RedeemedIsTold == H!RedeemedIsTold

Symmetry == Permutations(Reading)
=============================================================================
