------------------------------ MODULE Adjusting ------------------------------
(***************************************************************************)
(* The form of dev-frontend that adjusts the user's Trove: component       *)
(* Adjusting.  It keeps the collateral and the net debt being edited while *)
(* the store goes on bringing other values of the Trove, the price and the *)
(* borrowing rate: a redemption or a redistribution changes the Trove, a   *)
(* liquidation closes it.  An effect rebases the edits on a new Trove, and *)
(* another one sets the change the button offers to the one the render     *)
(* computed (useStableTroveChange()).                                      *)
(*                                                                         *)
(* React is as in TroveView: what effects set is queued and committed by a *)
(* later Render, together with what the store told; a click, or a key, is  *)
(* handled by the functions of the last render and committed, and effects  *)
(* run, in its own turn.  The form is only mounted by a click.  Sending    *)
(* the change is TransactionFlow's.                                        *)
(***************************************************************************)
EXTENDS TroveForms

CONSTANTS
    Others,                 \* totals of the other Troves
    Balance,                \* balances of the user
    MaxEdits                \* bound on the edits of one form

ASSUME AdjustingAssumption ==
    /\ Others \subseteq [collateral : Nat, debt : Nat]
    /\ Balance \subseteq Nat
    /\ MaxEdits \in Nat

VARIABLES
    trove, price, rate,     \* what the last commit showed of the store
    mounted,                \* is the form on the page?
    thrown,                 \* rendering it threw: the error boundary took over
    collateral, netDebt,    \* the edited amounts
    stable,                 \* stableTroveChange: the change the button offers
    queued,                 \* these three as the next commit will have them
    auto,                   \* "Adjust automatically"
    previousTrove,          \* previousTrove.current: what the edits are based on
    due,                    \* the effects of the last commit have not run
    wantedCollateral,       \* what the last edit was to change, signed
    wantedDebt,
    edits                   \* how often the user edited it

storeVars == <<trove, price, rate>>
editVars == <<collateral, netDebt, stable, queued, auto, previousTrove, due,
              wantedCollateral, wantedDebt, edits>>
vars == <<storeVars, mounted, thrown, editVars>>

TypeOK ==
    /\ trove \in OpenTrove /\ previousTrove \in OpenTrove
    /\ price \in Price
    /\ rate \in Rate
    /\ {mounted, thrown, auto, due} \subseteq BOOLEAN
    /\ collateral \in Nat /\ netDebt \in Nat
    /\ queued.collateral \in Nat /\ queued.netDebt \in Nat
    /\ wantedCollateral \in Int /\ wantedDebt \in Int
    /\ edits \in 0..MaxEdits

------------------------------------------------------------------------------
(* What a render computes.                                                 *)

\* feeFrom()
FeeFrom(original, edited) ==
    LET change == WhatChanged(original, edited, rate)
    IN  IF change.type \in {"creation", "closure", "adjustment"}
        THEN Mul(Param(change.params, "borrowHCHF"), rate) ELSE 0

\* The fee of a net debt: that of borrowing the whole increase, fee included.
FeeOf(debt) ==
    IF debt > NetDebt(trove)
    THEN FeeFrom(trove, MakeTrove(trove.collateral, trove.debt + (debt - NetDebt(trove))))
    ELSE 0

Fee == FeeOf(netDebt)
TotalDebt == netDebt + RESERVE + Fee

IsDirty == collateral # trove.collateral \/ netDebt # NetDebt(trove)

\* The trove of edits that the next commit shows.
EditedTrove(newCollateral, newNetDebt) ==
    IF newCollateral # trove.collateral \/ newNetDebt # NetDebt(trove)
    THEN MakeTrove(newCollateral, newNetDebt + RESERVE + FeeOf(newNetDebt)) ELSE trove

UpdatedTrove == EditedTrove(collateral, netDebt)

TroveChange == WhatChanged(trove, UpdatedTrove, rate)

\* Decimal.from(1.5)
AutoRatio == (3 * DIGITS) \div 2

\* What the store may know of the system besides the user's trove.
Known(t, p) ==
    {[price |-> p, total |-> Add(t, others), accountBalance |-> account, hchfBalance |-> hchf,
      numberOfTroves |-> (IF IsEmpty(t) THEN 0 ELSE 1) + (IF IsEmpty(others) THEN 0 ELSE 1)] :
        others \in Others, account \in Balance, hchf \in Balance}

\* troveChange: the change if it is valid.
ValidChange(selected, hasConnection) ==
    validateTroveChange(trove, UpdatedTrove, rate, selected, hasConnection)

\* What it may be, of all that the store may know.
Computed(edited) ==
    LET change == WhatChanged(trove, edited, rate)
        result == Apply(trove, change, rate)
    IN  {Validated(change, trove, result, selected, TRUE) : selected \in Known(trove, price)}

------------------------------------------------------------------------------
(* Effects.                                                                *)

\* Broken: the edited amount stays, whatever becomes of the trove.
RebasedNever(edited, before, now) == edited

\* applyUnsaved...Changes(): the unsaved change on top of the new amount; a
\* decrease by all of it or more is dropped.
Rebased(edited, before, now) ==
    IF edited > before \/ before - edited < now THEN now + (edited - before) ELSE now

CollateralDue == due /\ previousTrove.collateral # trove.collateral
NetDebtDue == due /\ NetDebt(previousTrove) # NetDebt(trove)

\* The effect that rebases, on top of what is queued.
RebaseEffect(amounts) ==
    [amounts EXCEPT
        !.collateral = IF CollateralDue
                       THEN Rebased(collateral, previousTrove.collateral, trove.collateral) ELSE @,
        !.netDebt = IF NetDebtDue
                    THEN Rebased(netDebt, NetDebt(previousTrove), NetDebt(trove)) ELSE @]

\* useStableTroveChange(): both are there and equal(), or none is.
SameOffer(a, b) ==
    IF NoChange \in {a, b} THEN a = b ELSE a.type = b.type /\ a.params = b.params

\* Its effect, when the render computed this change.
StableEffect(next, change) == IF SameOffer(stable, change) THEN next ELSE change

\* What it has queued once the effects that are due have run.
Flushed ==
    IF due THEN {StableEffect(queued.stable, change) : change \in Computed(UpdatedTrove)}
    ELSE {queued.stable}

------------------------------------------------------------------------------
(* React.                                                                  *)

\* The form is not on the page.
Init ==
    /\ \E t \in OpenTrove, p \in Price, r \in Rate :
         /\ trove = t /\ previousTrove = t /\ price = p /\ rate = r
         /\ collateral = t.collateral /\ netDebt = NetDebt(t)
    /\ stable = NoChange
    /\ queued = [collateral |-> collateral, netDebt |-> netDebt, stable |-> stable]
    /\ mounted = FALSE /\ thrown = FALSE /\ auto = FALSE /\ due = FALSE
    /\ wantedCollateral = 0 /\ wantedDebt = 0 /\ edits = 0

Shows(t, p, r) == trove' = t /\ price' = p /\ rate' = r

\* The form as its hooks have it on its first render.
Fresh(t) ==
    /\ collateral' = t.collateral /\ netDebt' = NetDebt(t) /\ stable' = NoChange
    /\ queued' = [collateral |-> t.collateral, netDebt |-> NetDebt(t), stable |-> NoChange]
    /\ previousTrove' = t
    /\ auto' = FALSE /\ due' = FALSE
    /\ wantedCollateral' = 0 /\ wantedDebt' = 0 /\ edits' = 0

\* ADJUST_TROVE_PRESSED.  The hooks take the state the store has.
Mount(t, p, r) ==
    /\ ~mounted /\ ~thrown
    /\ mounted' = TRUE
    /\ Shows(t, p, r)
    /\ Fresh(t)
    /\ UNCHANGED thrown

\* The store told of another trove, price, rate or of something else, or something
\* is queued: it is committed.
Render(t, p, r) ==
    /\ mounted /\ ~due
    /\ Shows(t, p, r)
    /\ collateral' = queued.collateral /\ netDebt' = queued.netDebt /\ stable' = queued.stable
    /\ due' = TRUE
    /\ UNCHANGED <<mounted, thrown, queued, auto, previousTrove, wantedCollateral, wantedDebt, edits>>

\* The trove is closed: liquidated, redeemed or closed from elsewhere.  The
\* render, or the first one, reads trove.netDebt, which throws, before it looks
\* at trove.status.
RenderClosed ==
    /\ ~thrown /\ (mounted => ~due)
    /\ thrown' = ~HasNetDebt(EmptyTrove)
    /\ mounted' = FALSE
    /\ Fresh(trove)
    /\ UNCHANGED storeVars

RunEffects ==
    /\ mounted /\ due
    /\ \E next \in Flushed : queued' = [RebaseEffect(queued) EXCEPT !.stable = next]
    /\ previousTrove' = trove
    /\ due' = FALSE
    /\ UNCHANGED <<storeVars, mounted, thrown, collateral, netDebt, stable, auto,
                   wantedCollateral, wantedDebt, edits>>

\* CANCEL_ADJUST_TROVE_PRESSED or TROVE_ADJUSTED.  Nothing is left of the edits.
Unmount ==
    /\ mounted
    /\ mounted' = FALSE
    /\ Fresh(trove)
    /\ UNCHANGED <<storeVars, thrown>>

\* The page is loaded again.
Reload ==
    /\ thrown
    /\ thrown' = FALSE
    /\ UNCHANGED <<storeVars, mounted, editVars>>

\* The amount a handler sets, or that it leaves alone.
Set(amounts, key, otherwise) == IF key \in DOMAIN amounts THEN amounts[key] ELSE otherwise

\* An event whose handler sets these amounts.  The effects that are due run after
\* it, so that what they set is the later value, queued behind the click's; then
\* the effects of the click's own commit run.
Click(amounts) ==
    /\ mounted
    /\ UNCHANGED <<storeVars, mounted, thrown, stable>>
    /\ collateral' = Set(amounts, "collateral", collateral)
    /\ netDebt' = Set(amounts, "netDebt", netDebt)
    /\ LET edited == EditedTrove(Set(amounts, "collateral", collateral),
                                Set(amounts, "netDebt", netDebt))
       IN  \E change \in Computed(edited), before \in Flushed :
             LET handled == [queued EXCEPT !.collateral = Set(amounts, "collateral", @),
                                           !.netDebt = Set(amounts, "netDebt", @),
                                           !.stable = before]
             IN  queued' = [RebaseEffect(handled) EXCEPT !.stable = StableEffect(@, change)]
    /\ wantedCollateral' = IF CollateralDue \/ "collateral" \notin DOMAIN amounts THEN wantedCollateral
                           ELSE amounts.collateral - trove.collateral
    /\ wantedDebt' = IF NetDebtDue \/ "netDebt" \notin DOMAIN amounts THEN wantedDebt
                     ELSE amounts.netDebt - NetDebt(trove)
    /\ previousTrove' = trove
    /\ due' = FALSE

------------------------------------------------------------------------------
(* The user.                                                               *)

\* A button that sends the offered change or asks for a consent.
Press == Click(<<>>) /\ UNCHANGED <<auto, edits>>

ToggleAuto == Click(<<>>) /\ auto' = ~auto /\ UNCHANGED edits

Edit(amounts) ==
    /\ edits < MaxEdits
    /\ edits' = edits + 1
    /\ Click(amounts)
    /\ UNCHANGED auto

Reset == IsDirty /\ Edit([collateral |-> trove.collateral, netDebt |-> NetDebt(trove)])

\* Broken: the net debt is not checked.
TypeCollateralUnchecked(amount) ==
    LET adjusts == auto /\ Div(Mul(amount, price), TotalDebt) < AutoRatio
        newNetDebt == Div(Mul(amount, price), AutoRatio) - RESERVE - Fee
    IN  Edit(IF adjusts THEN [collateral |-> amount, netDebt |-> newNetDebt]
             ELSE [collateral |-> amount])

\* collateralHandler(amount).  A net debt that would be negative throws before
\* anything is set, and the input is marked invalid.
TypeCollateral(amount) ==
    LET adjusts == auto /\ Div(Mul(amount, price), TotalDebt) < AutoRatio
        newNetDebt == Div(Mul(amount, price), AutoRatio) - RESERVE - Fee
    IN  /\ adjusts => newNetDebt >= 0
        /\ Edit(IF adjusts THEN [collateral |-> amount, netDebt |-> newNetDebt]
                ELSE [collateral |-> amount])

\* netDebtHandler(amount), with the fee of the last render.
TypeNetDebt(amount) ==
    LET newTotalDebt == amount + RESERVE + Fee
        adjusts == auto /\ Div(Mul(collateral, price), newTotalDebt) < AutoRatio
    IN  Edit(IF adjusts
             THEN [collateral |-> Div(Mul(newTotalDebt, AutoRatio), price), netDebt |-> amount]
             ELSE [netDebt |-> amount])

------------------------------------------------------------------------------
Next ==
    \/ \E t \in OpenTrove, p \in Price, r \in Rate : Mount(t, p, r) \/ Render(t, p, r)
    \/ RenderClosed
    \/ RunEffects
    \/ Unmount
    \/ Reload
    \/ Press
    \/ ToggleAuto
    \/ Reset
    \/ \E amount \in Amount : TypeCollateral(amount) \/ TypeNetDebt(amount)

Spec == Init /\ [][Next]_vars

------------------------------------------------------------------------------
(* Properties.                                                             *)

\* Nothing is queued and no effect is due.
Settled == ~due /\ queued = [collateral |-> collateral, netDebt |-> netDebt, stable |-> stable]

\* Whatever the store brings between an edit and the click that sends it, and
\* wherever clicks fall between commits and effects, the button comes to offer
\* the change the user asked for: to the unit for collateral and repayments, no
\* more than it for a debt to borrow.  Or the edit was dropped and the amount is
\* not changed at all.
\*
\* "Comes to": until the form has settled the button may offer a change of an
\* earlier render, also that between a new trove and an edit that is not rebased
\* yet, and sends it.  And an amount that is typed, or reset, before the effect
\* has rebased it on the trove that is shown does not count as asked for: the
\* effect's later value brings the earlier edit back.
OffersWhatWasWanted ==
    mounted /\ Settled /\ stable # NoChange =>
        LET params == stable.params
        IN  /\ "depositCollateral" \in DOMAIN params => params.depositCollateral = wantedCollateral
            /\ "withdrawCollateral" \in DOMAIN params => params.withdrawCollateral = -wantedCollateral
            /\ "repayHCHF" \in DOMAIN params => params.repayHCHF = -wantedDebt
            /\ "borrowHCHF" \in DOMAIN params => params.borrowHCHF \in 1..wantedDebt

\* The trove that the change a render computes results in is the one it shows, up
\* to a unit of the last digit of the debt.
ResultIsShown ==
    mounted =>
        LET result == Apply(trove, TroveChange, rate)
        IN  /\ result.collateral = UpdatedTrove.collateral
            /\ result.debt \in UpdatedTrove.debt..(UpdatedTrove.debt + 1)

\* "netDebt should not be used when debt < ..." (Trove.netDebt): the form does
\* not do so, even if the trove is closed while it is being adjusted.
NeverThrows == ~thrown

==============================================================================
