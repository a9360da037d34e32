------------------------------- MODULE Staking -------------------------------
(***************************************************************************)
(* The user's HLQT stake: StakingViewProvider, whose reducer decides what  *)
(* is shown, the form of StakingManager, and the transactions with id      *)
(* "stake".  React and useLiquityReducer() are as in Stability, with one   *)
(* difference: the form is mounted by an effect of the provider, in a turn *)
(* of its own, and subscribes to the store one turn later still.  A report *)
(* in between reaches the provider and not the form.                       *)
(***************************************************************************)
EXTENDS Integers

CONSTANTS
    Balance,       \* the user's HLQT, staked or not
    MaxGain        \* bound on the gains

VARIABLES
    pool,     \* the contracts: the user's stake and balance
    stored,   \* the same as the store last told
    ui,       \* the provider and the form
    flight,   \* the fate of the transaction that is not known to be over
    wanted,   \* what the user typed last
    missed    \* history: may the provider not notice that a change is over?

vars == <<pool, stored, ui, flight, wanted, missed>>

NoChange == [kind |-> "none", amount |-> 0]
NoFlight == [change |-> NoChange, fate |-> "none", signed |-> FALSE]

------------------------------------------------------------------------------
(* HLQTStake.                                                              *)

isEmpty(s) == s.stakedHLQT = 0 /\ s.collateralGain = 0 /\ s.hchfGain = 0

whatChanged(s, thatStakedHLQT) ==
    IF thatStakedHLQT < s.stakedHLQT
    THEN [kind |-> IF thatStakedHLQT = 0 THEN "unstakeAll" ELSE "unstake",
          amount |-> s.stakedHLQT - thatStakedHLQT]
    ELSE IF thatStakedHLQT > s.stakedHLQT
    THEN [kind |-> "stake", amount |-> thatStakedHLQT - s.stakedHLQT]
    ELSE NoChange

apply(s, change) ==
    IF change.kind = "stake" THEN s.stakedHLQT + change.amount
    ELSE IF change = NoChange THEN s.stakedHLQT
    ELSE IF change.kind = "unstakeAll" \/ s.stakedHLQT <= change.amount THEN 0
    ELSE s.stakedHLQT - change.amount

------------------------------------------------------------------------------
(* The reducers of StakingViewProvider and of StakingManager.              *)

init(s) == [hlqtStake |-> s, changePending |-> FALSE, adjusting |-> FALSE]

startAdjusting(p) == [p EXCEPT !.adjusting = TRUE]
cancelAdjusting(p) == [p EXCEPT !.adjusting = FALSE]
startChange(p) == [p EXCEPT !.changePending = TRUE]

\* Broken: a failure leaves the change pending.
AbortNothing(p) == p

abortChange(p) == [p EXCEPT !.changePending = FALSE]

changeCommitted(old, new) ==
    \/ new.stakedHLQT # old.stakedHLQT
    \/ new.collateralGain < old.collateralGain
    \/ new.hchfGain < old.hchfGain

\* Broken: a new stake does not close the form.
UpdateKeepsForm(p, new) ==
    [p EXCEPT !.hlqtStake = new, !.changePending = @ /\ ~changeCommitted(p.hlqtStake, new)]

updateStore(p, new) ==
    [p EXCEPT !.hlqtStake = new, !.adjusting = FALSE,
              !.changePending = @ /\ ~changeCommitted(p.hlqtStake, new)]

NoManager == [mounted |-> FALSE, subscribed |-> FALSE]
managerInit(s) == [mounted |-> TRUE, subscribed |-> FALSE, originalStake |-> s.stake,
                   editedLQTY |-> s.stake.stakedHLQT, hlqtBalance |-> s.hlqtBalance]
setStake(m, newValue) == [m EXCEPT !.editedLQTY = newValue]
managerUpdateStore(m, new) ==
    [m EXCEPT !.originalStake = new,
              !.editedLQTY = apply(new, whatChanged(m.originalStake, m.editedLQTY))]

------------------------------------------------------------------------------
(* Commits and their effects.                                              *)

waiting == {"waitingForApproval", "waitingForConfirmation"}

\* A commit shows the reducers' states, and mounts the form or takes it off.
Commit(u, view, tx) ==
    LET manager == IF view # "ADJUSTING" THEN NoManager
                   ELSE IF u.view = "ADJUSTING" THEN u.manager ELSE managerInit(stored)
    IN  [u EXCEPT !.view = view, !.manager = manager, !.edits = manager, !.shown = u.provider,
                  !.tx = tx, !.due = TRUE]

\* What a click commits shows the reducers' states, but no new balance.
CommitClick(u, view, tx) ==
    LET committed == Commit(u, view, tx)
    IN  IF u.view = "ADJUSTING" /\ view = "ADJUSTING"
        THEN [committed EXCEPT !.edits.hlqtBalance = u.edits.hlqtBalance] ELSE committed

Subscribe(u) == IF u.manager.mounted THEN [u EXCEPT !.manager.subscribed = TRUE, !.edits.subscribed = TRUE] ELSE u

\* The type of the transaction's state is not the one the effect last ran for.
TransactionEffect(u) ==
    IF u.tx = u.seenTx THEN u
    ELSE IF u.tx \in waiting THEN [u EXCEPT !.provider = startChange(@)]
    ELSE IF u.tx = "failed" THEN [u EXCEPT !.provider = abortChange(@)]
    ELSE u

View(p) == IF p.adjusting THEN "ADJUSTING" ELSE IF isEmpty(p.hlqtStake) THEN "NONE" ELSE "ACTIVE"

\* setViewState(); the refresh() that follows is one of the reports below.
ViewEffect(u) ==
    IF [u.shown EXCEPT !.changePending = FALSE] # u.seen THEN [u EXCEPT !.queued = View(u.shown)] ELSE u

Ran(u) == [u EXCEPT !.seenTx = u.tx, !.seen = [u.shown EXCEPT !.changePending = FALSE], !.due = FALSE,
                    !.next = IF u.tx = "confirmedOneShot" THEN "idle" ELSE @]
Effects(u) == IF u.due THEN Ran(ViewEffect(TransactionEffect(Subscribe(u)))) ELSE u

------------------------------------------------------------------------------
(* Turns.                                                                  *)

Init ==
    /\ \E s \in 0 .. Balance :
         pool = [stake |-> [stakedHLQT |-> s, collateralGain |-> 0, hchfGain |-> 0],
                 hlqtBalance |-> Balance - s, executed |-> FALSE]
    /\ stored = pool
    /\ LET p == init(pool.stake)
       IN  ui = [provider |-> p, shown |-> p, seen |-> p, view |-> View(p), queued |-> View(p),
                 tx |-> "idle", next |-> "idle", seenTx |-> "idle", due |-> FALSE,
                 manager |-> NoManager, edits |-> NoManager]
    /\ flight = NoFlight
    /\ wanted = NoChange
    /\ missed = FALSE

\* Fees are paid to the stakers.
OthersPay ==
    /\ pool.stake.stakedHLQT > 0
    /\ pool.stake.collateralGain + pool.stake.hchfGain < MaxGain
    /\ \/ pool' = [pool EXCEPT !.stake.collateralGain = @ + 1]
       \/ pool' = [pool EXCEPT !.stake.hchfGain = @ + 1]
    /\ UNCHANGED <<stored, ui, flight, wanted, missed>>

\* The form's selector hears of a balance.
Heard(m) == [m EXCEPT !.hlqtBalance = pool.hlqtBalance]

\* The store tells of a change: of an execution, the first time it does.
Report ==
    /\ pool # stored
    /\ stored' = [pool EXCEPT !.executed = FALSE]
    /\ pool' = stored'
    /\ IF pool.stake # stored.stake
       THEN /\ ui' = [ui EXCEPT
                 !.provider = updateStore(@, pool.stake),
                 !.manager = IF @.subscribed THEN Heard(managerUpdateStore(@, pool.stake)) ELSE @]
            /\ wanted' = IF ui'.provider.adjusting THEN wanted ELSE NoChange
       ELSE /\ ui' = [ui EXCEPT !.manager = IF @.subscribed THEN Heard(@) ELSE @]
            /\ UNCHANGED wanted
    /\ missed' = \/ missed
                 \/ pool.executed /\ flight # NoFlight /\ ui.seenTx # "waitingForConfirmation"
                 \/ pool.executed /\ ~changeCommitted(stored.stake, pool.stake)
    /\ UNCHANGED flight

Render ==
    /\ ~ui.due
    /\ \/ ui.queued # ui.view \/ ui.next # ui.tx \/ ui.manager # ui.edits \/ ui.provider # ui.shown
    /\ ui' = Commit(ui, ui.queued, ui.next)
    /\ UNCHANGED <<pool, stored, flight, wanted, missed>>

RunEffects ==
    /\ ui.due
    /\ ui' = Effects(ui)
    /\ UNCHANGED <<pool, stored, flight, wanted, missed>>

\* Effects that are due run, the click is committed, and its effects run.  A
\* view queued before the click is not committed with it.
Clicked(u) == Effects(CommitClick(u, u.view, u.tx))

\* "Start staking", and "Adjust" unless a <LoadingOverlay> covers it.
StartAdjusting ==
    LET before == Effects(ui)
    IN  /\ ui.view = "NONE" \/ (ui.view = "ACTIVE" /\ ~ui.shown.changePending)
        /\ ui' = Clicked([before EXCEPT !.provider = startAdjusting(@)])
        /\ wanted' = NoChange
        /\ UNCHANGED <<pool, stored, flight, missed>>

CancelAdjusting ==
    LET before == Effects(ui)
    IN  /\ ui.view = "ADJUSTING"
        /\ ui' = Clicked([before EXCEPT !.provider = cancelAdjusting(@)])
        /\ UNCHANGED <<pool, stored, flight, wanted, missed>>

\* The user types an amount, or reverts.
SetStake(newValue) ==
    LET before == Effects(ui)
    IN  /\ ui.view = "ADJUSTING"
        /\ ui' = Clicked([before EXCEPT !.manager = setStake(@, newValue)])
        /\ wanted' = whatChanged(before.manager.originalStake, newValue)
        /\ UNCHANGED <<pool, stored, flight, missed>>

------------------------------------------------------------------------------
(* Transactions.                                                           *)

Sent(change) ==
    LET before == Effects([ui EXCEPT !.next = "waitingForApproval"])
    IN  /\ flight = NoFlight /\ ui.tx \notin waiting /\ ui.next \notin waiting
        /\ flight' = [change |-> change, fate |-> "sent", signed |-> FALSE]
        /\ ui' = Effects(CommitClick(before, before.view, "waitingForApproval"))
        /\ missed' = FALSE
        /\ UNCHANGED <<pool, stored, wanted>>

\* <StakingManagerAction>: a valid change, unless one is pending.
Send ==
    /\ ui.view = "ADJUSTING" /\ ~ui.shown.changePending
    /\ LET change == whatChanged(ui.edits.originalStake, ui.edits.editedLQTY)
       IN  /\ change # NoChange
           /\ change.kind = "stake" => change.amount <= ui.edits.hlqtBalance
           /\ Sent(change)

\* <StakingGainsAction>.
Claim ==
    /\ ui.view = "ACTIVE" /\ ~ui.shown.changePending
    /\ ui.shown.hlqtStake.collateralGain # 0 \/ ui.shown.hlqtStake.hchfGain # 0
    /\ Sent(NoChange)

\* The contract executes it, paying the gains, or reverts.
Execute ==
    LET s == pool.stake
        new == apply(s, flight.change)
    IN  /\ flight.fate = "sent"
        /\ IF \/ flight.change.kind = "stake" /\ flight.change.amount > pool.hlqtBalance
              \/ flight.change.kind # "stake" /\ s.stakedHLQT = 0
           THEN flight' = [flight EXCEPT !.fate = "reverted"] /\ UNCHANGED pool
           ELSE /\ flight' = [flight EXCEPT !.fate = "executed"]
                /\ pool' = [stake |-> [stakedHLQT |-> new, collateralGain |-> 0, hchfGain |-> 0],
                            hlqtBalance |-> pool.hlqtBalance + s.stakedHLQT - new, executed |-> TRUE]
        /\ UNCHANGED <<stored, ui, wanted, missed>>

Becomes(type) == ui' = [ui EXCEPT !.next = type]

\* send() resolves or rejects.  "failed" is cancelled, too.
Approved ==
    /\ flight # NoFlight /\ ~flight.signed
    /\ flight' = [flight EXCEPT !.signed = TRUE]
    /\ Becomes("waitingForConfirmation")
    /\ UNCHANGED <<pool, stored, wanted, missed>>
Rejected ==
    /\ flight # NoFlight /\ ~flight.signed
    /\ flight' = NoFlight
    /\ Becomes("failed")
    /\ UNCHANGED <<pool, stored, wanted, missed>>

\* <TransactionMonitor>, whose effects run with the provider's, has the receipt
\* or, though it was executed, fails to get it.
Receipt ==
    /\ ui.seenTx = "waitingForConfirmation" /\ ui.next = ui.seenTx
    /\ flight.fate \in {"executed", "reverted"}
    /\ flight' = NoFlight
    /\ (flight.fate = "executed" /\ Becomes("confirmedOneShot")) \/ Becomes("failed")
    /\ UNCHANGED <<pool, stored, wanted, missed>>

\* Five seconds later.
Expire ==
    /\ ui.next = "failed" /\ ui.next = ui.tx
    /\ Becomes("idle")
    /\ UNCHANGED <<pool, stored, flight, wanted, missed>>

Next ==
    \/ OthersPay \/ Report \/ Render \/ RunEffects
    \/ StartAdjusting \/ CancelAdjusting
    \/ \E newValue \in 0 .. Balance : SetStake(newValue)
    \/ Send \/ Claim \/ Execute \/ Approved \/ Rejected \/ Receipt \/ Expire

Spec == Init /\ [][Next]_vars

------------------------------------------------------------------------------
(* Properties.                                                             *)

Settled ==
    /\ ~ui.due /\ ui.queued = ui.view /\ ui.next = ui.tx
    /\ ui.manager = ui.edits /\ ui.provider = ui.shown
    /\ stored = pool

\* The form offers, of the stake that the store knows, the change that was
\* typed since it last told of a stake: not one that was executed, shown as
\* failed or not, and not one typed for another stake, though the form itself
\* may have missed the report.
StakeOfferedOnce ==
    Settled /\ ui.view = "ADJUSTING" =>
        /\ ui.edits.originalStake = stored.stake
        /\ whatChanged(ui.edits.originalStake, ui.edits.editedLQTY) = wanted

\* A change is pending no longer than its transaction.  The exceptions are a
\* report of the execution that comes before waitingForConfirmation, which calls
\* the change pending once more, and one that does not show it, because gains
\* were paid again: then the provider waits for a later change of the stake.
StakeChangeEnds ==
    Settled /\ ui.tx = "idle" /\ flight = NoFlight /\ ~missed => ~ui.shown.changePending
==============================================================================
