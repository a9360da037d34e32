------------------------------ MODULE Stability ------------------------------
(***************************************************************************)
(* The user's deposit in the stability pool: the view that                 *)
(* StabilityViewProvider chooses, the form of StabilityDepositManager      *)
(* whose reducer carries an edit over the updates of the store, and the    *)
(* transactions with id "stability-deposit".                               *)
(*                                                                         *)
(* React is as in TroveView: clicks are committed with their effects in    *)
(* one turn, everything else that is queued by a later turn, and the       *)
(* effects of that commit in one more, those of children first.            *)
(* useLiquityReducer() keeps its state in a ref: the reducer runs when the *)
(* store tells of a change, what is shown of it follows with the next      *)
(* commit.  The user stays on the page, is associated with the tokens, has *)
(* an allowance (TokenAssociation) and no frontend of its own.             *)
(***************************************************************************)
EXTENDS Integers

CONSTANTS
    Balance,       \* the user's HCHF, deposited or not
    MaxReward      \* bound on gains and rewards

ASSUME StabilityAssumption == Balance \in Nat

VARIABLES
    pool,     \* the contracts: the deposit, and the balance
    stored,   \* the same as the store last told
    ui,       \* the provider and the form
    flight,   \* the transaction sent and not known to be over
    wanted,   \* history: the change typed last, unless it may be lost
    done,     \* history: was the change that was sent last executed, and is
              \* that known?
    excused   \* history: the exception of DepositViewFits

vars == <<pool, stored, ui, flight, wanted, done, excused>>

NoChange == [kind |-> "none", amount |-> 0]
NoFlight == [change |-> NoChange, fate |-> "none", signed |-> FALSE]

------------------------------------------------------------------------------
(* StabilityDeposit.                                                       *)

isEmpty(d) ==
    d.initialHCHF = 0 /\ d.currentHCHF = 0 /\ d.collateralGain = 0 /\ d.hlqtReward = 0

whatChanged(d, thatHCHF) ==
    IF thatHCHF < d.currentHCHF
    THEN [kind |-> IF thatHCHF = 0 THEN "withdrawAll" ELSE "withdraw", amount |-> d.currentHCHF - thatHCHF]
    ELSE IF thatHCHF > d.currentHCHF
    THEN [kind |-> "deposit", amount |-> thatHCHF - d.currentHCHF]
    ELSE NoChange

\* Broken: the amount to withdraw is taken off what is left, whatever that is.
ApplyUnclipped(d, change) ==
    IF change.kind = "deposit" THEN d.currentHCHF + change.amount
    ELSE IF change = NoChange THEN d.currentHCHF
    ELSE IF d.currentHCHF >= change.amount THEN d.currentHCHF - change.amount
    ELSE change.amount - d.currentHCHF

apply(d, change) ==
    IF change.kind = "deposit" THEN d.currentHCHF + change.amount
    ELSE IF change = NoChange THEN d.currentHCHF
    ELSE IF change.kind = "withdrawAll" \/ d.currentHCHF <= change.amount THEN 0
    ELSE d.currentHCHF - change.amount

\* The change that may be sent.
validateStabilityDepositChange(d, edited, context) ==
    LET change == whatChanged(d, edited)
    IN  IF \/ change.kind = "deposit" /\ change.amount > context.hchfBalance
           \/ change.kind \in {"withdraw", "withdrawAll"} /\ context.haveUndercollateralizedTroves
        THEN NoChange ELSE change

------------------------------------------------------------------------------
(* StabilityDepositManager.                                                *)

\* The manager's reducer, and the balance that it has heard of.
NoManager == [mounted |-> FALSE, subscribed |-> FALSE]
init(s) == [mounted |-> TRUE, subscribed |-> FALSE, originalDeposit |-> s.deposit,
            editedHCHF |-> s.deposit.currentHCHF, changePending |-> FALSE, hchfBalance |-> s.hchfBalance]

startChange(m) == [m EXCEPT !.changePending = TRUE]
finishChange(m) == [m EXCEPT !.changePending = FALSE]
setDeposit(m, newValue) == [m EXCEPT !.editedHCHF = newValue]
revert(m) == [m EXCEPT !.editedHCHF = m.originalDeposit.currentHCHF]

changeCommitted(old, new) ==
    \/ new.initialHCHF # old.initialHCHF
    \/ new.currentHCHF > old.currentHCHF
    \/ new.collateralGain < old.collateralGain
    \/ new.hlqtReward < old.hlqtReward

updateStore(m, new) ==
    LET newState == [m EXCEPT !.originalDeposit = new]
    IN  IF m.changePending /\ changeCommitted(m.originalDeposit, new)
        THEN finishChange(revert(newState))
        ELSE [newState EXCEPT !.editedHCHF = apply(new, whatChanged(m.originalDeposit, m.editedHCHF))]

------------------------------------------------------------------------------
(* StabilityViewProvider.                                                  *)

transitions ==
    [NONE       |-> [DEPOSIT_PRESSED |-> "DEPOSITING"],
     DEPOSITING |-> [CANCEL_PRESSED |-> "NONE", DEPOSIT_CONFIRMED |-> "ACTIVE"],
     ACTIVE     |-> [REWARDS_CLAIMED |-> "ACTIVE", ADJUST_DEPOSIT_PRESSED |-> "ADJUSTING",
                     DEPOSIT_EMPTIED |-> "NONE"],
     ADJUSTING  |-> [CANCEL_PRESSED |-> "ACTIVE", DEPOSIT_CONFIRMED |-> "ACTIVE",
                     DEPOSIT_EMPTIED |-> "NONE"]]
transition(view, event) ==
    IF event \in DOMAIN transitions[view] THEN transitions[view][event] ELSE view

getInitialView(d) == IF isEmpty(d) THEN "NONE" ELSE "ACTIVE"

dispatchEvent(u, event) == [u EXCEPT !.queued = transition(u.ref, event)]

Edits(view) == view \in {"DEPOSITING", "ADJUSTING"}
waiting == {"waitingForApproval", "waitingForConfirmation"}

\* Broken: a confirmation ends the change as a failure does.
ConfirmedLikeFailed(u) ==
    IF u.tx = u.seenTx THEN u
    ELSE IF Edits(u.view) /\ u.tx \in waiting THEN [u EXCEPT !.manager = startChange(@)]
    ELSE IF Edits(u.view) /\ u.tx \in {"failed", "confirmedOneShot"}
    THEN [u EXCEPT !.manager = finishChange(@)]
    ELSE u

\* The effects of the mounted component: of the manager, of <ActiveDeposit>.
ChildEffect(u) ==
    IF u.tx = u.seenTx THEN u
    ELSE IF Edits(u.view) /\ u.tx \in waiting THEN [u EXCEPT !.manager = startChange(@)]
    ELSE IF Edits(u.view) /\ u.tx = "failed" THEN [u EXCEPT !.manager = finishChange(@)]
    ELSE IF Edits(u.view) /\ u.tx = "confirmedOneShot" THEN dispatchEvent(u, "DEPOSIT_CONFIRMED")
    ELSE IF u.view = "ACTIVE" /\ u.tx = "confirmedOneShot" THEN dispatchEvent(u, "REWARDS_CLAIMED")
    ELSE u

\* Broken: the provider looks at the deposit when it is mounted only.
EmptyEffectOnMount(u) == u

\* The deposit has become empty, or not, since the effect last ran.
EmptyEffect(u) ==
    IF u.empty # u.seenEmpty /\ u.empty THEN dispatchEvent(u, "DEPOSIT_EMPTIED") ELSE u

\* <TransactionMonitor> replaces a confirmedOneShot (by a state that means
\* nothing to the components, as idle does).
Ran(u) == [u EXCEPT !.seenTx = u.tx, !.seenEmpty = u.empty, !.due = FALSE,
                    !.next = IF u.tx = "confirmedOneShot" THEN "idle" ELSE @]
Subscribe(u) == IF u.manager.mounted THEN [u EXCEPT !.manager.subscribed = TRUE, !.shown.subscribed = TRUE] ELSE u
Effects(u) ==
    IF u.due THEN Ran(EmptyEffect([ChildEffect(Subscribe(u)) EXCEPT !.ref = u.view])) ELSE u

\* A commit mounts the manager, with the state of the store, or takes it off.
\* The effects of a component that is mounted run whatever they depend on.
Commit(u, view, tx) ==
    LET manager == IF ~Edits(view) THEN NoManager
                   ELSE IF Edits(u.view) THEN u.manager ELSE init(stored)
    IN  [u EXCEPT !.view = view, !.manager = manager, !.shown = manager, !.tx = tx, !.due = TRUE,
                  !.seenTx = IF view # u.view /\ ~(Edits(view) /\ Edits(u.view)) THEN "unseen" ELSE @]

\* What a click commits shows the reducer's state, but no new state of the store.
CommitClick(u, view, tx) ==
    LET committed == Commit(u, view, tx)
    IN  IF Edits(u.view) /\ Edits(view) THEN [committed EXCEPT !.shown.hchfBalance = u.shown.hchfBalance]
        ELSE committed

------------------------------------------------------------------------------
(* Turns.                                                                  *)

Init ==
    /\ \E c \in 0 .. Balance :
         pool = [deposit |-> [initialHCHF |-> c, currentHCHF |-> c, collateralGain |-> 0, hlqtReward |-> 0],
                 hchfBalance |-> Balance - c]
    /\ stored = pool
    /\ LET view == getInitialView(pool.deposit)
       IN  ui = [view |-> view, queued |-> view, ref |-> view,
                 empty |-> isEmpty(pool.deposit), seenEmpty |-> isEmpty(pool.deposit),
                 tx |-> "idle", next |-> "idle", seenTx |-> "idle", due |-> FALSE,
                 manager |-> NoManager, shown |-> NoManager]
    /\ flight = NoFlight
    /\ wanted = NoChange
    /\ done = "no"
    /\ excused = FALSE

\* Troves are liquidated: the pool takes HCHF of the deposit and gives HBAR.
OthersLiquidate ==
    /\ pool.deposit.currentHCHF > 0
    /\ pool.deposit.collateralGain < MaxReward
    /\ pool' = [pool EXCEPT !.deposit.currentHCHF = @ - 1, !.deposit.collateralGain = @ + 1,
                            !.deposit.hlqtReward = 1]
    /\ UNCHANGED <<stored, ui, flight, wanted, done, excused>>

\* The form has yet to hear of a transaction that was executed.
Unheard == ui.manager.mounted /\ changeCommitted(ui.manager.originalDeposit, pool.deposit)

\* The store tells of a change.
Heard(m) ==
    [(IF pool.deposit # stored.deposit THEN updateStore(m, pool.deposit) ELSE m)
        EXCEPT !.hchfBalance = pool.hchfBalance]

Report ==
    /\ pool # stored
    /\ stored' = pool
    /\ ui' = IF ui.manager.subscribed THEN [ui EXCEPT !.manager = Heard(@)] ELSE ui
    /\ done' = IF done = "executed" /\ ui.manager.subscribed /\ pool.deposit # stored.deposit /\ Unheard THEN "known" ELSE done
    /\ UNCHANGED <<pool, flight, wanted, excused>>

Render ==
    /\ ~ui.due
    /\ \/ ui.queued # ui.view \/ ui.next # ui.tx \/ ui.manager # ui.shown
       \/ ui.empty # isEmpty(stored.deposit)
    /\ ui' = [Commit(ui, ui.queued, ui.next) EXCEPT !.empty = isEmpty(stored.deposit)]
    /\ UNCHANGED <<pool, stored, flight, wanted, done, excused>>

\* A confirmation is answered over an empty deposit: one that the store has yet
\* to show, or one that was emptied while a click was handled.
ConfirmedEmpty(u) == u.due /\ u.view # "NONE" /\ u.tx = "confirmedOneShot" /\ u.empty
\* The button of another view than the ref's, or it replaces the view that was
\* to be shown because the deposit was emptied.
Overtakes == ui.ref # ui.view \/ (ui.queued # ui.view /\ ui.queued = "NONE")
ExcusedAfter(u, e) == (e \/ ConfirmedEmpty(u)) /\ ~(u.due /\ u.empty # u.seenEmpty)

RunEffects ==
    /\ ui.due
    /\ ui' = Effects(ui)
    /\ excused' = ExcusedAfter(ui, excused)
    /\ UNCHANGED <<pool, stored, flight, wanted, done>>

\* A button, or, of an active deposit, one that no LoadingOverlay covers.
\* Effects that are due run, the click is committed, and its effects run.
Click(event) ==
    LET handled == dispatchEvent(ui, event)
        before == Effects(handled)
        committed == CommitClick(before, handled.queued, before.tx)
    IN  /\ event \in DOMAIN transitions[ui.view]
        /\ event \in {"DEPOSIT_PRESSED", "CANCEL_PRESSED", "ADJUST_DEPOSIT_PRESSED"}
        /\ ui.view = "ACTIVE" => ui.tx \notin waiting
        /\ ui' = Effects(committed)
        /\ wanted' = NoChange
        /\ excused' = ExcusedAfter(committed, ExcusedAfter(ui, excused) \/ Overtakes)
        /\ UNCHANGED <<pool, stored, flight, done>>

\* The user types an amount, or reverts.
Type(newValue) ==
    LET before == Effects(ui)
    IN  /\ Edits(ui.view)
        /\ LET m == setDeposit(before.manager, newValue)
           IN  ui' = Effects(CommitClick([before EXCEPT !.manager = m], before.view, before.tx))
        /\ wanted' = IF flight # NoFlight \/ before.manager.changePending THEN NoChange
                     ELSE whatChanged(before.manager.originalDeposit, newValue)
        /\ done' = IF flight # NoFlight THEN "retyped" ELSE "no"
        /\ excused' = ExcusedAfter(ui, excused)
        /\ UNCHANGED <<pool, stored, flight>>

------------------------------------------------------------------------------
(* Transactions.                                                           *)

Sent(change) ==
    LET before == Effects([ui EXCEPT !.next = "waitingForApproval"])
    IN  /\ flight = NoFlight /\ ui.tx \notin waiting /\ ui.next \notin waiting
        /\ flight' = [change |-> change, fate |-> "sent", signed |-> FALSE]
        /\ ui' = Effects(CommitClick(before, before.view, "waitingForApproval"))
        /\ wanted' = IF Unheard THEN NoChange ELSE wanted
        /\ done' = "no"
        /\ excused' = ExcusedAfter(ui, excused)
        /\ UNCHANGED <<pool, stored>>

\* The buttons of <StabilityDepositAction> and <ClaimRewards>.  Prices move, so
\* there may or may not seem to be undercollateralized Troves.
Send ==
    /\ Edits(ui.view)
    /\ \E haveUndercollateralizedTroves \in BOOLEAN :
         LET change == validateStabilityDepositChange(
                 ui.shown.originalDeposit, ui.shown.editedHCHF,
                 [hchfBalance |-> ui.shown.hchfBalance,
                  haveUndercollateralizedTroves |-> haveUndercollateralizedTroves])
         IN  change # NoChange /\ Sent(change)
Claim == ui.view = "ACTIVE" /\ Sent(NoChange)

\* The contract reverts, of a withdrawal also because there are undercollateralized
\* Troves, or executes it and pays the gains.
Revert ==
    /\ flight.fate = "sent"
    /\ \/ flight.change.kind = "deposit" /\ flight.change.amount > pool.hchfBalance
       \/ flight.change.kind \in {"withdraw", "withdrawAll"}
       \/ flight.change = NoChange /\ pool.deposit.initialHCHF = 0
    /\ flight' = [flight EXCEPT !.fate = "reverted"]
    /\ UNCHANGED <<pool, stored, ui, wanted, done, excused>>
Execute ==
    LET d == pool.deposit
        new == apply(d, flight.change)
    IN  /\ flight.fate = "sent"
        /\ flight.change.kind = "deposit" => flight.change.amount <= pool.hchfBalance
        /\ flight.change.kind \in {"withdraw", "withdrawAll"} => d.currentHCHF > 0
        /\ flight.change = NoChange => d.initialHCHF > 0
        /\ flight' = [flight EXCEPT !.fate = "executed"]
        /\ pool' = [deposit |-> [initialHCHF |-> new, currentHCHF |-> new, collateralGain |-> 0, hlqtReward |-> 0],
                    hchfBalance |-> pool.hchfBalance + d.currentHCHF - new]
        /\ wanted' = NoChange
        /\ done' = IF done = "retyped" THEN done ELSE "executed"
        /\ UNCHANGED <<stored, ui, excused>>

Becomes(type) == ui' = [ui EXCEPT !.next = type]
Fails ==
    /\ Becomes("failed")
    /\ done' = IF done = "executed" THEN "no" ELSE done

\* send() resolves or rejects.  "failed" is cancelled, too.
Approved ==
    /\ flight # NoFlight /\ ~flight.signed
    /\ flight' = [flight EXCEPT !.signed = TRUE]
    /\ Becomes("waitingForConfirmation")
    /\ UNCHANGED <<pool, stored, wanted, done, excused>>
Rejected ==
    /\ flight # NoFlight /\ ~flight.signed
    /\ flight' = NoFlight
    /\ Fails
    /\ UNCHANGED <<pool, stored, wanted, excused>>

\* The receipt, or, though it was executed, no receipt.
Receipt ==
    /\ ui.tx = "waitingForConfirmation" /\ ui.next = ui.tx
    /\ flight.fate \in {"executed", "reverted"}
    /\ flight' = NoFlight
    /\ \/ /\ flight.fate = "executed"
          /\ Becomes("confirmedOneShot")
          /\ done' = IF done = "executed" THEN "known" ELSE done
       \/ Fails
    /\ UNCHANGED <<pool, stored, wanted, excused>>

\* Five seconds later.
Expire ==
    /\ ui.next = "failed" /\ ui.next = ui.tx
    /\ Becomes("idle")
    /\ UNCHANGED <<pool, stored, flight, wanted, done, excused>>

Next ==
    \/ OthersLiquidate \/ Report \/ Render \/ RunEffects
    \/ \E event \in {"DEPOSIT_PRESSED", "CANCEL_PRESSED", "ADJUST_DEPOSIT_PRESSED"} : Click(event)
    \/ \E newValue \in 0 .. Balance : Type(newValue)
    \/ Send \/ Claim \/ Revert \/ Execute \/ Approved \/ Rejected \/ Receipt \/ Expire

Spec == Init /\ [][Next]_vars

------------------------------------------------------------------------------
(* Properties.                                                             *)

Settled == ~ui.due /\ ui.queued = ui.view /\ ui.next = ui.tx /\ stored = pool /\ ui.manager = ui.shown
           /\ ui.empty = isEmpty(stored.deposit)

Offered == whatChanged(ui.shown.originalDeposit, ui.shown.editedHCHF)

\* A change that was executed is not offered once more, whatever else changes
\* the deposit meanwhile and however far the store lags: when the transaction is
\* shown as confirmed, or the form has heard of a deposit that it can tell from
\* the old one, the form is closed or back at the deposit until the user types
\* again.  Nothing is said of a transaction that is shown as failed, though it
\* was executed, before the form has heard of it: the form offers that once
\* more.  What is typed while the transaction is on its way is another change.
DepositOfferedOnce ==
    Settled /\ ui.shown.mounted /\ done = "known" =>
        Offered = NoChange

\* The form offers what was typed, after any number of liquidations and after a
\* transaction that was not executed: the same amount or, of a withdrawal, all
\* that is left, if that is less or all was to be withdrawn.  The exceptions are
\* what was typed while a transaction was on its way or the form still took a
\* change to be pending, and what was sent when the form had yet to hear of an
\* earlier one: a report of it takes them back.
DepositOffersWhatWasWanted ==
    Settled /\ ui.shown.mounted /\ wanted # NoChange =>
        \/ Offered = wanted
        \/ /\ wanted.kind \in {"withdraw", "withdrawAll"}
           /\ ui.shown.editedHCHF = 0
           /\ wanted.kind = "withdraw" => Offered.amount <= wanted.amount

\* An empty deposit is not shown as an active one, whatever the order in which
\* clicks, confirmations and the store reach dispatchEvent(), also when effects
\* that are due run after the handler of a click.  The exceptions last until the
\* deposit is emptied or filled the next time: a click that falls between a
\* commit and the effect that sets the ref, or that replaces the view queued for
\* an emptied deposit, and a confirmation that is answered over an empty deposit.
DepositViewFits ==
    Settled /\ ~excused =>
        (isEmpty(stored.deposit) => ui.view \in {"NONE", "DEPOSITING"})
==============================================================================
