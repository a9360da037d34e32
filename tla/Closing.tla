------------------------------- MODULE Closing -------------------------------
(***************************************************************************)
(* The form of dev-frontend that closes the user's Trove: component        *)
(* TroveManager, which Trove.tsx mounts with the amounts 0 and 0.          *)
(*                                                                         *)
(* Its reducer is made anew by every render, so the `dispatch` of          *)
(* useLiquityReducer() is, too, and with it every effect runs after every  *)
(* commit: the form subscribes again, sets the edited amounts to zero      *)
(* again, which makes a Trove that is another object and asks for one more *)
(* render, and answers to the state of the transaction again.  Render and  *)
(* RunEffects therefore alternate for as long as the form is mounted.      *)
(*                                                                         *)
(* React is as in TroveView: a click is committed, and effects run, in its *)
(* own turn.  TroveManager is only mounted by a click.                     *)
(***************************************************************************)
EXTENDS TroveForms

CONSTANTS
    Redistribution,     \* what a redistribution adds to the Trove
    OtherTroves,        \* the total of the other Troves
    HchfBalance         \* balances of the user

VARIABLES
    chain,      \* the ledger
    stored,     \* the same as the store last told
    form,       \* the component
    tx, next,   \* the type of its transaction's state: committed, and to be
    flight,     \* the fate of the transaction that is not known to be over
    approving   \* the allowance that is being approved

vars == <<chain, stored, form, tx, next, flight, approving>>

waiting == {"waitingForApproval", "waitingForConfirmation"}
Allowance == {0} \cup UNION {{NetDebt(t), NetDebt(Add(t, Redistribution))} : t \in OpenTrove}
NoFlight == [change |-> "none", fate |-> "none"]

\* The user's Trove: with what was redistributed to it.
UserTrove(c) == IF IsEmpty(c.base) \/ ~c.redistributed THEN c.base ELSE Add(c.base, Redistribution)

\* selectForTroveChangeValidation()
Selected(c) ==
    [price |-> c.price, total |-> Add(OtherTroves, UserTrove(c)), accountBalance |-> 0,
     hchfBalance |-> c.hchfBalance, numberOfTroves |-> IF IsEmpty(OtherTroves) THEN 1 ELSE 2]

------------------------------------------------------------------------------
(* The reducer.  A borrowing rate of zero is its own.                      *)

getInitializer(trove) ==
    [original |-> trove, edited |-> trove, changePending |-> FALSE, debtDirty |-> FALSE,
     addedMinimumDebt |-> FALSE]

startChange(s) == [s EXCEPT !.changePending = TRUE]
finishChange(s) == [s EXCEPT !.changePending = FALSE]
revert(s) == [s EXCEPT !.edited = s.original, !.debtDirty = FALSE, !.addedMinimumDebt = FALSE]
addMinimumDebt(s) == [s EXCEPT !.edited.debt = MINIMUM_DEBT, !.addedMinimumDebt = TRUE]
removeMinimumDebt(s) == [s EXCEPT !.edited.debt = 0, !.addedMinimumDebt = FALSE]

setCollateral(s, newValue) ==
    LET new == [s EXCEPT !.edited.collateral = newValue]
    IN  IF ~s.debtDirty /\ IsEmpty(s.edited) /\ newValue # 0 THEN addMinimumDebt(new)
        ELSE IF ~s.debtDirty /\ s.addedMinimumDebt /\ newValue = 0 THEN removeMinimumDebt(new)
        ELSE new

setDebt(s, newValue) == [s EXCEPT !.edited.debt = newValue, !.debtDirty = TRUE]

\* `committed`: troveBeforeRedistribution is another.
updateStore(s, trove, committed) ==
    LET new == [s EXCEPT !.original = trove]
        change == WhatChanged(s.original, s.edited, 0)
    IN  IF s.changePending /\ committed THEN finishChange(revert(new))
        ELSE IF \/ change.type = "creation" /\ ~IsEmpty(trove)
                \/ change.type = "closure" /\ IsEmpty(trove)
        THEN revert(new)
        ELSE [new EXCEPT !.edited = Apply(trove, change, 0)]

------------------------------------------------------------------------------
(* Commits and their effects.                                              *)

\* Broken: the amounts are set once, by the effects of the first commit.
AmountsOnce(s) == IF form.mounted THEN s ELSE setDebt(setCollateral(s, 0), 0)

AmountsEffect(s) == setDebt(setCollateral(s, 0), 0)

\* useLiquityReducer(): it subscribes anew, and subscribe() calls the listener at
\* once, with the state of the store and no change.
SubscribeEffect(s) == updateStore(s, UserTrove(stored), FALSE)

TransactionEffect(s) ==
    IF tx \in waiting THEN startChange(s)
    ELSE IF tx = "failed" THEN finishChange(s)
    ELSE s

\* A confirmation is answered with TROVE_CLOSED or TROVE_ADJUSTED: the provider
\* takes the form off the page.
Ran(f) == [f EXCEPT !.state = TransactionEffect(AmountsEffect(SubscribeEffect(@))), !.due = FALSE,
                    !.leaving = @ \/ tx = "confirmedOneShot"]
Effects(f) == IF f.mounted /\ f.due THEN Ran(f) ELSE f
Committed(f) == [f EXCEPT !.shown = f.state, !.known = stored, !.due = TRUE]

NoForm == [mounted |-> FALSE]
Unmounted == form' = NoForm

\* The change that is offered, with what the last commit knew.  The borrowing
\* rate makes no difference to a closure.
ValidChange(f) ==
    validateTroveChange(f.shown.original, f.shown.edited, 0, Selected(f.known), TRUE)
RepayHCHF(change) == Param(change.params, "repayHCHF")

HasAllowance(f, change) == RepayHCHF(change) # 0 /\ RepayHCHF(change) <= f.known.allowance

------------------------------------------------------------------------------
Init ==
    /\ \E trove \in OpenTrove, price \in Price, balance \in HchfBalance :
         chain = [base |-> trove, redistributed |-> FALSE, price |-> price,
                  hchfBalance |-> balance, allowance |-> 0]
    /\ stored = chain
    /\ form = NoForm
    /\ tx = "idle" /\ next = "idle"
    /\ flight = NoFlight
    /\ approving = 0

\* The ledger: a redemption, a redistribution, a liquidation, another price.
ChainMoves ==
    /\ ~IsEmpty(chain.base)
    /\ \/ \E trove \in OpenTrove : chain' = [chain EXCEPT !.base = trove, !.redistributed = FALSE]
       \/ chain' = [chain EXCEPT !.redistributed = TRUE]
       \/ chain' = [chain EXCEPT !.base = EmptyTrove, !.redistributed = FALSE]
       \/ \E price \in Price : chain' = [chain EXCEPT !.price = price]
    /\ UNCHANGED <<stored, form, tx, next, flight, approving>>

\* The store tells of what it read.
Report ==
    /\ chain # stored
    /\ stored' = chain
    /\ form' = IF form.mounted
               THEN [form EXCEPT !.state = updateStore(@, UserTrove(chain), chain.base # stored.base)]
               ELSE form
    /\ UNCHANGED <<chain, tx, next, flight, approving>>

Render ==
    /\ (form.mounted => ~form.due) /\ (form.mounted \/ next # tx)
    /\ form' = IF form.mounted THEN Committed(form) ELSE form
    /\ tx' = next
    /\ UNCHANGED <<chain, stored, next, flight, approving>>

\* <TransactionMonitor>'s effect replaces a confirmedOneShot.
RunEffects ==
    /\ (form.mounted /\ form.due) \/ (~form.mounted /\ tx = "confirmedOneShot" /\ next = tx)
    /\ form' = Effects(form)
    /\ next' = IF tx = "confirmedOneShot" THEN "idle" ELSE next
    /\ UNCHANGED <<chain, stored, tx, flight, approving>>

\* CLOSE_TROVE_PRESSED on the view of an open Trove.
Mount ==
    /\ ~form.mounted /\ ~IsEmpty(UserTrove(stored))
    /\ LET s == getInitializer(UserTrove(stored))
       IN  form' = Ran([mounted |-> TRUE, state |-> s, shown |-> s, known |-> stored,
                       due |-> TRUE, leaving |-> FALSE])
    /\ UNCHANGED <<chain, stored, tx, next, flight, approving>>

\* CANCEL_ADJUST_TROVE_PRESSED.
Cancel ==
    /\ form.mounted
    /\ Unmounted
    /\ UNCHANGED <<chain, stored, tx, next, flight, approving>>

\* TroveViewProvider shows another view: the transaction was confirmed, or the
\* Trove is closed.
Leave ==
    /\ form.mounted /\ (form.leaving \/ IsEmpty(stored.base))
    /\ Unmounted
    /\ UNCHANGED <<chain, stored, tx, next, flight, approving>>

\* approveHchfSpender(): "Approve allowance of ...", unless it is loading.  (A
\* form that is mounted again does not know of an approval under way; one at a
\* time is a bound here.)
Approve ==
    /\ form.mounted /\ approving = 0
    /\ LET change == ValidChange(form)
       IN  /\ change # NoChange /\ ~HasAllowance(form, change)
           /\ approving' = RepayHCHF(change)
    /\ form' = Effects(Committed(Effects(form)))
    /\ UNCHANGED <<chain, stored, tx, next, flight>>

\* The approval ends, or fails.
Approved(succeeds) ==
    /\ approving # 0
    /\ approving' = 0
    /\ chain' = IF succeeds THEN [chain EXCEPT !.allowance = approving] ELSE chain
    /\ UNCHANGED <<stored, form, tx, next, flight>>

------------------------------------------------------------------------------
(* Transactions.                                                           *)

CanSend == flight = NoFlight /\ tx \notin waiting /\ next \notin waiting

\* The button is there and is not loading.
Sendable ==
    /\ form.mounted /\ CanSend
    /\ LET change == ValidChange(form)
       IN  change # NoChange /\ HasAllowance(form, change)

\* <TroveAction>: "Repay ...".
Send ==
    /\ Sendable
    /\ flight' = [change |-> "closure", fate |-> "sent"]
    /\ tx' = "waitingForApproval" /\ next' = tx'
    /\ form' = [Committed(Effects(form)) EXCEPT !.due = FALSE,
                    !.state = startChange(AmountsEffect(SubscribeEffect(Effects(form).state)))]
    /\ UNCHANGED <<chain, stored, approving>>

\* The form that adjusts the Trove sends its transaction, which matches
\* transactionIdMatcher, too.
SendAdjustment ==
    /\ ~form.mounted /\ CanSend /\ ~IsEmpty(stored.base)
    /\ flight' = [change |-> "adjustment", fate |-> "sent"]
    /\ tx' = "waitingForApproval" /\ next' = tx'
    /\ UNCHANGED <<chain, stored, form, approving>>

ClosureAccepted(c) ==
    LET trove == UserTrove(c)
    IN  /\ ~IsEmpty(trove) /\ NetDebt(trove) <= c.allowance
        /\ Accepts(trove, WhatChanged(trove, EmptyTrove, 0), 0, Selected(c))

\* The contract executes it or reverts.  (external)
Execute ==
    /\ flight.fate = "sent"
    /\ \/ /\ flight.change = "closure" /\ ClosureAccepted(chain)
          /\ chain' = [chain EXCEPT !.base = EmptyTrove, !.redistributed = FALSE, !.allowance = 0,
                                    !.hchfBalance = @ - NetDebt(UserTrove(chain))]
          /\ flight' = [flight EXCEPT !.fate = "executed"]
       \/ /\ flight.change = "adjustment" /\ ~IsEmpty(chain.base)
          /\ \E trove \in OpenTrove : chain' = [chain EXCEPT !.base = trove, !.redistributed = FALSE]
          /\ flight' = [flight EXCEPT !.fate = "executed"]
       \/ /\ flight.change = "closure" => ~ClosureAccepted(chain)
          /\ flight' = [flight EXCEPT !.fate = "reverted"]
          /\ UNCHANGED chain
    /\ UNCHANGED <<stored, form, tx, next, approving>>

\* send() resolves or rejects.  "failed" is cancelled, too.
Sent ==
    /\ next = "waitingForApproval" /\ flight # NoFlight
    /\ \/ next' = "waitingForConfirmation" /\ UNCHANGED flight
       \/ next' = "failed" /\ flight' = NoFlight
    /\ UNCHANGED <<chain, stored, form, tx, approving>>

\* The receipt, or, though it was executed, no receipt.
Receipt ==
    /\ tx = "waitingForConfirmation" /\ next = tx
    /\ flight.fate \in {"executed", "reverted"}
    /\ flight' = NoFlight
    /\ (flight.fate = "executed" /\ next' = "confirmedOneShot") \/ next' = "failed"
    /\ UNCHANGED <<chain, stored, form, tx, approving>>

\* Five seconds later.
Expire ==
    /\ next = "failed" /\ tx = next
    /\ next' = "idle"
    /\ UNCHANGED <<chain, stored, form, tx, flight, approving>>

Next ==
    \/ ChainMoves \/ Report \/ Render \/ RunEffects
    \/ Mount \/ Cancel \/ Leave
    \/ Approve \/ (\E succeeds \in BOOLEAN : Approved(succeeds))
    \/ Send \/ SendAdjustment \/ Execute \/ Sent \/ Receipt \/ Expire

Spec == Init /\ [][Next]_vars

------------------------------------------------------------------------------
(* Properties.                                                             *)

Settled ==
    /\ form.mounted /\ ~form.leaving
    /\ chain = stored /\ form.known = stored /\ next = tx
    /\ form.shown = form.state /\ Ran(form) = [form EXCEPT !.due = FALSE]

\* Redemptions, redistributions and transactions, those of other forms too,
\* change the Trove under the form and make its reducer take the edit back.
\* Yet once it has rendered what the store told, it offers to close the Trove
\* that the ledger has, for all its net debt, and nothing when that is closed.
ClosureOffered ==
    Settled =>
        WhatChanged(form.shown.original, form.shown.edited, 0)
            = WhatChanged(UserTrove(chain), EmptyTrove, 0)

\* What the form lets the user send, knowing what the ledger has, the contract
\* does not revert.
ClosureIsAccepted ==
    Settled /\ Sendable => ClosureAccepted(chain)

==============================================================================
