--------------------------- MODULE TransactionFlow ---------------------------
(***************************************************************************)
(* How the app of dev-frontend sends a transaction and follows it to its   *)
(* outcome: useTxFunction(), <Transaction> and <TransactionMonitor>.  All   *)
(* of them share ONE TransactionState, whatever number of sends is in      *)
(* flight.  send() is that of lib-hashgraph: it resolves when the network  *)
(* has executed the transaction, and waitForReceipt() then reads the       *)
(* details and refreshes the store.                                        *)
(*                                                                         *)
(* The state is React state: a call of its setter is queued, the last of   *)
(* the queued values is committed by a later turn, and the effects run     *)
(* whose dependencies then differ.  A click is a discrete event, so what   *)
(* its handler sets is committed before any other turn.                    *)
(*                                                                         *)
(* store.refresh(), which most of these steps call, is not an action here: *)
(* HLiquityStore has it and lets it happen at any time.                    *)
(***************************************************************************)
EXTENDS Naturals, FiniteSets

CONSTANTS
    Id,         \* transaction ids ("stake", "trove-adjust", ...)
    Guarded,    \* ids sent by a <Transaction> button; the others are sent by
                \* a button of their own that calls useTxFunction()'s function
    Send,       \* calls of sendTransaction that may be in flight together
    NoId, NoTx  \* what the state has for `id` and `tx` when it has none

ASSUME IdAssumption ==
    /\ Guarded \subseteq Id
    /\ NoId \notin Id
    /\ NoTx \notin Send

VARIABLES
    state,      \* the value the last setTransactionState() was called with
    shown,      \* the TransactionState that is committed
    signing,    \* the calls of sendTransaction awaiting send()
    of,         \* of[s]: the id call s was made with
    watching,   \* the tx whose receipt the monitor's effect awaits
    timer,      \* is the 5 s timer of the monitor's other effect running?
    succeeded,  \* ids whose last transactions include one that succeeded
    direct      \* was a button pressed that is no <Transaction>?

vars == <<state, shown, signing, of, watching, timer, succeeded, direct>>

Waiting == {"waitingForApproval", "waitingForConfirmation"}
Ended == {"confirmed", "failed", "cancelled"}
Idle == [type |-> "idle", id |-> NoId, tx |-> NoTx]
At(type, id) == [type |-> type, id |-> id, tx |-> NoTx]
Confirming(id, tx) == [type |-> "waitingForConfirmation", id |-> id, tx |-> tx]

\* A call of sendTransaction, and its tx, is named by a member of Send.
TransactionState ==
    {t \in [type : {"idle", "confirmedOneShot"} \cup Waiting \cup Ended,
            id : Id \cup {NoId}, tx : Send \cup {NoTx}] :
        /\ t.type = "idle" <=> t.id = NoId
        /\ t.type = "waitingForConfirmation" <=> t.tx # NoTx}

TypeOK ==
    /\ state \in TransactionState
    /\ shown \in TransactionState
    /\ signing \subseteq Send
    /\ of \in [Send -> Id]
    /\ watching \in Send \cup {NoTx}
    /\ timer \in BOOLEAN
    /\ succeeded \subseteq Id
    /\ direct \in BOOLEAN

Init ==
    /\ state = Idle
    /\ shown = Idle
    /\ signing = {}
    /\ of \in [Send -> Id]
    /\ watching = NoTx
    /\ timer = FALSE
    /\ succeeded = {}
    /\ direct = FALSE

------------------------------------------------------------------------------
(* React (external) and the two effects of TransactionMonitor.             *)

\* The dependencies of the effect that awaits the receipt, and those of the
\* effect that ends the display of an outcome.
WatchDeps(s) == <<s.id, s.tx>>
EndDeps(s) == <<s.type, s.id>>

\* Broken: the cleanup forgets to cancel the wait for the receipt.
CommitWithoutCancel(next) ==
    LET rewatch == WatchDeps(next) # WatchDeps(shown)
        reend == EndDeps(next) # EndDeps(shown)
    IN  /\ shown' = next
        /\ watching' = IF rewatch /\ next.tx # NoTx THEN next.tx ELSE watching
        /\ timer' = IF reend THEN next.type \in Ended ELSE timer
        /\ state' = IF reend /\ next.type = "confirmedOneShot" THEN At("confirmed", next.id)
                    ELSE IF rewatch /\ watching # NoTx THEN Idle ELSE next

\* Broken: a cancelled transaction starts no timer.
CommitCancelledStays(next) ==
    LET rewatch == WatchDeps(next) # WatchDeps(shown)
        reend == EndDeps(next) # EndDeps(shown)
    IN  /\ shown' = next
        /\ watching' = IF rewatch THEN next.tx ELSE watching
        /\ timer' = IF reend THEN next.type \in {"confirmed", "failed"} ELSE timer
        /\ state' = IF reend /\ next.type = "confirmedOneShot" THEN At("confirmed", next.id)
                    ELSE IF rewatch /\ watching # NoTx THEN Idle ELSE next

\* Broken: the cleanup forgets to cancel the timer.
CommitKeepsTimer(next) ==
    LET rewatch == WatchDeps(next) # WatchDeps(shown)
        reend == EndDeps(next) # EndDeps(shown)
    IN  /\ shown' = next
        /\ watching' = IF rewatch THEN next.tx ELSE watching
        /\ timer' = (timer \/ (reend /\ next.type \in Ended))
        /\ state' = IF reend /\ next.type = "confirmedOneShot" THEN At("confirmed", next.id)
                    ELSE IF rewatch /\ watching # NoTx THEN Idle ELSE next

\* `next` is committed.  The cleanups of the effects that have to run again
\* come first: an unfinished wait for a receipt is cancelled and the state set
\* to idle, the timer is cancelled.  Then they run: a tx is watched; a one-shot
\* confirmation is set to confirmed; an outcome starts the timer.
Commit(next) ==
    LET rewatch == WatchDeps(next) # WatchDeps(shown)
        reend == EndDeps(next) # EndDeps(shown)
    IN  /\ shown' = next
        /\ watching' = IF rewatch THEN next.tx ELSE watching
        /\ timer' = IF reend THEN next.type \in Ended ELSE timer
        /\ state' = IF reend /\ next.type = "confirmedOneShot" THEN At("confirmed", next.id)
                    ELSE IF rewatch /\ watching # NoTx THEN Idle ELSE next

\* The queued value is committed.
Render ==
    /\ state # shown
    /\ Commit(state)
    /\ UNCHANGED <<signing, of, succeeded, direct>>

------------------------------------------------------------------------------
(* Sending.                                                                *)

\* A member of Send that names nothing at present.
Free(s) == s \notin signing /\ s \notin {state.tx, shown.tx, watching}

\* A <Transaction> button is disabled while any transaction is waited for; a
\* button of another kind only while its own id is (useMyTransactionState()).
Disabled(id) ==
    /\ shown.type \in Waiting
    /\ id \in Guarded \/ shown.id = id

\* The button's onClick: sendTransaction() up to the await of send().
Click(s, id) ==
    /\ Free(s)
    /\ ~Disabled(id)
    /\ signing' = signing \cup {s}
    /\ of' = [of EXCEPT ![s] = id]
    /\ Commit(At("waitingForApproval", id))
    /\ succeeded' = succeeded \ {id}
    /\ direct' = (direct \/ id \notin Guarded)

\* send() resolves: the wallet has signed and the network has executed.
SendResolves(s) ==
    /\ s \in signing
    /\ signing' = signing \ {s}
    /\ state' = Confirming(of[s], s)
    /\ UNCHANGED <<shown, of, watching, timer, succeeded, direct>>

\* Broken: a denial is not reported.
SendRejectsQuietly(s) ==
    /\ s \in signing
    /\ signing' = signing \ {s}
    /\ \/ state' = At("failed", of[s])
       \/ UNCHANGED state
    /\ UNCHANGED <<shown, of, watching, timer, succeeded, direct>>

\* send() rejects: the user denied it, or populating or executing it failed.
SendRejects(s) ==
    /\ s \in signing
    /\ signing' = signing \ {s}
    /\ \E type \in {"cancelled", "failed"} : state' = At(type, of[s])
    /\ UNCHANGED <<shown, of, watching, timer, succeeded, direct>>

------------------------------------------------------------------------------
(* Following.                                                              *)

\* waitForReceipt() resolves with a success.
ReceiptSucceeds ==
    /\ watching # NoTx
    /\ state' = At("confirmedOneShot", of[watching])
    /\ succeeded' = succeeded \cup {of[watching]}
    /\ watching' = NoTx
    /\ UNCHANGED <<shown, signing, of, timer, direct>>

\* Its status is another one, or it rejects: a status that is neither success
\* nor failure, or details that cannot be read.
ReceiptFails ==
    /\ watching # NoTx
    /\ \E type \in {"cancelled", "failed"} : state' = At(type, of[watching])
    /\ watching' = NoTx
    /\ UNCHANGED <<shown, signing, of, timer, succeeded, direct>>

\* The timer's callback runs.
TimerFires ==
    /\ timer
    /\ timer' = FALSE
    /\ state' = Idle
    /\ UNCHANGED <<shown, signing, of, watching, succeeded, direct>>

------------------------------------------------------------------------------
Next ==
    \/ Render
    \/ \E s \in Send :
        \/ \E id \in Id : Click(s, id)
        \/ SendResolves(s)
        \/ SendRejects(s)
    \/ ReceiptSucceeds
    \/ ReceiptFails
    \/ TimerFires

Spec == Init /\ [][Next]_vars

\* Fairness.  React commits what is queued; the reads behind waitForReceipt()
\* are answered or fail; the timer fires.  A wallet owes nobody an answer.
Fairness ==
    /\ SF_vars(Render)
    /\ WF_vars(ReceiptSucceeds \/ ReceiptFails)
    /\ WF_vars(TimerFires)

FairSpec == Spec /\ Fairness

------------------------------------------------------------------------------
(* Properties.                                                             *)

\* A call is in flight until its outcome is known.
InFlight == signing \cup ({state.tx, shown.tx, watching} \ {NoTx})

\* The monitor awaits the receipt of the transaction it shows as waiting for
\* confirmation and of no other: the wait of a replaced one was cancelled.
WatchesWhatIsShown ==
    watching # NoTx => shown = Confirming(of[watching], watching)

\* The timer of an outcome that is no longer shown was cancelled, so it can
\* not wipe out the state of a later transaction.
TimerOfShownOutcome == timer => shown.type \in Ended

\* The app says it waits for an approval only while a wallet has one of that
\* id to approve: no sequence of overlapping sends leaves it waiting for nothing.
ApprovalIsAwaited ==
    state.type = "waitingForApproval" => \E s \in signing : of[s] = state.id

\* What is shown as confirmed was executed with success since the last click
\* on a button of its id.
ConfirmedSucceeded ==
    shown.type \in {"confirmedOneShot", "confirmed"} => shown.id \in succeeded

\* "You must wait for confirmation": a <Transaction> button is disabled while a
\* transaction, its own or another, is in flight.
ButtonsWait == InFlight # {} => \A id \in Guarded : Disabled(id)

\* As long as only <Transaction> buttons are pressed, that is so, whatever the
\* timing of wallets, receipts, timers and renders: the timer of an outcome does
\* not wipe out the state of a later transaction, no cleanup loses it.  Buttons of
\* other kinds do break it: two sends are then in flight, and each overwrites what
\* the other, or its timer, has queued.
GuardedWaits == ~direct => ButtonsWait

\* From some time on no transaction is sent and none is with a wallet.
Quiet ==
    /\ <>[][\A s \in Send, id \in Id : ~Click(s, id)]_vars
    /\ <>[](signing = {})

\* Nothing but a wallet that does not answer keeps the app from idle, if only
\* <Transaction> buttons are pressed.
EndsIdle == Quiet /\ [](~direct) => <>[](shown = Idle)

\* However sends of all kinds overlap, the app does not go on waiting when all
\* of them are over.
NotStuckWaiting == Quiet => <>[](shown.type \notin Waiting)

==============================================================================
