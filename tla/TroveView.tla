------------------------------ MODULE TroveView ------------------------------
(***************************************************************************)
(* Which view of the Trove the app shows: TroveViewProvider.tsx, and the   *)
(* components Trove.tsx mounts for its views as far as they dispatch       *)
(* events to it.                                                           *)
(*                                                                         *)
(* dispatchEvent() starts from viewRef.current, which an effect sets after *)
(* the commit, and calls setView() with an absolute value: of several      *)
(* events the last one wins.  Events come from buttons, from the effects   *)
(* of the mounted component when a transaction is confirmed, and from the  *)
(* provider's effect when the status of the Trove changes.                 *)
(*                                                                         *)
(* React (external).  The setters of a click are committed, and the        *)
(* effects of that commit run, in the turn of the click, after the effects *)
(* of an earlier commit that are still due; a value queued before the      *)
(* click is skipped and then overwritten.  Everything else that is queued  *)
(* is committed together by a later turn, and the effects of that commit   *)
(* run in one more turn, those of children before those of parents.        *)
(***************************************************************************)
EXTENDS Naturals, FiniteSets

CONSTANT MaxInFlight    \* bound on the transactions in flight

ASSUME BoundAssumption == MaxInFlight \in Nat

Status == {"nonExistent", "open", "closedByOwner", "closedByLiquidation", "closedByRedemption"}

\* The status that says a Trove is closed.
Closed == {"closedByOwner", "closedByLiquidation", "closedByRedemption"}

View == {"NONE", "LIQUIDATED", "REDEEMED", "OPENING", "ADJUSTING", "CLOSING", "ACTIVE"}

\* The views of a Trove that is open.
OpenViews == {"ACTIVE", "ADJUSTING", "CLOSING"}

\* The ids of the transactions the views send.
Tx == {"trove-creation", "trove-adjustment", "trove-closure", "claim-coll-surplus"}
NoTx == "noTx"

VARIABLES
    ui,         \* the provider, its queue and the component it shows
    stored,     \* the last status and surplus setStoreState() was called with
    sent,       \* the transactions sent and not known to be over
    overtaken,  \* did an event start from a view that was not the latest?
    ahead,      \* was the Trove shown as closed before the store said so?
    owed        \* the view that tells the user why the Trove was closed

vars == <<ui, stored, sent, overtaken, ahead, owed>>

StoreState == [status : Status, surplus : BOOLEAN]

\* view, status, surplus, shot: what is committed; shot is a transaction in
\* state confirmedOneShot.  queued, next: the last setView() and the next shot.
\* ref: viewRef.current.  seen: the status the effects last ran for.
\* due: the effects of the last commit have not run.  fresh: it mounted a
\* component or brought a confirmation.  page: is it the page of the Trove?
UI == [view : View, queued : View, ref : View, status : Status, surplus : BOOLEAN,
       seen : Status \cup {"unseen"}, shot : Tx \cup {NoTx}, next : Tx \cup {NoTx},
       fresh : BOOLEAN, due : BOOLEAN, page : BOOLEAN]

TypeOK ==
    /\ ui \in UI
    /\ stored \in StoreState
    /\ sent \subseteq Tx
    /\ overtaken \in BOOLEAN
    /\ ahead \in BOOLEAN
    /\ owed \in {"NONE", "LIQUIDATED", "REDEEMED"}

------------------------------------------------------------------------------
(* The transitions.                                                        *)

\* The view an event leads to; an event that is not listed changes nothing.
transitions ==
    [NONE       |-> [OPEN_TROVE_PRESSED |-> "OPENING", TROVE_OPENED |-> "ACTIVE"],
     LIQUIDATED |-> [OPEN_TROVE_PRESSED |-> "OPENING",
                     TROVE_SURPLUS_COLLATERAL_CLAIMED |-> "NONE", TROVE_OPENED |-> "ACTIVE"],
     REDEEMED   |-> [OPEN_TROVE_PRESSED |-> "OPENING",
                     TROVE_SURPLUS_COLLATERAL_CLAIMED |-> "NONE", TROVE_OPENED |-> "ACTIVE"],
     OPENING    |-> [CANCEL_ADJUST_TROVE_PRESSED |-> "NONE", TROVE_OPENED |-> "ACTIVE"],
     ADJUSTING  |-> [CANCEL_ADJUST_TROVE_PRESSED |-> "ACTIVE", TROVE_ADJUSTED |-> "ACTIVE",
                     TROVE_CLOSED |-> "NONE", TROVE_LIQUIDATED |-> "LIQUIDATED",
                     TROVE_REDEEMED |-> "REDEEMED"],
     CLOSING    |-> [CANCEL_ADJUST_TROVE_PRESSED |-> "ACTIVE", TROVE_CLOSED |-> "NONE",
                     TROVE_ADJUSTED |-> "ACTIVE", TROVE_LIQUIDATED |-> "LIQUIDATED",
                     TROVE_REDEEMED |-> "REDEEMED"],
     ACTIVE     |-> [ADJUST_TROVE_PRESSED |-> "ADJUSTING", CLOSE_TROVE_PRESSED |-> "CLOSING",
                     TROVE_CLOSED |-> "NONE", TROVE_LIQUIDATED |-> "LIQUIDATED",
                     TROVE_REDEEMED |-> "REDEEMED"]]

\* Broken: a redemption is taken for a liquidation.
StatusEventsConfused ==
    [open |-> "TROVE_OPENED", closedByOwner |-> "TROVE_CLOSED",
     closedByLiquidation |-> "TROVE_LIQUIDATED", closedByRedemption |-> "TROVE_LIQUIDATED"]

\* A Trove that never existed raises no event.
troveStatusEvents ==
    [open |-> "TROVE_OPENED", closedByOwner |-> "TROVE_CLOSED",
     closedByLiquidation |-> "TROVE_LIQUIDATED", closedByRedemption |-> "TROVE_REDEEMED"]

transition(view, event) ==
    IF event \in DOMAIN transitions[view] THEN transitions[view][event] ELSE view

getInitialView(status) ==
    IF status = "closedByLiquidation" THEN "LIQUIDATED"
    ELSE IF status = "closedByRedemption" THEN "REDEEMED"
    ELSE IF status = "open" THEN "ACTIVE"
    ELSE "NONE"

\* setView() is called with a view that follows from the ref.
dispatchEvent(u, event) == [u EXCEPT !.queued = transition(u.ref, event)]

------------------------------------------------------------------------------
(* The effects of a commit.                                                *)

\* The mounted component answers a confirmation, once: <Adjusting> that of its
\* own transaction, <TroveManager> that of any transaction of the Trove,
\* <CollateralSurplusAction> that of the claim.
Adjusts(u) ==
    /\ u.page /\ u.fresh
    /\ \/ u.view = "ADJUSTING" /\ u.shot = "trove-adjustment"
       \/ u.view = "CLOSING" /\ u.shot \in {"trove-creation", "trove-adjustment"}
Closes(u) == u.page /\ u.fresh /\ u.view = "CLOSING" /\ u.shot = "trove-closure"
Claims(u) ==
    /\ u.page /\ u.fresh
    /\ u.view \in {"LIQUIDATED", "REDEEMED"} /\ u.surplus
    /\ u.shot = "claim-coll-surplus"

ChildEffect(u) ==
    IF Adjusts(u) THEN dispatchEvent(u, "TROVE_ADJUSTED")
    ELSE IF Closes(u) THEN dispatchEvent(u, "TROVE_CLOSED")
    ELSE IF Claims(u) THEN dispatchEvent(u, "TROVE_SURPLUS_COLLATERAL_CLAIMED")
    ELSE u

\* viewRef.current = view
RefEffect(u) == [u EXCEPT !.ref = u.view]

\* The status is not the one the effect last ran for.
StatusEffect(u) ==
    IF u.status # u.seen /\ u.status # "nonExistent"
    THEN dispatchEvent(u, troveStatusEvents[u.status])
    ELSE u

\* What has run.  <TransactionMonitor>'s effect replaces a confirmedOneShot.
Ran(u) == [u EXCEPT !.seen = u.status, !.fresh = FALSE, !.due = FALSE,
                    !.next = IF u.shot # NoTx THEN NoTx ELSE @]

\* Broken: the status is looked at before the confirmation.
EffectsParentFirst(u) ==
    IF u.due THEN Ran(ChildEffect(StatusEffect(RefEffect(u)))) ELSE u

\* Effects of children run first, those of one component in their order.
Effects(u) == IF u.due THEN Ran(StatusEffect(RefEffect(ChildEffect(u)))) ELSE u

------------------------------------------------------------------------------
(* History: what the effects of u have shown to the user or foreseen.      *)

\* The user is ahead of React: a commit or the effects of one are due.
Late == ui.due \/ ui.queued # ui.view

\* The effects find a new status.
NewStatus(u) == u.due /\ u.status # u.seen

\* An effect dispatches an event from a ref that is not yet the view.
StaleEvent(u) == u.due /\ (Adjusts(u) \/ Closes(u) \/ Claims(u)) /\ u.ref # u.view

OvertakenAfter(u, o) == ~NewStatus(u) /\ (o \/ StaleEvent(u))

AheadAfter(u, a) ==
    ~NewStatus(u) /\ (a \/ (u.due /\ Closes(u)))

OwedAfter(u, a, o, w) ==
    IF NewStatus(u) /\ u.seen = "open" /\ ~a /\ ~o /\ u.status \in Closed \ {"closedByOwner"}
    THEN getInitialView(u.status)
    ELSE IF NewStatus(u) \/ (u.due /\ Claims(u)) THEN "NONE" ELSE w

------------------------------------------------------------------------------
(* Turns.                                                                  *)

\* The provider is mounted with the state of a store that was just loaded.
\* A confirmation that was queued meanwhile is shown.
Mounted(s, shot, page) ==
    [view |-> getInitialView(s.status), queued |-> getInitialView(s.status),
     ref |-> getInitialView(s.status), status |-> s.status, surplus |-> s.surplus,
     seen |-> "unseen", shot |-> shot, next |-> shot,
     fresh |-> TRUE, due |-> TRUE, page |-> page]

Init ==
    /\ stored \in StoreState
    /\ \E page \in BOOLEAN : ui = Mounted(stored, NoTx, page)
    /\ sent = {}
    /\ overtaken = FALSE
    /\ ahead = FALSE
    /\ owed = "NONE"

\* The account or the network changes: <LiquityStoreProvider> takes its children
\* off until the new store is loaded.
Remount ==
    \E s \in StoreState :
        /\ stored' = s
        /\ ui' = Mounted(s, ui.next, ui.page)
        /\ overtaken' = FALSE
        /\ ahead' = FALSE
        /\ owed' = "NONE"
        /\ UNCHANGED sent

\* The store notifies useLiquitySelector().  Any status may follow any other:
\* nothing polls, so changes go unseen, and overlapping refreshes may be
\* answered in any order.
StoreUpdate ==
    /\ stored' \in StoreState \ {stored}
    /\ UNCHANGED <<ui, sent, overtaken, ahead, owed>>

\* What is queued is committed.
Render ==
    /\ ~ui.due
    /\ \/ ui.queued # ui.view
       \/ stored # [status |-> ui.status, surplus |-> ui.surplus]
       \/ ui.next # ui.shot
    /\ ui' = [ui EXCEPT !.view = ui.queued, !.status = stored.status,
                        !.surplus = stored.surplus, !.shot = ui.next,
                        !.fresh = (ui.queued # ui.view \/ ui.next # ui.shot), !.due = TRUE]
    /\ UNCHANGED <<stored, sent, overtaken, ahead, owed>>

\* The effects of the last commit run.
RunEffects ==
    /\ ui.due
    /\ ui' = Effects(ui)
    /\ overtaken' = OvertakenAfter(ui, overtaken)
    /\ ahead' = AheadAfter(ui, ahead)
    /\ owed' = OwedAfter(ui, ahead, overtaken, owed)
    /\ UNCHANGED <<stored, sent>>

Pressed == {"OPEN_TROVE_PRESSED", "ADJUST_TROVE_PRESSED", "CLOSE_TROVE_PRESSED",
            "CANCEL_ADJUST_TROVE_PRESSED"}

\* The buttons of the mounted component that dispatch an event.
HasButton(u, event) ==
    /\ u.page
    /\ \/ event = "OPEN_TROVE_PRESSED" /\ u.view = "NONE"
       \/ event = "OPEN_TROVE_PRESSED" /\ u.view \in {"LIQUIDATED", "REDEEMED"} /\ ~u.surplus
       \/ event \in {"ADJUST_TROVE_PRESSED", "CLOSE_TROVE_PRESSED"} /\ u.view = "ACTIVE"
       \/ event = "CANCEL_ADJUST_TROVE_PRESSED" /\ u.view \in {"OPENING", "ADJUSTING", "CLOSING"}

\* A click is handled, effects that are due run, its view is committed, and
\* the effects of that commit run.
Click(event) ==
    LET handled == dispatchEvent(ui, event)
        before == Effects(handled)
        committed == [before EXCEPT !.view = handled.queued,
                                    !.fresh = (handled.queued # ui.view), !.due = TRUE]
        a == AheadAfter(ui, ahead)
    IN  /\ HasButton(ui, event)
        /\ ui' = Effects(committed)
        /\ overtaken' = (Late \/ OvertakenAfter(ui, overtaken))
        /\ ahead' = AheadAfter(committed, a)
        /\ owed' = "NONE"
        /\ UNCHANGED <<stored, sent>>

\* The user goes to another page or comes back, which takes the component off
\* or mounts it.
Navigate ==
    LET before == Effects(ui)
        committed == [before EXCEPT !.page = ~@, !.fresh = TRUE, !.due = TRUE]
        a == AheadAfter(ui, ahead)
        w == OwedAfter(ui, ahead, overtaken, owed)
    IN  /\ ui' = Effects(committed)
        /\ overtaken' = (Late \/ OvertakenAfter(ui, overtaken))
        /\ ahead' = AheadAfter(committed, a)
        /\ owed' = OwedAfter(committed, a, overtaken', w)
        /\ UNCHANGED <<stored, sent>>

------------------------------------------------------------------------------
(* Transactions, as TransactionFlow describes them.                        *)

\* The transaction the mounted component may send.
CanSend(u, id) ==
    /\ u.page
    /\ \/ u.view = "OPENING" /\ id = "trove-creation"
       \/ u.view = "ADJUSTING" /\ id = "trove-adjustment"
       \/ u.view = "CLOSING" /\ id = "trove-closure"
       \/ u.view \in {"LIQUIDATED", "REDEEMED"} /\ u.surplus /\ id = "claim-coll-surplus"

\* A transaction is sent: waitingForApproval replaces a confirmation that is
\* shown or queued.
Send(id) ==
    LET before == Effects(ui)
    IN  /\ CanSend(ui, id) /\ id \notin sent
        /\ Cardinality(sent) < MaxInFlight
        /\ sent' = sent \cup {id}
        /\ ui' = Effects([before EXCEPT !.shot = NoTx, !.next = NoTx, !.due = TRUE])
        /\ overtaken' = OvertakenAfter(ui, overtaken)
        /\ ahead' = AheadAfter(ui, ahead)
        /\ owed' = OwedAfter(ui, ahead, overtaken, owed)
        /\ UNCHANGED stored

\* Its receipt says it succeeded.  The monitor awaits no receipt while a
\* confirmedOneShot is shown.
Confirmed(id) ==
    /\ id \in sent
    /\ ui.shot = NoTx
    /\ ui.next = NoTx
    /\ sent' = sent \ {id}
    /\ ui' = [ui EXCEPT !.next = id]
    /\ UNCHANGED <<stored, overtaken, ahead, owed>>

\* It failed, was cancelled, or its outcome was replaced by that of another.
Lost(id) ==
    /\ id \in sent
    /\ sent' = sent \ {id}
    /\ UNCHANGED <<ui, stored, overtaken, ahead, owed>>

Next ==
    \/ Remount
    \/ StoreUpdate
    \/ Render
    \/ RunEffects
    \/ \E event \in Pressed : Click(event)
    \/ Navigate
    \/ \E id \in Tx : Send(id) \/ Confirmed(id) \/ Lost(id)

Spec == Init /\ [][Next]_vars

------------------------------------------------------------------------------
(* Properties.                                                             *)

\* Nothing is queued and no effect is due.
Settled ==
    /\ ~ui.due
    /\ ui.queued = ui.view
    /\ stored = [status |-> ui.status, surplus |-> ui.surplus]

\* When everything queued is shown, the view is one of an open Trove only if
\* the Trove is not closed, and an open Trove has one: whatever the order in
\* which clicks, confirmations and the store reach dispatchEvent().  Two
\* exceptions last until the next change of the status: an event was dispatched
\* between setView() and the effect that sets the ref (by the user, or by a
\* component that is mounted just when its confirmation is shown), or a closure
\* was confirmed before the store reported it.
ViewFitsTrove ==
    Settled /\ ~overtaken =>
        /\ ui.status \in Closed => ui.view \notin OpenViews
        /\ ui.status = "open" /\ ~ahead => ui.view \in OpenViews

\* A user who watched the Trove while it was open is told that it was liquidated
\* or redeemed, and keeps being told until he presses a button, claims the
\* surplus or the status changes: no confirmation that comes late takes it away.
\* The exception is the first of those above.
ClosureIsTold == Settled /\ ~overtaken /\ owed # "NONE" => ui.view = owed

==============================================================================
