--------------------------- MODULE TroveViewProofs ---------------------------
(***************************************************************************)
(* Proofs about TroveView.                                                 *)
(***************************************************************************)
EXTENDS TroveView, TLAPS

\* The view v is one that a Trove of status s may have, a being `ahead`.
Agrees(v, s, a) ==
    /\ s \in Closed => v \notin OpenViews
    /\ s = "open" /\ ~a => v \in OpenViews

------------------------------------------------------------------------------
(* The transitions.                                                        *)

\* Every event leads from a view to a view.
LEMMA TransitionType ==
    ASSUME NEW v \in View, NEW e
    PROVE  transition(v, e) \in View
BY DEF transition, transitions, View

\* Whatever the view, the event of a status leads to a view that fits it; from
\* a view of an open Trove, a liquidation or redemption leads to its own view.
LEMMA StatusLeads ==
    ASSUME NEW v \in View, NEW s \in Status \ {"nonExistent"}
    PROVE  /\ Agrees(transition(v, troveStatusEvents[s]), s, FALSE)
           /\ v \in OpenViews /\ s \in Closed \ {"closedByOwner"}
                => transition(v, troveStatusEvents[s]) = getInitialView(s)
BY DEF transition, transitions, troveStatusEvents, View, Status, Agrees, Closed, OpenViews,
       getInitialView

\* What confirmations lead to from the views that answer them, and from ACTIVE.
LEMMA ConfirmationLeads ==
    /\ transition("ADJUSTING", "TROVE_ADJUSTED") = "ACTIVE"
    /\ transition("CLOSING", "TROVE_ADJUSTED") = "ACTIVE"
    /\ transition("CLOSING", "TROVE_CLOSED") = "NONE"
    /\ transition("ACTIVE", "TROVE_ADJUSTED") = "ACTIVE"
    /\ transition("ACTIVE", "TROVE_CLOSED") = "NONE"
    /\ transition("LIQUIDATED", "TROVE_SURPLUS_COLLATERAL_CLAIMED") = "NONE"
    /\ transition("REDEEMED", "TROVE_SURPLUS_COLLATERAL_CLAIMED") = "NONE"
BY DEF transition, transitions

------------------------------------------------------------------------------
(* The effects of a commit.                                                *)

\* The child's event, if any, is what the queue holds after its effect.
Child(u) ==
    IF Adjusts(u) THEN transition(u.ref, "TROVE_ADJUSTED")
    ELSE IF Closes(u) THEN transition(u.ref, "TROVE_CLOSED")
    ELSE IF Claims(u) THEN transition(u.ref, "TROVE_SURPLUS_COLLATERAL_CLAIMED")
    ELSE u.queued

\* What the queue holds when all effects have run.
Queued(u) ==
    IF u.status # u.seen /\ u.status # "nonExistent"
    THEN transition(u.view, troveStatusEvents[u.status])
    ELSE Child(u)

\* Effects that are due leave the committed fields alone, bring the ref and the
\* status seen up to date, and queue one view.
LEMMA EffectsDue ==
    ASSUME NEW u \in UI, u.due
    PROVE  Effects(u) = [u EXCEPT !.queued = Queued(u), !.ref = u.view, !.seen = u.status,
                                  !.fresh = FALSE, !.due = FALSE,
                                  !.next = IF u.shot # NoTx THEN NoTx ELSE u.next]
<1> DEFINE c == [u EXCEPT !.queued = Child(u)]
           r == [u EXCEPT !.queued = Child(u), !.ref = u.view]
           q == [u EXCEPT !.queued = Queued(u), !.ref = u.view]
<1>1. ChildEffect(u) = c
  <2>1. CASE ~Adjusts(u) /\ ~Closes(u) /\ ~Claims(u)
    BY <2>1 DEF ChildEffect, Child, UI
  <2>2. CASE Adjusts(u)
    BY <2>2 DEF ChildEffect, Child, dispatchEvent
  <2>3. CASE ~Adjusts(u) /\ Closes(u)
    BY <2>3 DEF ChildEffect, Child, dispatchEvent
  <2>4. CASE ~Adjusts(u) /\ ~Closes(u) /\ Claims(u)
    BY <2>4 DEF ChildEffect, Child, dispatchEvent
  <2> QED
    BY <2>1, <2>2, <2>3, <2>4
<1>2. RefEffect(c) = r
  BY DEF RefEffect, UI
<1>3. /\ r.view = u.view
      /\ r.status = u.status
      /\ r.seen = u.seen
      /\ r.ref = u.view
      /\ r.shot = u.shot
  BY DEF UI
<1>4. StatusEffect(r) = q
  <2>1. CASE u.status # u.seen /\ u.status # "nonExistent"
    BY <1>3, <2>1 DEF StatusEffect, dispatchEvent, Queued, UI
  <2>2. CASE ~(u.status # u.seen /\ u.status # "nonExistent")
    BY <1>3, <2>2 DEF StatusEffect, Queued
  <2> QED
    BY <2>1, <2>2
<1>5. q.status = u.status /\ q.shot = u.shot /\ q.next = u.next
  BY DEF UI
<1>6. Effects(u) = Ran(q)
  BY <1>1, <1>2, <1>4 DEF Effects
<1> QED
  BY <1>5, <1>6 DEF Ran, UI

\* Effects keep the type.
LEMMA EffectsType ==
    ASSUME NEW u \in UI
    PROVE  Effects(u) \in UI
<1>1. CASE ~u.due
  BY <1>1 DEF Effects
<1>2. CASE u.due
  <2>1. Child(u) \in View
    BY TransitionType DEF Child, UI
  <2>2. Queued(u) \in View
    BY <2>1, TransitionType DEF Queued, UI
  <2>3. (IF u.shot # NoTx THEN NoTx ELSE u.next) \in Tx \cup {NoTx}
    BY DEF UI
  <2> DEFINE w(q, n) == [u EXCEPT !.queued = q, !.ref = u.view, !.seen = u.status,
                                  !.fresh = FALSE, !.due = FALSE, !.next = n]
  <2>4. \A q \in View, n \in Tx \cup {NoTx} : w(q, n) \in UI
    BY DEF UI
  <2>5. Effects(u) = w(Queued(u), IF u.shot # NoTx THEN NoTx ELSE u.next)
    BY <1>2, EffectsDue
  <2> QED
    BY <2>2, <2>3, <2>4, <2>5
<1> QED
  BY <1>1, <1>2

------------------------------------------------------------------------------
(* Type correctness.                                                       *)

\* The initial view is a view, and that of a mounted provider a UI.
LEMMA MountedType ==
    ASSUME NEW s \in StoreState, NEW shot \in Tx \cup {NoTx}, NEW page \in BOOLEAN
    PROVE  Mounted(s, shot, page) \in UI
BY DEF Mounted, getInitialView, UI, StoreState, View

\* What is owed to the user is a view that tells of a closure.
LEMMA OwedType ==
    ASSUME NEW u, NEW a, NEW o, NEW w \in {"NONE", "LIQUIDATED", "REDEEMED"}
    PROVE  OwedAfter(u, a, o, w) \in {"NONE", "LIQUIDATED", "REDEEMED"}
BY DEF OwedAfter, getInitialView, Closed

\* Every step keeps the types.
LEMMA TypeStep == TypeOK /\ [Next]_vars => TypeOK'
<1> SUFFICES ASSUME TypeOK, [Next]_vars PROVE TypeOK'
  OBVIOUS
<1> USE DEF TypeOK
<1>1. CASE Remount
  <2>1. PICK s \in StoreState :
           /\ stored' = s
           /\ ui' = Mounted(s, ui.next, ui.page)
           /\ UNCHANGED sent
    BY <1>1 DEF Remount
  <2>2. ui.next \in Tx \cup {NoTx} /\ ui.page \in BOOLEAN
    BY DEF UI
  <2>3. ui' \in UI
    BY <2>1, <2>2, MountedType
  <2> QED
    BY <1>1, <2>1, <2>3 DEF Remount
<1>2. CASE StoreUpdate
  BY <1>2 DEF StoreUpdate
<1>3. CASE Render
  BY <1>3 DEF Render, UI, StoreState
<1>4. CASE RunEffects
  BY <1>4, EffectsType, OwedType DEF RunEffects, OvertakenAfter, AheadAfter
<1>5. ASSUME NEW event \in Pressed, Click(event) PROVE TypeOK'
  <2> DEFINE handled == dispatchEvent(ui, event)
             before == Effects(handled)
             committed == [before EXCEPT !.view = handled.queued,
                                         !.fresh = (handled.queued # ui.view), !.due = TRUE]
  <2>1. handled \in UI
    BY TransitionType DEF dispatchEvent, UI
  <2>2. before \in UI
    BY <2>1, EffectsType
  <2>3. committed \in UI
    BY <2>1, <2>2 DEF UI
  <2>4. Effects(committed) \in UI
    BY <2>3, EffectsType
  <2> QED
    BY <1>5, <2>4 DEF Click, OvertakenAfter, AheadAfter
<1>6. CASE Navigate
  <2> DEFINE before == Effects(ui)
             committed == [before EXCEPT !.page = ~@, !.fresh = TRUE, !.due = TRUE]
  <2>1. committed \in UI
    BY EffectsType DEF UI
  <2>2. Effects(committed) \in UI
    BY <2>1, EffectsType
  <2> QED
    BY <1>6, <2>2, OwedType DEF Navigate, OvertakenAfter, AheadAfter
<1>7. ASSUME NEW id \in Tx, Send(id) PROVE TypeOK'
  <2> DEFINE before == Effects(ui)
             committed == [before EXCEPT !.shot = NoTx, !.next = NoTx, !.due = TRUE]
  <2>1. committed \in UI
    BY EffectsType DEF UI
  <2>2. Effects(committed) \in UI
    BY <2>1, EffectsType
  <2> QED
    BY <1>7, <2>2, OwedType DEF Send, OvertakenAfter, AheadAfter
<1>8. ASSUME NEW id \in Tx, Confirmed(id) PROVE TypeOK'
  BY <1>8 DEF Confirmed, UI
<1>9. ASSUME NEW id \in Tx, Lost(id) PROVE TypeOK'
  BY <1>9 DEF Lost
<1>10. CASE UNCHANGED vars
  BY <1>10 DEF vars
<1> QED
  BY <1>1, <1>2, <1>3, <1>4, <1>5, <1>6, <1>7, <1>8, <1>9, <1>10 DEF Next

\* The initial states have the types.
LEMMA TypeInit == Init => TypeOK
<1> SUFFICES ASSUME Init PROVE TypeOK
  OBVIOUS
<1>1. ui \in UI
  BY MountedType DEF Init
<1> QED
  BY <1>1 DEF Init, TypeOK

\* The provider, its queue and what is owed to the user always have their
\* types: no event, in whatever view it comes, leads out of the views.
THEOREM TypeCorrect == Spec => []TypeOK
BY TypeInit, TypeStep, PTL DEF Spec

------------------------------------------------------------------------------
(* The view fits the Trove.                                                *)

\* What is queued, with the histories a, o and w, fits the status the effects
\* have seen, and tells the user what he is owed.
Fits(u, a, o, w) ==
    ~o => /\ Agrees(u.queued, u.seen, a)
          /\ w # "NONE" => u.queued = w

\* After its effects, what is committed is what the effects started from.
InStep(u) ==
    /\ u.due => u.view = u.queued
    /\ ~u.due => u.ref = u.view /\ u.seen = u.status

Inv ==
    /\ TypeOK
    /\ InStep(ui)
    /\ Fits(ui, ahead, overtaken, owed)

\* The fields of what effects that were due leave behind.
LEMMA EffectsFields ==
    ASSUME NEW u \in UI, u.due
    PROVE  LET e == Effects(u)
           IN  /\ e.queued = Queued(u)
               /\ e.view = u.view
               /\ e.ref = u.view
               /\ e.status = u.status
               /\ e.seen = u.status
               /\ ~e.due
               /\ e.page = u.page
BY EffectsDue DEF UI

\* The child's answer, from a ref that is the view, fits what fitted before.
LEMMA ChildFits ==
    ASSUME NEW u \in UI, u.view = u.queued, u.ref = u.view,
           NEW a \in BOOLEAN, NEW s, Agrees(u.queued, s, a)
    PROVE  Agrees(Child(u), s, a \/ Closes(u))
<1>1. CASE Adjusts(u)
  BY <1>1, ConfirmationLeads DEF Adjusts, Child, Agrees, OpenViews
<1>2. CASE ~Adjusts(u) /\ Closes(u)
  BY <1>2, ConfirmationLeads DEF Closes, Child, Agrees, OpenViews
<1>3. CASE ~Adjusts(u) /\ ~Closes(u) /\ Claims(u)
  BY <1>3, ConfirmationLeads DEF Claims, Child, Agrees, OpenViews
<1>4. CASE ~Adjusts(u) /\ ~Closes(u) /\ ~Claims(u)
  BY <1>4 DEF Child, Agrees
<1> QED
  BY <1>1, <1>2, <1>3, <1>4

\* The effects of a commit of what was queued keep the view fitting.
LEMMA EffectsFit ==
    ASSUME NEW u \in UI, u.due, u.view = u.queued,
           NEW a \in BOOLEAN, NEW o \in BOOLEAN,
           NEW w \in {"NONE", "LIQUIDATED", "REDEEMED"}, Fits(u, a, o, w)
    PROVE  Fits(Effects(u), AheadAfter(u, a), OvertakenAfter(u, o), OwedAfter(u, a, o, w))
<1> DEFINE q == Queued(u)
<1>1. /\ Effects(u).queued = q
      /\ Effects(u).seen = u.status
  BY EffectsFields
<1>2. u.view \in View /\ u.status \in Status
  BY DEF UI
<1>3. CASE NewStatus(u)
  <2>1. ~AheadAfter(u, a)
    BY <1>3 DEF AheadAfter
  <2>2. CASE u.status = "nonExistent"
    <3>1. OwedAfter(u, a, o, w) = "NONE"
      BY <1>3, <2>2 DEF OwedAfter, Closed
    <3> QED
      BY <1>1, <2>2, <3>1 DEF Fits, Agrees, Closed
  <2>3. CASE u.status # "nonExistent"
    <3>1. q = transition(u.view, troveStatusEvents[u.status])
      BY <1>3, <2>3 DEF Queued, NewStatus
    <3>2. Agrees(q, u.status, FALSE)
      BY <1>2, <2>3, <3>1, StatusLeads
    <3>3. ASSUME OwedAfter(u, a, o, w) # "NONE"
          PROVE  q = OwedAfter(u, a, o, w)
      <4>1. /\ u.seen = "open"
            /\ ~a
            /\ ~o
            /\ u.status \in Closed \ {"closedByOwner"}
            /\ OwedAfter(u, a, o, w) = getInitialView(u.status)
        BY <1>3, <3>3 DEF OwedAfter
      <4>2. u.view \in OpenViews
        BY <4>1 DEF Fits, Agrees
      <4> QED
        BY <1>2, <2>3, <3>1, <4>1, <4>2, StatusLeads
    <3> QED
      BY <1>1, <2>1, <3>2, <3>3 DEF Fits, Agrees
  <2> QED
    BY <2>2, <2>3
<1>4. CASE ~NewStatus(u)
  <2>1. u.seen = u.status
    BY <1>4 DEF NewStatus
  <2>2. q = Child(u)
    BY <2>1 DEF Queued
  <2>3. AheadAfter(u, a) = (a \/ Closes(u))
    BY <1>4 DEF AheadAfter
  <2>4. CASE OvertakenAfter(u, o)
    BY <2>4 DEF Fits
  <2>5. CASE ~OvertakenAfter(u, o)
    <3>1. ~o /\ ~StaleEvent(u)
      BY <1>4, <2>5 DEF OvertakenAfter
    <3>2. Agrees(u.queued, u.status, a) /\ (w # "NONE" => u.queued = w)
      BY <2>1, <3>1 DEF Fits
    <3>3. CASE u.ref = u.view
      <4>1. Agrees(q, u.status, AheadAfter(u, a))
        BY <2>2, <2>3, <3>2, <3>3, ChildFits
      <4>2. ASSUME OwedAfter(u, a, o, w) # "NONE" PROVE q = OwedAfter(u, a, o, w)
        <5>1. OwedAfter(u, a, o, w) = w /\ ~Claims(u)
          BY <1>4, <4>2 DEF OwedAfter
        <5>2. u.view = w /\ w \in {"LIQUIDATED", "REDEEMED"}
          BY <3>2, <4>2, <5>1
        <5>3. ~Adjusts(u) /\ ~Closes(u)
          BY <5>2 DEF Adjusts, Closes
        <5> QED
          BY <2>2, <5>1, <5>2, <5>3 DEF Child
      <4> QED
        BY <1>1, <4>1, <4>2 DEF Fits
    <3>4. CASE u.ref # u.view
      <4>1. ~Adjusts(u) /\ ~Closes(u) /\ ~Claims(u)
        BY <3>1, <3>4 DEF StaleEvent
      <4>2. q = u.queued /\ AheadAfter(u, a) = a /\ OwedAfter(u, a, o, w) = w
        BY <1>4, <2>2, <2>3, <4>1 DEF Child, OwedAfter
      <4> QED
        BY <1>1, <3>2, <4>2 DEF Fits
    <3> QED
      BY <3>3, <3>4
  <2> QED
    BY <2>4, <2>5
<1> QED
  BY <1>3, <1>4

\* Effects that were due leave the provider in step; if none was due, nothing
\* changes, the histories included.
LEMMA EffectsInv ==
    ASSUME Inv
    PROVE  LET e == Effects(ui)
           IN  /\ e \in UI
               /\ ~e.due
               /\ e.ref = e.view
               /\ e.seen = e.status
               /\ e.view = ui.view
               /\ e.status = ui.status
               /\ Fits(e, AheadAfter(ui, ahead), OvertakenAfter(ui, overtaken),
                       OwedAfter(ui, ahead, overtaken, owed))
<1>1. Effects(ui) \in UI
  BY EffectsType DEF Inv, TypeOK
<1>2. CASE ui.due
  BY <1>1, <1>2, EffectsFields, EffectsFit DEF Inv, TypeOK, InStep
<1>3. CASE ~ui.due
  <2>1. Effects(ui) = ui
    BY <1>3 DEF Effects
  <2>2. /\ ~NewStatus(ui)
        /\ ~StaleEvent(ui)
        /\ AheadAfter(ui, ahead) = ahead
        /\ OwedAfter(ui, ahead, overtaken, owed) = owed
    BY <1>3 DEF NewStatus, StaleEvent, AheadAfter, OwedAfter, Inv, TypeOK
  <2>3. OvertakenAfter(ui, overtaken) <=> overtaken
    BY <2>2 DEF OvertakenAfter
  <2> QED
    BY <1>1, <1>3, <2>1, <2>2, <2>3 DEF Inv, InStep, Fits
<1> QED
  BY <1>2, <1>3

\* A mounted provider fits: the effects have seen no status yet.
LEMMA MountedFits ==
    ASSUME NEW s \in StoreState, NEW shot, NEW page
    PROVE  InStep(Mounted(s, shot, page)) /\ Fits(Mounted(s, shot, page), FALSE, FALSE, "NONE")
BY DEF Mounted, InStep, Fits, Agrees, Closed

\* A click that nothing overtakes keeps the view fitting.
LEMMA ClickFits ==
    ASSUME Inv, NEW event \in Pressed, HasButton(ui, event), ~Late, ~overtaken
    PROVE  LET n == transition(ui.view, event)
               c == [ui EXCEPT !.queued = n, !.view = n, !.fresh = (n # ui.view), !.due = TRUE]
           IN  Agrees(Child(c), ui.status, ahead \/ Closes(c))
<1> DEFINE n == transition(ui.view, event)
           c == [ui EXCEPT !.queued = n, !.view = n, !.fresh = (n # ui.view), !.due = TRUE]
<1>1. ui.view \in View /\ n \in View
  BY TransitionType DEF Inv, TypeOK, UI
<1>2. /\ ui.ref = ui.view
      /\ Agrees(ui.view, ui.status, ahead)
  BY DEF Late, Inv, InStep, Fits
<1>3. /\ c.queued = n
      /\ c.view = n
      /\ c.ref = ui.view
      /\ c.fresh = (n # ui.view)
  BY <1>2 DEF Inv, TypeOK, UI
<1>4. \/ ui.view \in {"NONE", "LIQUIDATED", "REDEEMED"} /\ n = "OPENING"
      \/ ui.view = "ACTIVE" /\ n \in {"ADJUSTING", "CLOSING"}
      \/ ui.view = "OPENING" /\ n = "NONE"
      \/ ui.view \in {"ADJUSTING", "CLOSING"} /\ n = "ACTIVE"
  BY DEF HasButton, transition, transitions
<1> SUFFICES Agrees(Child(c), ui.status, ahead \/ Closes(c))
  OBVIOUS
<1> HIDE DEF c, n
<1>5. CASE ui.view = "ACTIVE" /\ n \in {"ADJUSTING", "CLOSING"}
  <2>1. Child(c) \in {"ACTIVE", n} \/ (Child(c) = "NONE" /\ Closes(c))
    BY <1>3, <1>5, ConfirmationLeads DEF Child, Adjusts, Closes, Claims
  <2> QED
    BY <1>2, <1>5, <2>1 DEF Agrees, OpenViews
<1>6. CASE ~(ui.view = "ACTIVE" /\ n \in {"ADJUSTING", "CLOSING"})
  <2>1. n \in {"OPENING", "NONE", "ACTIVE"}
    BY <1>4, <1>6
  <2>2. Child(c) = n
    BY <1>3, <2>1 DEF Child, Adjusts, Closes, Claims
  <2> QED
    BY <1>2, <1>4, <1>6, <2>2 DEF Agrees, OpenViews
<1> QED
  BY <1>5, <1>6

\* Every step keeps the invariant.
LEMMA InvStep == Inv /\ [Next]_vars => Inv'
<1> SUFFICES ASSUME Inv, [Next]_vars PROVE (InStep(ui) /\ Fits(ui, ahead, overtaken, owed))'
  BY TypeStep DEF Inv
<1>1. CASE Remount
  <2>1. PICK s \in StoreState : ui' = Mounted(s, ui.next, ui.page)
    BY <1>1 DEF Remount
  <2> QED
    BY <1>1, <2>1, MountedFits DEF Remount
<1>2. CASE StoreUpdate
  BY <1>2 DEF StoreUpdate, Inv, InStep, Fits
<1>3. CASE Render
  BY <1>3 DEF Render, Inv, TypeOK, UI, InStep, Fits
<1>4. CASE RunEffects
  BY <1>4, EffectsInv DEF RunEffects, InStep
<1>5. ASSUME NEW event \in Pressed, Click(event)
      PROVE  (InStep(ui) /\ Fits(ui, ahead, overtaken, owed))'
  <2> DEFINE handled == dispatchEvent(ui, event)
             before == Effects(handled)
             committed == [before EXCEPT !.view = handled.queued,
                                         !.fresh = (handled.queued # ui.view), !.due = TRUE]
             a == AheadAfter(ui, ahead)
  <2>1. handled \in UI
    BY TransitionType DEF dispatchEvent, Inv, TypeOK, UI
  <2>2. before \in UI
    BY <2>1, EffectsType
  <2>3. committed \in UI /\ committed.due
    BY <2>1, <2>2 DEF UI
  <2>4. /\ HasButton(ui, event)
        /\ ui' = Effects(committed)
        /\ overtaken' = (Late \/ OvertakenAfter(ui, overtaken))
        /\ ahead' = AheadAfter(committed, a)
        /\ owed' = "NONE"
    BY <1>5 DEF Click
  <2>5. InStep(ui)'
    BY <2>3, <2>4, EffectsFields DEF InStep
  <2>6. CASE Late \/ OvertakenAfter(ui, overtaken)
    BY <2>4, <2>5, <2>6 DEF Fits
  <2>7. CASE ~Late /\ ~OvertakenAfter(ui, overtaken)
    <3> DEFINE n == transition(ui.view, event)
               c == [ui EXCEPT !.queued = n, !.view = n, !.fresh = (n # ui.view), !.due = TRUE]
    <3>1. ~ui.due /\ ui.ref = ui.view /\ ui.seen = ui.status
      BY <2>7 DEF Late, Inv, InStep
    <3>2. ~overtaken /\ a = ahead
      BY <2>7, <3>1 DEF OvertakenAfter, NewStatus, AheadAfter, Inv, TypeOK
    <3>3. handled = [ui EXCEPT !.queued = n]
      BY <3>1 DEF dispatchEvent
    <3>4. before = handled
      BY <3>1, <3>3 DEF Effects, Inv, TypeOK, UI
    <3>5. committed = c
      BY <3>3, <3>4 DEF Inv, TypeOK, UI
    <3>6. Agrees(Child(c), ui.status, ahead \/ Closes(c))
      BY <2>4, <2>7, <3>2, ClickFits
    <3>7. c.status = ui.status /\ c.seen = ui.status
      BY <3>1 DEF Inv, TypeOK, UI
    <3> HIDE DEF c, committed
    <3>8. Queued(c) = Child(c) /\ ~NewStatus(c)
      BY <3>7 DEF Queued, NewStatus
    <3>9. Effects(c).queued = Child(c) /\ Effects(c).seen = ui.status
      BY <2>3, <3>5, <3>7, <3>8, EffectsFields
    <3>10. AheadAfter(c, ahead) = (ahead \/ Closes(c))
      BY <2>3, <3>5, <3>8 DEF AheadAfter
    <3>11. /\ ui' = Effects(c)
           /\ ahead' = (ahead \/ Closes(c))
      BY <2>4, <3>2, <3>5, <3>10
    <3> QED
      BY <2>4, <2>5, <3>6, <3>9, <3>11 DEF Fits
  <2> QED
    BY <2>6, <2>7
<1>6. CASE Navigate
  <2> DEFINE before == Effects(ui)
             committed == [before EXCEPT !.page = ~@, !.fresh = TRUE, !.due = TRUE]
             a == AheadAfter(ui, ahead)
             w == OwedAfter(ui, ahead, overtaken, owed)
  <2>1. committed \in UI /\ committed.due
    BY EffectsType DEF Inv, TypeOK, UI
  <2>2. /\ ui' = Effects(committed)
        /\ overtaken' = (Late \/ OvertakenAfter(ui, overtaken))
        /\ ahead' = AheadAfter(committed, a)
        /\ owed' = OwedAfter(committed, a, overtaken', w)
    BY <1>6 DEF Navigate
  <2>3. InStep(ui)'
    BY <2>1, <2>2, EffectsFields DEF InStep
  <2>4. CASE Late \/ OvertakenAfter(ui, overtaken)
    BY <2>2, <2>3, <2>4 DEF Fits
  <2>5. CASE ~Late /\ ~OvertakenAfter(ui, overtaken)
    <3>1. ~ui.due /\ ui.view = ui.queued /\ ui.ref = ui.view /\ ui.seen = ui.status
      BY <2>5 DEF Late, Inv, InStep
    <3>2. ~overtaken /\ a = ahead /\ w = owed /\ ~overtaken'
      BY <2>2, <2>5, <3>1 DEF OvertakenAfter, NewStatus, AheadAfter, OwedAfter, Inv, TypeOK
    <3>3. before = ui
      BY <3>1 DEF Effects
    <3>4. /\ committed.view = ui.view
          /\ committed.queued = ui.queued
          /\ committed.ref = ui.ref
          /\ committed.seen = ui.seen
          /\ committed.status = ui.status
      BY <3>3 DEF Inv, TypeOK, UI
    <3> HIDE DEF committed, a, w
    <3>5. Fits(committed, a, FALSE, w)
      BY <3>2, <3>4 DEF Inv, Fits
    <3>6. ~OvertakenAfter(committed, FALSE)
      BY <3>1, <3>4 DEF OvertakenAfter, StaleEvent
    <3>7. overtaken' = FALSE
      BY <2>2, <2>5
    <3>8. a \in BOOLEAN /\ w \in {"NONE", "LIQUIDATED", "REDEEMED"}
      BY <3>2 DEF Inv, TypeOK
    <3>9. Fits(Effects(committed), AheadAfter(committed, a), OvertakenAfter(committed, FALSE),
               OwedAfter(committed, a, FALSE, w))
      BY <2>1, <3>1, <3>4, <3>5, <3>8, EffectsFit
    <3> QED
      BY <2>2, <2>3, <3>6, <3>7, <3>9 DEF Fits
  <2> QED
    BY <2>4, <2>5
<1>7. ASSUME NEW id \in Tx, Send(id)
      PROVE  (InStep(ui) /\ Fits(ui, ahead, overtaken, owed))'
  <2> DEFINE before == Effects(ui)
             committed == [before EXCEPT !.shot = NoTx, !.next = NoTx, !.due = TRUE]
  <2>1. /\ ui' = Effects(committed)
        /\ overtaken' = OvertakenAfter(ui, overtaken)
        /\ ahead' = AheadAfter(ui, ahead)
        /\ owed' = OwedAfter(ui, ahead, overtaken, owed)
    BY <1>7 DEF Send
  <2>2. committed \in UI /\ committed.due
    BY EffectsType DEF Inv, TypeOK, UI
  <2>3. before.seen = before.status /\ before \in UI
    BY EffectsInv
  <2>4. /\ committed.queued = before.queued
        /\ committed.seen = before.seen
        /\ committed.status = before.status
        /\ committed.shot = NoTx
    BY <2>3 DEF UI
  <2>5. Fits(before, AheadAfter(ui, ahead), OvertakenAfter(ui, overtaken),
             OwedAfter(ui, ahead, overtaken, owed))
    BY EffectsInv
  <2> HIDE DEF committed, before
  <2>6. Child(committed) = before.queued
    BY <2>4 DEF Child, Adjusts, Closes, Claims, NoTx
  <2>7. Queued(committed) = before.queued
    BY <2>3, <2>4, <2>6 DEF Queued
  <2>8. Effects(committed).queued = before.queued /\ Effects(committed).seen = before.seen
    BY <2>2, <2>3, <2>4, <2>7, EffectsFields
  <2>9. InStep(ui)'
    BY <2>1, <2>2, EffectsFields DEF InStep
  <2> QED
    BY <2>1, <2>5, <2>8, <2>9 DEF Fits
<1>8. ASSUME NEW id \in Tx, Confirmed(id)
      PROVE  (InStep(ui) /\ Fits(ui, ahead, overtaken, owed))'
  BY <1>8 DEF Confirmed, Inv, TypeOK, UI, InStep, Fits
<1>9. ASSUME NEW id \in Tx, Lost(id)
      PROVE  (InStep(ui) /\ Fits(ui, ahead, overtaken, owed))'
  BY <1>9 DEF Lost, Inv, InStep, Fits
<1>10. CASE UNCHANGED vars
  BY <1>10 DEF vars, Inv, InStep, Fits
<1> QED
  BY <1>1, <1>2, <1>3, <1>4, <1>5, <1>6, <1>7, <1>8, <1>9, <1>10 DEF Next

\* The invariant holds at first.
LEMMA InvInit == Init => Inv
<1> SUFFICES ASSUME Init PROVE Inv
  OBVIOUS
<1>1. PICK page \in BOOLEAN : ui = Mounted(stored, NoTx, page)
  BY DEF Init
<1>2. InStep(ui) /\ Fits(ui, FALSE, FALSE, "NONE")
  BY <1>1, MountedFits DEF Init
<1> QED
  BY <1>2, TypeInit DEF Init, Inv

LEMMA Invariance == Spec => []Inv
BY InvInit, InvStep, PTL DEF Spec

\* Once everything queued is shown, the view fits the status of the Trove, in
\* whatever order clicks, confirmations and the store reached dispatchEvent(),
\* but for the two exceptions the histories record.
THEOREM ViewFits == Spec => []ViewFitsTrove
<1>1. Inv => ViewFitsTrove
  BY DEF Inv, InStep, Fits, Agrees, ViewFitsTrove, Settled
<1> QED
  BY <1>1, Invariance, PTL

\* A user who watched the Trove while it was open is told why it was closed
\* until he acts or the status changes.
THEOREM ClosureTold == Spec => []ClosureIsTold
<1>1. Inv => ClosureIsTold
  BY DEF Inv, Fits, ClosureIsTold, Settled
<1> QED
  BY <1>1, Invariance, PTL

==============================================================================
